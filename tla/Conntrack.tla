----------------------------- MODULE Conntrack -----------------------------
(***************************************************************************)
(* The conntrack session a pod holds (src/crates/net_conntrack/src/         *)
(* session.rs) over libnetfilter_conntrack (api.c, callback.c, conn-main.c) *)
(* and libnfnetlink (libnfnetlink.c).  After a policy change the daemon     *)
(* walks the kernel's connection table and sets every entry's mark back, so *)
(* that the next packet of the connection is judged again.                  *)
(*                                                                         *)
(* The walk is a dump on one netlink socket; each entry found is copied     *)
(* into one reused object, update, and written back over a second socket   *)
(* from inside the dump's callback.  Between two messages of the dump the   *)
(* kernel goes on: connections appear and expire.  The kernel's side is     *)
(* external.                                                               *)
(***************************************************************************)
EXTENDS NfctNlmsg

CONSTANTS Flows,        \* the connections: key -> original tuple
          Order,        \* their order in the kernel's table, a sequence of keys
          DaemonMark,   \* the mark a verdict leaves on a connection
          Tuple5,       \* the SharedFiveTuple of the request
          Mark,         \* and its mark
          MaxBatch,     \* bound: entries in one datagram of a dump
          MaxQueries,   \* bound: calls of set_accept_mark
          MaxChurn,     \* bound: connections that appear, expire or get a mark
          MaxFaults     \* bound: sends, receives and requests that fail

VARIABLES table,        \* kernel: key -> mark, for the entries that exist
          dump,         \* kernel: keys the dump has still to visit, if dumping
          dumping,      \* kernel: a dump runs on the query socket
          rx,           \* datagrams waiting on the query socket
          session,      \* "none" or "open"
          held,         \* what the process has allocated for the session
          registered,   \* the callback is set on the query handle
          filter, update,   \* the two objects
          pc,           \* where set_accept_mark is
          inbox,        \* messages of the datagram being processed
          unread,       \* errors of the answers waiting on the update socket
          result,       \* what set_accept_mark answered
          failed,       \* some call of this session answered an error
          request,      \* history: the last update, whom for and whom it named
          lost,         \* history: the entries whose update this call lost
          queries, churn, faults

kernel == <<table, dump, dumping>>
objects == <<filter, update>>
vars == <<table, dump, dumping, rx, session, held, registered, filter, update, pc,
          inbox, unread, result, failed, request, lost, queries, churn, faults>>
updates == <<unread, request, lost, faults>>

-----------------------------------------------------------------------------
(* The kernel's side: messages it sends and how it reads a request.         *)

\* A flow is [proto, src, dst, l4src, type, code]; type and code are the two
\* bytes of a destination port, or the ICMP fields.
ReplyOf(f) ==
  IF f.proto = IPPROTO_ICMP
  THEN [f EXCEPT !.src = f.dst, !.dst = f.src, !.type = invmap_icmp[f.type] - 1]
  ELSE [proto |-> f.proto, src |-> f.dst, dst |-> f.src, l4src |-> f.type + 256 * f.code,
        type |-> f.l4src % 256, code |-> f.l4src \div 256]

KernelTuple(m, f, type) ==
  LET x == Start(m, type)
      ip == End(x, mnl_attr_put_u32(mnl_attr_put_u32(Start(x, "TUPLE_IP"), "IP_V4_SRC", f.src),
                                    "IP_V4_DST", f.dst))
      n == mnl_attr_put_u8(Start(ip, "TUPLE_PROTO"), "PROTO_NUM", f.proto)
      ports == mnl_attr_put_u16(mnl_attr_put_u16(n, "PROTO_SRC_PORT", f.l4src),
                                "PROTO_DST_PORT", f.type + 256 * f.code)
      fields == mnl_attr_put_u8(mnl_attr_put_u8(mnl_attr_put_u16(n, "PROTO_ICMP_ID", f.l4src),
                                                "PROTO_ICMP_TYPE", f.type), "PROTO_ICMP_CODE", f.code)
      l4 == CASE f.proto = IPPROTO_ICMP -> fields
              [] f.proto \in PortProtocols -> ports
              [] OTHER -> n
  IN End(m, End(ip, l4))

\* An entry of a dump.  A mark of zero may be left out.
KernelEntry(k, mark, withMark) ==
  LET head == mnl_nlmsg_put_extra_header(mnl_nlmsg_put_header("CT_NEW", {"MULTI"}), AF_INET)
      tuples == KernelTuple(KernelTuple(head, Flows[k], "TUPLE_ORIG"), ReplyOf(Flows[k]), "TUPLE_REPLY")
      status == mnl_attr_put_u32(tuples, "STATUS", StatusToNet({"CONFIRMED"}))
  IN IF withMark THEN mnl_attr_put_u32(status, "MARK", htonl(mark)) ELSE status

\* The number after the header is the error; none in an acknowledgement.
Coded(m, n, e) == [m EXCEPT !.len = n,
                            !.at = MNL_NLMSG_HDRLEN :> [type |-> "errno", len |-> 4, data |-> <<e>>]]
Error(e) == Coded(mnl_nlmsg_put_header("ERROR", {}), 36, e)
DoneMessage == Coded(mnl_nlmsg_put_header("DONE", {"MULTI"}), 20, 0)

\* The tuple a request carries, as the kernel reads it.
ReadFields(m, ip, l4) ==
  LET Val(tab, t) == IF tab[t] = 0 THEN 0 ELSE mnl_attr_get(m, tab[t])[1]
      icmp == Val(l4, "PROTO_NUM") = IPPROTO_ICMP
  IN [proto |-> Val(l4, "PROTO_NUM"), src |-> Val(ip, "IP_V4_SRC"), dst |-> Val(ip, "IP_V4_DST"),
      l4src |-> IF icmp THEN Val(l4, "PROTO_ICMP_ID") ELSE Val(l4, "PROTO_SRC_PORT"),
      type |-> IF icmp THEN Val(l4, "PROTO_ICMP_TYPE") ELSE Val(l4, "PROTO_DST_PORT") % 256,
      code |-> IF icmp THEN Val(l4, "PROTO_ICMP_CODE") ELSE Val(l4, "PROTO_DST_PORT") \div 256]
ReadTuple(m, nest) == ReadFields(m, mnl_attr_parse_nested(m, nest["TUPLE_IP"], IpPolicy),
                                    mnl_attr_parse_nested(m, nest["TUPLE_PROTO"], ProtoPolicy))
ReadAttributes(m) == mnl_attr_parse_payload(m, FirstAttribute, m.len, ConntrackPolicy)
KernelReads(m, type) == ReadTuple(m, mnl_attr_parse_nested(m, ReadAttributes(m)[type], TuplePolicy))

\* The entries a request names, in either direction; none without a tuple.
Named(m) ==
  IF ReadAttributes(m)["TUPLE_ORIG"] = 0 THEN {}
  ELSE {k \in DOMAIN table : KernelReads(m, "TUPLE_ORIG") \in {Flows[k], ReplyOf(Flows[k])}}

\* ctnetlink's answer to a change of the named entries: ENOENT without one; else
\* the mark is set if the request has one, and the answer is an acknowledgement.
Changed(m, named) ==
  LET mark == ReadAttributes(m)["MARK"]
  IN IF mark = 0 THEN table
     ELSE [k \in DOMAIN table |->
             IF k \in named THEN htonl(mnl_attr_get(m, mark)[1]) ELSE table[k]]

ENOENT == 2
EBUSY == 16
Answer(named) == Error(IF named = {} THEN ENOENT ELSE 0)

-----------------------------------------------------------------------------
(* Handles.  What a session holds, and the order it is allocated in: the    *)
(* two objects, and for each handle the nfnl handle, its socket, the nfct   *)
(* handle and the table of callbacks; then the callback's data and its      *)
(* container.  fail is the one allocation that fails, or "none".           *)

Part(h) == {h} \X {"nfnl", "socket", "nfct", "subsys"}

\* A bind that fails closes the socket again; no socket frees the handle.
nfnl_open(h, now, fail) ==
  LET Cut(p) == fail = <<h, p>>
  IN IF Cut("nfnl") \/ Cut("socket") \/ Cut("bind") THEN [ok |-> FALSE, held |-> now]
     ELSE [ok |-> TRUE, held |-> now \cup {<<h, "nfnl">>, <<h, "socket">>}]

nfnl_subsys_open(h, now, fail) ==
  IF fail = <<h, "subsys">> THEN [ok |-> FALSE, held |-> now]
  ELSE [ok |-> TRUE, held |-> now \cup {<<h, "subsys">>}]

nfnl_close(h, now) == now \ {<<h, "nfnl">>, <<h, "socket">>, <<h, "subsys">>}

nfct_open_keeps(h, now, fail) ==
  LET nfnl == nfnl_open(h, now, fail)
      sub == nfnl_subsys_open(h, nfnl.held \cup {<<h, "nfct">>}, fail)
  IN IF ~nfnl.ok THEN nfnl
     ELSE IF fail = <<h, "nfct">> THEN [ok |-> FALSE, held |-> nfnl.held]
     ELSE IF ~sub.ok THEN [ok |-> FALSE, held |-> sub.held \ {<<h, "nfct">>}]
     ELSE sub

nfct_open(h, now, fail) ==
  LET nfnl == nfnl_open(h, now, fail)
      sub == nfnl_subsys_open(h, nfnl.held \cup {<<h, "nfct">>}, fail)
  IN IF ~nfnl.ok THEN nfnl
     ELSE IF fail = <<h, "nfct">> THEN [ok |-> FALSE, held |-> nfnl_close(h, nfnl.held)]
     ELSE IF ~sub.ok THEN [ok |-> FALSE, held |-> nfnl_close(h, sub.held) \ {<<h, "nfct">>}]
     ELSE sub

\* The container of a registered callback goes with its handle.
nfct_close(h, now) == nfnl_close(h, now \ {<<h, "container">>}) \ {<<h, "nfct">>}

open_conntrack_session(fail) ==
  LET Obj(o, now) == now \cup {<<o, "object">>}
      Fail(now) == [ok |-> FALSE, held |-> now]
      query == nfct_open("query", Obj("filter", {}), fail)
      upd == nfct_open("update", Obj("update", query.held), fail)
  IN CASE fail = <<"filter", "object">> -> Fail({})
       [] ~query.ok -> Fail(query.held \ {<<"filter", "object">>})
       [] query.ok /\ fail = <<"update", "object">> ->
            Fail(nfct_close("query", query.held \ {<<"filter", "object">>}))
       [] query.ok /\ ~upd.ok ->
            Fail(nfct_close("query", upd.held \ {<<"filter", "object">>}) \ {<<"update", "object">>})
       [] OTHER -> [ok |-> TRUE,
                    held |-> upd.held \cup {<<"session", "cb_data">>}
                             \cup (IF fail = <<"query", "container">> THEN {}
                                   ELSE {<<"query", "container">>})]

Failures == {<<"filter", "object">>, <<"update", "object">>, <<"query", "container">>}
            \cup UNION {Part(h) \cup {<<h, "bind">>} : h \in {"query", "update"}}
            \cup {<<"none", "none">>}

\* Drop: the objects, the handles, then the callback's data.
drop(now) ==
  nfct_close("update", nfct_close("query",
    now \ {<<"filter", "object">>, <<"update", "object">>})) \ {<<"session", "cb_data">>}

-----------------------------------------------------------------------------
(* Requests.                                                               *)

MARK == <<"CT", "MARK">>

\* The result of build_conntrack is not looked at: what was built is sent.
build_conntrack(ct, type, flags) ==
  LET head == mnl_nlmsg_put_extra_header(mnl_nlmsg_put_header(type, flags),
                                         Load(ct, <<"ORIG", "l3protonum">>))
  IN nfct_nlmsg_build(head, ct).m

QueryType(qt) == CASE qt = "DESTROY" -> "CT_DELETE" [] qt = "GET" -> "CT_GET" [] OTHER -> "CT_NEW"
QueryFlags(qt) == {"REQUEST", "ACK"} \cup (CASE qt = "CREATE" -> {"CREATE", "EXCL"}
                                             [] qt = "CREATE_UPDATE" -> {"CREATE"}
                                             [] OTHER -> {})
build_query_ct(qt, ct) == build_conntrack(ct, QueryType(qt), QueryFlags(qt))

\* set_accept_mark sets what the tuple has; nothing is ever unset.
set_filter(ct, t, mark) ==
  LET Set(c, cond, a, v) == IF cond THEN nfct_set_attr(c, <<"ORIG", a>>, v) ELSE c
      base == nfct_set_attr(nfct_set_attr(ct, MARK, <<mark>>), <<"ORIG", "L3PROTO">>, <<AF_INET>>)
      proto == Set(base, t.proto > 0, "L4PROTO", <<t.proto>>)
      addrs == Set(Set(proto, t.src # 0, "IPV4_SRC", <<t.src>>), t.dst # 0, "IPV4_DST", <<t.dst>>)
  IN Set(Set(addrs, t.sport > 0, "PORT_SRC", <<t.sport>>), t.dport > 0, "PORT_DST", Conv("port", <<t.dport>>))

update_net_session_early(ct) ==
  LET mark == nfct_get_attr(filter, MARK)[1]
      new == nfct_set_attr(nfct_copy(update, ct, {"ORIG"}), MARK, <<mark>>)
  IN IF ~nfct_cmp(filter, ct, {"ORIG"}) \/ mark > 100 THEN [update |-> update, send |-> FALSE]
     ELSE [update |-> new, send |-> ~nfct_cmp(update, ct, {"MASK"})]

\* The callback: the update object after it, and whether an update is sent.
update_net_session(ct) ==
  LET mark == nfct_get_attr(filter, MARK)[1]
      new == nfct_set_attr(nfct_copy(update, ct, {"ORIG"}), MARK, <<mark>>)
  IN IF ~nfct_cmp(filter, ct, {"ORIG"}) \/ mark > 100 THEN [update |-> update, send |-> FALSE]
     ELSE [update |-> new, send |-> ~nfct_cmp(new, ct, {"MASK"})]

\* nfnl_step: an ACK or DONE ends the query, an error fails it, an entry goes
\* to the callback.
nfnl_is_error_only(m) == m.type = "ERROR"
nfnl_is_error(m) == m.type = "ERROR" \/ (m.type = "DONE" /\ "MULTI" \in m.flags)
errno(m) == mnl_attr_get(m, MNL_NLMSG_HDRLEN)[1]
parse_message(m) == CASE m.type = "CT_NEW" -> (IF m.flags \cap {"CREATE", "EXCL"} # {} THEN "NEW" ELSE "UPDATE")
                        [] m.type = "CT_DELETE" -> "DESTROY"
                        [] OTHER -> "UNKNOWN"

-----------------------------------------------------------------------------
(* The session.                                                            *)

NoRequest == [for |-> "none", named |-> {}, acked |-> FALSE]

Init ==
  /\ table \in UNION {[K -> {0, DaemonMark}] : K \in SUBSET DOMAIN Flows}
  /\ dump = <<>> /\ dumping = FALSE /\ rx = <<>>
  /\ session = "none" /\ held = {} /\ registered = FALSE
  /\ filter = nfct_new /\ update = nfct_new
  /\ pc = "idle" /\ inbox = <<>> /\ result = "none" /\ failed = FALSE
  /\ unread = <<>> /\ request = NoRequest /\ lost = {}
  /\ queries = 0 /\ churn = 0 /\ faults = 0

Open(fail) ==
  LET o == open_conntrack_session(fail)
  IN /\ session = "none"
     /\ held' = o.held
     /\ session' = IF o.ok THEN "open" ELSE "none"
     /\ registered' = (<<"query", "container">> \in o.held)
     /\ filter' = nfct_new /\ update' = nfct_new
     /\ failed' = FALSE
     /\ UNCHANGED <<kernel, rx, pc, inbox, result, updates, queries, churn>>

\* nfnl_process: the rest of a datagram is dropped when a step does not continue.
Return(r) ==
  /\ pc' = "returned" /\ result' = r /\ inbox' = <<>>
  /\ failed' = (failed \/ r = "error")

Fault == faults < MaxFaults /\ faults' = faults + 1

\* set_accept_mark, up to the dump request: answered by a dump, or by EBUSY
\* while an earlier dump is still running on the socket.
Calls ==
  /\ session = "open" /\ pc = "idle" /\ queries < MaxQueries
  /\ filter' = set_filter(filter, Tuple5, Mark)
  /\ lost' = {} /\ queries' = queries + 1
  /\ UNCHANGED <<table, session, held, registered, update, unread, request, churn>>

SetAcceptMark ==
  /\ Calls
  /\ IF dumping THEN /\ rx' = Append(rx, <<Error(EBUSY)>>)
                     /\ UNCHANGED <<dump, dumping>>
     ELSE /\ dump' = Order /\ dumping' = TRUE
          /\ UNCHANGED rx
  /\ pc' = "catch"
  /\ UNCHANGED <<inbox, result, failed, faults>>

\* The dump request cannot be sent.
DumpUnsent ==
  /\ Calls /\ Fault
  /\ Return("error")
  /\ UNCHANGED <<dump, dumping, rx>>

\* The kernel fills the next datagram, with the marks of that moment.
DumpMore(n, zeroSent) ==
  /\ dumping /\ n \in 1..MaxBatch /\ n <= Len(dump)
  /\ LET there == SelectSeq(SubSeq(dump, 1, n), LAMBDA k : k \in DOMAIN table)
         msgs == [i \in DOMAIN there |->
                    KernelEntry(there[i], table[there[i]], zeroSent \/ table[there[i]] # 0)]
     IN rx' = IF msgs = <<>> THEN rx ELSE Append(rx, msgs)
  /\ dump' = SubSeq(dump, n + 1, Len(dump))
  /\ UNCHANGED <<table, dumping, session, held, registered, objects, pc, inbox, result,
                 failed, updates, queries, churn>>

DumpDone ==
  /\ dumping /\ dump = <<>>
  /\ rx' = Append(rx, <<DoneMessage>>)
  /\ dumping' = FALSE
  /\ UNCHANGED <<table, dump, session, held, registered, objects, pc, inbox, result,
                 failed, updates, queries, churn>>

\* nfnl_catch reads a datagram.  The sequence number of every message is 0, so
\* none is out of sequence.
Receive ==
  /\ pc = "catch" /\ rx # <<>>
  /\ inbox' = Head(rx) /\ rx' = Tail(rx)
  /\ pc' = "process"
  /\ UNCHANGED <<kernel, session, held, registered, objects, result, failed, updates, queries, churn>>

\* A signal ends the recv: nfnl_catch calls it again.
Interrupted == pc = "catch" /\ UNCHANGED vars

\* The recv fails, for instance with ENOBUFS: the query does, and the dump goes on.
ReceiveFails ==
  /\ pc = "catch" /\ Fault
  /\ Return("error")
  /\ UNCHANGED <<kernel, rx, session, held, registered, objects, unread, request, lost, queries, churn>>

Drained ==
  /\ pc = "process" /\ inbox = <<>>
  /\ pc' = "catch"
  /\ UNCHANGED <<kernel, rx, session, held, registered, objects, inbox, result, failed,
                 updates, queries, churn>>

Final ==
  /\ pc = "process" /\ inbox # <<>> /\ nfnl_is_error(Head(inbox))
  /\ Return(IF errno(Head(inbox)) = 0 THEN "ok" ELSE "error")
  /\ UNCHANGED <<kernel, rx, session, held, registered, objects, updates, queries, churn>>

\* No memory for the callback's object: NFNL_CB_FAILURE ends the query.
EntryLost ==
  /\ pc = "process" /\ inbox # <<>> /\ ~nfnl_is_error(Head(inbox))
  /\ registered
  /\ Return("error")
  /\ UNCHANGED <<kernel, rx, session, held, registered, objects, updates, queries, churn>>

\* The update is a query of its own on the update handle: it is sent, the kernel
\* carries it out or refuses it, and the oldest answer on the socket is read.  The
\* send or the receive may fail, and then the answer stays for the next query.  A
\* query that fails is logged and nothing else.
Fates == {"answered", "refused", "unread", "unsent"}

Answers(fate, named) ==
  CASE fate = "unsent" -> unread
    [] fate = "refused" -> Append(unread, EBUSY)
    [] OTHER -> Append(unread, errno(Answer(named)))

WriteBack(req) ==
  LET shown == KernelReads(Head(inbox), "TUPLE_ORIG")
      entry == CHOOSE k \in DOMAIN Flows : Flows[k] = shown
  IN \E r \in {req} : \E named \in {Named(r)}, fate \in Fates :
       LET done == fate \in {"answered", "unread"}
           read == fate \in {"answered", "refused"}
           answers == Answers(fate, named)
       IN /\ IF fate = "answered" THEN UNCHANGED faults ELSE Fault
          /\ table' = IF done THEN Changed(r, named) ELSE table
          /\ unread' = IF read THEN Tail(answers) ELSE answers
          /\ lost' = IF done THEN lost ELSE lost \cup {entry}
          /\ request' = [for |-> entry, named |-> named, acked |-> read /\ Head(answers) = 0]

\* An entry: parsed, matched, copied and, where its mark differs, written back
\* through the update handle before the next message is looked at.
Entry ==
  /\ pc = "process" /\ inbox # <<>> /\ ~nfnl_is_error(Head(inbox))
  /\ inbox' = Tail(inbox)
  /\ IF registered /\ parse_message(Head(inbox)) # "UNKNOWN"
     THEN \E ct \in {nfct_nlmsg_parse(Head(inbox), nfct_new)} :
            \E u \in {update_net_session(ct)} :
              /\ update' = u.update
              /\ IF u.send THEN WriteBack(build_query_ct("UPDATE", u.update)) ELSE UNCHANGED <<table, updates>>
     ELSE UNCHANGED <<update, table, updates>>
  /\ UNCHANGED <<dump, dumping, rx, session, held, registered, filter, pc, result, failed, queries, churn>>

\* UpdateMark goes on with its loop whatever the answer was.
Returned ==
  /\ pc = "returned"
  /\ pc' = "idle"
  /\ UNCHANGED <<kernel, rx, session, held, registered, objects, inbox, result, failed,
                 updates, queries, churn>>

Close ==
  /\ session = "open" /\ pc = "idle"
  /\ session' = "none"
  /\ held' = drop(held)
  /\ rx' = <<>> /\ dump' = <<>> /\ dumping' = FALSE
  /\ registered' = FALSE
  /\ unread' = <<>>
  /\ UNCHANGED <<table, objects, pc, inbox, result, failed, request, lost, queries, churn, faults>>

\* The rest of the system: a connection appears, expires, or gets the mark of a
\* verdict.  Verdicts come from the thread that runs the session.
Churn == session = "open" /\ churn < MaxChurn /\ churn' = churn + 1

NewFlow(k) ==
  /\ Churn /\ k \notin DOMAIN table
  /\ table' = (k :> 0) @@ table
  /\ UNCHANGED <<dump, dumping, rx, session, held, registered, objects, pc, inbox, result,
                 failed, updates, queries>>

Expire(k) ==
  /\ Churn /\ k \in DOMAIN table
  /\ table' = [x \in DOMAIN table \ {k} |-> table[x]]
  /\ UNCHANGED <<dump, dumping, rx, session, held, registered, objects, pc, inbox, result,
                 failed, updates, queries>>

Verdict(k) ==
  /\ Churn /\ pc = "idle" /\ k \in DOMAIN table
  /\ table' = [table EXCEPT ![k] = DaemonMark]
  /\ UNCHANGED <<dump, dumping, rx, session, held, registered, objects, pc, inbox, result,
                 failed, updates, queries>>

Kernel == DumpDone \/ \E n \in 1..MaxBatch, z \in BOOLEAN : DumpMore(n, z)
Library == Receive \/ Interrupted \/ ReceiveFails \/ Drained \/ Final \/ EntryLost \/ Entry \/ Returned
World == \E k \in DOMAIN Flows : NewFlow(k) \/ Expire(k) \/ Verdict(k)

Next == \/ \E fail \in Failures : Open(fail)
        \/ SetAcceptMark \/ DumpUnsent \/ Close
        \/ Kernel \/ Library \/ World

\* The kernel answers a request it has accepted, and the daemon's thread, inside
\* nfct_query, does nothing else until it returns: weak fairness of Kernel and
\* of Library, written out with the condition that enables each and with what
\* only its steps change.
KernelSteps == session' = "open" /\ dumping /\ <<dump, dumping>>' # <<dump, dumping>>
LibraryReady == pc \in {"process", "returned"} \/ (pc = "catch" /\ rx # <<>>)
LibrarySteps == pc # "idle" /\ <<pc, inbox>>' # <<pc, inbox>>

Fairness == /\ []<>~dumping \/ []<><<KernelSteps>>_vars
            /\ []<>~LibraryReady \/ []<><<LibrarySteps>>_vars

Spec == Init /\ [][Next]_vars /\ Fairness

-----------------------------------------------------------------------------
(* Properties.                                                             *)

\* When set_accept_mark succeeds, every TCP, UDP or similar connection there is
\* has the requested mark, whatever appeared or expired meanwhile and whatever
\* was copied into the one update object before.  This needs a registered
\* callback, a session without an earlier failed call (its late replies would be
\* read by this one), and no ICMP entry seen in the session (its attributes
\* stay in update and spoil the requests after it).  The entries whose own update
\* could not be sent or was refused keep their mark: update_net_session logs that
\* and the call succeeds all the same.
MarksReset ==
  (pc = "returned" /\ result = "ok" /\ registered /\ ~failed /\ Icmp \cap update.set = {})
    => \A k \in DOMAIN table \ lost : Flows[k].proto \in PortProtocols => table[k] = Mark

\* An update names the entry the dump has just shown, or no entry at all: what
\* the reused object keeps of earlier entries never makes a request reach
\* another connection.
UpdateNamesEntry == request.named \subseteq {request.for}

\* Without a session nothing is held: a failed open_conntrack_session gives back
\* what it had allocated, and Drop gives back everything.
NothingLeft == session = "none" => held = {}

\* A query returns, even one that reads what an aborted dump left behind.
QueryReturns == pc = "catch" ~> pc = "returned"

\* nfct_query answers 0 for the update of a TCP, UDP or similar connection only
\* when the kernel made the change (api.c: "On error, -1 is returned and errno is
\* explicitely set. On success, 0 is returned.").
AcknowledgedIsDone ==
  [][(request' # request /\ request'.acked /\ Flows[request'.for].proto \in PortProtocols)
       => table'[request'.for] = Mark]_vars
=============================================================================
