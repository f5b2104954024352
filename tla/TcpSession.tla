----------------------------- MODULE TcpSession -----------------------------
(***************************************************************************)
(* Connections of one client to the pod, seen through the daemon.  Client  *)
(* and server keep to TCP: sequence numbers count sent bytes, a receiver   *)
(* keeps the first copy of a byte, lost segments are sent again.  The      *)
(* client sends a stream of request pieces, each one byte of sequence      *)
(* space long; a segment carries one of them, or the head and the tail of  *)
(* one request together, and a retransmission may be cut differently.      *)
(* Connections follow each other on the same 4-tuple, each with a          *)
(* conntrack entry of its own.                                             *)
(*                                                                         *)
(* behaviours names what the endpoints may do beyond the plain exchange:   *)
(*   loss       segments get lost on the way to the daemon                 *)
(*   keepalive  the client probes an idle connection                       *)
(*   repack     a retransmission also carries bytes not sent before        *)
(*   reset      the server aborts a connection                             *)
(*   time       time passes and the reaper runs                            *)
(*   repolicy   a policy is installed while no packet is queued            *)
(* A FIN or a SYN never carries data here, and no segment two requests.    *)
(***************************************************************************)
EXTENDS NfqCallbacks, Sequences

CONSTANTS
  Client,         \* the client's endpoint
  Profiles,       \* sets of behaviours; one is chosen at the start
  Streams,        \* sequences of payloads that a client may send
  ISNs,           \* initial sequence numbers of the client
  Window,         \* unacknowledged pieces in flight
  Responses,      \* segments with data that the server may send
  Connections,    \* connections in one behaviour
  Installed       \* the policies that may be in force at the start

VARIABLES
  client,   \* [st, iss, stream, una, nxt]
  server,   \* [st, rcv, held, clean, snd]
  wire,     \* the queued packet of each direction
  seen,     \* stream positions whose piece the daemon has handled
  quiet,    \* ticks since the client was last heard
  opened,   \* connections so far
  behaviours   \* the chosen profile

endpoints == <<client, server, wire, seen, quiet, opened, behaviours>>
sessionVars == <<vars, endpoints>>

ASSUME ProfilesAssumption ==
  \A b \in Profiles : b \subseteq {"loss", "keepalive", "repack", "reset", "time", "repolicy"}

c2s == <<Client, Pod>>
s2c == <<Pod, Client>>
NoPayload == CHOOSE d \in Payloads : TRUE

\* The payload of a segment: a piece, or a head with its tail.
Joined(data) == IF Len(data) = 1 THEN data[1] ELSE [part |-> "whole", hdr |-> data[1].hdr]
Joinable(data) ==
  \/ Len(data) = 1
  \/ Len(data) = 2 /\ data[1].part = "head" /\ data[2].part = "tail" /\ data[1].hdr = data[2].hdr

\* The streams fit the sequence space, so that a number names one position.
ASSUME SessionAssumption ==
  /\ Client # Pod
  /\ c2s \in ConnectionId \ DatagramIds
  /\ ISNs \subseteq Seq32 /\ Responses \in Seq32
  /\ MaxPayload >= 1 /\ Payloads # {}
  /\ \A stream \in Streams : stream \in Seq(Payloads) /\ Len(stream) < SeqSpace
  /\ \A d \in Payloads : [part |-> "whole", hdr |-> d.hdr] \in Payloads
  /\ \A d \in Installed :
       /\ d.rule_key \in RuleKeys
       /\ \A r \in d.rules : r \in Rule /\ r.rule_key = d.rule_key
       /\ d.http \in [Dirs -> HttpRules \cup {NoHttp}]

Segment(id, flags, seq, data) ==
  [id |-> id, syn |-> "syn" \in flags, fin |-> "fin" \in flags, rst |-> "rst" \in flags,
   seq |-> seq, len |-> Len(data), payload |-> IF data = <<>> THEN NoPayload ELSE Joined(data)]

NoSegment(id) == Segment(id, {}, 0, <<>>)

\* Sequence number of the client's stream position n; the SYN takes one.
ClientSeq(n) == WrappingAdd(client.iss, 1 + n)

\* Put a segment in the queue, with the mark of its conntrack entry.
Send(seg) ==
  /\ Enqueue(seg.id)
  /\ wire' = [wire EXCEPT ![seg.id] = seg]
  /\ UNCHANGED <<tables, policy, connmark>>

Idle(id) == skbmark[id] = NoPacket

-----------------------------------------------------------------------------
(***************************************************************************)
(* The client.                                                             *)
(***************************************************************************)
\* A new connection: conntrack replaces the closed entry of the 4-tuple.
ClientOpen(iss, stream) ==
  /\ client.st = "closed" /\ Idle(c2s) /\ Idle(s2c)
  /\ opened < Connections
  /\ client' = [st |-> "synsent", iss |-> iss, stream |-> stream, una |-> 0, nxt |-> 0]
  /\ server' = [st |-> "listen", rcv |-> 0, held |-> {}, clean |-> {}, snd |-> 0]
  /\ connmark' = [connmark EXCEPT ![Flow(c2s)] = 0]
  /\ skbmark' = [skbmark EXCEPT ![c2s] = 0]
  /\ wire' = [wire EXCEPT ![c2s] = Segment(c2s, {"syn"}, iss, <<>>)]
  /\ seen' = {}
  /\ opened' = opened + 1
  /\ UNCHANGED <<tables, policy, quiet, behaviours>>

ClientResendSyn ==
  /\ client.st = "synsent"
  /\ Send(Segment(c2s, {"syn"}, client.iss, <<>>))
  /\ UNCHANGED <<client, server, seen, quiet, opened, behaviours>>

\* k pieces, the next ones or again from the first unacknowledged one on; the
\* segment may get lost.
ClientData ==
  \E n \in {client.una, client.nxt}, k \in 1 .. MaxPayload :
    LET data == SubSeq(client.stream, n + 1, n + k)
        fresh == n + k > client.nxt
    IN  /\ client.st = "open"
        /\ n + k <= Len(client.stream) /\ n + k <= client.una + Window
        /\ Joinable(data)
        /\ fresh => n = client.nxt \/ "repack" \in behaviours
        /\ client' = [client EXCEPT !.nxt = IF fresh THEN n + k ELSE @]
        /\ \/ Send(Segment(c2s, {}, ClientSeq(n), data))
           \/ "loss" \in behaviours /\ Idle(c2s) /\ UNCHANGED <<vars, wire>>
        /\ UNCHANGED <<server, seen, quiet, opened, behaviours>>

ClientAck ==
  /\ client.st = "open"
  /\ Send(Segment(c2s, {}, ClientSeq(client.nxt), <<>>))
  /\ UNCHANGED <<client, server, seen, quiet, opened, behaviours>>

\* A keepalive probe repeats the last acknowledged sequence number.
ClientKeepalive ==
  /\ "keepalive" \in behaviours
  /\ client.st = "open" /\ client.una = client.nxt
  /\ Send(Segment(c2s, {}, WrappingAdd(client.iss, client.nxt), <<>>))
  /\ UNCHANGED <<client, server, seen, quiet, opened, behaviours>>

ClientFin ==
  /\ client.st \in {"open", "finsent"} /\ client.una = client.nxt
  /\ Send(Segment(c2s, {"fin"}, ClientSeq(client.nxt), <<>>))
  /\ client' = [client EXCEPT !.st = "finsent"]
  /\ UNCHANGED <<server, seen, quiet, opened, behaviours>>

ClientReceive(seg) ==
  CASE seg.rst -> [client EXCEPT !.st = "closed"]
    [] seg.syn -> [client EXCEPT !.st = IF @ = "synsent" THEN "open" ELSE @]
    [] seg.fin -> [client EXCEPT !.st = "closed", !.una = server.rcv]
    [] OTHER   -> [client EXCEPT !.una = server.rcv]

-----------------------------------------------------------------------------
(***************************************************************************)
(* The server.                                                             *)
(***************************************************************************)
ServerSend(st, flags, data) ==
  /\ server.st = st
  /\ Send(Segment(s2c, flags, server.snd, data))
  /\ UNCHANGED <<client, seen, quiet, opened, behaviours>>

ServerSynAck ==
  /\ ServerSend("synrcvd", {"syn"}, <<>>)
  /\ UNCHANGED server

ServerAck ==
  /\ ServerSend("open", {}, <<>>)
  /\ UNCHANGED server

ServerRespond ==
  /\ server.snd < Responses
  /\ ServerSend("open", {}, <<NoPayload>>)
  /\ server' = [server EXCEPT !.snd = @ + 1]

ServerFin ==
  /\ ServerSend("closing", {"fin"}, <<>>)
  /\ UNCHANGED server

ServerReset ==
  /\ "reset" \in behaviours
  /\ ServerSend("open", {"rst"}, <<>>)
  /\ server' = [server EXCEPT !.st = "listen"]

\* Stream positions of a data segment of the client.
Position(seg) == CHOOSE n \in 0 .. Len(client.stream) : ClientSeq(n) = seg.seq
Positions(seg) == {Position(seg) + i : i \in 0 .. seg.len - 1}

\* The bytes 0 .. InOrder(held) - 1 have been received.
InOrder(held) == CHOOSE n \in 0 .. Len(client.stream) : n \notin held /\ 0 .. n - 1 \subseteq held

ServerReceive(seg, intact) ==
  LET new == Positions(seg) \ server.held
      held == server.held \cup new
  IN  CASE seg.syn -> [server EXCEPT !.st = IF @ = "listen" THEN "synrcvd" ELSE @]
        [] seg.fin -> [server EXCEPT !.st = IF @ = "listen" THEN @ ELSE "closing"]
        [] OTHER   -> IF server.st \notin {"synrcvd", "open"} THEN server
                      ELSE [server EXCEPT !.st = "open", !.held = held, !.rcv = InOrder(held),
                              !.clean = IF intact THEN @ \cup new ELSE @]

-----------------------------------------------------------------------------
Retransmission(seg) ==
  \/ seg.syn /\ Known(c2s)
  \/ seg.len > 0 /\ Positions(seg) \subseteq seen

(***************************************************************************)
(* The daemon answers the queued packet of a direction, which goes on to   *)
(* the receiver unless it is dropped.                                      *)
(***************************************************************************)
Answered(id, verdict) ==
  LET seg == wire[id]
      arrives == verdict # "drop"
  IN  /\ server' = IF id = c2s /\ arrives THEN ServerReceive(seg, verdict = "accept") ELSE server
      /\ client' = IF id = s2c /\ arrives THEN ClientReceive(seg) ELSE client
      /\ seen' = IF id = c2s THEN seen \cup Positions(seg) ELSE seen
      /\ quiet' = IF id = c2s /\ ~Retransmission(seg) THEN 0 ELSE quiet
      /\ wire' = [wire EXCEPT ![id] = NoSegment(id)]
      /\ UNCHANGED <<opened, behaviours>>

Examined(id, dir) ==
  /\ ~Idle(id)
  /\ \E r \in TcpAnswers(dir, wire[id], skbmark[id]) :
       /\ TcpCallback(dir, wire[id], r)
       /\ Answered(id, r.verdict)

Bypassed(id, dir) ==
  /\ skbmark[id] \in BypassMarks(dir)
  /\ Unexamined(id)
  /\ Answered(id, "accept")

SessionTick ==
  /\ "time" \in behaviours
  /\ Tick
  /\ quiet' = Older(quiet)
  /\ UNCHANGED <<client, server, wire, seen, opened, behaviours>>

Reap ==
  /\ "time" \in behaviours
  /\ ReaperTimerEvent
  /\ UNCHANGED endpoints

Repolicy ==
  /\ "repolicy" \in behaviours
  /\ Idle(c2s) /\ Idle(s2c)
  /\ \E d \in Definitions : AddPolicyRule(d)
  /\ UNCHANGED endpoints

-----------------------------------------------------------------------------
SessionInit ==
  /\ ManagerInit
  /\ \E d \in Installed :
       /\ rules = {r \in d.rules : ValidPriority(r)}
       /\ http_policy = [dir \in Dirs |-> [key \in RuleKeys |->
                           IF key = d.rule_key THEN d.http[dir] ELSE NoHttp]]
  /\ nodes_ip = {}
  /\ connmark = [flow \in Flows |-> 0]
  /\ skbmark = [id \in ConnectionId |-> NoPacket]
  /\ client = [st |-> "closed", iss |-> 0, stream |-> <<>>, una |-> 0, nxt |-> 0]
  /\ server = [st |-> "listen", rcv |-> 0, held |-> {}, clean |-> {}, snd |-> 0]
  /\ wire = [id \in ConnectionId |-> NoSegment(id)]
  /\ seen = {}
  /\ quiet = 0
  /\ opened = 0
  /\ behaviours \in Profiles

SessionNext ==
  \/ \E iss \in ISNs, stream \in Streams : ClientOpen(iss, stream)
  \/ ClientResendSyn \/ ClientData \/ ClientAck \/ ClientKeepalive \/ ClientFin
  \/ ServerSynAck \/ ServerAck \/ ServerRespond \/ ServerFin \/ ServerReset
  \/ Examined(c2s, "ingress") \/ Examined(s2c, "egress")
  \/ Bypassed(c2s, "ingress") \/ Bypassed(s2c, "egress")
  \/ SessionTick \/ Reap \/ Repolicy

SessionSpec == SessionInit /\ [][SessionNext]_sessionVars

-----------------------------------------------------------------------------
(***************************************************************************)
(* Properties.                                                             *)
(***************************************************************************)
IngressRules == {r \in rules : r.dir = "ingress" /\ c2s \in r.ids}
HttpInForce == \E r \in IngressRules : HasHttp("ingress", r.rule_key)

DeniedHeader(h) ==
  \E r \in IngressRules : /\ HasHttp("ingress", r.rule_key)
                          /\ http_policy["ingress"][r.rule_key][h] = kDeny

\* The behaviours of a set do not happen.
Without(excluded) == behaviours \cap excluded = {}

\* The numbers of the connection do not pass the end of the sequence space,
\* where the engine's plain comparison takes new data for old (lib.rs:467).
Unwrapped == client.iss + 1 + Len(client.stream) < SeqSpace

\* The positions of the request that begins at position n.
Pieces(n) == CASE client.stream[n + 1].part = "whole" -> {n}
               [] client.stream[n + 1].part = "head"  -> {n, n + 1}
               [] OTHER -> {}

(***************************************************************************)
(* A request whose header the HTTP rules deny never reaches the server     *)
(* unmodified, be it in one segment or split behind the request line,      *)
(* retransmitted, preceded by allowed requests or on a reused 4-tuple: the *)
(* segment that completes the header is blanked (net-policy.cpp:713-731).  *)
(* It takes a daemon that sees every segment, retransmissions that carry   *)
(* no new bytes, no server reset, no pause in a request that outlasts the  *)
(* timeout, and numbers that do not wrap.                                  *)
(***************************************************************************)
L7Enforced ==
  Without({"loss", "repack", "reset", "time"}) /\ Unwrapped =>
    \A n \in 0 .. Len(client.stream) - 1 :
      DeniedHeader(client.stream[n + 1].hdr) /\ Pieces(n) # {} =>
        ~ (Pieces(n) \subseteq server.clean)

(***************************************************************************)
(* Under a network rule that denies, no SYN reaches the server, not the    *)
(* first and not a retransmission, although the engine knows the flow      *)
(* after the first one (net-policy.cpp:540-547).                           *)
(***************************************************************************)
DeniedNeverEstablished ==
  (\E r \in IngressRules : r.action = kDeny /\ ~HasHttp("ingress", r.rule_key)) =>
    server.st = "listen"

(***************************************************************************)
(* While the request direction has an entry, the connection's mark does    *)
(* not make its packets pass uninspected (net-policy.cpp:426-430 against   *)
(* the marks that the two callbacks set).                                  *)
(***************************************************************************)
InspectedWhileTracked ==
  MicrosegTracked(c2s) => connmark[Flow(c2s)] \notin BypassMarks("ingress")

(***************************************************************************)
(* No retransmission and no mark takes a connection past the rules that    *)
(* deny or inspect it, under any loss, reset or pause: the two properties  *)
(* above together.                                                         *)
(***************************************************************************)
RulesNotBypassed == DeniedNeverEstablished /\ InspectedWhileTracked

(***************************************************************************)
(* A connection starts with fresh parser state: what an earlier connection *)
(* on the 4-tuple left half-parsed is gone by the time a SYN of the next   *)
(* one is accepted (connection_manager.h:157-187).  It takes connections   *)
(* that end by FINs and within the timeout: output_nfq_cb accepts a        *)
(* server's RST unexamined while the mark is kAllowReq.                    *)
(***************************************************************************)
StartsFresh ==
  /\ client.st \in {"synsent", "open"} /\ server.st # "listen"
  /\ seen = {} /\ MicrosegTracked(c2s)
  => microseg_conns[c2s].conn = NewConn

ReuseAfterFinStartsFresh == Without({"reset", "time"}) => StartsFresh

(***************************************************************************)
(* All bytes of a data segment that the engine classifies as Duplicate are *)
(* bytes that the daemon has handled before, so skipping the parser skips  *)
(* nothing (net_flow_engine lib.rs:379-384), however the segments were cut *)
(* before and are now.  It takes a daemon that no segment is lost before   *)
(* and no reset bypasses: the engine moves its number over a gap, and what *)
(* fills the gap is then a Duplicate it never saw.  It takes               *)
(* retransmissions that carry no new bytes: only the first number is       *)
(* compared (lib.rs:467), so what follows the old bytes is skipped with    *)
(* them.  And it takes numbers that do not wrap: a retransmission from     *)
(* before the end of the sequence space makes what comes after it look     *)
(* old.                                                                    *)
(***************************************************************************)
DuplicateIsSeen ==
  LET seg == wire[c2s]
  IN  ~Idle(c2s) /\ seg.len > 0 /\ PacketKind(seg) = "Duplicate" => Positions(seg) \subseteq seen

DuplicateIsSeenInOrder == Without({"loss", "repack", "reset"}) /\ Unwrapped => DuplicateIsSeen

(***************************************************************************)
(* The reaper does not take the entry of an open connection whose client   *)
(* was heard within the timeout, even if it sent no payload                *)
(* (net-policy.cpp:525-532, connection_manager.h:102-115).  It takes a     *)
(* client that sends data and plain ACKs, none of them lost, no reset and  *)
(* no wrap: a keepalive probe, or a retransmission with new bytes behind   *)
(* the old ones, is a Duplicate and refreshes nothing.                     *)
(***************************************************************************)
EntryLostWhileHeard ==
  /\ MicrosegTracked(c2s) /\ ~MicrosegTracked(c2s)'
  /\ client.st = "open" /\ quiet < StaleTimeout

AckedFlowsKeepEntry ==
  [][Without({"loss", "keepalive", "repack", "reset"}) /\ Unwrapped => ~EntryLostWhileHeard]_sessionVars

(***************************************************************************)
(* HTTP rules installed while a connection is open apply to it             *)
(* (net-policy.cpp:674-684): once UpdateMark has cleared its mark, no      *)
(* packet marks the connection to pass uninspected before one has bound it *)
(* to the rules.                                                           *)
(***************************************************************************)
LateBindingApplies ==
  [][/\ client.st = "open" /\ server.st = "open" /\ HttpInForce
     /\ connmark[Flow(c2s)] = kDeny /\ ~MicrosegTracked(c2s)
     => connmark'[Flow(c2s)] \notin BypassMarks("ingress")]_sessionVars
=============================================================================
