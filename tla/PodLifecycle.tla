---------------------------- MODULE PodLifecycle ----------------------------
(***************************************************************************)
(* A pod comes up, its packets are read and answered, it goes down: the    *)
(* epoll loop of RunNetPolicyDaemon with the handlers GrpcDispatchPodUp,   *)
(* GrpcDispatchPodDown and NfqueueRcvData, the queue objects (NfqQueue) and *)
(* the mangle tables of the pods' namespaces (Iptables).                   *)
(*                                                                         *)
(* One thread runs every handler, so a handler is one action; RPC threads  *)
(* push requests and packets arrive between any two of them.  The events   *)
(* one epoll_wait returned are handled one after the other and are not     *)
(* looked up again, whatever the handlers before them did.                 *)
(***************************************************************************)
EXTENDS Iptables, NfqQueue, Integers

CONSTANTS
    PodIds, Pids,     \* requests name one of each
    MaxPackets,       \* packets there are
    Limits            \* what a behaviour may be made of: the requests pushed,
                      \* the packets that arrive, the faults, and what may
                      \* fail, a subset of {"table", "init", "queue"}

VARIABLES
    requests,    \* GrpcDispatchQueue: pushed, not drained
    running,     \* the items of the DrainAll in progress that have not run
    batch,       \* events[]: returned by epoll_wait, not handled
    freed,       \* the records deleted since that epoll_wait
    pods,        \* res_data_: pod id -> resource
    epoll,       \* the registered records, <<resource, direction>>
    records,     \* the RCV_EPOLL_CB that exist
    netns,       \* the network namespace of the epoll thread
    tables,      \* the mangle table of each namespace
    clean,       \* the namespaces whose last write_iptable_rule met no failure
    bound,       \* namespace and queue number -> the resource listening, or 0
    queues,      \* record -> NfqQueue
    fate,        \* packet -> what became of it
    hit,         \* the packets a fault was met while reading or answering them
    asked, faults, made,
    limit        \* the member of Limits this behaviour keeps to

life == <<pods, epoll, records, bound, queues>>
rules == <<netns, tables, clean>>
counts == <<asked, faults, made, limit>>
vars == <<requests, running, batch, freed, life, rules, fate, hit, counts>>

Dirs == {"in", "out"}
None == 0
Up(pid, pod) == [op |-> "up", pid |-> pid, pod |-> pod]
Down(pod) == [op |-> "down", pod |-> pod]
Requests == {Up(pid, pod) : pid \in Pids, pod \in PodIds} \cup {Down(pod) : pod \in PodIds}
Dispatch == <<None, "dispatch">>      \* the event of the dispatch queue's eventfd
Packets == 1..MaxPackets
Restricted(f, S) == [x \in S |-> f[x]]

Init ==
    /\ requests = << >> /\ running = << >> /\ batch = << >> /\ freed = {}
    /\ pods = [pod \in PodIds |-> None]
    /\ epoll = {} /\ records = {}
    /\ netns = "host"
    /\ tables = [pid \in Pids |-> EmptyTable] /\ clean = {}
    /\ bound = [pid \in Pids |-> [d \in Dirs |-> None]]
    /\ queues = << >>
    /\ fate = [p \in Packets |-> "none"] /\ hit = {}
    /\ asked = 0 /\ faults = 0 /\ made = 0
    /\ limit \in Limits

May(kind) == kind \in limit.kinds /\ faults < limit.faults

-----------------------------------------------------------------------------
(* Requests and packets from outside *)

(* an RPC thread: GrpcDispatchPodUp/PodDown push an item and wait for it *)
Push(r) ==
    /\ asked < limit.requests
    /\ asked' = asked + 1
    /\ requests' = Append(requests, r)
    /\ UNCHANGED <<running, batch, freed, life, rules, fate, hit, faults, made, limit>>

(* A packet at a pod's hook: NFQUEUE sends it to the listener of that queue, *)
(* and lets it through when there is none (--queue-bypass).                  *)
Arrive(p, pid, d) ==
    /\ p <= limit.packets
    /\ fate[p] = "none" /\ \A earlier \in 1..(p - 1) : fate[earlier] # "none"
    /\ LET r == bound[pid][d]
           queued == r # None /\ Traverse(tables[pid], d, 0) = "queue"
       IN  /\ fate' = [fate EXCEPT ![p] = IF queued THEN "queued" ELSE "passed"]
           /\ queues' = IF queued THEN [queues EXCEPT ![<<r, d>>] = Enqueue(@, p)] ELSE queues
    /\ UNCHANGED <<requests, running, batch, freed, pods, epoll, records, bound, rules, hit, counts>>

-----------------------------------------------------------------------------
(* The loop *)

Idle == batch = << >> /\ running = << >>

Ready == {rec \in epoll : queues[rec].socket # << >>}
            \cup (IF requests = << >> THEN {} ELSE {Dispatch})

(* epoll_wait: the ready events, in any order *)
Wait ==
    /\ Idle
    /\ Ready # {}
    /\ batch' \in Bijection(1..Cardinality(Ready), Ready)
    /\ freed' = {}
    /\ UNCHANGED <<requests, running, life, rules, fate, hit, counts>>

(* DispatchGrpcRustQueueEvent takes every item pushed so far *)
DrainAll ==
    /\ running = << >> /\ batch # << >> /\ Head(batch) = Dispatch
    /\ batch' = Tail(batch)
    /\ running' = requests /\ requests' = << >>
    /\ UNCHANGED <<freed, life, rules, fate, hit, counts>>

-----------------------------------------------------------------------------
(* The resource of a pod: the parts of `life` as one record *)

Life == [epoll |-> epoll, records |-> records, bound |-> bound, queues |-> queues]

(* OpenNfque: one listener per namespace and queue number *)
OpenNfque(s, r, pid, d) ==
    [epoll |-> s.epoll, records |-> s.records,
     bound |-> [s.bound EXCEPT ![pid][d] = r],
     queues |-> [rec \in DOMAIN s.queues \cup {<<r, d>>} |->
                   IF rec = <<r, d>> THEN OpenQueue ELSE s.queues[rec]]]

(* AddEpollEvent: on failure both records are deleted, and the first one may *)
(* be registered by then                                                     *)
AddEpollEvent(s, r, failure) ==
    LET own == {r} \X Dirs
        ok == failure \notin {"epoll in", "epoll out"}
    IN  [epoll |-> IF ok THEN s.epoll \cup own
                   ELSE IF failure = "epoll out" THEN s.epoll \cup {<<r, "in">>}
                   ELSE s.epoll,
         records |-> IF ok THEN s.records \cup own ELSE s.records,
         bound |-> s.bound, queues |-> s.queues]

(* FreeResource: unregisters and closes the queues, then deletes the records *)
Unbind(bindings, r) ==
    [pid \in Pids |-> [d \in Dirs |-> IF bindings[pid][d] = r THEN None ELSE bindings[pid][d]]]

FreeResource(s, r) ==
    [epoll |-> s.epoll \ ({r} \X Dirs),
     records |-> s.records \ ({r} \X Dirs),
     bound |-> Unbind(s.bound, r),
     queues |-> Restricted(s.queues, DOMAIN s.queues \ ({r} \X Dirs))]

(* InitNfqueue for a pod id without a resource; `failure` is the call that   *)
(* fails, if any.  Binding a queue another resource listens to fails.        *)
Opened(s, r, pid, failure) ==
    LET in == OpenNfque(s, r, pid, "in")
        out == OpenNfque(in, r, pid, "out")
    IN  IF failure = "in" \/ s.bound[pid]["in"] # None THEN [ok |-> FALSE, s |-> s]
        ELSE IF failure = "out" \/ s.bound[pid]["out"] # None THEN [ok |-> FALSE, s |-> in]
        ELSE IF failure = "conntrack" THEN [ok |-> FALSE, s |-> out]
        ELSE [ok |-> failure \notin {"epoll in", "epoll out"}, s |-> AddEpollEvent(out, r, failure)]

InitNfqueue_unchecked(s, r, pid, failure) ==
    LET o == Opened(s, r, pid, failure)
    IN  IF o.ok \/ failure = "epoll out" THEN [ok |-> TRUE, s |-> o.s]
        ELSE [ok |-> FALSE, s |-> FreeResource(o.s, r)]

InitNfqueue(s, r, pid, failure) ==
    LET o == Opened(s, r, pid, failure)
    IN  IF o.ok THEN o ELSE [ok |-> FALSE, s |-> FreeResource(o.s, r)]

SetLife(s) ==
    /\ epoll' = s.epoll /\ records' = s.records
    /\ bound' = s.bound /\ queues' = s.queues

-----------------------------------------------------------------------------
(* The two requests *)

(* write_iptable_rule in the namespace the thread is in now *)
WriteRules(pid, failed) ==
    /\ tables' = [tables EXCEPT ![pid] = write_iptable_rule(@, failed)]
    /\ clean' = IF failed = {} THEN clean \cup {pid} ELSE clean \ {pid}

InitFailures == {"in", "out", "conntrack", "epoll in", "epoll out"}
Failures == {[ns |-> "", init |-> "", table |-> {}]}
    \cup (IF May("init") THEN {[ns |-> n, init |-> "", table |-> {}] : n \in {"open", "setns"}}
                             \cup {[ns |-> "", init |-> i, table |-> {}] : i \in InitFailures}
          ELSE {})
    \cup (IF May("table") THEN {[ns |-> "", init |-> "", table |-> {c}] : c \in Commands} ELSE {})
Failed(f) == IF f.ns = "" /\ f.init = "" /\ f.table = {} THEN 0 ELSE 1

(* GrpcDispatchPodUp.  set_ns leaves the thread where it was when the file   *)
(* cannot be opened, and in a new, empty namespace when setns fails after    *)
(* unshare.  A pod id that is up already is no error: nothing is opened, and *)
(* the rules are written in the namespace of the pid the request names.      *)
PodUp(pid, pod) ==
    \E f \in Failures :
        /\ running # << >> /\ Head(running) = Up(pid, pod)
        /\ running' = Tail(running)
        /\ faults' = faults + Failed(f)
        /\ netns' = CASE f.ns = "open" -> netns [] f.ns = "setns" -> "blank" [] OTHER -> pid
        /\ LET init == InitNfqueue(Life, made + 1, pid, f.init)
           IN  CASE f.ns # "" -> UNCHANGED <<life, tables, clean, made>>
                 [] f.ns = "" /\ pods[pod] # None ->
                      WriteRules(pid, f.table) /\ UNCHANGED <<life, made>>
                 [] f.ns = "" /\ pods[pod] = None ->
                      /\ SetLife(init.s)
                      /\ IF init.ok
                         THEN /\ pods' = [pods EXCEPT ![pod] = made + 1]
                              /\ made' = made + 1
                              /\ WriteRules(pid, f.table)
                         ELSE UNCHANGED <<pods, made, tables, clean>>
        /\ UNCHANGED <<requests, batch, freed, fate, hit, asked, limit>>

(* GrpcDispatchPodDown: DeleteNfQueRes.  The rules stay; closing a queue     *)
(* makes the kernel drop the packets it still held.                          *)
PodDown(pod) ==
    /\ running # << >> /\ Head(running) = Down(pod)
    /\ running' = Tail(running)
    /\ LET r == pods[pod]
           held == UNION {queues[rec].held : rec \in DOMAIN queues \cap ({r} \X Dirs)}
       IN  /\ SetLife(FreeResource(Life, r))
           /\ pods' = [pods EXCEPT ![pod] = None]
           /\ freed' = freed \cup (records \cap ({r} \X Dirs))
           /\ fate' = [p \in Packets |-> IF p \in held THEN "flushed" ELSE fate[p]]
    /\ UNCHANGED <<requests, batch, rules, hit, counts>>

-----------------------------------------------------------------------------
(* Packets *)

(* How a callback may end for a message: its one verdict reaches the kernel, *)
(* or sending it fails, or the callback throws before it.  A packet has one  *)
(* message, so the verdicts of a batch do not meet.                          *)
Verdicts(q, msgs, ends, given) ==
    verdict_impl(q, {msgs[i] : i \in given}, {msgs[i] : i \in {j \in given : ends[j] = "sent"}})

Answered_until(q, msgs, ends) ==
    Verdicts(q, msgs, ends, {i \in DOMAIN msgs : \A j \in 1..i : ends[j] # "threw"})

Answered(q, msgs, ends) ==
    Verdicts(q, msgs, ends, {i \in DOMAIN msgs : ends[i] # "threw"})

(* NfqueueRcvData for a record that still exists: n messages are received,   *)
(* fewer than there are when recv_batch fails, and every message of the      *)
(* batch goes to its callback whatever happened to the ones before it        *)
NfqueueRcvData(rec, n, error, ends) ==
    LET q == queues[rec]
        d == drain_batch(q, n, error)
        q2 == IF error THEN d.queue ELSE Answered(d.queue, d.batch, ends)
        bad == IF error THEN Range(SubSeq(q.socket, 1, n))
               ELSE {d.batch[i] : i \in {j \in DOMAIN ends : ends[j] # "sent"}}
    IN  /\ queues' = [queues EXCEPT ![rec] = q2]
        /\ hit' = hit \cup bad
        /\ faults' = faults + (IF error \/ bad # {} THEN 1 ELSE 0)
        /\ fate' = [p \in Packets |-> IF p \in q.held \ q2.held THEN "answered" ELSE fate[p]]

(* every message answered, or one of them not *)
Ends(n) == {[i \in 1..n |-> "sent"]}
    \cup (IF May("queue")
          THEN {[i \in 1..n |-> IF i = k THEN e ELSE "sent"] : k \in 1..n, e \in {"threw", "unsent"}}
          ELSE {})

RcvEvent ==
    /\ running = << >> /\ batch # << >> /\ Head(batch) \in records
    /\ batch' = Tail(batch)
    /\ LET rec == Head(batch)
       IN  \/ \E ends \in Ends(Whole(queues[rec])) :
                NfqueueRcvData(rec, Whole(queues[rec]), FALSE, ends)
           \/ /\ May("queue")
              /\ \E n \in 0..Whole(queues[rec]) : NfqueueRcvData(rec, n, TRUE, << >>)
    /\ UNCHANGED <<requests, running, freed, pods, epoll, records, bound, rules, asked, made, limit>>

(* The event of a record that was deleted since epoll_wait returned it: its  *)
(* fields are read from freed memory.  The model goes on to the next event.  *)
StaleEvent ==
    /\ running = << >> /\ batch # << >> /\ Head(batch) \notin records \cup {Dispatch}
    /\ batch' = Tail(batch)
    /\ UNCHANGED <<requests, running, freed, life, rules, fate, hit, counts>>

Next ==
    \/ \E r \in Requests : Push(r)
    \/ \E p \in Packets, pid \in Pids, d \in Dirs : Arrive(p, pid, d)
    \/ Wait \/ DrainAll \/ RcvEvent \/ StaleEvent
    \/ \E pid \in Pids, pod \in PodIds : PodUp(pid, pod)
    \/ \E pod \in PodIds : PodDown(pod)

(* The epoll thread never stops: whenever it can take a step it takes one.   *)
LoopStep == <<requests, running, batch>>' # <<requests, running, batch>> /\ asked' = asked
CanStep == ~Idle \/ Ready # {}
Fairness == []<>~CanStep \/ []<><<LoopStep>>_vars
Spec == Init /\ [][Next]_vars /\ Fairness

-----------------------------------------------------------------------------
(* Properties *)

Live(r) == \E pod \in PodIds : pods[pod] = r

(* Between two handlers, epoll knows exactly the records of the pods that    *)
(* are up: no registration of a pod that failed half-way through InitNfqueue *)
(* or went down is left behind, and no record epoll would hand out has been  *)
(* deleted (AddEpollEvent deletes both records on failure, with the first    *)
(* one registered).                                                          *)
RegisteredAreLive ==
    /\ epoll = records
    /\ \A rec \in records : Live(rec[1])
    /\ \A pod \in PodIds : pods[pod] # None => {pods[pod]} \X Dirs \subseteq records

(* An event whose record is gone was returned by the same epoll_wait that    *)
(* returned the wake-up of the request that took its pod down: a record is   *)
(* never handed out after it was deleted.                                    *)
StaleOnlyWithinBatch ==
    \A i \in DOMAIN batch : batch[i] \notin records \cup {Dispatch} => batch[i] \in freed

(* Every queue a namespace's packets can be sent to belongs to a pod that is *)
(* up: a failed PodUp leaves no listener that nobody reads.                  *)
ListenersAreRead ==
    /\ \A pid \in Pids, d \in Dirs : bound[pid][d] # None =>
         Live(bound[pid][d]) /\ <<bound[pid][d], d>> \in epoll
    /\ DOMAIN queues = records

(* The resources of a pod are accounted for, whatever failed: the three      *)
(* properties above together (InitNfqueue, AddEpollEvent, FreeResource).     *)
ResourcesAreSound == RegisteredAreLive /\ StaleOnlyWithinBatch /\ ListenersAreRead

(* When the last write_iptable_rule of a namespace met no failure, its table *)
(* sends unmarked packets of both directions to their queues and lets marked *)
(* ones through, whatever the calls before it left: one failed command is    *)
(* repaired by the next complete call, although only one of the two chains   *)
(* is looked for before the table is cleared.                                *)
CompleteWriteFilters ==
    \A pid \in clean, d \in Dirs :
        /\ Traverse(tables[pid], d, 0) = "queue"
        /\ Traverse(tables[pid], d, 1) = "accept"
        /\ \E i \in DOMAIN tables[pid][SaveHook(d)] : tables[pid][SaveHook(d)][i] = Save

(* A packet the kernel holds can still be answered, unless the call that     *)
(* received it or the callback it was given to failed; and what such a call  *)
(* leaves in pending is at most one batch.                                   *)
OnlyFaultsStrand ==
    \A rec \in DOMAIN queues :
        /\ Stranded(queues[rec]) \subseteq hit
        /\ queues[rec].pending \subseteq hit
        /\ Cardinality(queues[rec].pending) <= MAX_BATCH

(* Every queued packet is answered in the end, or dropped with its queue, or *)
(* met a fault: more packets than one batch holds and the events of other    *)
(* queues only delay it.                                                     *)
PacketsAnswered ==
    \A p \in Packets : fate[p] = "queued" ~> (fate[p] # "queued" \/ p \in hit)
=============================================================================
