------------------------ MODULE DispatchQueueProofs ------------------------
(***************************************************************************)
(* The safety of the dispatch queue for any number of callers, and that it *)
(* implements ControlRpc.  The inductive invariant adds to ItemsAreLive    *)
(* and ItemsAreUnique that the batch is non-empty exactly while the epoll  *)
(* thread works on it.                                                     *)
(***************************************************************************)
EXTENDS DispatchQueue, TLAPS

BatchInHand ==
  /\ epoll \in {"wait", "drain"} => batch = <<>>
  /\ epoll \in {"run", "fulfil"} => batch # <<>>

IInv == TypeOK /\ ItemsAreLive /\ ItemsAreUnique /\ BatchInHand

\* What Append does to length and elements.
LEMMA AppendFacts ==
  ASSUME NEW S, NEW q \in Seq(S), NEW c \in S
  PROVE  /\ Append(q, c) \in Seq(S)
         /\ Len(Append(q, c)) = Len(q) + 1
         /\ \A i \in 1 .. Len(q) : Append(q, c)[i] = q[i]
         /\ Append(q, c)[Len(q) + 1] = c
OBVIOUS

\* What Head and Tail do to a non-empty sequence.
LEMMA TailFacts ==
  ASSUME NEW S, NEW q \in Seq(S), q # <<>>
  PROVE  /\ Head(q) \in S /\ Head(q) = q[1]
         /\ Tail(q) \in Seq(S)
         /\ Len(q) >= 1
         /\ Len(Tail(q)) = Len(q) - 1
         /\ \A i \in 1 .. Len(Tail(q)) : Tail(q)[i] = q[i + 1]
OBVIOUS

\* The initial state satisfies the inductive invariant.
LEMMA InitIInv == Init => IInv
<1> SUFFICES ASSUME Init PROVE IInv
  OBVIOUS
<1>1. TypeOK
  BY FailuresAssumption DEF Init, TypeOK
<1>2. ItemsAreLive /\ ItemsAreUnique /\ BatchInHand
  BY DEF Init, ItemsAreLive, ItemsAreUnique, BatchInHand, Queued, Drained
<1> QED
  BY <1>1, <1>2 DEF IInv

\* Types survive every step; Head(batch) is a caller because a batch is in hand.
LEMMA NextType == IInv /\ [Next]_vars => TypeOK'
<1> SUFFICES ASSUME IInv, [Next]_vars PROVE TypeOK'
  OBVIOUS
<1> USE FailuresAssumption DEF IInv, TypeOK
<1>1. ASSUME NEW c \in Callers, Push(c) PROVE TypeOK'
  BY <1>1, AppendFacts DEF Push
<1>2. ASSUME NEW c \in Callers, Wake(c) PROVE TypeOK'
  BY <1>2 DEF Wake
<1>3. ASSUME NEW c \in Callers, Return(c) PROVE TypeOK'
  BY <1>3 DEF Return
<1>4. CASE ReadWake
  BY <1>4 DEF ReadWake
<1>5. CASE DrainAll
  BY <1>5 DEF DrainAll
<1>6. CASE Work
  <2>1. Head(batch) \in Callers
    BY <1>6, TailFacts DEF Work, BatchInHand
  <2> QED
    BY <1>6, <2>1 DEF Work
<1>7. CASE Fulfil
  <2>1. Head(batch) \in Callers /\ Tail(batch) \in Seq(Callers)
    BY <1>7, TailFacts DEF Fulfil, BatchInHand
  <2> QED
    BY <1>7, <2>1 DEF Fulfil
<1>8. CASE UNCHANGED vars
  BY <1>8 DEF vars
<1> QED
  BY <1>1, <1>2, <1>3, <1>4, <1>5, <1>6, <1>7, <1>8
  DEF Next, DispatchGrpcRustQueueEvent

\* The batch is in hand exactly while the epoll thread works on it.
LEMMA NextBatch == IInv /\ [Next]_vars => BatchInHand'
<1> SUFFICES ASSUME IInv, [Next]_vars PROVE BatchInHand'
  OBVIOUS
<1> USE DEF IInv, BatchInHand
<1>1. ASSUME NEW c \in Callers, Push(c) \/ Wake(c) \/ Return(c) PROVE BatchInHand'
  BY <1>1 DEF Push, Wake, Return
<1>2. CASE ReadWake
  BY <1>2 DEF ReadWake
<1>3. CASE DrainAll
  BY <1>3 DEF DrainAll
<1>4. CASE Work
  BY <1>4 DEF Work
<1>5. CASE Fulfil
  BY <1>5 DEF Fulfil
<1>6. CASE UNCHANGED vars
  BY <1>6 DEF vars
<1> QED
  BY <1>1, <1>2, <1>3, <1>4, <1>5, <1>6 DEF Next, DispatchGrpcRustQueueEvent

(***************************************************************************)
(* Items stay unique: a caller that pushes is idle, so by ItemsAreLive it  *)
(* has nothing pending; draining moves the queue to an empty batch.        *)
(***************************************************************************)
LEMMA NextUnique == IInv /\ [Next]_vars => ItemsAreUnique'
<1> SUFFICES ASSUME IInv, [Next]_vars PROVE ItemsAreUnique'
  OBVIOUS
<1> USE DEF IInv, TypeOK
<1>1. ASSUME NEW c \in Callers, Push(c) PROVE ItemsAreUnique'
  <2>1. ~Queued(c) /\ ~Drained(c)
    BY <1>1 DEF Push, ItemsAreLive
  <2>2. /\ queue' = Append(queue, c) /\ batch' = batch
        /\ Len(queue') = Len(queue) + 1
        /\ \A i \in 1 .. Len(queue) : queue'[i] = queue[i]
        /\ queue'[Len(queue) + 1] = c
    BY <1>1, AppendFacts DEF Push
  <2>3. \A i, j \in 1 .. Len(queue') : queue'[i] = queue'[j] => i = j
    BY <2>1, <2>2 DEF ItemsAreUnique, Queued
  <2>4. \A d \in Callers : ~ (Queued(d)' /\ Drained(d)')
    BY <2>1, <2>2 DEF ItemsAreUnique, Queued, Drained
  <2>5. \A i, j \in 1 .. Len(batch') : batch'[i] = batch'[j] => i = j
    BY <2>2 DEF ItemsAreUnique
  <2> HIDE DEF IInv, TypeOK
  <2> QED
    BY <2>3, <2>4, <2>5, Zenon DEF ItemsAreUnique
<1>2. CASE UNCHANGED <<queue, batch>>
  BY <1>2 DEF ItemsAreUnique, Queued, Drained
<1>3. CASE DrainAll
  BY <1>3 DEF DrainAll, ItemsAreUnique, Queued, Drained
<1>4. CASE Fulfil
  <2>1. /\ batch' = Tail(batch) /\ queue' = queue
        /\ Len(batch) >= 1 /\ Len(batch') = Len(batch) - 1
        /\ \A i \in 1 .. Len(batch') : batch'[i] = batch[i + 1]
    BY <1>4, TailFacts DEF Fulfil, BatchInHand
  <2>2. \A i, j \in 1 .. Len(batch') : batch'[i] = batch'[j] => i = j
    BY <2>1 DEF ItemsAreUnique
  <2>3. \A d \in Callers : Drained(d)' => Drained(d)
    BY <2>1 DEF Drained
  <2> QED
    BY <2>1, <2>2, <2>3 DEF ItemsAreUnique, Queued
<1> QED
  BY <1>1, <1>2, <1>3, <1>4
  DEF Next, DispatchGrpcRustQueueEvent, Wake, Return, ReadWake, Work, vars

(***************************************************************************)
(* Items stay live: a caller returns only when its promise is fulfilled,   *)
(* and by uniqueness the item that is fulfilled is nowhere else.           *)
(***************************************************************************)
LEMMA NextLive == IInv /\ [Next]_vars => ItemsAreLive'
<1> SUFFICES ASSUME IInv, [Next]_vars, NEW d \in Callers, Queued(d)' \/ Drained(d)'
             PROVE  at'[d] # "idle" /\ ~done'[d]
  BY DEF ItemsAreLive
<1> USE DEF IInv, TypeOK
<1>1. ASSUME NEW c \in Callers, Push(c) PROVE at'[d] # "idle" /\ ~done'[d]
  <2>1. /\ queue' = Append(queue, c) /\ batch' = batch
        /\ Len(queue') = Len(queue) + 1
        /\ \A i \in 1 .. Len(queue) : queue'[i] = queue[i]
        /\ queue'[Len(queue) + 1] = c
    BY <1>1, AppendFacts DEF Push
  <2>2. d = c \/ Queued(d) \/ Drained(d)
    BY <2>1 DEF Queued, Drained
  <2> QED
    BY <1>1, <2>2 DEF Push, ItemsAreLive
<1>2. ASSUME NEW c \in Callers, Wake(c) PROVE at'[d] # "idle" /\ ~done'[d]
  BY <1>2 DEF Wake, ItemsAreLive, Queued, Drained
<1>3. ASSUME NEW c \in Callers, Return(c) PROVE at'[d] # "idle" /\ ~done'[d]
  BY <1>3 DEF Return, ItemsAreLive, Queued, Drained
<1>4. CASE ReadWake \/ DrainAll \/ Work
  <2>1. Queued(d) \/ Drained(d)
    BY <1>4 DEF ReadWake, DrainAll, Work, Queued, Drained
  <2> QED
    BY <1>4, <2>1 DEF ReadWake, DrainAll, Work, ItemsAreLive
<1>5. CASE Fulfil
  <2>1. /\ batch' = Tail(batch) /\ queue' = queue
        /\ Head(batch) \in Callers /\ Head(batch) = batch[1]
        /\ Len(batch) >= 1 /\ Len(batch') = Len(batch) - 1
        /\ \A i \in 1 .. Len(batch') : batch'[i] = batch[i + 1]
    BY <1>5, TailFacts DEF Fulfil, BatchInHand
  <2>2. Queued(d)' => Queued(d) /\ d # Head(batch)
    BY <2>1 DEF Queued, Drained, ItemsAreUnique
  <2>3. Drained(d)' => Drained(d) /\ d # Head(batch)
    BY <2>1, SMTT(30) DEF Drained, ItemsAreUnique
  <2> QED
    BY <1>5, <2>2, <2>3 DEF Fulfil, ItemsAreLive
<1>6. CASE UNCHANGED vars
  BY <1>6 DEF vars, ItemsAreLive, Queued, Drained
<1> QED
  BY <1>1, <1>2, <1>3, <1>4, <1>5, <1>6 DEF Next, DispatchGrpcRustQueueEvent

(***************************************************************************)
(* The inductive invariant holds throughout.                               *)
(***************************************************************************)
THEOREM DispatchInvariant == Spec => []IInv
<1>1. IInv /\ [Next]_vars => IInv'
  BY NextType, NextBatch, NextUnique, NextLive DEF IInv
<1> QED
  BY InitIInv, <1>1, PTL DEF Spec

(***************************************************************************)
(* Types of the dispatch queue, for any number of callers.                 *)
(***************************************************************************)
THEOREM DispatchTypeCorrect == Spec => []TypeOK
<1>1. IInv => TypeOK
  BY DEF IInv
<1> QED
  BY DispatchInvariant, <1>1, PTL

(***************************************************************************)
(* The epoll thread never touches an item whose caller has returned, and   *)
(* no item is pending twice, for any number of callers and any failures of *)
(* the eventfd.                                                            *)
(***************************************************************************)
THEOREM ItemsSound == Spec => []ItemsAreSound
<1>1. IInv => ItemsAreSound
  BY DEF IInv, ItemsAreSound
<1> QED
  BY DispatchInvariant, <1>1, PTL

(***************************************************************************)
(* No wakeup is lost, for any number of callers: the order of push and     *)
(* write on one side and of read and drain on the other suffices.          *)
(***************************************************************************)
THEOREM WakeupsKept == Spec => []NoLostWakeup
<1>1. Init => NoLostWakeup
  BY DEF Init, NoLostWakeup
<1>2. IInv /\ NoLostWakeup /\ [Next]_vars => NoLostWakeup'
  <2> SUFFICES ASSUME IInv, NoLostWakeup, [Next]_vars PROVE NoLostWakeup'
    OBVIOUS
  <2> USE DEF NoLostWakeup, IInv, TypeOK
  <2>1. ASSUME NEW c \in Callers, Push(c) PROVE NoLostWakeup'
    BY <2>1 DEF Push
  <2>2. ASSUME NEW c \in Callers, Wake(c) PROVE NoLostWakeup'
    BY <2>2, FailuresAssumption DEF Wake
  <2>3. ASSUME NEW c \in Callers, Return(c) PROVE NoLostWakeup'
    BY <2>3 DEF Return
  <2>4. CASE DispatchGrpcRustQueueEvent
    BY <2>4 DEF DispatchGrpcRustQueueEvent, ReadWake, DrainAll, Work, Fulfil
  <2>5. CASE UNCHANGED vars
    BY <2>5 DEF vars
  <2> QED
    BY <2>1, <2>2, <2>3, <2>4, <2>5 DEF Next
<1> QED
  BY <1>1, <1>2, DispatchInvariant, PTL DEF Spec

-----------------------------------------------------------------------------
\* The caller that the epoll thread works for is in its call, not yet done.
LEMMA HeadIsLive ==
  ASSUME IInv, epoll \in {"run", "fulfil"}
  PROVE  Head(batch) \in Callers /\ at[Head(batch)] # "idle" /\ ~done[Head(batch)]
<1>1. Head(batch) \in Callers /\ Head(batch) = batch[1] /\ Len(batch) >= 1
  BY TailFacts DEF IInv, TypeOK, BatchInHand
<1>2. Drained(Head(batch))
  BY <1>1 DEF Drained, IInv, TypeOK
<1> QED
  BY <1>1, <1>2 DEF IInv, ItemsAreLive

\* Every step of the queue is a step of ControlRpc or leaves its state alone.
LEMMA StepRefinement == IInv /\ [Next]_vars => [Rpc!RpcNext]_<<stage, result>>
<1> SUFFICES ASSUME IInv, [Next]_vars
             PROVE  Rpc!RpcNext \/ UNCHANGED <<stage, result>>
  OBVIOUS
<1> USE DEF IInv, TypeOK
<1>1. ASSUME NEW c \in Callers, Push(c) PROVE Rpc!Call(c)
  <2>1. epoll = "fulfil" => Head(batch) # c
    BY <1>1, HeadIsLive DEF Push
  <2>2. stage[c] = "idle" /\ stage' = [stage EXCEPT ![c] = "called"]
    BY <1>1, <2>1, Zenon DEF Push, stage, Executed
  <2> QED
    BY <1>1, <2>2 DEF Push, Rpc!Call
<1>2. ASSUME NEW c \in Callers, Wake(c) PROVE UNCHANGED <<stage, result>>
  BY <1>2 DEF Wake, stage, Executed
<1>3. ASSUME NEW c \in Callers, Return(c) PROVE Rpc!Return(c)
  <2>1. stage[c] = "executed" /\ stage' = [stage EXCEPT ![c] = "idle"]
    BY <1>3, Zenon DEF Return, stage, Executed
  <2> QED
    BY <1>3, <2>1 DEF Return, Rpc!Return
<1>4. CASE ReadWake \/ DrainAll
  BY <1>4 DEF ReadWake, DrainAll, stage, Executed
<1>5. CASE Work
  <2> DEFINE c == Head(batch)
  <2>1. c \in Callers /\ at[c] # "idle" /\ ~done[c]
    BY <1>5, HeadIsLive DEF Work
  <2>2. stage[c] = "called" /\ stage' = [stage EXCEPT ![c] = "executed"]
    BY <1>5, <2>1, Zenon DEF Work, stage, Executed
  <2>3. Rpc!Execute(c)
    BY <1>5, <2>2, Zenon DEF Work, Rpc!Execute
  <2> QED
    BY <2>1, <2>3 DEF Rpc!RpcNext
<1>6. CASE Fulfil
  <2>1. Head(batch) \in Callers
    BY <1>6, HeadIsLive DEF Fulfil
  <2>2. stage' = stage
    BY <1>6, <2>1 DEF Fulfil, stage, Executed
  <2> QED
    BY <1>6, <2>2 DEF Fulfil
<1>7. CASE UNCHANGED vars
  BY <1>7 DEF vars, stage, Executed
<1> QED
  BY <1>1, <1>2, <1>3, <1>4, <1>5, <1>6, <1>7
  DEF Next, DispatchGrpcRustQueueEvent, Rpc!RpcNext

(***************************************************************************)
(* The dispatch queue implements ControlRpc, whatever the number of        *)
(* callers and however many eventfd writes fail: a closure runs at most    *)
(* once, between the call and its return, and the caller returns with the  *)
(* result of that run.                                                     *)
(***************************************************************************)
THEOREM Refinement == Spec => ImplementsRpc
<1>1. Init => Rpc!RpcInit
  BY DEF Init, Rpc!RpcInit, stage
<1> QED
  BY <1>1, StepRefinement, DispatchInvariant, PTL DEF Spec, ImplementsRpc, Rpc!RpcSpec
=============================================================================
