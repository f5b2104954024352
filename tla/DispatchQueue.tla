---------------------------- MODULE DispatchQueue ----------------------------
(***************************************************************************)
(* GrpcDispatchQueue: threads of the gRPC server hand closures to the      *)
(* epoll thread (grpc/control_dispatch.cc, the GrpcDispatch functions and  *)
(* DispatchGrpcRustQueueEvent in net-policy.cpp).  An item lives on its    *)
(* caller's stack, so an item is named by its caller, and it is gone once  *)
(* the caller returns.                                                     *)
(***************************************************************************)
EXTENDS Naturals, Sequences

CONSTANTS
  Callers,        \* the blocking threads of the gRPC server
  Results,        \* what a closure may compute
  Unset,          \* the fail-closed default of a call's result
  WriteFailures   \* bound on failing writes to the eventfd

ASSUME ResultsAssumption == Unset \notin Results
ASSUME FailuresAssumption == WriteFailures \in Nat

VARIABLES
  at,        \* where each caller is: idle, wake (pushed, not yet written) or wait
  queue,     \* queue_, under mutex_
  wake,      \* counter of the eventfd
  epoll,     \* where the epoll thread is: wait, drain, run or fulfil
  batch,     \* the items that DrainAll returned and that are not done
  done,      \* has the item's promise been fulfilled?
  result,    \* the result variable that the closure captured
  failed     \* writes to the eventfd that failed

vars == <<at, queue, wake, epoll, batch, done, result, failed>>

-----------------------------------------------------------------------------
(***************************************************************************)
(* A caller.                                                               *)
(***************************************************************************)
\* Build the item and append it, under the mutex.
Push(c) ==
  /\ at[c] = "idle"
  /\ at' = [at EXCEPT ![c] = "wake"]
  /\ queue' = Append(queue, c)
  /\ done' = [done EXCEPT ![c] = FALSE]
  /\ result' = [result EXCEPT ![c] = Unset]
  /\ UNCHANGED <<wake, epoll, batch, failed>>

\* The write that follows, after the mutex is released.
Wake(c) ==
  /\ at[c] = "wake"
  /\ at' = [at EXCEPT ![c] = "wait"]
  /\ \/ wake' = wake + 1 /\ UNCHANGED failed
     \/ failed < WriteFailures /\ failed' = failed + 1 /\ UNCHANGED wake
  /\ UNCHANGED <<queue, epoll, batch, done, result>>

\* Changed: the caller gives up waiting.
ReturnEarly(c) ==
  /\ at[c] = "wait"
  /\ at' = [at EXCEPT ![c] = "idle"]
  /\ UNCHANGED <<queue, wake, epoll, batch, done, result, failed>>

\* future.wait() returns; the item goes with the stack frame.
Return(c) ==
  /\ at[c] = "wait" /\ done[c]
  /\ at' = [at EXCEPT ![c] = "idle"]
  /\ UNCHANGED <<queue, wake, epoll, batch, done, result, failed>>

-----------------------------------------------------------------------------
(***************************************************************************)
(* The epoll thread.                                                       *)
(***************************************************************************)
\* epoll_wait reports the eventfd and the handler reads it down to zero.
ReadWake ==
  /\ epoll = "wait" /\ wake > 0
  /\ wake' = 0
  /\ epoll' = "drain"
  /\ UNCHANGED <<at, queue, batch, done, result, failed>>

\* Changed: one item per wake, the newest; the rest is woken for again.
DrainNewest ==
  /\ epoll = "drain"
  /\ batch' = IF queue = <<>> THEN <<>> ELSE <<queue[Len(queue)]>>
  /\ queue' = SubSeq(queue, 1, Len(queue) - 1)
  /\ wake' = IF Len(queue) > 1 THEN wake + 1 ELSE wake
  /\ epoll' = IF queue = <<>> THEN "wait" ELSE "run"
  /\ UNCHANGED <<at, done, result, failed>>

DrainAll ==
  /\ epoll = "drain"
  /\ batch' = queue
  /\ queue' = <<>>
  /\ epoll' = IF queue = <<>> THEN "wait" ELSE "run"
  /\ UNCHANGED <<at, wake, done, result, failed>>

\* Changed: a closure that throws is tried again.
WorkRetries ==
  /\ epoll = "run"
  /\ epoll' \in {"run", "fulfil"}
  /\ \E r \in Results \cup {Unset} : result' = [result EXCEPT ![Head(batch)] = r]
  /\ UNCHANGED <<at, queue, wake, batch, done, failed>>

\* item->work(): it stores a result, or throws and leaves the default.
Work ==
  /\ epoll = "run"
  /\ epoll' = "fulfil"
  /\ \E r \in Results \cup {Unset} : result' = [result EXCEPT ![Head(batch)] = r]
  /\ UNCHANGED <<at, queue, wake, batch, done, failed>>

\* Changed: the eventfd is read once the batch is done, not before it is drained.
FulfilThenRead ==
  /\ epoll = "fulfil"
  /\ done' = [done EXCEPT ![Head(batch)] = TRUE]
  /\ batch' = Tail(batch)
  /\ epoll' = IF Tail(batch) = <<>> THEN "wait" ELSE "run"
  /\ wake' = IF Tail(batch) = <<>> THEN 0 ELSE wake
  /\ UNCHANGED <<at, queue, result, failed>>

\* item->done.set_value(), and on to the next item.
Fulfil ==
  /\ epoll = "fulfil"
  /\ done' = [done EXCEPT ![Head(batch)] = TRUE]
  /\ batch' = Tail(batch)
  /\ epoll' = IF Tail(batch) = <<>> THEN "wait" ELSE "run"
  /\ UNCHANGED <<at, queue, wake, result, failed>>

DispatchGrpcRustQueueEvent == ReadWake \/ DrainAll \/ Work \/ Fulfil

-----------------------------------------------------------------------------
Init ==
  /\ at = [c \in Callers |-> "idle"]
  /\ queue = <<>>
  /\ wake = 0
  /\ epoll = "wait"
  /\ batch = <<>>
  /\ done = [c \in Callers |-> FALSE]
  /\ result = [c \in Callers |-> Unset]
  /\ failed = 0

Next ==
  \/ \E c \in Callers : Push(c) \/ Wake(c) \/ Return(c)
  \/ DispatchGrpcRustQueueEvent

Spec == Init /\ [][Next]_vars

(***************************************************************************)
(* The epoll loop serves every ready descriptor, and a thread that is in   *)
(* Push or whose future is ready goes on.  No caller is obliged to call.   *)
(***************************************************************************)
Fairness ==
  /\ WF_vars(DispatchGrpcRustQueueEvent)
  /\ \A c \in Callers : WF_vars(Wake(c)) /\ WF_vars(Return(c))

FairSpec == Spec /\ Fairness

-----------------------------------------------------------------------------
\* Every variable keeps its shape; the queue and the batch hold callers.
TypeOK ==
  /\ at \in [Callers -> {"idle", "wake", "wait"}]
  /\ queue \in Seq(Callers)
  /\ wake \in Nat
  /\ epoll \in {"wait", "drain", "run", "fulfil"}
  /\ batch \in Seq(Callers)
  /\ done \in [Callers -> BOOLEAN]
  /\ result \in [Callers -> Results \cup {Unset}]
  /\ failed \in 0 .. WriteFailures

Queued(c) == \E i \in 1 .. Len(queue) : queue[i] = c
Drained(c) == \E i \in 1 .. Len(batch) : batch[i] = c

(***************************************************************************)
(* No item outlives its stack frame: whatever the queue and the drained    *)
(* batch point to belongs to a caller that is still in its call and whose  *)
(* promise is unfulfilled (control_dispatch.h:15-20).                      *)
(***************************************************************************)
ItemsAreLive == \A c \in Callers : Queued(c) \/ Drained(c) => at[c] # "idle" /\ ~done[c]

(***************************************************************************)
(* No item is queued or drained twice, so no closure runs twice.           *)
(***************************************************************************)
ItemsAreUnique ==
  /\ \A i, j \in 1 .. Len(queue) : queue[i] = queue[j] => i = j
  /\ \A i, j \in 1 .. Len(batch) : batch[i] = batch[j] => i = j
  /\ \A c \in Callers : ~ (Queued(c) /\ Drained(c))

(***************************************************************************)
(* What the queue and the batch point to is there and there once: the two  *)
(* properties above together (GrpcDispatchQueue, net-policy.cpp:1784-1797). *)
(***************************************************************************)
ItemsAreSound == ItemsAreLive /\ ItemsAreUnique

(***************************************************************************)
(* No wakeup is lost: while an item is queued, the eventfd is readable, or *)
(* the handler has read it and has yet to drain, or a caller has pushed    *)
(* and has yet to write, unless a write has failed                         *)
(* (control_dispatch.cc:14-24: push before write, net-policy.cpp:1785-1788 *)
(* read before drain).                                                     *)
(***************************************************************************)
NoLostWakeup ==
  queue # <<>> => \/ wake > 0 \/ epoll = "drain" \/ failed > 0
                  \/ \E c \in Callers : at[c] = "wake"

(***************************************************************************)
(* Every control call returns, as long as no write to the eventfd fails.   *)
(***************************************************************************)
EveryCallReturns == \A c \in Callers : at[c] # "idle" ~> at[c] = "idle" \/ failed > 0

(***************************************************************************)
(* An item whose own write failed is not stranded for good: the next wake  *)
(* of any caller has the whole queue served (control_dispatch.cc:21-23:    *)
(* "item may not be processed until the next unrelated wake").             *)
(***************************************************************************)
NextWakeServes == \A c \in Callers : Queued(c) /\ wake > 0 ~> at[c] = "idle"

(***************************************************************************)
(* The promise to callers of the control service: a call returns, and one  *)
(* that a failed write has stranded returns after the next wake.           *)
(***************************************************************************)
CallsReturn == EveryCallReturns /\ NextWakeServes

(***************************************************************************)
(* The dispatch queue implements ControlRpc: a call is executed once its   *)
(* closure has run, which is when it is fulfilled or heads the batch of an *)
(* epoll thread that is about to fulfil it.                                *)
(***************************************************************************)
Executed(c) == done[c] \/ (epoll = "fulfil" /\ Head(batch) = c)
stage == [c \in Callers |-> IF at[c] = "idle" THEN "idle"
                            ELSE IF Executed(c) THEN "executed" ELSE "called"]

Rpc == INSTANCE ControlRpc WITH answer <- result

ImplementsRpc == Rpc!RpcSpec
=============================================================================
