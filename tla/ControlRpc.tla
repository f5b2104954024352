----------------------------- MODULE ControlRpc -----------------------------
(***************************************************************************)
(* What the control plane promises a caller of a GrpcDispatch function:    *)
(* the closure of a call runs exactly once, on one thread, between the     *)
(* call and its return, and the caller gets that run's result: the         *)
(* closure's own, or Unset if the closure threw.                           *)
(***************************************************************************)
CONSTANTS
  Callers,    \* the blocking threads of the gRPC server
  Results,    \* what a closure may compute
  Unset       \* the result that a call starts with

VARIABLES
  stage,      \* idle, called or executed
  answer      \* the result of the call in progress

Call(c) ==
  /\ stage[c] = "idle"
  /\ stage' = [stage EXCEPT ![c] = "called"]
  /\ answer' = [answer EXCEPT ![c] = Unset]

Execute(c) ==
  /\ stage[c] = "called"
  /\ stage' = [stage EXCEPT ![c] = "executed"]
  /\ \E r \in Results \cup {Unset} : answer' = [answer EXCEPT ![c] = r]

Return(c) ==
  /\ stage[c] = "executed"
  /\ stage' = [stage EXCEPT ![c] = "idle"]
  /\ UNCHANGED answer

RpcInit ==
  /\ stage = [c \in Callers |-> "idle"]
  /\ answer = [c \in Callers |-> Unset]

RpcNext == \E c \in Callers : Call(c) \/ Execute(c) \/ Return(c)

RpcSpec == RpcInit /\ [][RpcNext]_<<stage, answer>>
=============================================================================
