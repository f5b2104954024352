---------------------------- MODULE MCFlowEngine ----------------------------
(* One flow between a client and the pod, and the pod connected to itself  *)
(* on one port, whose two directions are the same id.                      *)
EXTENDS FlowEngine

CONSTANTS client, pod

MCConnectionId == {<<client, pod>>, <<pod, client>>, <<pod, pod>>}
=============================================================================
