--------------------------- MODULE MCPodLifecycle ---------------------------
(* Small instances of PodLifecycle *)
EXTENDS PodLifecycle

Limit(r, p, n, kinds) ==
    [requests |-> r, packets |-> p, faults |-> n, kinds |-> kinds]

(* Pods that come and go with one call or command failing: the request that  *)
(* meets the fault, two that follow it and one before it.  Packets with      *)
(* a fault while they are read, more of them than a batch holds.  Packets    *)
(* and requests together, for the events that outlive their pod.             *)
MCLimits == {
    Limit(4, 0, 1, {"init", "table"}),
    Limit(2, 3, 1, {"queue"}),
    Limit(3, 2, 0, {})}
=============================================================================
