---------------------------- MODULE MCEventQueue ----------------------------
(* Two competing subscribers and a queue that overflows.                   *)
EXTENDS EventQueue

CONSTANTS s1, s2

MCSubscribers == {s1, s2}
=============================================================================
