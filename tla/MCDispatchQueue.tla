--------------------------- MODULE MCDispatchQueue ---------------------------
(* Three gRPC threads, so that pushes overlap a read, a drain and a batch. *)
EXTENDS DispatchQueue

CONSTANTS c1, c2, c3

MCCallers == {c1, c2, c3}
=============================================================================
