------------------------------ MODULE NfqQueue ------------------------------
(***************************************************************************)
(* crates/net_nfq/src/queue.rs: one NFQUEUE socket and the messages read   *)
(* from it that still need a verdict.                                      *)
(*                                                                         *)
(* A queue is a record: `held`, the packets the kernel keeps until their   *)
(* verdict arrives; `socket`, those whose message has not been received    *)
(* yet; `pending`, the messages NfqQueue holds for verdict().              *)
(***************************************************************************)
EXTENDS Naturals, Sequences, Functions

CONSTANT
    MAX_BATCH   \* messages one recv_batch call drains at most

ASSUME BatchAssumption == MAX_BATCH \in Nat \ {0}

(* NfqQueue::open *)
OpenQueue == [held |-> {}, socket |-> << >>, pending |-> {}]

(* the kernel queues a packet for the socket *)
Enqueue(q, p) == [q EXCEPT !.held = @ \cup {p}, !.socket = Append(@, p)]

(* Receiving `n` messages moves them to pending.  What an earlier call left *)
(* there is dropped first: the messages, not the packets the kernel holds.  *)
Receive(q, n) ==
    [q EXCEPT !.pending = Range(SubSeq(q.socket, 1, n)),
              !.socket = SubSeq(@, n + 1, Len(@))]

(* drain_batch: how many messages a call receives.  Without an error it     *)
(* stops at WouldBlock or at MAX_BATCH; an error other than WouldBlock can  *)
(* come before any of them, and then none of the batch is returned.         *)
Whole(q) == IF Len(q.socket) < MAX_BATCH THEN Len(q.socket) ELSE MAX_BATCH
drain_batch_short(q, n, failed) ==
    [queue |-> Receive(q, n), batch |-> IF failed THEN << >> ELSE SubSeq(q.socket, 1, n - 1)]

drain_batch(q, n, failed) ==
    [queue |-> Receive(q, n), batch |-> IF failed THEN << >> ELSE SubSeq(q.socket, 1, n)]

(* verdict_impl for the packets ps one after the other, of which the kernel *)
(* took the verdict of those in `sent`: a message leaves pending whether or *)
(* not it did; NotFound, and no change, for an id that is not pending.      *)
verdict_impl(q, ps, sent) ==
    [held |-> q.held \ (sent \cap q.pending), socket |-> q.socket, pending |-> q.pending \ ps]

(* the packets the kernel holds that no message can release any more *)
Stranded(q) == q.held \ (Range(q.socket) \cup q.pending)
=============================================================================
