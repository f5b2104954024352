----------------------------- MODULE FlowEngine -----------------------------
(***************************************************************************)
(* The TCB table of the Rust flow engine (crates/net_flow_engine).  The    *)
(* engine keeps one entry per direction of a TCP flow and classifies every *)
(* packet against it.  A packet is a record of the header fields the       *)
(* engine reads; the payload is opaque here.                               *)
(*                                                                         *)
(* Time: the code stores last_seen and compares now - last_seen with the   *)
(* timeout.  The model stores that difference, saturated at the timeout,   *)
(* as the field idle; Tick lets one unit of time pass.                     *)
(***************************************************************************)
EXTENDS Integers

CONSTANTS
  ConnectionId,   \* the <<source, destination>> pairs that packets carry
  SeqSpace,       \* size of the sequence space (2^32 in the code)
  MaxPayload,     \* longest payload of one packet
  StaleTimeout,   \* STALE_CONNECTION_TIMEOUT, in ticks
  Payloads,       \* what a payload can be
  NoFlow          \* marks an id without a TCB entry

VARIABLE tcbs

Peer(id) == <<id[2], id[1]>>

Seq32 == 0 .. SeqSpace - 1

FlowState == [seq : Seq32, idle : 0 .. StaleTimeout]

\* The packets that carry one of some ids.
PacketsOn(ids) == [id : ids, syn : BOOLEAN, fin : BOOLEAN, rst : BOOLEAN,
                   seq : Seq32, len : 0 .. MaxPayload, payload : Payloads]
Packet == PacketsOn(ConnectionId)

ASSUME ConnectionIdAssumption ==
  /\ \A id \in ConnectionId : id = <<id[1], id[2]>>
  /\ \A id \in ConnectionId : Peer(id) \in ConnectionId
ASSUME SizesAssumption ==
  /\ SeqSpace \in Nat \ {0}
  /\ MaxPayload \in Nat
  /\ MaxPayload < SeqSpace
  /\ StaleTimeout \in Nat \ {0}
ASSUME NoFlowAssumption == NoFlow \notin FlowState

Known(id) == tcbs[id] # NoFlow

\* u32::wrapping_add
WrappingAdd(s, n) == (s + n) % SeqSpace

-----------------------------------------------------------------------------
\* Changed: every segment of a known flow is data.
KindWithoutDuplicate(p) ==
  IF Known(p.id) THEN IF p.fin \/ p.rst THEN "Closed" ELSE "Data"
  ELSE IF p.rst THEN "Ignore" ELSE IF p.syn THEN "NewConnection" ELSE "UnknownData"

\* Changed: the next expected byte counts as a duplicate.
KindOffByOne(p) ==
  IF Known(p.id) /\ ~p.fin /\ ~p.rst /\ p.seq <= tcbs[p.id].seq
    THEN "Duplicate" ELSE KindWithoutDuplicate(p)

\* Changed: only a reset ends a flow.
KindFinIsData(p) ==
  IF Known(p.id) /\ p.fin /\ ~p.rst THEN "Data" ELSE KindWithoutDuplicate(p)

(***************************************************************************)
(* on_packet_internal.  The comparison of sequence numbers is plain, not   *)
(* modulo the sequence space, as in the code.                              *)
(***************************************************************************)
PacketKind(p) ==
  IF Known(p.id)
    THEN IF p.fin \/ p.rst             THEN "Closed"
         ELSE IF p.seq < tcbs[p.id].seq THEN "Duplicate"
         ELSE "Data"
    ELSE IF p.rst      THEN "Ignore"
         ELSE IF p.syn THEN "NewConnection"
         ELSE "UnknownData"

\* Changed: only the packet's own direction is removed.
OnClosedOneSide(p) ==
  /\ PacketKind(p) = "Closed"
  /\ tcbs' = [tcbs EXCEPT ![p.id] = NoFlow]

\* FIN or RST on a known flow removes both directions.
OnClosed(p) ==
  /\ PacketKind(p) = "Closed"
  /\ tcbs' = [tcbs EXCEPT ![p.id] = NoFlow, ![Peer(p.id)] = NoFlow]

OnData(p) ==
  /\ PacketKind(p) = "Data"
  /\ tcbs' = [tcbs EXCEPT ![p.id] = [seq |-> WrappingAdd(p.seq, p.len), idle |-> 0]]

\* A SYN on an unknown flow inserts its direction, and the other if absent.
OnNewConnection(p) ==
  /\ PacketKind(p) = "NewConnection"
  /\ tcbs' = [id \in ConnectionId |->
                IF id = p.id THEN [seq |-> WrappingAdd(p.seq, 1), idle |-> 0]
                ELSE IF id = Peer(p.id) /\ ~Known(id) THEN [seq |-> 0, idle |-> 0]
                ELSE tcbs[id]]

OnUntouched(p) ==
  /\ PacketKind(p) \in {"Duplicate", "Ignore", "UnknownData"}
  /\ UNCHANGED tcbs

receive(p) ==
  OnClosed(p) \/ OnData(p) \/ OnNewConnection(p) \/ OnUntouched(p)

\* Each direction is evicted by its own last_seen.
Stale(id) == Known(id) /\ tcbs[id].idle >= StaleTimeout

evict_stale_connections ==
  tcbs' = [id \in ConnectionId |-> IF Stale(id) THEN NoFlow ELSE tcbs[id]]

Older(n) == IF n < StaleTimeout THEN n + 1 ELSE n

AgeFlows ==
  tcbs' = [id \in ConnectionId |->
             IF Known(id) THEN [tcbs[id] EXCEPT !.idle = Older(@)] ELSE NoFlow]

-----------------------------------------------------------------------------
EngineInit == tcbs = [id \in ConnectionId |-> NoFlow]

EngineNext ==
  \/ \E p \in Packet : receive(p)
  \/ evict_stale_connections
  \/ AgeFlows

EngineSpec == EngineInit /\ [][EngineNext]_tcbs

-----------------------------------------------------------------------------
\* Every entry of the TCB table is absent or a well-formed FlowState.
EngineTypeOK == tcbs \in [ConnectionId -> FlowState \cup {NoFlow}]

(***************************************************************************)
(* The tracked sequence number of a direction that stays tracked only      *)
(* grows, except when a payload carries it past the end of the sequence    *)
(* space, where it restarts below MaxPayload (lib.rs:467-486: duplicates   *)
(* never move it back).                                                    *)
(***************************************************************************)
SeqOnlyGrows ==
  \A id \in ConnectionId :
    Known(id) /\ Known(id)' =>
      tcbs'[id].seq >= tcbs[id].seq \/ tcbs'[id].seq < MaxPayload

SeqNeverRegresses == [][SeqOnlyGrows]_tcbs

(***************************************************************************)
(* A flow loses one direction and keeps the other only when the lost       *)
(* direction was silent for the whole timeout: closing always takes both   *)
(* directions (lib.rs:454-456), the reaper takes each by its own           *)
(* last_seen (lib.rs:563-579).                                             *)
(***************************************************************************)
HalfLossIsStale ==
  \A id \in ConnectionId :
    Known(id) /\ Known(id)' /\ Known(Peer(id)) /\ ~Known(Peer(id))' =>
      tcbs[Peer(id)].idle >= StaleTimeout

HalvesPartOnlyWhenStale == [][HalfLossIsStale]_tcbs
=============================================================================
