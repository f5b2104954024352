-------------------------- MODULE ConnectionManager --------------------------
(***************************************************************************)
(* net::ConnectionManager: the flow engine together with microseg_conns_,  *)
(* the table of flows under an HTTP policy.  An entry holds the policy key *)
(* it was bound with and its HTTP connection state.  The methods are       *)
(* written as functions of a table, because one NFQUEUE callback applies   *)
(* several of them to the same packet.                                     *)
(***************************************************************************)
EXTENDS FlowEngine, HttpConnection

CONSTANTS
  RuleKeys,   \* policy names
  NoEntry     \* marks an id without a microseg entry

VARIABLE microseg_conns

Entry == [rule_key : RuleKeys, conn : Conn, idle : 0 .. StaleTimeout]

ASSUME NoEntryAssumption == NoEntry \notin Entry
ASSUME PayloadsAssumption == Payloads \subseteq Payload

MicrosegTracked(id) == microseg_conns[id] # NoEntry

\* payload_offset is populated for three kinds only.
HasPayload(p) ==
  PacketKind(p) \in {"Data", "Duplicate", "UnknownData"} /\ p.len > 0

\* Changed: only payload refreshes an entry.
MicrosegTouchPayload(conns, p) ==
  IF ~HasPayload(p) \/ conns[p.id] = NoEntry THEN conns ELSE [conns EXCEPT ![p.id].idle = 0]

\* Refresh the entry of this direction; duplicates and ignored packets do not.
MicrosegTouch(conns, p) ==
  IF PacketKind(p) \in {"Ignore", "Duplicate"} \/ conns[p.id] = NoEntry
    THEN conns
    ELSE [conns EXCEPT ![p.id].idle = 0]

\* Insert if absent, this direction only.
MicrosegTrack(conns, id, key) ==
  IF conns[id] # NoEntry
    THEN conns
    ELSE [conns EXCEPT ![id] = [rule_key |-> key, conn |-> NewConn, idle |-> 0]]

\* Changed: erase the packet's own direction only.
MicrosegCloseOwn(conns, p) ==
  IF PacketKind(p) = "Closed" THEN [conns EXCEPT ![p.id] = NoEntry] ELSE conns

\* Closed: erase both directions, whichever of them is tracked.
MicrosegClose(conns, p) ==
  IF PacketKind(p) = "Closed"
    THEN [conns EXCEPT ![p.id] = NoEntry, ![Peer(p.id)] = NoEntry]
    ELSE conns

\* An entry that has been fed a payload.
Fed(entry, conn) == [rule_key |-> entry.rule_key, conn |-> conn, idle |-> 0]

(***************************************************************************)
(* DispatchMicroseg as the callbacks reach it: with a payload, and an      *)
(* entry for the packet's direction.  Duplicates skip the parser.          *)
(***************************************************************************)
DispatchMicroseg(conns, p) ==
  IF PacketKind(p) = "Duplicate"
    THEN {[conns |-> conns, header |-> NoHeader]}
    ELSE {[conns |-> [conns EXCEPT ![p.id] = Fed(@, r.conn)],
           header |-> r.header] : r \in onData(conns[p.id].conn, p.payload)}

\* Changed: only what the engine evicts goes.
EvictStaleFlows ==
  /\ evict_stale_connections
  /\ microseg_conns' =
       [id \in ConnectionId |-> IF Stale(id) THEN NoEntry ELSE microseg_conns[id]]

(***************************************************************************)
(* The sweep: what the engine evicts goes, and then every entry that is    *)
(* itself past the timeout, known to the engine or not.                    *)
(***************************************************************************)
EvictStale ==
  /\ evict_stale_connections
  /\ microseg_conns' =
       [id \in ConnectionId |->
          IF Stale(id) \/ (MicrosegTracked(id) /\ microseg_conns[id].idle >= StaleTimeout)
            THEN NoEntry ELSE microseg_conns[id]]

AgeEntries ==
  microseg_conns' = [id \in ConnectionId |->
    IF MicrosegTracked(id) THEN [microseg_conns[id] EXCEPT !.idle = Older(@)] ELSE NoEntry]

ManagerInit ==
  /\ EngineInit
  /\ microseg_conns = [id \in ConnectionId |-> NoEntry]
=============================================================================
