------------------------- MODULE NfqCallbacksProofs -------------------------
(***************************************************************************)
(* The TCB table and the packet path around it, for every set of ids,      *)
(* sequence space, timeout, policy, header and mark: the types, and the    *)
(* action properties of FlowEngine and NfqCallbacks.  TypeOK is inductive. *)
(* The work is in the callbacks: Sound says of an answer what the          *)
(* properties need, and one lemma per stage of a callback builds it.       *)
(***************************************************************************)
EXTENDS NfqCallbacks, TLAPS

-----------------------------------------------------------------------------
(***************************************************************************)
(* The TCB table, for every set of connection ids, every sequence space,   *)
(* every payload bound and every timeout.                                  *)
(***************************************************************************)
\* The other direction of the other direction is the direction itself.
LEMMA PeerInvolution ==
  ASSUME NEW id \in ConnectionId
  PROVE  /\ Peer(id) \in ConnectionId
         /\ Peer(Peer(id)) = id
BY ConnectionIdAssumption DEF Peer

\* wrapping_add stays inside the sequence space.
LEMMA WrappingAddInRange ==
  ASSUME NEW s \in Seq32, NEW n \in Nat
  PROVE  WrappingAdd(s, n) \in Seq32
BY SizesAssumption DEF WrappingAdd, Seq32

\* wrapping_add of less than the sequence space either adds or wraps below
\* what was added.
LEMMA WrappingAddGrows ==
  ASSUME NEW s \in Seq32, NEW n \in 0 .. MaxPayload
  PROVE  \/ WrappingAdd(s, n) = s + n
         \/ WrappingAdd(s, n) < MaxPayload
<1>1. s \in 0 .. SeqSpace - 1 /\ n \in Nat /\ n <= MaxPayload /\ n < SeqSpace
  BY SizesAssumption DEF Seq32
<1>2. CASE s + n < SeqSpace
  BY <1>1, <1>2, SizesAssumption DEF WrappingAdd
<1>3. CASE s + n >= SeqSpace
  <2>1. (s + n) % SeqSpace = s + n - SeqSpace
    BY <1>1, <1>3, SizesAssumption
  <2> QED
    BY <2>1, <1>1, <1>3, SizesAssumption DEF WrappingAdd
<1> QED
  BY <1>1, <1>2, <1>3, SizesAssumption

-----------------------------------------------------------------------------
\* Each operation on the table, taken alone, keeps it well formed.
LEMMA ReceiveType ==
  ASSUME EngineTypeOK, NEW p \in Packet, receive(p)
  PROVE  EngineTypeOK'
<1> USE DEF EngineTypeOK
<1>0. /\ p.id \in ConnectionId /\ p.seq \in Seq32 /\ p.len \in Nat
      /\ Peer(p.id) \in ConnectionId
  BY PeerInvolution, SizesAssumption DEF Packet, PacketsOn
<1>1. \A n \in Nat : [seq |-> WrappingAdd(p.seq, n), idle |-> 0] \in FlowState
  BY <1>0, WrappingAddInRange, SizesAssumption DEF FlowState
<1>2. [seq |-> 0, idle |-> 0] \in FlowState
  BY SizesAssumption DEF FlowState, Seq32
<1>3. CASE OnClosed(p)
  BY <1>0, <1>3 DEF OnClosed
<1>4. CASE OnData(p)
  BY <1>0, <1>1, <1>4 DEF OnData
<1>5. CASE OnNewConnection(p)
  BY <1>0, <1>1, <1>2, <1>5 DEF OnNewConnection
<1>6. CASE OnUntouched(p)
  BY <1>6 DEF OnUntouched
<1> QED
  BY <1>3, <1>4, <1>5, <1>6 DEF receive

LEMMA EvictType ==
  ASSUME EngineTypeOK, evict_stale_connections
  PROVE  EngineTypeOK'
BY DEF EngineTypeOK, evict_stale_connections

LEMMA AgeType ==
  ASSUME EngineTypeOK, AgeFlows
  PROVE  EngineTypeOK'
<1>1. \A f \in FlowState : [f EXCEPT !.idle = Older(@)] \in FlowState
  BY SizesAssumption DEF FlowState, Older
<1> QED
  BY <1>1 DEF EngineTypeOK, AgeFlows, Known

(***************************************************************************)
(* The TCB table stays well formed whatever packets arrive and whenever    *)
(* the reaper runs.                                                        *)
(***************************************************************************)
THEOREM EngineTypeCorrect == EngineSpec => []EngineTypeOK
<1>1. EngineInit => EngineTypeOK
  BY DEF EngineInit, EngineTypeOK
<1>2. EngineTypeOK /\ [EngineNext]_tcbs => EngineTypeOK'
  <2> SUFFICES ASSUME EngineTypeOK, [EngineNext]_tcbs PROVE EngineTypeOK'
    OBVIOUS
  <2>1. CASE \E p \in Packet : receive(p)
    BY <2>1, ReceiveType
  <2>2. CASE evict_stale_connections
    BY <2>2, EvictType
  <2>3. CASE AgeFlows
    BY <2>3, AgeType
  <2>4. CASE UNCHANGED tcbs
    BY <2>4 DEF EngineTypeOK
  <2> QED
    BY <2>1, <2>2, <2>3, <2>4 DEF EngineNext
<1> QED
  BY <1>1, <1>2, PTL DEF EngineSpec

-----------------------------------------------------------------------------
(***************************************************************************)
(* No packet, eviction or passage of time moves the tracked sequence       *)
(* number of a surviving direction back, short of wrapping around.         *)
(***************************************************************************)
THEOREM SeqMonotone == EngineSpec => SeqNeverRegresses
<1>1. EngineTypeOK /\ [EngineNext]_tcbs => [SeqOnlyGrows]_tcbs
  <2> SUFFICES ASSUME EngineTypeOK, EngineNext,
                      NEW id \in ConnectionId, Known(id), Known(id)'
               PROVE  tcbs'[id].seq >= tcbs[id].seq \/ tcbs'[id].seq < MaxPayload
    BY DEF SeqOnlyGrows
  <2>0. tcbs[id] \in FlowState /\ tcbs[id].seq \in Int
    BY DEF EngineTypeOK, Known, FlowState, Seq32
  <2>1. ASSUME NEW p \in Packet, receive(p)
        PROVE  tcbs'[id].seq >= tcbs[id].seq \/ tcbs'[id].seq < MaxPayload
    <3>0. /\ p.id \in ConnectionId /\ p.seq \in Seq32 /\ p.len \in 0 .. MaxPayload
          /\ Peer(p.id) \in ConnectionId
      BY PeerInvolution DEF Packet, PacketsOn
    <3>1. CASE OnClosed(p)
      BY <3>0, <3>1, <2>0 DEF OnClosed, EngineTypeOK, Known
    <3>2. CASE OnData(p)
      <4>1. CASE p.id = id
        <5>1. p.seq >= tcbs[id].seq
          BY <2>0, <3>0, <3>2, <4>1 DEF OnData, PacketKind, Seq32
        <5>2. tcbs'[id].seq = WrappingAdd(p.seq, p.len)
          BY <3>0, <3>2, <4>1 DEF OnData, EngineTypeOK
        <5> QED
          BY <5>1, <5>2, <2>0, <3>0, WrappingAddGrows, SizesAssumption DEF Seq32
      <4>2. CASE p.id # id
        BY <3>0, <3>2, <4>2, <2>0 DEF OnData, EngineTypeOK
      <4> QED
        BY <4>1, <4>2
    <3>3. CASE OnNewConnection(p)
      <4>1. p.id # id
        BY <3>3 DEF OnNewConnection, PacketKind, Known
      <4>2. tcbs'[id] = tcbs[id]
        BY <3>0, <3>3, <4>1 DEF OnNewConnection, EngineTypeOK, Known
      <4> QED
        BY <4>2, <2>0
    <3>4. CASE OnUntouched(p)
      BY <3>4, <2>0 DEF OnUntouched
    <3> QED
      BY <2>1, <3>1, <3>2, <3>3, <3>4 DEF receive
  <2>2. CASE evict_stale_connections
    BY <2>0, <2>2 DEF evict_stale_connections, Known
  <2>3. CASE AgeFlows
    BY <2>0, <2>3 DEF AgeFlows, FlowState
  <2> QED
    BY <2>1, <2>2, <2>3 DEF EngineNext
<1> QED
  BY <1>1, EngineTypeCorrect, PTL DEF EngineSpec, SeqNeverRegresses

(***************************************************************************)
(* A flow is split into a tracked and an untracked half only by the        *)
(* reaper, and only the half that was silent for the timeout is lost.      *)
(***************************************************************************)
THEOREM HalvesStayTogether == EngineSpec => HalvesPartOnlyWhenStale
<1>1. EngineTypeOK /\ [EngineNext]_tcbs => [HalfLossIsStale]_tcbs
  <2> SUFFICES ASSUME EngineTypeOK, EngineNext, NEW id \in ConnectionId,
                      Known(id), Known(id)', Known(Peer(id)), ~Known(Peer(id))'
               PROVE  tcbs[Peer(id)].idle >= StaleTimeout
    BY DEF HalfLossIsStale
  <2>0. Peer(id) \in ConnectionId /\ Peer(Peer(id)) = id
    BY PeerInvolution
  <2>1. ASSUME NEW p \in Packet, receive(p) PROVE FALSE
    <3>0. /\ p.id \in ConnectionId /\ Peer(p.id) \in ConnectionId
          /\ Peer(Peer(p.id)) = p.id
      BY PeerInvolution DEF Packet, PacketsOn
    <3>1. CASE OnClosed(p)
      <4>1. Peer(id) = p.id \/ Peer(id) = Peer(p.id)
        BY <2>0, <3>0, <3>1 DEF OnClosed, EngineTypeOK, Known
      <4>2. id = Peer(p.id) \/ id = p.id
        BY <2>0, <3>0, <4>1
      <4> QED
        BY <3>0, <3>1, <4>2 DEF OnClosed, EngineTypeOK, Known
    <3>2. CASE OnData(p)
      <4>1. [seq |-> WrappingAdd(p.seq, p.len), idle |-> 0] # NoFlow
        BY WrappingAddInRange, SizesAssumption, NoFlowAssumption DEF Packet, PacketsOn, FlowState
      <4> QED
        BY <2>0, <3>0, <3>2, <4>1 DEF OnData, EngineTypeOK, Known
    <3>3. CASE OnNewConnection(p)
      <4>1. [seq |-> WrappingAdd(p.seq, 1), idle |-> 0] # NoFlow
        BY WrappingAddInRange, SizesAssumption, NoFlowAssumption DEF Packet, PacketsOn, FlowState
      <4> QED
        BY <2>0, <3>0, <3>3, <4>1 DEF OnNewConnection, EngineTypeOK, Known
    <3>4. CASE OnUntouched(p)
      BY <3>4 DEF OnUntouched, Known
    <3> QED
      BY <2>1, <3>1, <3>2, <3>3, <3>4 DEF receive
  <2>2. CASE evict_stale_connections
    BY <2>0, <2>2 DEF evict_stale_connections, Known, Stale
  <2>3. CASE AgeFlows
    <3>1. [tcbs[Peer(id)] EXCEPT !.idle = Older(@)] # NoFlow
      BY <2>0, SizesAssumption, NoFlowAssumption
      DEF EngineTypeOK, Known, FlowState, Older
    <3> QED
      BY <2>0, <2>3, <3>1 DEF AgeFlows, Known
  <2> QED
    BY <2>1, <2>2, <2>3 DEF EngineNext
<1> QED
  BY <1>1, EngineTypeCorrect, PTL DEF EngineSpec, HalvesPartOnlyWhenStale

-----------------------------------------------------------------------------
Conns == [ConnectionId -> Entry \cup {NoEntry}]

-----------------------------------------------------------------------------
(***************************************************************************)
(* The HTTP connection.                                                    *)
(***************************************************************************)
LEMMA dispatchType ==
  ASSUME NEW conn \in Conn, NEW d \in Payload, NEW r \in dispatch(conn, d)
  PROVE  r.conn \in Conn /\ r.header \in Headers \cup {NoHeader}
BY DEF dispatch, Conn, Payload, Result, Headless, Partial

LEMMA onDataType ==
  ASSUME NEW conn \in Conn, NEW d \in Payload, NEW r \in onData(conn, d)
  PROVE  r.conn \in Conn /\ r.header \in Headers \cup {NoHeader}
<1>0. Headless("headers") \in Conn
  BY DEF Conn, Headless
<1>1. CASE conn.at = "inspect"
  <2>1. r \in inspect(d)
    BY <1>1 DEF onData
  <2>2. CASE d.part \in {"whole", "head"}
    BY <1>0, <2>1, <2>2, dispatchType DEF inspect
  <2>3. CASE d.part \in {"stub", "tail"}
    BY <2>1, <2>3 DEF inspect, Result, Headless, Conn, Payload
  <2> QED
    BY <2>2, <2>3 DEF Payload
<1>2. CASE conn.at = "stub"
  BY <1>2 DEF onData, afterStub, Result, Headless, Partial, Conn
<1>3. CASE conn.at = "wedged"
  BY <1>3 DEF onData, Result
<1>4. CASE conn.at \in {"headers", "partial"}
  BY <1>4, dispatchType DEF onData
<1> QED
  BY <1>1, <1>2, <1>3, <1>4 DEF Conn

-----------------------------------------------------------------------------
(***************************************************************************)
(* The table of entries.                                                   *)
(***************************************************************************)
\* A packet's fields, and the kinds that carry a payload.
LEMMA PacketFacts ==
  ASSUME NEW p \in Packet
  PROVE  /\ p.id \in ConnectionId /\ Peer(p.id) \in ConnectionId
         /\ p.payload \in Payload
         /\ HasPayload(p) => PacketKind(p) # "Closed"
BY PeerInvolution, PayloadsAssumption DEF Packet, PacketsOn, HasPayload

\* An entry keeps its binding when only its idle time or parser state changes.
LEMMA EntryFacts ==
  ASSUME NEW e \in Entry
  PROVE  /\ e # NoEntry
         /\ [e EXCEPT !.idle = 0] \in Entry
         /\ [e EXCEPT !.idle = 0].rule_key = e.rule_key
         /\ [e EXCEPT !.idle = Older(@)] \in Entry
         /\ [e EXCEPT !.idle = Older(@)].rule_key = e.rule_key
BY NoEntryAssumption, SizesAssumption DEF Entry, Older

\* conns binds no flow that the table does not bind, and none differently.
Within(conns) ==
  /\ conns \in Conns
  /\ \A id \in ConnectionId :
       conns[id] # NoEntry => /\ MicrosegTracked(id)
                              /\ conns[id].rule_key = microseg_conns[id].rule_key

LEMMA TouchWithin ==
  ASSUME microseg_conns \in Conns, NEW p \in Packet
  PROVE  /\ Within(MicrosegTouch(microseg_conns, p))
         /\ MicrosegTracked(p.id) => MicrosegTouch(microseg_conns, p)[p.id] # NoEntry
<1> USE DEF Within, MicrosegTracked, Conns
<1>1. CASE PacketKind(p) \in {"Ignore", "Duplicate"} \/ microseg_conns[p.id] = NoEntry
  BY <1>1 DEF MicrosegTouch
<1>2. CASE ~ (PacketKind(p) \in {"Ignore", "Duplicate"} \/ microseg_conns[p.id] = NoEntry)
  <2>1. MicrosegTouch(microseg_conns, p)
          = [microseg_conns EXCEPT ![p.id] = [microseg_conns[p.id] EXCEPT !.idle = 0]]
    BY <1>2 DEF MicrosegTouch
  <2>2. p.id \in ConnectionId /\ microseg_conns[p.id] \in Entry
    BY <1>2, PacketFacts
  <2>3. ASSUME NEW e \in Entry, e # NoEntry, e.rule_key = microseg_conns[p.id].rule_key
        PROVE  /\ Within([microseg_conns EXCEPT ![p.id] = e])
               /\ [microseg_conns EXCEPT ![p.id] = e][p.id] # NoEntry
    BY <1>2, <2>2, <2>3
  <2> HIDE DEF Within, MicrosegTracked, Conns
  <2> QED
    BY <2>1, <2>2, <2>3, EntryFacts, Zenon
<1> QED
  BY <1>1, <1>2

LEMMA CloseWithin ==
  ASSUME NEW conns, Within(conns), NEW p \in Packet
  PROVE  /\ Within(MicrosegClose(conns, p))
         /\ PacketKind(p) = "Closed" => /\ MicrosegClose(conns, p)[p.id] = NoEntry
                                        /\ MicrosegClose(conns, p)[Peer(p.id)] = NoEntry
         /\ PacketKind(p) # "Closed" => MicrosegClose(conns, p) = conns
BY PacketFacts DEF Within, Conns, MicrosegClose

\* conns binds no flow differently from the table; it may bind more flows.
Keeps(conns) ==
  /\ conns \in Conns
  /\ \A id \in ConnectionId :
       MicrosegTracked(id) /\ conns[id] # NoEntry =>
         conns[id].rule_key = microseg_conns[id].rule_key

LEMMA TrackKeeps ==
  ASSUME NEW conns, Keeps(conns), NEW id \in ConnectionId, ~MicrosegTracked(id),
         NEW key \in RuleKeys
  PROVE  /\ Keeps(MicrosegTrack(conns, id, key))
         /\ MicrosegTrack(conns, id, key)[id] # NoEntry
         /\ \A other \in ConnectionId \ {id} :
              MicrosegTrack(conns, id, key)[other] = conns[other]
<1>1. [rule_key |-> key, conn |-> NewConn, idle |-> 0] \in Entry
  BY SizesAssumption DEF Entry, NewConn, Conn
<1> QED
  BY <1>1, NoEntryAssumption DEF Keeps, Conns, MicrosegTrack

LEMMA DispatchKeeps ==
  ASSUME NEW conns, Keeps(conns), NEW p \in Packet, conns[p.id] # NoEntry,
         NEW r \in DispatchMicroseg(conns, p)
  PROVE  Keeps(r.conns) /\ r.header \in Headers \cup {NoHeader}
<1>0. p.id \in ConnectionId /\ conns[p.id] \in Entry /\ p.payload \in Payload
  BY PacketFacts DEF Keeps, Conns
<1>1. CASE PacketKind(p) = "Duplicate"
  BY <1>1 DEF DispatchMicroseg
<1>2. CASE PacketKind(p) # "Duplicate"
  <2>1. PICK o \in onData(conns[p.id].conn, p.payload) :
          r = [conns |-> [conns EXCEPT ![p.id] = Fed(@, o.conn)],
               header |-> o.header]
    BY <1>2 DEF DispatchMicroseg
  <2>2. conns[p.id].conn \in Conn
    BY <1>0 DEF Entry
  <2>3. o.conn \in Conn /\ o.header \in Headers \cup {NoHeader}
    BY <1>0, <2>2, onDataType
  <2> DEFINE e == Fed(conns[p.id], o.conn)
  <2>4. e \in Entry /\ e.rule_key = conns[p.id].rule_key
    BY <1>0, <2>3, SizesAssumption DEF Entry, Fed
  <2>5. r.conns = [conns EXCEPT ![p.id] = e]
    BY <1>0, <2>1 DEF Keeps, Conns
  <2> QED
    BY <1>0, <2>1, <2>3, <2>4, <2>5 DEF Keeps, Conns
<1> QED
  BY <1>1, <1>2

-----------------------------------------------------------------------------
(***************************************************************************)
(* The callbacks.                                                          *)
(***************************************************************************)
\* A match is the default, or a rule's action under a policy key.
LEMMA MatchFacts ==
  ASSUME TypeOK, NEW id, NEW dir, NEW m \in MatchMicroPolicyRule(id, dir)
  PROVE  (m.action \in RuleActions /\ m.rule_key \in RuleKeys) \/ m.action = kDefault
<1>1. \A r \in MatchNetPolicyRule(id, dir) \cup MatchNetPolicyRule(Peer(id), Opposite(dir)) :
        r.action \in RuleActions /\ r.rule_key \in RuleKeys
  BY DEF MatchNetPolicyRule, TypeOK, Rule
<1> QED
  BY <1>1 DEF MatchMicroPolicyRule, Match, NoMatch

\* What an answer r to the packet p, which carried nfmark, does.
Sound(dir, p, nfmark, r) ==
  /\ Keeps(r.conns)
  /\ r.mark \in Marks
  /\ PacketKind(p) = "Closed" =>
       \A id \in {p.id, Peer(p.id)} : MicrosegTracked(id) => r.conns[id] = NoEntry
  /\ r.mark = kAllow /\ r.verdict # "drop" =>
       \/ nfmark = kAllow
       \/ \E m \in MatchMicroPolicyRule(p.id, dir) : m.action # kDeny
       \/ MicrosegTracked(p.id) /\ PacketKind(p) = "Closed"

LEMMA TrackMarkFacts ==
  ASSUME NEW dir
  PROVE  TrackMark(dir) \in Marks /\ TrackMark(dir) # kAllow
BY DEF TrackMark, Marks, kAllowReq, kAllowRsp, kAllow

LEMMA InspectSound ==
  ASSUME NEW dir, NEW p \in Packet, NEW nfmark, NEW conns, NEW key,
         Keeps(conns), conns[p.id] # NoEntry, PacketKind(p) # "Closed",
         NEW r \in Inspect(dir, p, conns, key)
  PROVE  Sound(dir, p, nfmark, r)
<1>1. PICK d \in DispatchMicroseg(conns, p) : r = ByHeader(dir, key, d)
  BY DEF Inspect
<1>2. Keeps(d.conns)
  BY DispatchKeeps
<1>3. /\ r.conns = d.conns
      /\ r.mark \in {TrackMark(dir), kDefault}
  BY <1>1 DEF ByHeader, Accept, Answer
<1> QED
  BY <1>2, <1>3, TrackMarkFacts DEF Sound, Marks, kAllow, kDefault

LEMMA TrackedSound ==
  ASSUME NEW dir, NEW p \in Packet, NEW nfmark \in Marks, NEW conns,
         Within(conns), MicrosegTracked(p.id),
         PacketKind(p) = "Closed" => conns[p.id] = NoEntry /\ conns[Peer(p.id)] = NoEntry,
         PacketKind(p) # "Closed" => conns[p.id] # NoEntry,
         NEW r \in Tracked(dir, p, nfmark, conns)
  PROVE  Sound(dir, p, nfmark, r)
<1>0. Keeps(conns)
  BY DEF Within, Keeps
<1>1. CASE PacketKind(p) = "Closed"
  <2>1. r = Accept(conns, kAllow)
    BY <1>1 DEF Tracked
  <2> QED
    BY <1>0, <1>1, <2>1 DEF Sound, Accept, Answer, Marks, kAllow
<1>2. CASE PacketKind(p) # "Closed"
  <2>1. CASE r \in {Accept(conns, TrackMark(dir)), Accept(conns, nfmark)}
    BY <1>0, <1>2, <2>1, TrackMarkFacts DEF Sound, Accept, Answer
  <2>2. CASE r \in Inspect(dir, p, conns, microseg_conns[p.id].rule_key)
    BY <1>0, <1>2, <2>2, InspectSound
  <2> QED
    BY <1>2, <2>1, <2>2 DEF Tracked
<1> QED
  BY <1>1, <1>2

LEMMA BindSound ==
  ASSUME TypeOK, NEW dir, NEW p \in Packet, NEW nfmark \in Marks, NEW conns,
         Within(conns), ~MicrosegTracked(p.id), p.syn \/ HasPayload(p),
         PacketKind(p) = "Closed" => conns[p.id] = NoEntry /\ conns[Peer(p.id)] = NoEntry,
         NEW m \in MatchMicroPolicyRule(p.id, dir),
         NEW r \in Bind(dir, p, nfmark, conns, m)
  PROVE  Sound(dir, p, nfmark, r)
<1>0. Keeps(conns) /\ p.id \in ConnectionId /\ Peer(p.id) \in ConnectionId
  BY PacketFacts DEF Within, Keeps
<1>1. CASE m.action = kDefault
  BY <1>0, <1>1 DEF Bind, Sound, Accept, Answer, Marks, kAllow, kDefault, kDeny
<1>2. CASE m.action # kDefault /\ ~HasHttp(dir, m.rule_key)
  BY <1>0, <1>2 DEF Bind, Sound, ByRule, Answer, Marks, kAllow, kDeny
<1>3. CASE m.action # kDefault /\ HasHttp(dir, m.rule_key)
  <2> DEFINE bound == MicrosegTrack(conns, p.id, m.rule_key)
  <2>1. /\ Keeps(bound) /\ bound[p.id] # NoEntry
        /\ \A other \in ConnectionId \ {p.id} : bound[other] = conns[other]
    BY <1>0, <1>3, MatchFacts, TrackKeeps
  <2> HIDE DEF bound
  <2>2. CASE p.syn
    <3>1. r = Accept(bound, TrackMark(dir))
      BY <1>3, <2>2 DEF Bind, bound
    <3> QED
      BY <1>0, <2>1, <3>1, TrackMarkFacts DEF Sound, Accept, Answer
  <2>3. CASE ~p.syn
    <3>1. r \in Inspect(dir, p, bound, m.rule_key) /\ PacketKind(p) # "Closed"
      BY <1>3, <2>3, PacketFacts DEF Bind, bound
    <3> QED
      BY <2>1, <3>1, InspectSound
  <2> QED
    BY <2>2, <2>3
<1> QED
  BY <1>1, <1>2, <1>3

LEMMA TcpSound ==
  ASSUME TypeOK, NEW dir, NEW p \in Packet, NEW nfmark \in Marks,
         NEW r \in TcpAnswers(dir, p, nfmark)
  PROVE  Sound(dir, p, nfmark, r)
<1> DEFINE touched == MicrosegTouch(microseg_conns, p)
           conns == MicrosegClose(touched, p)
<1>1. /\ Within(touched)
      /\ MicrosegTracked(p.id) => touched[p.id] # NoEntry
  BY TouchWithin DEF TypeOK, Conns
<1> HIDE DEF touched
<1>2. /\ Within(conns)
      /\ PacketKind(p) = "Closed" => conns[p.id] = NoEntry /\ conns[Peer(p.id)] = NoEntry
      /\ PacketKind(p) # "Closed" => conns = touched
  BY <1>1, CloseWithin
<1> HIDE DEF conns
<1>3. CASE PacketKind(p) = "Ignore"
  <2>1. r = Accept(touched, TrackMark(dir))
    BY <1>3 DEF TcpAnswers, touched
  <2> QED
    BY <1>1, <1>3, <2>1, TrackMarkFacts DEF Sound, Accept, Answer, Within, Keeps
<1>4. CASE PacketKind(p) # "Ignore" /\ MicrosegTracked(p.id)
  <2>1. r \in Tracked(dir, p, nfmark, conns)
    BY <1>4 DEF TcpAnswers, touched, conns
  <2> QED
    BY <1>1, <1>2, <1>4, <2>1, TrackedSound
<1>5. CASE PacketKind(p) # "Ignore" /\ ~MicrosegTracked(p.id)
  <2>1. r \in Untracked(dir, p, nfmark, conns)
    BY <1>5 DEF TcpAnswers, touched, conns
  <2>2. CASE ~p.syn /\ ~HasPayload(p)
    <3>1. r = Accept(conns, TrackMark(dir))
      BY <2>1, <2>2 DEF Untracked
    <3> QED
      BY <1>2, <3>1, PacketFacts, TrackMarkFacts DEF Sound, Accept, Answer, Within, Keeps
  <2>3. CASE p.syn \/ HasPayload(p)
    <3>1. PICK m \in MatchMicroPolicyRule(p.id, dir) : r \in Bind(dir, p, nfmark, conns, m)
      BY <2>1, <2>3 DEF Untracked
    <3> QED
      BY <1>2, <1>5, <2>3, <3>1, BindSound
  <2> QED
    BY <2>2, <2>3 DEF Packet, PacketsOn
<1> QED
  BY <1>3, <1>4, <1>5

\* A datagram is let through by a rule or by default.
LEMMA DatagramSound ==
  ASSUME TypeOK, NEW dir, NEW id, NEW nfmark \in Marks,
         NEW r \in DatagramAnswers(dir, id, nfmark)
  PROVE  /\ r.mark \in Marks
         /\ r.mark = kAllow /\ r.verdict # "drop" =>
              \E m \in MatchMicroPolicyRule(id, dir) : m.action # kDeny
BY DEF DatagramAnswers, ByRule, Accept, Answer, Marks, kAllow, kDefault, kDeny

-----------------------------------------------------------------------------
(***************************************************************************)
(* The entries an answer binds, and the ones it leaves alone.              *)
(***************************************************************************)
\* The parser leaves an entry its key.
LEMMA DispatchKey ==
  ASSUME NEW conns \in Conns, NEW p \in Packet, conns[p.id] # NoEntry,
         NEW d \in DispatchMicroseg(conns, p)
  PROVE  d.conns[p.id].rule_key = conns[p.id].rule_key
<1>0. p.id \in ConnectionId /\ conns[p.id] \in Entry
  BY PacketFacts DEF Conns
<1>1. CASE PacketKind(p) = "Duplicate"
  BY <1>1 DEF DispatchMicroseg
<1>2. CASE PacketKind(p) # "Duplicate"
  <2>1. PICK o \in onData(conns[p.id].conn, p.payload) :
          d = [conns |-> [conns EXCEPT ![p.id] = Fed(@, o.conn)], header |-> o.header]
    BY <1>2 DEF DispatchMicroseg
  <2>2. d.conns[p.id] = Fed(conns[p.id], o.conn)
    BY <1>0, <2>1 DEF Conns
  <2> QED
    BY <2>2 DEF Fed
<1> QED
  BY <1>1, <1>2

\* A payload under HTTP rules is let through, marked for the next look.
LEMMA InspectTracks ==
  ASSUME NEW conns \in Conns, NEW p \in Packet, conns[p.id] # NoEntry,
         NEW dir, NEW key, HasHttp(dir, key), NEW r \in Inspect(dir, p, conns, key)
  PROVE  /\ r.verdict # "drop" /\ r.mark = TrackMark(dir)
         /\ r.conns[p.id].rule_key = conns[p.id].rule_key
<1>1. PICK d \in DispatchMicroseg(conns, p) : r = ByHeader(dir, key, d)
  BY DEF Inspect
<1>2. d.conns[p.id].rule_key = conns[p.id].rule_key
  BY DispatchKey
<1>3. r.verdict # "drop" /\ r.mark = TrackMark(dir) /\ r.conns = d.conns
  BY <1>1 DEF ByHeader, Accept, Answer
<1> QED
  BY <1>2, <1>3

\* A rule with HTTP rules binds the flow to its key, and examines it.
LEMMA BindTracks ==
  ASSUME NEW conns \in Conns, NEW p \in Packet, conns[p.id] = NoEntry,
         NEW dir, NEW nfmark, NEW m, m.action # kDefault,
         m.rule_key \in RuleKeys, HasHttp(dir, m.rule_key),
         NEW r \in Bind(dir, p, nfmark, conns, m)
  PROVE  /\ r.verdict # "drop" /\ r.mark = TrackMark(dir)
         /\ r.conns[p.id].rule_key = m.rule_key
<1> DEFINE entry == [rule_key |-> m.rule_key, conn |-> NewConn, idle |-> 0]
           bound == MicrosegTrack(conns, p.id, m.rule_key)
<1>0. p.id \in ConnectionId
  BY PacketFacts
<1>1. entry \in Entry /\ entry # NoEntry /\ entry.rule_key = m.rule_key
  BY SizesAssumption, NoEntryAssumption DEF Entry, NewConn, Conn
<1>2. bound = [conns EXCEPT ![p.id] = entry]
  BY DEF MicrosegTrack
<1> HIDE DEF entry, bound
<1>3. bound \in Conns /\ bound[p.id] # NoEntry /\ bound[p.id].rule_key = m.rule_key
  <2>1. bound \in Conns /\ bound[p.id] = entry
    BY <1>0, <1>1, <1>2 DEF Conns
  <2> QED
    BY <1>1, <2>1
<1>4. CASE p.syn
  <2>1. r = Accept(bound, TrackMark(dir))
    BY <1>4 DEF Bind, bound
  <2> QED
    BY <1>3, <2>1 DEF Accept, Answer
<1>5. CASE ~p.syn
  <2>1. r \in Inspect(dir, p, bound, m.rule_key)
    BY <1>5 DEF Bind, bound
  <2> QED
    BY <1>3, <2>1, InspectTracks
<1> QED
  BY <1>4, <1>5

\* The parser works on the entry of the packet.
LEMMA InspectOther ==
  ASSUME NEW conns \in Conns, NEW p \in Packet, NEW id \in ConnectionId \ {p.id},
         NEW dir, NEW key, NEW r \in Inspect(dir, p, conns, key)
  PROVE  r.conns[id] = conns[id]
<1>1. PICK d \in DispatchMicroseg(conns, p) : r = ByHeader(dir, key, d)
  BY DEF Inspect
<1>2. r.conns = d.conns
  BY <1>1 DEF ByHeader, Accept, Answer
<1>3. d.conns[id] = conns[id]
  <2>1. CASE PacketKind(p) = "Duplicate"
    BY <2>1 DEF DispatchMicroseg
  <2>2. CASE PacketKind(p) # "Duplicate"
    <3>1. PICK o \in onData(conns[p.id].conn, p.payload) :
            d = [conns |-> [conns EXCEPT ![p.id] = Fed(@, o.conn)], header |-> o.header]
      BY <2>2 DEF DispatchMicroseg
    <3> QED
      BY <3>1 DEF Conns
  <2> QED
    BY <2>1, <2>2
<1> QED
  BY <1>2, <1>3

\* An answer binds the flow of its packet only.
LEMMA AnswerOther ==
  ASSUME TypeOK, NEW p \in Packet, NEW id \in ConnectionId \ {p.id}, ~MicrosegTracked(id),
         NEW dir, NEW nfmark \in Marks, NEW r \in TcpAnswers(dir, p, nfmark)
  PROVE  r.conns[id] = NoEntry
<1> DEFINE touched == MicrosegTouch(microseg_conns, p)
           conns == MicrosegClose(touched, p)
<1>1. Within(touched)
  BY TouchWithin DEF TypeOK, Conns
<1> HIDE DEF touched
<1>2. Within(conns)
  BY <1>1, CloseWithin
<1> HIDE DEF conns
<1>3. conns \in Conns /\ conns[id] = NoEntry /\ touched[id] = NoEntry
  BY <1>1, <1>2 DEF Within
<1>4. \/ \E mark : r = Accept(touched, mark) \/ r = Accept(conns, mark)
      \/ \E key : r \in Inspect(dir, p, conns, key)
      \/ \E m \in MatchMicroPolicyRule(p.id, dir) : r \in Bind(dir, p, nfmark, conns, m)
  BY DEF TcpAnswers, Tracked, Untracked, touched, conns
<1>5. ASSUME NEW mark, r = Accept(touched, mark) \/ r = Accept(conns, mark)
      PROVE  r.conns[id] = NoEntry
  BY <1>3, <1>5 DEF Accept, Answer
<1>6. ASSUME NEW key, r \in Inspect(dir, p, conns, key)
      PROVE  r.conns[id] = NoEntry
  BY <1>3, <1>6, InspectOther
<1>7. ASSUME NEW m \in MatchMicroPolicyRule(p.id, dir), r \in Bind(dir, p, nfmark, conns, m)
      PROVE  r.conns[id] = NoEntry
  <2> DEFINE bound == MicrosegTrack(conns, p.id, m.rule_key)
  <2>1. CASE r = Accept(conns, kAllow) \/ r = ByRule(conns, nfmark, m)
    BY <1>3, <2>1 DEF Accept, ByRule, Answer
  <2>2. CASE m.action # kDefault /\ (r = Accept(bound, TrackMark(dir)) \/ r \in Inspect(dir, p, bound, m.rule_key))
    <3>1. m.rule_key \in RuleKeys
      BY <2>2, MatchFacts
    <3>2. [rule_key |-> m.rule_key, conn |-> NewConn, idle |-> 0] \in Entry
      BY <3>1, SizesAssumption DEF Entry, NewConn, Conn
    <3>3. bound \in Conns /\ bound[id] = NoEntry
      BY <1>3, <3>2, PacketFacts DEF MicrosegTrack, Conns
    <3> HIDE DEF bound
    <3> QED
      BY <2>2, <3>3, InspectOther DEF Accept, Answer
  <2> QED
    BY <1>7, <2>1, <2>2 DEF Bind
<1> QED
  BY <1>4, <1>5, <1>6, <1>7

\* Without a payload, the parser stays as it is, and only a SYN binds.
LEMMA BareAnswer ==
  ASSUME TypeOK, NEW p \in Packet, p.len = 0, ~p.rst, p.syn => ~p.fin,
         NEW dir, NEW nfmark,
         NEW r \in TcpAnswers(dir, p, nfmark), r.conns[p.id] # NoEntry
  PROVE  /\ PacketKind(p) # "Closed"
         /\ MicrosegTracked(p.id) => r.conns[p.id].conn = microseg_conns[p.id].conn
         /\ ~MicrosegTracked(p.id) => p.syn /\ r.conns[p.id].conn = NewConn
<1> DEFINE touched == MicrosegTouch(microseg_conns, p)
           conns == MicrosegClose(touched, p)
<1>0. p.id \in ConnectionId /\ ~HasPayload(p)
  BY PacketFacts DEF HasPayload
<1>1. Within(touched)
  BY TouchWithin DEF TypeOK, Conns
<1>2. ASSUME touched[p.id] # NoEntry
      PROVE  MicrosegTracked(p.id) /\ touched[p.id].conn = microseg_conns[p.id].conn
  <2>1. MicrosegTracked(p.id)
    BY <1>0, <1>1, <1>2 DEF Within
  <2>2. microseg_conns \in Conns /\ microseg_conns[p.id] \in Entry
    BY <1>0, <2>1 DEF TypeOK, MicrosegTracked, Conns
  <2> QED
    BY <1>0, <2>1, <2>2 DEF MicrosegTouch, Entry, Conns
<1> HIDE DEF touched
<1>3. /\ Within(conns)
      /\ PacketKind(p) = "Closed" => conns[p.id] = NoEntry
      /\ PacketKind(p) # "Closed" => conns = touched
  BY <1>1, CloseWithin
<1> HIDE DEF conns
<1>4. ASSUME NEW mark, (r = Accept(touched, mark) /\ PacketKind(p) # "Closed") \/ r = Accept(conns, mark)
      PROVE  /\ PacketKind(p) # "Closed" /\ MicrosegTracked(p.id)
             /\ r.conns[p.id].conn = microseg_conns[p.id].conn
  <2>1. PacketKind(p) # "Closed" /\ r.conns = touched
    BY <1>3, <1>4 DEF Accept, Answer
  <2> QED
    BY <1>2, <2>1
<1>5. CASE PacketKind(p) = "Ignore"
  <2>1. r = Accept(touched, TrackMark(dir))
    BY <1>5 DEF TcpAnswers, touched
  <2> QED
    BY <1>4, <1>5, <2>1
<1>6. CASE PacketKind(p) # "Ignore" /\ MicrosegTracked(p.id)
  <2>1. r \in Tracked(dir, p, nfmark, conns)
    BY <1>6 DEF TcpAnswers, touched, conns
  <2>2. r = Accept(conns, kAllow) \/ r = Accept(conns, TrackMark(dir))
    BY <1>0, <2>1 DEF Tracked
  <2> QED
    BY <1>4, <1>6, <2>2
<1>7. CASE PacketKind(p) # "Ignore" /\ ~MicrosegTracked(p.id)
  <2>1. r \in Untracked(dir, p, nfmark, conns) /\ conns[p.id] = NoEntry
    BY <1>0, <1>3, <1>7 DEF TcpAnswers, touched, conns, Within
  <2>2. p.syn
    BY <1>0, <1>4, <1>7, <2>1 DEF Untracked, Packet, PacketsOn
  <2>3. PICK m \in MatchMicroPolicyRule(p.id, dir) : r \in Bind(dir, p, nfmark, conns, m)
    BY <2>1, <2>2 DEF Untracked
  <2>4. r.conns = MicrosegTrack(conns, p.id, m.rule_key)
    BY <2>1, <2>2, <2>3 DEF Bind, ByRule, Accept, Answer
  <2>5. r.conns[p.id].conn = NewConn
    BY <1>0, <1>3, <2>1, <2>4 DEF MicrosegTrack, Within, Conns
  <2>6. PacketKind(p) # "Closed"
    BY <1>7, <2>2 DEF PacketKind
  <2> QED
    BY <1>7, <2>2, <2>5, <2>6
<1> QED
  BY <1>5, <1>6, <1>7

-----------------------------------------------------------------------------
(***************************************************************************)
(* Types.                                                                  *)
(***************************************************************************)
\* Marks stay marks when a packet leaves the queue.
LEMMA DequeueType ==
  ASSUME TypeOK, NEW id \in ConnectionId, NEW verdict, NEW mark \in Marks,
         Dequeue(id, verdict, mark)
  PROVE  /\ connmark' \in [Flows -> Marks]
         /\ skbmark' \in [ConnectionId -> Marks \cup {NoPacket}]
BY DEF Dequeue, TypeOK, Flows

\* A callback takes a TCP packet or a datagram that waits in its own queue.
LEMMA CallbackCases ==
  ASSUME NEW dir, Callback(dir)
  PROVE  \/ \E p \in Packet :
              /\ Passes(p.id, dir)
              /\ \E r \in TcpAnswers(dir, p, skbmark[p.id]) : TcpCallback(dir, p, r)
         \/ \E id \in ConnectionId :
              /\ Passes(id, dir)
              /\ \E r \in DatagramAnswers(dir, id, skbmark[id]) : DatagramCallback(dir, id, r)
<1>1. ASSUME NEW p \in PacketsOn(Waiting(dir) \ DatagramIds)
      PROVE  p \in Packet /\ Passes(p.id, dir)
  BY DEF PacketsOn, Packet, Waiting
<1>2. ASSUME NEW id \in Waiting(dir) \cap DatagramIds
      PROVE  id \in ConnectionId /\ Passes(id, dir)
  BY DEF Waiting
<1> QED
  BY <1>1, <1>2, Zenon DEF Callback

\* The two queues' callbacks, on TCP and on datagrams.
LEMMA CallbackType ==
  ASSUME TypeOK, NEW dir, Callback(dir)
  PROVE  TypeOK'
<1>1. ASSUME NEW p \in Packet, NEW r \in TcpAnswers(dir, p, skbmark[p.id]), TcpCallback(dir, p, r)
      PROVE  TypeOK'
  <2>1. p.id \in ConnectionId /\ skbmark[p.id] \in Marks
    BY <1>1, PacketFacts DEF TcpCallback, TypeOK
  <2>2. Sound(dir, p, skbmark[p.id], r)
    BY <1>1, <2>1, TcpSound DEF TcpCallback
  <2>3. EngineTypeOK'
    BY <1>1, ReceiveType DEF TcpCallback, TypeOK
  <2>4. microseg_conns' \in Conns
    BY <1>1, <2>2 DEF TcpCallback, Sound, Keeps
  <2>5. /\ connmark' \in [Flows -> Marks]
        /\ skbmark' \in [ConnectionId -> Marks \cup {NoPacket}]
    BY <1>1, <2>1, <2>2, DequeueType DEF TcpCallback, Sound
  <2> QED
    BY <1>1, <2>3, <2>4, <2>5 DEF TypeOK, Conns, TcpCallback, policy
<1>2. ASSUME NEW id \in ConnectionId, NEW r \in DatagramAnswers(dir, id, skbmark[id]),
             DatagramCallback(dir, id, r)
      PROVE  TypeOK'
  <2>1. skbmark[id] \in Marks
    BY <1>2 DEF DatagramCallback, TypeOK
  <2>2. r.mark \in Marks
    BY <1>2, <2>1, DatagramSound DEF DatagramCallback
  <2>3. /\ connmark' \in [Flows -> Marks]
        /\ skbmark' \in [ConnectionId -> Marks \cup {NoPacket}]
    BY <1>2, <2>2, DequeueType DEF DatagramCallback
  <2> QED
    BY <1>2, <2>3 DEF TypeOK, EngineTypeOK, DatagramCallback, policy, tables
<1> QED
  BY <1>1, <1>2, CallbackCases

\* Control requests.
LEMMA ControlType ==
  ASSUME TypeOK, Control
  PROVE  TypeOK'
<1> USE DEF TypeOK, EngineTypeOK, tables
<1>1. ASSUME NEW d \in Definitions, AddPolicyRule(d) PROVE TypeOK'
  <2>1. /\ rules' \subseteq Rule
        /\ http_policy' \in [Dirs -> [RuleKeys -> HttpRules \cup {NoHttp}]]
    BY <1>1, DefinitionsAssumption DEF AddPolicyRule, Install, OtherRules
  <2>2. connmark' \in [Flows -> Marks]
    <3>1. \A failed : UpdateMark(failed) \in [Flows -> Marks]
      BY DEF UpdateMark, Marks, kDeny
    <3> QED
      BY <1>1, <3>1 DEF AddPolicyRule
  <2> QED
    BY <1>1, <2>1, <2>2 DEF AddPolicyRule, Install
<1>2. ASSUME NEW key \in RuleKeys, DeletePolicyRule(key) PROVE TypeOK'
  BY <1>2 DEF DeletePolicyRule, Remove, OtherRules
<1>3. CASE ResetConfig
  BY <1>3 DEF ResetConfig, ClearRules
<1>4. ASSUME NEW addresses \in SUBSET NodeAddresses, NEW is_delete,
             UpdateNodeConfig(addresses, is_delete)
      PROVE  TypeOK'
  BY <1>4 DEF UpdateNodeConfig, SetNodes
<1> QED
  BY <1>1, <1>2, <1>3, <1>4, Zenon DEF Control

\* The clock and the reaper.
LEMMA TimeType ==
  ASSUME TypeOK, Tick \/ ReaperTimerEvent
  PROVE  TypeOK'
<1>1. EngineTypeOK'
  BY AgeType, EvictType DEF TypeOK, Tick, ReaperTimerEvent, EvictStale
<1>2. microseg_conns' \in [ConnectionId -> Entry \cup {NoEntry}]
  <2>1. CASE Tick
    BY <2>1, EntryFacts, Zenon DEF Tick, AgeEntries, TypeOK, MicrosegTracked
  <2>2. CASE ReaperTimerEvent
    BY <2>2 DEF ReaperTimerEvent, EvictStale, TypeOK
  <2> QED
    BY <2>1, <2>2
<1> QED
  BY <1>1, <1>2 DEF TypeOK, Tick, ReaperTimerEvent, policy

\* Every step keeps the types.
LEMMA TypeStep == TypeOK /\ [Next]_vars => TypeOK'
<1> SUFFICES ASSUME TypeOK, [Next]_vars PROVE TypeOK'
  OBVIOUS
<1>1. ASSUME NEW id \in ConnectionId, PacketArrives(id) PROVE TypeOK'
  BY <1>1 DEF PacketArrives, Enqueue, TypeOK, EngineTypeOK, tables, policy, Flows
<1>2. CASE input_nfq_cb \/ output_nfq_cb
  BY <1>2, CallbackType DEF input_nfq_cb, output_nfq_cb
<1>3. ASSUME NEW id \in ConnectionId, Unexamined(id) PROVE TypeOK'
  <2>1. skbmark[id] \in Marks
    BY <1>3 DEF Unexamined, TypeOK
  <2>2. /\ connmark' \in [Flows -> Marks]
        /\ skbmark' \in [ConnectionId -> Marks \cup {NoPacket}]
    BY <1>3, <2>1, DequeueType DEF Unexamined
  <2> QED
    BY <1>3, <2>2 DEF Unexamined, TypeOK, EngineTypeOK, tables, policy
<1>4. ASSUME NEW flow \in Flows, ConntrackExpire(flow) PROVE TypeOK'
  BY <1>4 DEF ConntrackExpire, TypeOK, EngineTypeOK, tables, policy, Marks
<1>5. CASE Control
  BY <1>5, ControlType
<1>6. CASE Tick \/ ReaperTimerEvent
  BY <1>6, TimeType
<1>7. CASE UNCHANGED vars
  BY <1>7 DEF vars, TypeOK, EngineTypeOK
<1> QED
  BY <1>1, <1>2, <1>3, <1>4, <1>5, <1>6, <1>7 DEF Next

(***************************************************************************)
(* The packet path is type-correct for every network, policy set, header   *)
(* set and timeout: no packet, request or sweep leaves a malformed entry,  *)
(* an unknown policy key or an unknown mark behind.                        *)
(***************************************************************************)
THEOREM PathTypeCorrect == Spec => []TypeOK
<1>1. Init => TypeOK
  BY DEF Init, LookupInit, ManagerInit, EngineInit, TypeOK, EngineTypeOK, Marks
<1> QED
  BY <1>1, TypeStep, PTL DEF Spec

-----------------------------------------------------------------------------
(***************************************************************************)
(* Entries.                                                                *)
(***************************************************************************)
\* A packet makes the engine forget only the two directions it closes.
LEMMA ForgottenByClose ==
  ASSUME EngineTypeOK, NEW p \in Packet, receive(p), NEW id \in ConnectionId,
         Known(id), ~Known(id)'
  PROVE  PacketKind(p) = "Closed" /\ id \in {p.id, Peer(p.id)}
<1>0. p.id \in ConnectionId /\ Peer(p.id) \in ConnectionId
  BY PacketFacts
<1>1. \A n \in Nat : [seq |-> WrappingAdd(p.seq, n), idle |-> 0] # NoFlow
  BY WrappingAddInRange, SizesAssumption, NoFlowAssumption DEF Packet, PacketsOn, FlowState
<1>2. CASE OnClosed(p)
  BY <1>0, <1>2 DEF OnClosed, EngineTypeOK, Known
<1>3. CASE OnData(p)
  <2>1. p.len \in Nat
    BY SizesAssumption DEF Packet, PacketsOn
  <2> QED
    BY <1>0, <1>1, <1>3, <2>1 DEF OnData, EngineTypeOK, Known
<1>4. CASE OnNewConnection(p)
  BY <1>0, <1>1, <1>4 DEF OnNewConnection, EngineTypeOK, Known
<1>5. CASE OnUntouched(p)
  BY <1>5 DEF OnUntouched, Known
<1> QED
  BY <1>2, <1>3, <1>4, <1>5 DEF receive

\* The engine knows a direction after its SYN.
LEMMA KnownAfterSyn ==
  ASSUME EngineTypeOK, NEW p \in Packet, receive(p), p.syn, ~p.fin, ~p.rst
  PROVE  Known(p.id)'
<1>0. p.id \in ConnectionId /\ PacketKind(p) # "Closed"
  BY PacketFacts DEF PacketKind
<1>1. CASE Known(p.id)
  BY <1>0, <1>1, ForgottenByClose
<1>2. CASE ~Known(p.id)
  <2>1. PacketKind(p) = "NewConnection"
    BY <1>2 DEF PacketKind
  <2>2. tcbs'[p.id] = [seq |-> WrappingAdd(p.seq, 1), idle |-> 0]
    BY <1>0, <2>1 DEF receive, OnClosed, OnData, OnNewConnection, OnUntouched
  <2>3. [seq |-> WrappingAdd(p.seq, 1), idle |-> 0] # NoFlow
    BY WrappingAddInRange, SizesAssumption, NoFlowAssumption DEF Packet, PacketsOn, FlowState
  <2> QED
    BY <2>2, <2>3 DEF Known
<1> QED
  BY <1>1, <1>2

\* Steps that touch neither table, and those that do.
LEMMA NextCases ==
  ASSUME TypeOK, [Next]_vars
  PROVE  \/ UNCHANGED tables
         \/ \E dir \in Dirs, p \in Packet :
              \E r : /\ Passes(p.id, dir) /\ TcpCallback(dir, p, r)
                     /\ Sound(dir, p, skbmark[p.id], r)
         \/ Tick
         \/ ReaperTimerEvent
<1>1. ASSUME NEW dir \in Dirs, Callback(dir), ~UNCHANGED tables
      PROVE  \E p \in Packet : \E r : /\ Passes(p.id, dir) /\ TcpCallback(dir, p, r)
                                      /\ Sound(dir, p, skbmark[p.id], r)
  <2>1. PICK p \in Packet : /\ Passes(p.id, dir)
                            /\ \E r \in TcpAnswers(dir, p, skbmark[p.id]) : TcpCallback(dir, p, r)
    BY <1>1, CallbackCases DEF DatagramCallback
  <2>2. PICK r \in TcpAnswers(dir, p, skbmark[p.id]) : TcpCallback(dir, p, r)
    BY <2>1
  <2>3. skbmark[p.id] \in Marks
    BY <2>2, PacketFacts DEF TcpCallback, TypeOK
  <2>4. Sound(dir, p, skbmark[p.id], r)
    BY <2>2, <2>3, TcpSound DEF TcpCallback
  <2> QED
    BY <2>1, <2>2, <2>4
<1>2. "ingress" \in Dirs /\ "egress" \in Dirs
  BY DEF Dirs
<1>3. CASE input_nfq_cb \/ output_nfq_cb
  BY <1>1, <1>2, <1>3 DEF input_nfq_cb, output_nfq_cb
<1>4. CASE Control
  BY <1>4 DEF Control, AddPolicyRule, DeletePolicyRule, ResetConfig, UpdateNodeConfig
<1>5. CASE \/ \E id \in ConnectionId : PacketArrives(id) \/ Unexamined(id)
           \/ \E flow \in Flows : ConntrackExpire(flow)
  BY <1>5 DEF PacketArrives, Unexamined, ConntrackExpire
<1>6. CASE UNCHANGED vars
  BY <1>6 DEF vars, tables
<1> QED
  BY <1>3, <1>4, <1>5, <1>6 DEF Next

(***************************************************************************)
(* No entry outlives the engine's knowledge of its direction, for any      *)
(* network and any policy: a FIN or RST on either direction, tracked or    *)
(* not, and the sweep remove both at once.                                 *)
(***************************************************************************)
THEOREM EntriesDie == Spec => EntryDiesWithFlow
<1>1. TypeOK /\ [Next]_vars => [EntryGoesWithFlow]_vars
  <2> SUFFICES ASSUME TypeOK, [Next]_vars, NEW id \in ConnectionId,
                      Known(id), ~Known(id)', MicrosegTracked(id)
               PROVE  microseg_conns'[id] = NoEntry
    BY DEF EntryGoesWithFlow
  <2>1. CASE UNCHANGED tables
    BY <2>1 DEF tables, Known
  <2>2. ASSUME NEW dir, NEW p \in Packet, NEW r, TcpCallback(dir, p, r),
               Sound(dir, p, skbmark[p.id], r)
        PROVE  microseg_conns'[id] = NoEntry
    <3>1. PacketKind(p) = "Closed" /\ id \in {p.id, Peer(p.id)}
      BY <2>2, ForgottenByClose DEF TcpCallback, TypeOK
    <3> QED
      BY <2>2, <3>1 DEF TcpCallback, Sound
  <2>3. CASE Tick
    <3>1. [tcbs[id] EXCEPT !.idle = Older(@)] # NoFlow
      BY SizesAssumption, NoFlowAssumption
      DEF TypeOK, EngineTypeOK, Known, FlowState, Older
    <3> QED
      BY <2>3, <3>1 DEF Tick, AgeFlows, Known
  <2>4. CASE ReaperTimerEvent
    BY <2>4 DEF ReaperTimerEvent, EvictStale, evict_stale_connections, Known
  <2> QED
    BY <2>1, <2>2, <2>3, <2>4, NextCases, Zenon
<1> QED
  BY <1>1, PathTypeCorrect, PTL DEF Spec, EntryDiesWithFlow

(***************************************************************************)
(* An entry keeps the policy key it was bound with until it is removed,    *)
(* for any sequence of packets and policy changes.                         *)
(***************************************************************************)
THEOREM KeysKept == Spec => EntryKeepsKey
<1>1. TypeOK /\ [Next]_vars => [KeyUnchanged]_vars
  <2> SUFFICES ASSUME TypeOK, [Next]_vars, NEW id \in ConnectionId,
                      MicrosegTracked(id), MicrosegTracked(id)'
               PROVE  microseg_conns'[id].rule_key = microseg_conns[id].rule_key
    BY DEF KeyUnchanged
  <2>0. microseg_conns[id] \in Entry
    BY DEF TypeOK, MicrosegTracked
  <2>1. CASE UNCHANGED tables
    BY <2>1 DEF tables
  <2>2. ASSUME NEW dir, NEW p \in Packet, NEW r, TcpCallback(dir, p, r),
               Sound(dir, p, skbmark[p.id], r)
        PROVE  microseg_conns'[id].rule_key = microseg_conns[id].rule_key
    BY <2>2 DEF TcpCallback, Sound, Keeps, MicrosegTracked
  <2>3. CASE Tick
    BY <2>0, <2>3, EntryFacts, Zenon DEF Tick, AgeEntries, MicrosegTracked
  <2>4. CASE ReaperTimerEvent
    BY <2>4 DEF ReaperTimerEvent, EvictStale, MicrosegTracked
  <2> QED
    BY <2>1, <2>2, <2>3, <2>4, NextCases, Zenon
<1> QED
  BY <1>1, PathTypeCorrect, PTL DEF Spec, EntryKeepsKey

-----------------------------------------------------------------------------
(***************************************************************************)
(* Marks.                                                                  *)
(***************************************************************************)
\* A mark changes by a dequeued packet of the flow that is accepted, or to 0.
LEMMA DequeueAllows ==
  ASSUME TypeOK, NEW id \in ConnectionId, NEW verdict, NEW mark, Dequeue(id, verdict, mark),
         NEW flow \in Flows, connmark[flow] # kAllow, connmark'[flow] = kAllow
  PROVE  /\ flow = Flow(id) /\ id \in flow
         /\ mark = kAllow /\ verdict # "drop"
         /\ skbmark'[id] = NoPacket
BY DEF Dequeue, TypeOK, Flow, Flows

(***************************************************************************)
(* An entry is bound once and lives no longer than its flow, for every set *)
(* of policies and connections (MicrosegTrack, MicrosegClose, the sweep).  *)
(***************************************************************************)
THEOREM EntriesFollow == Spec => EntryFollowsFlow
<1>1. [EntryGoesWithFlow]_vars /\ [KeyUnchanged]_vars => [EntryGoesWithFlow /\ KeyUnchanged]_vars
  OBVIOUS
<1> QED
  BY <1>1, EntriesDie, KeysKept, PTL DEF EntryDiesWithFlow, EntryKeepsKey, EntryFollowsFlow

(***************************************************************************)
(* No connection is taken out of the daemon's hands without a cause: for   *)
(* every network, policy set and order of packets and requests, kAllow     *)
(* comes from a match that does not deny, from the end of a flow under     *)
(* HTTP rules, or from a packet that already carried it.                   *)
(***************************************************************************)
THEOREM AllowEarned == Spec => AllowIsEarned
<1>1. TypeOK /\ [Next]_vars => [AllowHasCause]_vars
  <2> SUFFICES ASSUME TypeOK, [Next]_vars, NEW flow \in Flows,
                      connmark[flow] # kAllow, connmark'[flow] = kAllow
               PROVE  \E id \in flow :
                        /\ skbmark[id] # NoPacket /\ skbmark'[id] = NoPacket
                        /\ skbmark[id] = kAllow \/ NotDenied(id) \/ Ends(id)
    BY DEF AllowHasCause
  <2>0. ASSUME NEW id \in ConnectionId, NEW verdict, NEW mark, Dequeue(id, verdict, mark)
        PROVE  id \in flow /\ skbmark'[id] = NoPacket /\ mark = kAllow /\ verdict # "drop"
    BY <2>0, DequeueAllows
  <2> DEFINE Goal == \E id \in flow :
                       /\ skbmark[id] # NoPacket /\ skbmark'[id] = NoPacket
                       /\ skbmark[id] = kAllow \/ NotDenied(id) \/ Ends(id)
  <2>1. ASSUME NEW dir \in Dirs, NEW p \in Packet, NEW r \in TcpAnswers(dir, p, skbmark[p.id]),
               Passes(p.id, dir), TcpCallback(dir, p, r)
        PROVE  Goal
    <3>1. p.id \in ConnectionId /\ skbmark[p.id] # NoPacket /\ skbmark[p.id] \in Marks
      BY <2>1, PacketFacts DEF TcpCallback, TypeOK
    <3>2. Sound(dir, p, skbmark[p.id], r)
      BY <2>1, <3>1, TcpSound, Zenon DEF TcpCallback
    <3>3. /\ p.id \in flow /\ skbmark'[p.id] = NoPacket
          /\ r.mark = kAllow /\ r.verdict # "drop"
      <4>1. Dequeue(p.id, r.verdict, r.mark)
        BY <2>1 DEF TcpCallback
      <4> QED
        BY <2>0, <3>1, <4>1, Zenon
    <3>4. ASSUME MicrosegTracked(p.id), PacketKind(p) = "Closed" PROVE Ends(p.id)
      <4>1. Known(p.id)
        BY <3>4 DEF PacketKind
      <4>2. ~Known(p.id)'
        BY <2>1, <3>1, <3>4, PacketFacts, Zenon
        DEF TcpCallback, receive, OnClosed, OnData, OnNewConnection, OnUntouched,
            Known, TypeOK, EngineTypeOK
      <4> QED
        BY <3>4, <4>1, <4>2 DEF Ends
    <3>5. skbmark[p.id] = kAllow \/ NotDenied(p.id) \/ Ends(p.id)
      BY <2>1, <3>2, <3>3, <3>4, Zenon DEF Sound, NotDenied
    <3> QED
      BY <3>1, <3>3, <3>5
  <2>2. ASSUME NEW dir \in Dirs, NEW id \in ConnectionId,
               NEW r \in DatagramAnswers(dir, id, skbmark[id]), Passes(id, dir), DatagramCallback(dir, id, r)
        PROVE  Goal
    <3>1. skbmark[id] # NoPacket /\ skbmark[id] \in Marks
      BY <2>2 DEF DatagramCallback, TypeOK
    <3>2. /\ id \in flow /\ skbmark'[id] = NoPacket
          /\ r.mark = kAllow /\ r.verdict # "drop"
      <4>1. Dequeue(id, r.verdict, r.mark)
        BY <2>2 DEF DatagramCallback
      <4> QED
        BY <2>0, <4>1, Zenon
    <3>3. NotDenied(id)
      BY <2>2, <3>1, <3>2, DatagramSound DEF DatagramCallback, NotDenied
    <3> QED
      BY <3>1, <3>2, <3>3
  <2>3. ASSUME NEW id \in ConnectionId, Unexamined(id) PROVE Goal
    <3>1. skbmark[id] # NoPacket /\ Dequeue(id, "accept", skbmark[id])
      BY <2>3 DEF Unexamined
    <3>2. id \in flow /\ skbmark[id] = kAllow /\ skbmark'[id] = NoPacket
      BY <2>0, <3>1
    <3> QED
      BY <3>1, <3>2
  <2>4. ASSUME NEW f \in Flows, ConntrackExpire(f) PROVE Goal
    BY <2>4 DEF ConntrackExpire, TypeOK, kAllow
  <2>5. ASSUME NEW d \in Definitions, AddPolicyRule(d) PROVE Goal
    BY <2>5 DEF AddPolicyRule, UpdateMark, kAllow, kDeny
  <2>6. ASSUME UNCHANGED connmark PROVE Goal
    BY <2>6
  <2>7. "ingress" \in Dirs /\ "egress" \in Dirs
    BY DEF Dirs
  <2> HIDE DEF Goal
  <2>8. ASSUME input_nfq_cb \/ output_nfq_cb PROVE Goal
    BY <2>1, <2>2, <2>7, <2>8, CallbackCases, Zenon DEF input_nfq_cb, output_nfq_cb
  <2>9. ASSUME Control PROVE Goal
    BY <2>5, <2>6, <2>9
    DEF Control, DeletePolicyRule, ResetConfig, UpdateNodeConfig
  <2> QED
    <3>1. Goal
      BY <2>3, <2>4, <2>6, <2>8, <2>9
      DEF Next, PacketArrives, Tick, ReaperTimerEvent, vars
    <3> QED
      BY <3>1 DEF Goal
<1> QED
  BY <1>1, PathTypeCorrect, PTL DEF Spec, AllowIsEarned
=============================================================================
