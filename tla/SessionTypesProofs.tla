------------------------- MODULE SessionTypesProofs -------------------------
(***************************************************************************)
(* The types of a session: what the two endpoints hold and put on the wire *)
(* for every stream, window, number of connections, sequence space and     *)
(* timeout, under loss, resets, probes and pauses.                         *)
(***************************************************************************)
EXTENDS TcpSession, NfqCallbacksProofs, WellFoundedInduction

-----------------------------------------------------------------------------
(***************************************************************************)
(* Numbers.                                                                *)
(***************************************************************************)
\* Natural numbers are well ordered.
LessThan == {pair \in Nat \X Nat : pair[1] < pair[2]}

LEMMA LessThanIsWellFounded == IsWellFoundedOn(LessThan, Nat)
<1>1. OpToRel(<, Nat) = LessThan
  BY Zenon DEF OpToRel, LessThan
<1> QED
  BY <1>1, NatLessThanWellFounded, Zenon

LEMMA Least ==
  ASSUME NEW T, T \subseteq Nat, T # {}
  PROVE  \E x \in T : \A y \in T : x <= y
<1>1. \E x \in T : \A y \in T : ~(<<y, x>> \in LessThan)
  BY LessThanIsWellFounded, WFMin, Zenon
<1>2. ASSUME NEW x \in Nat, NEW y \in Nat, ~(<<y, x>> \in LessThan)
      PROVE  x <= y
  BY <1>2 DEF LessThan
<1> QED
  BY <1>1, <1>2, Zenon

\* Less than a whole sequence space apart, two positions differ in number.
LEMMA PositionsDiffer ==
  ASSUME NEW iss \in Seq32, NEW m \in Nat, NEW n \in Nat, m < SeqSpace, n < SeqSpace,
         WrappingAdd(iss, 1 + m) = WrappingAdd(iss, 1 + n)
  PROVE  m = n
<1>0. SeqSpace \in Nat \ {0} /\ iss \in Nat /\ iss < SeqSpace
  BY SizesAssumption DEF Seq32
<1>1. ASSUME NEW x \in Nat, x < SeqSpace
      PROVE  WrappingAdd(iss, 1 + x) = IF iss + 1 + x < SeqSpace THEN iss + 1 + x
                                                               ELSE iss + 1 + x - SeqSpace
  <2>1. CASE iss + 1 + x < SeqSpace
    BY <1>0, <1>1, <2>1 DEF WrappingAdd
  <2>2. CASE ~(iss + 1 + x < SeqSpace)
    <3>1. (iss + (1 + x)) % SeqSpace = iss + (1 + x) - SeqSpace
      BY <1>0, <1>1, <2>2
    <3> QED
      BY <1>0, <1>1, <2>2, <3>1 DEF WrappingAdd
  <2> QED
    BY <2>1, <2>2
<1>2. /\ WrappingAdd(iss, 1 + m) = IF iss + 1 + m < SeqSpace THEN iss + 1 + m
                                                           ELSE iss + 1 + m - SeqSpace
      /\ WrappingAdd(iss, 1 + n) = IF iss + 1 + n < SeqSpace THEN iss + 1 + n
                                                           ELSE iss + 1 + n - SeqSpace
  BY <1>1
<1> QED
  BY <1>0, <1>2

-----------------------------------------------------------------------------
(***************************************************************************)
(* Types, and where the numbers on the wire and at the server come from.   *)
(***************************************************************************)
ClientType == [st : {"closed", "synsent", "open", "finsent"}, iss : Seq32,
               stream : Streams \cup {<<>>}, una : Nat, nxt : Nat]
ServerType == [st : {"listen", "synrcvd", "open", "closing"}, rcv : Nat,
               held : SUBSET Nat, clean : SUBSET Nat, snd : Nat]

\* A queued packet of the client: no RST, a SYN carries nothing, and data are
\* pieces that were sent.
ClientPacket(seg) ==
  /\ seg \in Packet /\ seg.id = c2s
  /\ ~seg.rst
  /\ seg.syn => ~seg.fin /\ seg.len = 0
  /\ seg.len > 0 => \E n \in 0 .. client.nxt - seg.len : seg.seq = ClientSeq(n)

\* A queued packet of the server.
ServerPacket(seg) ==
  /\ seg \in Packet /\ seg.id = s2c
  /\ ~(seg.rst /\ seg.syn) /\ ~(seg.rst /\ seg.fin) /\ ~(seg.syn /\ seg.fin)

\* What the client sent, and what the server received of it.
ClientTypeOK ==
  /\ client \in ClientType
  /\ client.nxt <= Len(client.stream) /\ client.una <= client.nxt

ServerTypeOK ==
  /\ server \in ServerType
  /\ server.snd <= Responses
  /\ server.held \subseteq 0 .. client.nxt - 1 /\ server.rcv <= client.nxt

WireTypeOK ==
  /\ wire \in [ConnectionId -> Packet]
  /\ ClientPacket(wire[c2s])
  /\ ServerPacket(wire[s2c])

SessionTypeOK == TypeOK /\ ClientTypeOK /\ ServerTypeOK /\ WireTypeOK /\ seen \subseteq Nat

LEMMA Ids ==
  /\ c2s \in ConnectionId /\ s2c \in ConnectionId /\ c2s # s2c
  /\ Peer(c2s) = s2c /\ Peer(s2c) = c2s
  /\ Flow(c2s) \in Flows /\ Flow(s2c) = Flow(c2s)
  /\ c2s \notin DatagramIds /\ s2c \notin DatagramIds
  /\ Passes(c2s, "ingress") /\ Passes(s2c, "egress")
<1>1. Peer(c2s) = s2c /\ Peer(s2c) = c2s /\ c2s # s2c
  BY SessionAssumption DEF c2s, s2c, Peer
<1>2. c2s \in ConnectionId /\ s2c \in ConnectionId
  BY <1>1, SessionAssumption, ConnectionIdAssumption
<1>3. Flow(c2s) \in Flows /\ Flow(s2c) = Flow(c2s)
  BY <1>1, <1>2 DEF Flow, Flows
<1>4. c2s \notin DatagramIds /\ s2c \notin DatagramIds
  BY <1>1, <1>2, SessionAssumption, PodAssumption
<1>5. Passes(c2s, "ingress") /\ Passes(s2c, "egress")
  BY DEF c2s, s2c, Passes
<1> QED
  BY <1>1, <1>2, <1>3, <1>4, <1>5

\* The segments, without data and with pieces.
Fits(data) == data = <<>> \/ (data \in Seq(Payloads) /\ Len(data) \in 1 .. MaxPayload)

Carries(seg, id, flags, seq, data) ==
  /\ seg \in Packet /\ seg.id = id /\ seg.seq = seq /\ seg.len = Len(data)
  /\ seg.syn <=> "syn" \in flags
  /\ seg.fin <=> "fin" \in flags
  /\ seg.rst <=> "rst" \in flags

LEMMA SegmentType ==
  ASSUME NEW id \in ConnectionId, NEW flags, NEW seq \in Seq32, NEW data, Fits(data)
  PROVE  Carries(Segment(id, flags, seq, data), id, flags, seq, data)
<1>1. NoPayload \in Payloads
  BY SessionAssumption DEF NoPayload
<1>2. Len(data) \in 0 .. MaxPayload /\ (data # <<>> => Joined(data) \in Payloads)
  <2>1. CASE data = <<>>
    BY <2>1, SizesAssumption
  <2>2. CASE data \in Seq(Payloads) /\ Len(data) \in 1 .. MaxPayload
    <3>1. data[1] \in Payloads /\ Len(data) \in 0 .. MaxPayload
      BY <2>2, SizesAssumption
    <3>2. [part |-> "whole", hdr |-> data[1].hdr] \in Payloads
      BY <3>1, SessionAssumption, Zenon
    <3> QED
      BY <3>1, <3>2, Zenon DEF Joined
  <2> QED
    BY <2>1, <2>2 DEF Fits
<1> DEFINE payload == IF data = <<>> THEN NoPayload ELSE Joined(data)
           length == Len(data)
           syn == "syn" \in flags
           fin == "fin" \in flags
           rst == "rst" \in flags
<1>3. payload \in Payloads /\ length \in 0 .. MaxPayload
  BY <1>1, <1>2
<1>4. syn \in BOOLEAN /\ fin \in BOOLEAN /\ rst \in BOOLEAN
  OBVIOUS
<1>5. Segment(id, flags, seq, data)
        = [id |-> id, syn |-> syn, fin |-> fin, rst |-> rst, seq |-> seq, len |-> length, payload |-> payload]
  BY DEF Segment
<1> HIDE DEF payload, length, syn, fin, rst
<1>6. /\ Segment(id, flags, seq, data) \in Packet
      /\ Segment(id, flags, seq, data).id = id
      /\ Segment(id, flags, seq, data).seq = seq
      /\ Segment(id, flags, seq, data).len = length
      /\ Segment(id, flags, seq, data).syn <=> syn
      /\ Segment(id, flags, seq, data).fin <=> fin
      /\ Segment(id, flags, seq, data).rst <=> rst
  BY <1>3, <1>4, <1>5 DEF Packet, PacketsOn
<1> QED
  BY <1>6, Zenon DEF Carries, length, syn, fin, rst

LEMMA NoSegmentType ==
  ASSUME NEW id \in ConnectionId
  PROVE  /\ NoSegment(id) \in Packet /\ NoSegment(id).id = id /\ NoSegment(id).len = 0
         /\ ~NoSegment(id).syn /\ ~NoSegment(id).rst
<1>1. 0 \in Seq32 /\ Len(<<>>) = 0
  BY SizesAssumption DEF Seq32
<1>2. Fits(<<>>)
  BY DEF Fits
<1>3. Carries(Segment(id, {}, 0, <<>>), id, {}, 0, <<>>)
  BY <1>1, <1>2, SegmentType
<1> QED
  BY <1>1, <1>3 DEF Carries, NoSegment

LEMMA ClientSeqType ==
  ASSUME client \in ClientType, NEW n \in Nat
  PROVE  ClientSeq(n) \in Seq32
<1>1. client.iss \in Seq32 /\ 1 + n \in Nat
  BY DEF ClientType
<1> QED
  BY <1>1, WrappingAddInRange DEF ClientSeq

LEMMA StreamType ==
  ASSUME client \in ClientType
  PROVE  /\ client.stream \in Seq(Payloads)
         /\ Len(client.stream) \in Nat /\ Len(client.stream) < SeqSpace
<1>1. client.stream \in Streams \cup {<<>>}
  BY DEF ClientType
<1>2. CASE client.stream \in Streams
  BY <1>2, SessionAssumption
<1>3. CASE client.stream = <<>>
  BY <1>3, SizesAssumption
<1> QED
  BY <1>1, <1>2, <1>3

\* A data segment's position is the one it was sent from.
LEMMA PositionOf ==
  ASSUME client \in ClientType, NEW seg, NEW n \in 0 .. Len(client.stream),
         seg.seq = ClientSeq(n)
  PROVE  Position(seg) = n
<1>1. \A m \in 0 .. Len(client.stream) : ClientSeq(m) = seg.seq => m = n
  <2> SUFFICES ASSUME NEW m \in 0 .. Len(client.stream), ClientSeq(m) = seg.seq PROVE m = n
    OBVIOUS
  <2>1. client.iss \in Seq32 /\ m \in Nat /\ n \in Nat /\ m < SeqSpace /\ n < SeqSpace
    BY StreamType, SizesAssumption DEF ClientType
  <2>2. WrappingAdd(client.iss, 1 + m) = WrappingAdd(client.iss, 1 + n)
    BY DEF ClientSeq
  <2> QED
    BY <2>1, <2>2, PositionsDiffer
<1> QED
  BY <1>1 DEF Position

\* The server's next expected position exists.
LEMMA InOrderExists ==
  ASSUME client \in ClientType, NEW held, held \subseteq 0 .. Len(client.stream) - 1
  PROVE  /\ InOrder(held) \in 0 .. Len(client.stream)
         /\ InOrder(held) \notin held
         /\ 0 .. InOrder(held) - 1 \subseteq held
<1>0. Len(client.stream) \in Nat
  BY StreamType
<1> DEFINE L == Len(client.stream)
           missing == Nat \ held
<1> HIDE DEF L
<1>1. L \in Nat /\ L \notin held
  BY <1>0 DEF L
<1>2. PICK n \in missing : \A m \in missing : n <= m
  <2>1. missing \subseteq Nat /\ missing # {}
    BY <1>1
  <2> HIDE DEF missing
  <2> QED
    BY <2>1, Least, Zenon
<1>3. n <= L /\ n \in 0 .. L
  BY <1>1, <1>2
<1>4. 0 .. n - 1 \subseteq held
  BY <1>2
<1>5. \E k \in 0 .. L : k \notin held /\ 0 .. k - 1 \subseteq held
  BY <1>2, <1>3, <1>4
<1> QED
  BY <1>5 DEF InOrder, L

-----------------------------------------------------------------------------
(***************************************************************************)
(* A step of a session is a step of the packet path, except that opening a *)
(* connection replaces the conntrack entry and queues the SYN at once.     *)
(***************************************************************************)
Opening == \E iss \in ISNs, stream \in Streams : ClientOpen(iss, stream)

ClientSends == ClientResendSyn \/ ClientData \/ ClientAck \/ ClientKeepalive \/ ClientFin
ServerSends == ServerSynAck \/ ServerAck \/ ServerRespond \/ ServerFin \/ ServerReset

LEMMA SendIsStep ==
  ASSUME NEW id \in ConnectionId, NEW flags, NEW seq, NEW data, Send(Segment(id, flags, seq, data))
  PROVE  Next
<1>1. Segment(id, flags, seq, data).id = id
  BY DEF Segment
<1> QED
  BY <1>1 DEF Send, Next, PacketArrives

LEMMA ExaminedIsStep ==
  ASSUME SessionTypeOK, Examined(c2s, "ingress") \/ Examined(s2c, "egress")
  PROVE  Next
<1>1. ASSUME NEW id \in {c2s, s2c}, NEW dir, Passes(id, dir), Examined(id, dir)
      PROVE  Callback(dir)
  <2>1. id \in ConnectionId /\ id \notin DatagramIds /\ skbmark[id] # NoPacket
    BY <1>1, Ids DEF Examined, Idle
  <2>2. wire[id] \in Packet /\ wire[id].id = id
    BY <2>1, <1>1 DEF SessionTypeOK, WireTypeOK, ClientPacket, ServerPacket
  <2>3. id \in Waiting(dir) \ DatagramIds
    BY <1>1, <2>1 DEF Waiting
  <2>4. wire[id] \in PacketsOn(Waiting(dir) \ DatagramIds)
    BY <2>2, <2>3 DEF Packet, PacketsOn
  <2> QED
    BY <1>1, <2>2, <2>4 DEF Examined, Callback
<1> QED
  BY <1>1, Ids DEF Next, input_nfq_cb, output_nfq_cb

LEMMA PathStep ==
  ASSUME SessionTypeOK, [SessionNext]_sessionVars
  PROVE  [Next]_vars \/ Opening
<1>1. CASE ClientSends
  <2>1. CASE ClientData
    BY <2>1, Ids, SendIsStep DEF ClientData, vars
  <2> QED
    BY <1>1, <2>1, Ids, SendIsStep
    DEF ClientSends, ClientResendSyn, ClientAck, ClientKeepalive, ClientFin
<1>2. CASE ServerSends
  BY <1>2, Ids, SendIsStep
  DEF ServerSends, ServerSend, ServerSynAck, ServerAck, ServerRespond, ServerFin, ServerReset
<1>3. CASE Examined(c2s, "ingress") \/ Examined(s2c, "egress")
  BY <1>3, ExaminedIsStep
<1>4. CASE Bypassed(c2s, "ingress") \/ Bypassed(s2c, "egress")
  BY <1>4, Ids DEF Bypassed, Next
<1>5. CASE SessionTick \/ Reap \/ Repolicy
  BY <1>5 DEF SessionTick, Reap, Repolicy, Next, Control
<1>6. CASE UNCHANGED sessionVars
  BY <1>6 DEF sessionVars
<1> QED
  BY <1>1, <1>2, <1>3, <1>4, <1>5, <1>6 DEF SessionNext, ClientSends, ServerSends, Opening

LEMMA OpeningType ==
  ASSUME TypeOK, NEW iss, NEW stream, ClientOpen(iss, stream)
  PROVE  TypeOK'
<1>1. Flow(c2s) \in Flows /\ c2s \in ConnectionId /\ 0 \in Marks
  BY Ids DEF Marks
<1> QED
  BY <1>1 DEF ClientOpen, TypeOK, EngineTypeOK, tables, policy

LEMMA PathTypes ==
  ASSUME SessionTypeOK, [SessionNext]_sessionVars
  PROVE  TypeOK'
<1>1. TypeOK
  BY DEF SessionTypeOK
<1> QED
  BY <1>1, PathStep, TypeStep, OpeningType DEF Opening

-----------------------------------------------------------------------------
(***************************************************************************)
(* The endpoints.                                                          *)
(***************************************************************************)
\* A queued packet replaces the wire of its direction.
LEMMA PutOnWire ==
  ASSUME wire \in [ConnectionId -> Packet], NEW id \in ConnectionId, NEW seg \in Packet,
         wire' = [wire EXCEPT ![id] = seg]
  PROVE  /\ wire' \in [ConnectionId -> Packet]
         /\ \A other \in ConnectionId : wire'[other] = IF other = id THEN seg ELSE wire[other]
  OBVIOUS

LEMMA ClientSeqs ==
  ASSUME ClientTypeOK
  PROVE  /\ client.iss \in Seq32
         /\ \A n \in Nat : ClientSeq(n) \in Seq32
         /\ WrappingAdd(client.iss, client.nxt) \in Seq32
<1>1. client \in ClientType /\ client.iss \in Seq32 /\ client.nxt \in Nat
  BY DEF ClientTypeOK, ClientType
<1> QED
  BY <1>1, ClientSeqType, WrappingAddInRange

\* A bare segment of the client.
LEMMA ClientBare ==
  ASSUME SessionTypeOK, NEW seq \in Seq32, NEW flags \in {{}, {"syn"}, {"fin"}},
         Send(Segment(c2s, flags, seq, <<>>)),
         client' \in ClientType, client'.nxt = client.nxt
  PROVE  WireTypeOK'
<1> DEFINE seg == Segment(c2s, flags, seq, <<>>)
<1>1. Fits(<<>>) /\ Len(<<>>) = 0
  BY DEF Fits
<1>2. Carries(seg, c2s, flags, seq, <<>>)
  BY <1>1, SegmentType, Ids
<1> HIDE DEF seg
<1>3. /\ seg \in Packet /\ seg.id = c2s /\ seg.len = 0
      /\ ~seg.rst /\ (seg.syn => ~seg.fin)
  BY <1>1, <1>2 DEF Carries
<1>4. wire \in [ConnectionId -> Packet] /\ wire' = [wire EXCEPT ![c2s] = seg]
  BY <1>3, Zenon DEF seg, Send, SessionTypeOK, WireTypeOK
<1>5. wire' \in [ConnectionId -> Packet] /\ wire'[c2s] = seg /\ wire'[s2c] = wire[s2c]
  BY <1>3, <1>4, Ids, PutOnWire
<1>6. ClientPacket(wire[c2s])'
  BY <1>3, <1>5 DEF ClientPacket
<1>7. ServerPacket(wire[s2c])'
  BY <1>5 DEF ServerPacket, SessionTypeOK, WireTypeOK
<1> QED
  BY <1>5, <1>6, <1>7 DEF WireTypeOK

\* The pieces that a segment takes from the stream.
LEMMA Cut ==
  ASSUME NEW stream \in Seq(Payloads), NEW n \in Nat, NEW k \in 1 .. MaxPayload, n + k <= Len(stream)
  PROVE  Fits(SubSeq(stream, n + 1, n + k)) /\ Len(SubSeq(stream, n + 1, n + k)) = k
<1>1. k \in Nat /\ k >= 1
  BY SizesAssumption
<1>2. Len(SubSeq(stream, n + 1, n + k)) = k
  BY <1>1
<1>3. SubSeq(stream, n + 1, n + k) \in Seq(Payloads)
  BY <1>1
<1> QED
  BY <1>2, <1>3, Zenon DEF Fits

LEMMA ClientDataTypes ==
  ASSUME SessionTypeOK, ClientData
  PROVE  ClientTypeOK' /\ ServerTypeOK' /\ WireTypeOK' /\ seen' = seen
<1>1. PICK n \in {client.una, client.nxt}, k \in 1 .. MaxPayload :
        /\ n + k <= Len(client.stream)
        /\ client' = [client EXCEPT !.nxt = IF n + k > client.nxt THEN n + k ELSE client.nxt]
        /\ \/ Send(Segment(c2s, {}, ClientSeq(n), SubSeq(client.stream, n + 1, n + k)))
           \/ UNCHANGED wire
        /\ UNCHANGED <<server, seen>>
  BY Zenon DEF ClientData
<1>2. /\ client \in ClientType /\ client.nxt \in Nat /\ client.una \in Nat /\ client.una <= client.nxt
      /\ client.nxt <= Len(client.stream) /\ Len(client.stream) \in Nat
      /\ client.stream \in Seq(Payloads)
  BY StreamType DEF SessionTypeOK, ClientTypeOK, ClientType
<1> DEFINE nxt == IF n + k > client.nxt THEN n + k ELSE client.nxt
<1>3. /\ n \in Nat /\ k \in Nat /\ k >= 1
      /\ nxt \in Nat /\ client.nxt <= nxt /\ n + k <= nxt /\ nxt <= Len(client.stream)
  BY <1>1, <1>2, SizesAssumption
<1>4. client' = [client EXCEPT !.nxt = nxt]
  BY <1>1
<1> HIDE DEF nxt
<1>5. /\ client' \in ClientType /\ client'.nxt = nxt
      /\ client'.iss = client.iss /\ client'.stream = client.stream /\ client'.una = client.una
  BY <1>2, <1>3, <1>4 DEF ClientType
<1>6. ClientTypeOK'
  BY <1>2, <1>3, <1>5 DEF ClientTypeOK
<1>7. ServerTypeOK'
  BY <1>1, <1>2, <1>3, <1>5 DEF SessionTypeOK, ServerTypeOK, ServerType
<1>8. \A m : ClientSeq(m)' = ClientSeq(m)
  BY <1>5 DEF ClientSeq
<1>9. ASSUME UNCHANGED wire PROVE WireTypeOK'
  <2>1. wire \in [ConnectionId -> Packet] /\ ClientPacket(wire[c2s]) /\ ServerPacket(wire[s2c])
    BY DEF SessionTypeOK, WireTypeOK
  <2>2. wire[c2s].len \in Nat
    BY <2>1, SizesAssumption DEF ClientPacket, Packet, PacketsOn
  <2>3. ClientPacket(wire[c2s])'
    BY <1>2, <1>3, <1>5, <1>8, <1>9, <2>1, <2>2 DEF ClientPacket
  <2>4. ServerPacket(wire[s2c])'
    BY <1>9, <2>1 DEF ServerPacket
  <2> QED
    BY <1>9, <2>1, <2>3, <2>4 DEF WireTypeOK
<1>10. ASSUME Send(Segment(c2s, {}, ClientSeq(n), SubSeq(client.stream, n + 1, n + k)))
       PROVE  WireTypeOK'
  <2> DEFINE data == SubSeq(client.stream, n + 1, n + k)
             seg == Segment(c2s, {}, ClientSeq(n), data)
  <2>1. Fits(data) /\ Len(data) = k /\ ClientSeq(n) \in Seq32
    BY <1>1, <1>2, <1>3, Cut, ClientSeqs DEF SessionTypeOK
  <2> HIDE DEF data
  <2>2. Carries(seg, c2s, {}, ClientSeq(n), data)
    BY <2>1, SegmentType, Ids
  <2> HIDE DEF seg
  <2>3. /\ seg \in Packet /\ seg.id = c2s /\ seg.seq = ClientSeq(n) /\ ~seg.rst /\ ~seg.syn
        /\ seg.len = k
    BY <2>1, <2>2 DEF Carries
  <2>4. wire \in [ConnectionId -> Packet] /\ wire' = [wire EXCEPT ![c2s] = seg]
    BY <1>10, <2>3, Zenon DEF data, seg, Send, SessionTypeOK, WireTypeOK
  <2>5. wire' \in [ConnectionId -> Packet] /\ wire'[c2s] = seg /\ wire'[s2c] = wire[s2c]
    BY <2>3, <2>4, Ids, PutOnWire
  <2>6. n \in 0 .. client'.nxt - seg.len /\ seg.seq = ClientSeq(n)'
    BY <1>3, <1>5, <1>8, <2>3
  <2>7. ClientPacket(wire[c2s])'
    BY <2>3, <2>5, <2>6 DEF ClientPacket
  <2>8. ServerPacket(wire[s2c])'
    BY <2>5 DEF ServerPacket, SessionTypeOK, WireTypeOK
  <2> QED
    BY <2>5, <2>7, <2>8 DEF WireTypeOK
<1> QED
  BY <1>1, <1>6, <1>7, <1>9, <1>10

EndpointTypes == ClientTypeOK /\ ServerTypeOK /\ WireTypeOK /\ seen \subseteq Nat

LEMMA ClientSendTypes ==
  ASSUME SessionTypeOK, ClientSends
  PROVE  EndpointTypes'
<1>1. /\ client \in ClientType /\ client.nxt \in Nat /\ client.iss \in Seq32
      /\ ClientSeq(client.nxt) \in Seq32 /\ WrappingAdd(client.iss, client.nxt) \in Seq32
  BY ClientSeqs DEF SessionTypeOK, ClientTypeOK, ClientType
<1>2. ASSUME client' = client, UNCHANGED <<server, seen>>, WireTypeOK'
      PROVE  EndpointTypes'
  BY <1>2 DEF SessionTypeOK, ClientTypeOK, ServerTypeOK, EndpointTypes
<1>3. CASE ClientResendSyn
  <2>1. WireTypeOK'
    BY <1>1, <1>3, ClientBare DEF ClientResendSyn
  <2> QED
    BY <1>2, <1>3, <2>1 DEF ClientResendSyn
<1>4. CASE ClientAck
  <2>1. WireTypeOK'
    BY <1>1, <1>4, ClientBare DEF ClientAck
  <2> QED
    BY <1>2, <1>4, <2>1 DEF ClientAck
<1>5. CASE ClientKeepalive
  <2>1. WireTypeOK'
    BY <1>1, <1>5, ClientBare DEF ClientKeepalive
  <2> QED
    BY <1>2, <1>5, <2>1 DEF ClientKeepalive
<1>6. CASE ClientFin
  <2>1. /\ client' = [client EXCEPT !.st = "finsent"]
        /\ Send(Segment(c2s, {"fin"}, ClientSeq(client.nxt), <<>>))
        /\ UNCHANGED <<server, seen>>
    BY <1>6 DEF ClientFin
  <2>2. /\ client' \in ClientType /\ client'.nxt = client.nxt /\ client'.una = client.una
        /\ client'.stream = client.stream
    BY <1>1, <2>1 DEF ClientType
  <2>3. WireTypeOK'
    BY <1>1, <2>1, <2>2, ClientBare
  <2> QED
    BY <2>1, <2>2, <2>3 DEF SessionTypeOK, ClientTypeOK, ServerTypeOK, EndpointTypes
<1>7. CASE ClientData
  BY <1>7, ClientDataTypes, Zenon DEF SessionTypeOK, EndpointTypes
<1> QED
  BY <1>3, <1>4, <1>5, <1>6, <1>7 DEF ClientSends

\* A segment of the server has one flag or none.
LEMMA ServerPuts ==
  ASSUME SessionTypeOK, NEW flags \in {{}, {"syn"}, {"fin"}, {"rst"}}, NEW data, Fits(data),
         Send(Segment(s2c, flags, server.snd, data)), client' = client
  PROVE  WireTypeOK'
<1> DEFINE seg == Segment(s2c, flags, server.snd, data)
<1>1. server.snd \in Seq32
  <2>1. server.snd \in Nat /\ server.snd <= Responses
    BY DEF SessionTypeOK, ServerTypeOK, ServerType
  <2> QED
    BY <2>1, SessionAssumption, SizesAssumption DEF Seq32
<1>2. Carries(seg, s2c, flags, server.snd, data)
  BY <1>1, SegmentType, Ids
<1> HIDE DEF seg
<1>3. ServerPacket(seg)
  BY <1>2 DEF Carries, ServerPacket
<1>4. wire \in [ConnectionId -> Packet] /\ wire' = [wire EXCEPT ![s2c] = seg]
  BY <1>3 DEF seg, Send, SessionTypeOK, WireTypeOK, ServerPacket
<1>5. wire' \in [ConnectionId -> Packet] /\ wire'[s2c] = seg /\ wire'[c2s] = wire[c2s]
  BY <1>3, <1>4, Ids, PutOnWire DEF ServerPacket
<1>6. ClientPacket(wire[c2s])'
  BY <1>5 DEF ClientPacket, ClientSeq, WrappingAdd, SessionTypeOK, WireTypeOK
<1>7. ServerPacket(wire[s2c])'
  BY <1>3, <1>5 DEF ServerPacket
<1> QED
  BY <1>5, <1>6, <1>7 DEF WireTypeOK

LEMMA ServerSendTypes ==
  ASSUME SessionTypeOK, ServerSends
  PROVE  EndpointTypes'
<1>1. PICK flags \in {{}, {"syn"}, {"fin"}, {"rst"}}, data \in {<<>>, <<NoPayload>>} :
        Send(Segment(s2c, flags, server.snd, data))
  BY DEF ServerSends, ServerSend, ServerSynAck, ServerAck, ServerRespond, ServerFin, ServerReset
<1>2. Fits(data)
  <2>1. NoPayload \in Payloads
    BY SessionAssumption, Zenon DEF NoPayload
  <2>2. <<NoPayload>> \in Seq(Payloads) /\ Len(<<NoPayload>>) = 1
    BY <2>1
  <2>3. 1 \in 1 .. MaxPayload
    BY SizesAssumption, SessionAssumption
  <2> QED
    BY <2>2, <2>3, Zenon DEF Fits
<1>3. UNCHANGED <<client, seen>>
  BY DEF ServerSends, ServerSend, ServerSynAck, ServerAck, ServerRespond, ServerFin, ServerReset
<1>4. WireTypeOK'
  BY <1>1, <1>2, <1>3, ServerPuts, Zenon
<1>5. /\ server' \in ServerType
      /\ server'.held = server.held /\ server'.rcv = server.rcv /\ server'.snd <= Responses
  <2>1. server \in ServerType /\ server.snd \in Nat /\ server.snd <= Responses /\ Responses \in Nat
    BY SessionAssumption DEF SessionTypeOK, ServerTypeOK, ServerType, Seq32
  <2>2. CASE UNCHANGED server
    BY <2>1, <2>2
  <2>3. CASE server' = [server EXCEPT !.snd = @ + 1] /\ server.snd < Responses
    BY <2>1, <2>3 DEF ServerType
  <2>4. CASE server' = [server EXCEPT !.st = "listen"]
    BY <2>1, <2>4 DEF ServerType
  <2> QED
    BY <2>2, <2>3, <2>4
    DEF ServerSends, ServerSynAck, ServerAck, ServerRespond, ServerFin, ServerReset
<1> QED
  BY <1>3, <1>4, <1>5 DEF SessionTypeOK, ClientTypeOK, ServerTypeOK, EndpointTypes

LEMMA OpeningTypes ==
  ASSUME SessionTypeOK, Opening
  PROVE  EndpointTypes'
<1>1. PICK iss \in ISNs, stream \in Streams : ClientOpen(iss, stream)
  BY DEF Opening
<1> DEFINE seg == Segment(c2s, {"syn"}, iss, <<>>)
<1>2. /\ client' = [st |-> "synsent", iss |-> iss, stream |-> stream, una |-> 0, nxt |-> 0]
      /\ server' = [st |-> "listen", rcv |-> 0, held |-> {}, clean |-> {}, snd |-> 0]
      /\ wire' = [wire EXCEPT ![c2s] = seg] /\ seen' = {}
  BY <1>1 DEF ClientOpen
<1>3. iss \in Seq32 /\ stream \in Seq(Payloads) /\ Responses \in Nat
  BY SessionAssumption DEF Seq32
<1>4. ClientTypeOK'
  BY <1>2, <1>3 DEF ClientTypeOK, ClientType
<1>5. ServerTypeOK'
  BY <1>2, <1>3 DEF ServerTypeOK, ServerType
<1>6. Fits(<<>>) /\ Len(<<>>) = 0
  BY DEF Fits
<1>7. Carries(seg, c2s, {"syn"}, iss, <<>>)
  BY <1>3, <1>6, SegmentType, Ids
<1> HIDE DEF seg
<1>8. /\ seg \in Packet /\ seg.id = c2s /\ seg.len = 0
      /\ ~seg.rst /\ ~seg.fin
  BY <1>6, <1>7 DEF Carries
<1>9. wire' \in [ConnectionId -> Packet] /\ wire'[c2s] = seg /\ wire'[s2c] = wire[s2c]
  BY <1>2, <1>8, Ids, PutOnWire DEF SessionTypeOK, WireTypeOK
<1>10. ClientPacket(wire[c2s])'
  BY <1>8, <1>9 DEF ClientPacket
<1>11. ServerPacket(wire[s2c])'
  BY <1>9 DEF ServerPacket, SessionTypeOK, WireTypeOK
<1> QED
  BY <1>2, <1>4, <1>5, <1>9, <1>10, <1>11 DEF WireTypeOK, EndpointTypes

\* Queued pieces are pieces that the client sent.
LEMMA SentPositions ==
  ASSUME SessionTypeOK
  PROVE  /\ Positions(wire[c2s]) \subseteq 0 .. client.nxt - 1
         /\ Positions(wire[c2s]) \subseteq Nat
         /\ wire[c2s].len > 0 => Positions(wire[c2s]) # {}
<1>1. /\ client \in ClientType /\ client.nxt \in Nat /\ client.nxt <= Len(client.stream)
      /\ Len(client.stream) \in Nat
  BY StreamType DEF SessionTypeOK, ClientTypeOK, ClientType
<1>2. /\ wire[c2s].len \in Nat
      /\ wire[c2s].len > 0 => \E n \in 0 .. client.nxt - wire[c2s].len : wire[c2s].seq = ClientSeq(n)
  BY SizesAssumption DEF SessionTypeOK, WireTypeOK, ClientPacket, Packet, PacketsOn
<1>3. CASE wire[c2s].len > 0
  <2>1. PICK n \in 0 .. client.nxt - wire[c2s].len : wire[c2s].seq = ClientSeq(n)
    BY <1>2, <1>3
  <2>2. n \in 0 .. Len(client.stream) /\ n \in Nat /\ n + wire[c2s].len <= client.nxt
    BY <1>1, <1>2, <1>3
  <2>3. Position(wire[c2s]) = n
    BY <1>1, <2>1, <2>2, PositionOf
  <2>4. \A i \in 0 .. wire[c2s].len - 1 : Position(wire[c2s]) + i \in 0 .. client.nxt - 1
    BY <1>1, <1>2, <2>2, <2>3
  <2>5. 0 \in 0 .. wire[c2s].len - 1
    BY <1>2, <1>3
  <2> QED
    BY <1>1, <2>4, <2>5 DEF Positions
<1>4. CASE ~(wire[c2s].len > 0)
  <2>1. 0 .. wire[c2s].len - 1 = {}
    BY <1>2, <1>4
  <2> QED
    BY <1>4, <2>1 DEF Positions
<1> QED
  BY <1>3, <1>4

LEMMA ReceivedType ==
  ASSUME SessionTypeOK, NEW intact \in BOOLEAN
  PROVE  /\ ServerReceive(wire[c2s], intact) \in ServerType
         /\ ServerReceive(wire[c2s], intact).held \subseteq 0 .. client.nxt - 1
         /\ ServerReceive(wire[c2s], intact).rcv <= client.nxt
         /\ ServerReceive(wire[c2s], intact).snd = server.snd
<1> DEFINE seg == wire[c2s]
           new == Positions(seg) \ server.held
           held == server.held \cup new
           clean == IF intact THEN server.clean \cup new ELSE server.clean
<1>1. /\ client \in ClientType /\ client.nxt \in Nat /\ client.nxt <= Len(client.stream)
      /\ Len(client.stream) \in Nat
      /\ server \in ServerType /\ server.held \subseteq 0 .. client.nxt - 1
      /\ server.rcv <= client.nxt /\ server.clean \subseteq Nat
      /\ seg.syn \in BOOLEAN /\ seg.fin \in BOOLEAN /\ ~(seg.syn /\ seg.fin)
  BY StreamType
  DEF SessionTypeOK, ClientTypeOK, ClientType, ServerTypeOK, ServerType, WireTypeOK,
      ClientPacket, Packet, PacketsOn
<1>2. new \subseteq 0 .. client.nxt - 1 /\ new \subseteq Nat
  BY SentPositions, Zenon
<1> HIDE DEF new
<1>3. held \subseteq 0 .. client.nxt - 1 /\ held \subseteq 0 .. Len(client.stream) - 1
  <2>1. held \subseteq 0 .. client.nxt - 1
    BY <1>1, <1>2, Zenon
  <2> HIDE DEF held
  <2>2. client.nxt \in Nat /\ Len(client.stream) \in Nat /\ client.nxt <= Len(client.stream)
    BY <1>1, Zenon
  <2>3. 0 .. client.nxt - 1 \subseteq 0 .. Len(client.stream) - 1
    BY <2>2
  <2> QED
    BY <2>1, <2>3, Zenon
<1>4. clean \subseteq Nat
  BY <1>1, <1>2, Zenon
<1> HIDE DEF clean, held
<1>5. InOrder(held) \in Nat /\ InOrder(held) <= client.nxt
  <2>1. InOrder(held) \in 0 .. Len(client.stream) /\ 0 .. InOrder(held) - 1 \subseteq held
    BY <1>1, <1>3, InOrderExists, Zenon
  <2>2. client.nxt \in Nat /\ Len(client.stream) \in Nat
    BY <1>1, Zenon
  <2>3. client.nxt \notin held
    BY <1>3, <2>2
  <2> QED
    BY <2>1, <2>2, <2>3
<1>6. CASE seg.syn
  <2>1. ServerReceive(seg, intact) = [server EXCEPT !.st = IF @ = "listen" THEN "synrcvd" ELSE @]
    BY <1>1, <1>6 DEF ServerReceive
  <2> QED
    BY <1>1, <2>1 DEF ServerType
<1>7. CASE seg.fin
  <2>1. ServerReceive(seg, intact) = [server EXCEPT !.st = IF @ = "listen" THEN @ ELSE "closing"]
    BY <1>1, <1>7 DEF ServerReceive
  <2> QED
    BY <1>1, <2>1 DEF ServerType
<1>8. CASE ~seg.syn /\ ~seg.fin
  <2>1. ServerReceive(seg, intact)
          = IF server.st \notin {"synrcvd", "open"} THEN server
            ELSE [server EXCEPT !.st = "open", !.held = held, !.rcv = InOrder(held), !.clean = clean]
    BY <1>1, <1>8 DEF ServerReceive, new, held, clean
  <2>2. held \in SUBSET Nat
    BY <1>3
  <2>3. CASE server.st \notin {"synrcvd", "open"}
    BY <1>1, <2>1, <2>3
  <2>4. CASE server.st \in {"synrcvd", "open"}
    BY <1>1, <1>3, <1>4, <1>5, <2>1, <2>2, <2>4, Zenon DEF ServerType
  <2> QED
    BY <2>3, <2>4
<1> QED
  BY <1>1, <1>6, <1>7, <1>8

LEMMA ClientReceivedType ==
  ASSUME SessionTypeOK
  PROVE  /\ ClientReceive(wire[s2c]) \in ClientType
         /\ ClientReceive(wire[s2c]).nxt = client.nxt
         /\ ClientReceive(wire[s2c]).iss = client.iss
         /\ ClientReceive(wire[s2c]).stream = client.stream
         /\ ClientReceive(wire[s2c]).una <= client.nxt
<1> DEFINE seg == wire[s2c]
<1>1. /\ client \in ClientType /\ client.una <= client.nxt
      /\ server.rcv \in Nat /\ server.rcv <= client.nxt
      /\ seg.syn \in BOOLEAN /\ seg.fin \in BOOLEAN /\ seg.rst \in BOOLEAN
      /\ ~(seg.rst /\ seg.syn) /\ ~(seg.rst /\ seg.fin) /\ ~(seg.syn /\ seg.fin)
  BY DEF SessionTypeOK, ClientTypeOK, ServerTypeOK, ServerType, WireTypeOK, ServerPacket,
         Packet, PacketsOn
<1>2. PICK st \in {"closed", "synsent", "open", "finsent"}, una \in {client.una, server.rcv} :
        ClientReceive(seg) = [client EXCEPT !.st = st, !.una = una]
  <2>1. client.st \in {"closed", "synsent", "open", "finsent"}
    BY <1>1 DEF ClientType
  <2>2. ASSUME NEW st PROVE [client EXCEPT !.st = st] = [client EXCEPT !.st = st, !.una = client.una]
    BY <1>1, Zenon DEF ClientType
  <2>3. ASSUME NEW una PROVE [client EXCEPT !.una = una] = [client EXCEPT !.st = client.st, !.una = una]
    BY <1>1, Zenon DEF ClientType
  <2>4. CASE seg.rst
    BY <1>1, <2>2, <2>4, Zenon DEF ClientReceive
  <2>5. CASE seg.syn
    <3>1. ClientReceive(seg) = [client EXCEPT !.st = IF client.st = "synsent" THEN "open" ELSE client.st]
      BY <1>1, <2>5 DEF ClientReceive
    <3> QED
      BY <2>1, <2>2, <3>1, Zenon
  <2>6. CASE seg.fin
    BY <1>1, <2>6 DEF ClientReceive
  <2>7. CASE ~seg.rst /\ ~seg.syn /\ ~seg.fin
    BY <1>1, <2>1, <2>3, <2>7, Zenon DEF ClientReceive
  <2> QED
    BY <1>1, <2>4, <2>5, <2>6, <2>7
<1> QED
  BY <1>1, <1>2, Zenon DEF ClientType

LEMMA AnsweredTypes ==
  ASSUME SessionTypeOK, NEW id \in {c2s, s2c}, NEW verdict, Answered(id, verdict)
  PROVE  EndpointTypes'
<1>1. /\ server' = server \/ \E intact \in BOOLEAN : server' = ServerReceive(wire[c2s], intact)
      /\ client' = client \/ client' = ClientReceive(wire[s2c])
      /\ seen' = seen \/ seen' = seen \cup Positions(wire[c2s])
      /\ wire' = [wire EXCEPT ![id] = NoSegment(id)]
  BY Zenon DEF Answered
<1>2. /\ client' \in ClientType /\ client'.nxt = client.nxt /\ client'.iss = client.iss
      /\ client'.stream = client.stream /\ client'.una <= client.nxt
  BY <1>1, ClientReceivedType DEF SessionTypeOK, ClientTypeOK
<1>3. ClientTypeOK'
  BY <1>2 DEF ClientTypeOK, SessionTypeOK
<1>4. ServerTypeOK'
  <2>1. /\ server' \in ServerType /\ server'.held \subseteq 0 .. client.nxt - 1
        /\ server'.rcv <= client.nxt /\ server'.snd = server.snd
    BY <1>1, ReceivedType DEF SessionTypeOK, ServerTypeOK
  <2> QED
    BY <1>2, <2>1 DEF ServerTypeOK, SessionTypeOK
<1>5. seen' \subseteq Nat
  <2>1. Positions(wire[c2s]) \subseteq Nat
    BY SentPositions
  <2> QED
    BY <1>1, <2>1, Zenon DEF SessionTypeOK
<1>6. id \in ConnectionId /\ wire \in [ConnectionId -> Packet]
  BY Ids DEF SessionTypeOK, WireTypeOK
<1>7. /\ wire' \in [ConnectionId -> Packet]
      /\ \A other \in ConnectionId : wire'[other] = IF other = id THEN NoSegment(id) ELSE wire[other]
  BY <1>1, <1>6, NoSegmentType, PutOnWire
<1>8. /\ NoSegment(id) \in Packet /\ NoSegment(id).id = id /\ NoSegment(id).len = 0
      /\ ~NoSegment(id).syn /\ ~NoSegment(id).rst
  BY <1>6, NoSegmentType
<1>9. ClientPacket(wire[c2s])'
  <2>1. CASE id = c2s
    <3>1. wire'[c2s] = NoSegment(c2s)
      BY <1>7, <2>1, Ids
    <3> QED
      BY <1>8, <2>1, <3>1 DEF ClientPacket
  <2>2. CASE id # c2s
    <3>1. ClientPacket(wire[c2s]) /\ wire'[c2s] = wire[c2s]
      BY <1>7, <2>2, Ids DEF SessionTypeOK, WireTypeOK
    <3> QED
      BY <1>2, <3>1 DEF ClientPacket, ClientSeq, WrappingAdd
  <2> QED
    BY <2>1, <2>2
<1>10. ServerPacket(wire[s2c])'
  <2>1. CASE id = s2c
    <3>1. wire'[s2c] = NoSegment(s2c)
      BY <1>7, <2>1, Ids
    <3> QED
      BY <1>8, <2>1, <3>1 DEF ServerPacket
  <2>2. CASE id # s2c
    <3>1. ServerPacket(wire[s2c]) /\ wire'[s2c] = wire[s2c]
      BY <1>7, <2>2, Ids DEF SessionTypeOK, WireTypeOK
    <3> QED
      BY <3>1 DEF ServerPacket
  <2> QED
    BY <2>1, <2>2
<1> QED
  BY <1>3, <1>4, <1>5, <1>7, <1>9, <1>10 DEF WireTypeOK, EndpointTypes

LEMMA SessionTypeStep == SessionTypeOK /\ [SessionNext]_sessionVars => SessionTypeOK'
<1> SUFFICES ASSUME SessionTypeOK, [SessionNext]_sessionVars PROVE SessionTypeOK'
  OBVIOUS
<1>1. EndpointTypes'
  <2>1. CASE Opening
    BY <2>1, OpeningTypes
  <2>2. CASE ClientSends
    BY <2>2, ClientSendTypes
  <2>3. CASE ServerSends
    BY <2>3, ServerSendTypes
  <2>4. CASE \E id \in {c2s, s2c} : \E verdict : Answered(id, verdict)
    BY <2>4, AnsweredTypes
  <2>5. CASE UNCHANGED <<client, server, wire, seen>>
    BY <2>5
    DEF SessionTypeOK, EndpointTypes, ClientTypeOK, ServerTypeOK, WireTypeOK,
        ClientPacket, ClientSeq, WrappingAdd, ServerPacket
  <2> QED
    BY <2>1, <2>2, <2>3, <2>4, <2>5, Zenon
    DEF SessionNext, Opening, ClientSends, ServerSends, Examined, Bypassed,
        SessionTick, Reap, Repolicy, endpoints, sessionVars
<1> QED
  BY <1>1, PathTypes DEF SessionTypeOK, EndpointTypes

LEMMA SessionInitTypes == SessionInit => SessionTypeOK
<1> SUFFICES ASSUME SessionInit PROVE SessionTypeOK
  OBVIOUS
<1>1. TypeOK
  <2>1. PICK d \in Installed :
          /\ rules = {r \in d.rules : ValidPriority(r)}
          /\ http_policy = [dir \in Dirs |-> [key \in RuleKeys |->
                              IF key = d.rule_key THEN d.http[dir] ELSE NoHttp]]
    BY DEF SessionInit
  <2>2. rules \subseteq Rule
    BY <2>1, SessionAssumption
  <2>3. \A dir \in Dirs : d.http[dir] \in HttpRules \cup {NoHttp}
    BY SessionAssumption
  <2>4. http_policy \in [Dirs -> [RuleKeys -> HttpRules \cup {NoHttp}]]
    BY <2>1, <2>3
  <2>5. /\ ManagerInit /\ nodes_ip = {}
        /\ connmark = [flow \in Flows |-> 0] /\ skbmark = [id \in ConnectionId |-> NoPacket]
    BY DEF SessionInit
  <2>6. EngineTypeOK /\ microseg_conns \in [ConnectionId -> Entry \cup {NoEntry}]
    BY <2>5 DEF ManagerInit, EngineInit, EngineTypeOK
  <2> QED
    BY <2>2, <2>4, <2>5, <2>6 DEF TypeOK, Marks
<1>2. ClientTypeOK /\ ServerTypeOK /\ seen \subseteq Nat
  <2>1. 0 \in Seq32 /\ Responses \in Nat /\ Len(<<>>) = 0
    BY SizesAssumption, SessionAssumption DEF Seq32
  <2>2. /\ client = [st |-> "closed", iss |-> 0, stream |-> <<>>, una |-> 0, nxt |-> 0]
        /\ server = [st |-> "listen", rcv |-> 0, held |-> {}, clean |-> {}, snd |-> 0]
        /\ seen = {}
    BY DEF SessionInit
  <2>3. ClientTypeOK
    BY <2>1, <2>2 DEF ClientTypeOK, ClientType
  <2>4. server \in ServerType
    BY <2>1, <2>2 DEF ServerType
  <2>5. ServerTypeOK
    BY <2>1, <2>2, <2>4 DEF ServerTypeOK
  <2> QED
    BY <2>2, <2>3, <2>5
<1>3. WireTypeOK
  <2>1. wire = [id \in ConnectionId |-> NoSegment(id)]
    BY DEF SessionInit
  <2> QED
    BY <2>1, NoSegmentType, Ids DEF WireTypeOK, ClientPacket, ServerPacket
<1> QED
  BY <1>1, <1>2, <1>3 DEF SessionTypeOK

(***************************************************************************)
(* A session is type-correct, and its numbers agree: a queued data packet  *)
(* carries the number of a piece that the client sent, what the server     *)
(* holds or acknowledges was sent, and a packet has one of SYN, FIN and    *)
(* RST at most, for every stream and with sequence numbers that wrap       *)
(* around (flow_engine's wrapping_add).                                    *)
(***************************************************************************)
THEOREM SessionTypes == SessionSpec => []SessionTypeOK
  BY SessionInitTypes, SessionTypeStep, PTL DEF SessionSpec

-----------------------------------------------------------------------------
(***************************************************************************)
(* What the steps of a session do to marks and queued packets.             *)
(***************************************************************************)
LEMMA MarkTypes ==
  ASSUME TypeOK
  PROVE  /\ connmark \in [Flows -> Marks] /\ skbmark \in [ConnectionId -> Marks \cup {NoPacket}]
         /\ connmark[Flow(c2s)] \in Marks
  BY Ids DEF TypeOK

LEMMA Statuses ==
  ASSUME SessionTypeOK
  PROVE  /\ client.st \in {"closed", "synsent", "open", "finsent"}
         /\ server.st \in {"listen", "synrcvd", "open", "closing"}
         /\ wire \in [ConnectionId -> Packet]
  BY DEF SessionTypeOK, ClientTypeOK, ServerTypeOK, WireTypeOK, ClientType, ServerType

\* The packet of an id leaves the queue.
LEMMA DequeueMarks ==
  ASSUME SessionTypeOK, NEW id \in {c2s, s2c}, NEW verdict, NEW mark, Dequeue(id, verdict, mark)
  PROVE  /\ skbmark'[id] = NoPacket
         /\ \A other \in {c2s, s2c} \ {id} : skbmark'[other] = skbmark[other]
         /\ connmark'[Flow(c2s)] = IF verdict = "drop" THEN connmark[Flow(c2s)] ELSE mark
<1>1. Flow(id) = Flow(c2s) /\ id \in ConnectionId
  BY Ids
<1>2. TypeOK
  BY DEF SessionTypeOK
<1> QED
  BY <1>1, <1>2, Ids, MarkTypes DEF Dequeue

\* The fields of a segment.
LEMMA SegmentFields ==
  ASSUME NEW id, NEW flags, NEW seq, NEW data
  PROVE  /\ Segment(id, flags, seq, data).syn <=> "syn" \in flags
         /\ Segment(id, flags, seq, data).fin <=> "fin" \in flags
         /\ Segment(id, flags, seq, data).rst <=> "rst" \in flags
         /\ Segment(id, flags, seq, data).len = Len(data)
  BY Zenon DEF Segment

\* A packet is queued, with the mark of its connection.
LEMMA Sent ==
  ASSUME SessionTypeOK, NEW id \in {c2s, s2c}, NEW flags, NEW seq, NEW data,
         Send(Segment(id, flags, seq, data))
  PROVE  /\ UNCHANGED <<tables, policy, connmark>>
         /\ skbmark[id] = NoPacket /\ skbmark'[id] = connmark[Flow(c2s)]
         /\ wire'[id] = Segment(id, flags, seq, data)
         /\ \A other \in {c2s, s2c} \ {id} : skbmark'[other] = skbmark[other] /\ wire'[other] = wire[other]
<1> DEFINE seg == Segment(id, flags, seq, data)
<1>1. seg.id = id
  BY DEF Segment
<1> HIDE DEF seg
<1>2. /\ UNCHANGED <<tables, policy, connmark>> /\ skbmark[id] = NoPacket
      /\ skbmark' = [skbmark EXCEPT ![id] = connmark[Flow(id)]] /\ wire' = [wire EXCEPT ![id] = seg]
  BY <1>1, Zenon DEF seg, Send, Enqueue
<1>3. skbmark \in [ConnectionId -> Marks \cup {NoPacket}] /\ wire \in [ConnectionId -> Packet]
  BY MarkTypes, Statuses DEF SessionTypeOK
<1>4. id \in ConnectionId /\ Flow(id) = Flow(c2s) /\ {c2s, s2c} \subseteq ConnectionId
  BY Ids
<1> QED
  BY <1>2, <1>3, <1>4, Zenon DEF seg

\* What the client and the server leave alone when they send, and the marks.
LEMMA ClientQueues ==
  ASSUME SessionTypeOK, ClientSends
  PROVE  /\ UNCHANGED <<tables, policy, connmark, server, seen>>
         /\ skbmark'[s2c] = skbmark[s2c]
         /\ \/ skbmark[c2s] = NoPacket /\ skbmark'[c2s] = connmark[Flow(c2s)]
            \/ skbmark'[c2s] = skbmark[c2s]
<1>1. /\ UNCHANGED <<server, seen>>
      /\ UNCHANGED vars \/ \E flags, seq, data : Send(Segment(c2s, flags, seq, data))
  BY DEF ClientSends, ClientResendSyn, ClientData, ClientAck, ClientKeepalive, ClientFin
<1>2. UNCHANGED vars => UNCHANGED <<tables, policy, connmark, skbmark>>
  BY Zenon DEF vars, tables, policy
<1> QED
  BY <1>1, <1>2, Sent, Ids

LEMMA ServerQueues ==
  ASSUME SessionTypeOK, ServerSends
  PROVE  /\ UNCHANGED <<tables, policy, connmark, client, seen>> /\ server.st # "listen"
         /\ skbmark[s2c] = NoPacket /\ skbmark'[s2c] = connmark[Flow(c2s)]
         /\ skbmark'[c2s] = skbmark[c2s]
<1>1. \E st \in {"synrcvd", "open", "closing"} : \E flags, data : ServerSend(st, flags, data)
  BY DEF ServerSends, ServerSynAck, ServerAck, ServerRespond, ServerFin, ServerReset
<1>2. /\ server.st # "listen" /\ UNCHANGED <<client, seen>>
      /\ \E flags, seq, data : Send(Segment(s2c, flags, seq, data))
  BY <1>1 DEF ServerSend
<1> QED
  BY <1>2, Sent, Ids, Zenon

\* A connection is opened when the last one is closed and nothing is queued.
LEMMA Opened ==
  ASSUME SessionTypeOK, Opening
  PROVE  /\ UNCHANGED <<tables, policy>> /\ client.st = "closed"
         /\ client'.st = "synsent" /\ server'.st = "listen"
         /\ skbmark'[s2c] = NoPacket /\ skbmark'[c2s] = 0 /\ connmark'[Flow(c2s)] = 0
         /\ wire'[c2s].syn /\ ~wire'[c2s].fin
<1>1. PICK iss \in ISNs, stream \in Streams : ClientOpen(iss, stream)
  BY DEF Opening
<1>2. /\ UNCHANGED <<tables, policy>> /\ client.st = "closed"
      /\ client'.st = "synsent" /\ server'.st = "listen"
      /\ skbmark[s2c] = NoPacket /\ skbmark' = [skbmark EXCEPT ![c2s] = 0]
      /\ connmark' = [connmark EXCEPT ![Flow(c2s)] = 0]
      /\ wire' = [wire EXCEPT ![c2s] = Segment(c2s, {"syn"}, iss, <<>>)]
  BY <1>1 DEF ClientOpen, Idle
<1>3. /\ skbmark \in [ConnectionId -> Marks \cup {NoPacket}] /\ wire \in [ConnectionId -> Packet]
      /\ connmark \in [Flows -> Marks]
  BY MarkTypes, Statuses DEF SessionTypeOK
<1>4. /\ skbmark'[s2c] = NoPacket /\ skbmark'[c2s] = 0 /\ connmark'[Flow(c2s)] = 0
      /\ wire'[c2s] = Segment(c2s, {"syn"}, iss, <<>>)
  BY <1>2, <1>3, Ids, Zenon
<1>5. wire'[c2s].syn /\ ~wire'[c2s].fin
  BY <1>4, SegmentFields
<1> QED
  BY <1>2, <1>4, <1>5

-----------------------------------------------------------------------------
(***************************************************************************)
(* Connections that end by FINs.  The phases of client and server tell     *)
(* which packets may be queued.                                            *)
(***************************************************************************)
Starting == client.st \in {"synsent", "open"}

Phases ==
  /\ client.st = "open" => server.st # "listen"
  /\ server.st = "closing" => ~Starting
  /\ ~Idle(c2s) => /\ Starting => ~wire[c2s].fin
                   /\ ~Starting => wire[c2s].fin /\ wire[c2s].len = 0
                   /\ client.st = "synsent" => wire[c2s].syn
  /\ ~Idle(s2c) => /\ server.st # "listen" /\ ~wire[s2c].rst
                   /\ wire[s2c].fin => server.st = "closing"

\* The client queues a packet of its phase, or loses it.
LEMMA ClientSendPhases ==
  ASSUME SessionTypeOK, Phases, ClientSends
  PROVE  /\ Phases'
         /\ client'.st = client.st \/ (client.st = "open" /\ client'.st = "finsent")
<1>0. client \in ClientType
  BY DEF SessionTypeOK, ClientTypeOK
<1>1. ASSUME NEW flags, NEW seq, NEW data, Send(Segment(c2s, flags, seq, data)),
             "fin" \in flags => data = <<>>
      PROVE  /\ wire'[c2s].fin <=> "fin" \in flags
             /\ wire'[c2s].syn <=> "syn" \in flags
             /\ "fin" \in flags => wire'[c2s].len = 0
             /\ wire'[s2c] = wire[s2c] /\ skbmark'[s2c] = skbmark[s2c]
  <2>1. s2c \in {c2s, s2c} \ {c2s} /\ c2s \in {c2s, s2c}
    BY Ids
  <2>2. /\ wire'[c2s] = Segment(c2s, flags, seq, data)
        /\ \A other \in {c2s, s2c} \ {c2s} : skbmark'[other] = skbmark[other] /\ wire'[other] = wire[other]
    BY <1>1, <2>1, Sent
  <2>3. wire'[s2c] = wire[s2c] /\ skbmark'[s2c] = skbmark[s2c]
    BY <2>1, <2>2, Zenon
  <2> QED
    BY <1>1, <2>2, <2>3, SegmentFields
<1>2. ASSUME ~wire'[c2s].fin, wire'[s2c] = wire[s2c], skbmark'[s2c] = skbmark[s2c],
             server' = server, client'.st = client.st, Starting, client.st = "synsent" => wire'[c2s].syn
      PROVE  Phases'
  BY <1>2, Zenon DEF Phases, Starting, Idle
<1>3. CASE ClientResendSyn
  <2>1. /\ Send(Segment(c2s, {"syn"}, client.iss, <<>>)) /\ server' = server
        /\ client'.st = client.st /\ Starting
    BY <1>3 DEF ClientResendSyn, Starting
  <2>2. ~wire'[c2s].fin /\ wire'[c2s].syn /\ wire'[s2c] = wire[s2c] /\ skbmark'[s2c] = skbmark[s2c]
    BY <1>1, <2>1
  <2> QED
    BY <1>2, <2>1, <2>2, Zenon
<1>4. CASE ClientAck \/ ClientKeepalive \/ ClientData
  <2>1. /\ client'.st = client.st /\ client.st = "open" /\ server' = server
        /\ UNCHANGED <<vars, wire>> \/ \E seq, data : Send(Segment(c2s, {}, seq, data))
    BY <1>0, <1>4 DEF ClientAck, ClientKeepalive, ClientData, ClientType
  <2>2. CASE \E seq, data : Send(Segment(c2s, {}, seq, data))
    <3>1. ~wire'[c2s].fin /\ wire'[s2c] = wire[s2c] /\ skbmark'[s2c] = skbmark[s2c]
      BY <1>1, <2>2
    <3> QED
      BY <1>2, <2>1, <3>1 DEF Starting
  <2>3. CASE UNCHANGED <<vars, wire>>
    <3>1. UNCHANGED <<skbmark, wire>>
      BY <2>3, Zenon DEF vars
    <3> QED
      BY <2>1, <3>1, Zenon DEF Phases, Starting, Idle
  <2> QED
    BY <2>1, <2>2, <2>3
<1>5. CASE ClientFin
  <2>1. /\ Send(Segment(c2s, {"fin"}, ClientSeq(client.nxt), <<>>)) /\ server' = server
        /\ client.st \in {"open", "finsent"} /\ client'.st = "finsent"
    BY <1>0, <1>5 DEF ClientFin, ClientType
  <2>2. wire'[c2s].fin /\ wire'[c2s].len = 0 /\ wire'[s2c] = wire[s2c] /\ skbmark'[s2c] = skbmark[s2c]
    BY <1>1, <2>1
  <2> QED
    BY <2>1, <2>2 DEF Phases, Starting, Idle
<1> QED
  BY <1>3, <1>4, <1>5 DEF ClientSends

LEMMA ServerSendPhases ==
  ASSUME SessionTypeOK, Phases, ServerSends, "reset" \notin behaviours
  PROVE  Phases' /\ server'.st = server.st
<1>1. server \in ServerType
  BY DEF SessionTypeOK, ServerTypeOK
<1>2. PICK flags, data : /\ Send(Segment(s2c, flags, server.snd, data)) /\ "rst" \notin flags
                         /\ "fin" \in flags => server.st = "closing"
                         /\ server'.st = server.st
  BY <1>1 DEF ServerSends, ServerSend, ServerSynAck, ServerAck, ServerFin, ServerRespond, ServerReset, ServerType
<1>3. /\ ~wire'[s2c].rst /\ (wire'[s2c].fin => server.st = "closing")
      /\ wire'[c2s] = wire[c2s]
  <2>1. Send(Segment(s2c, flags, server.snd, data)) /\ c2s # s2c
    BY <1>2, Ids
  <2>2. wire'[s2c] = Segment(s2c, flags, server.snd, data) /\ wire'[c2s] = wire[c2s]
    BY <2>1, Sent, Zenon
  <2> QED
    BY <1>2, <2>2, SegmentFields, Zenon
<1>4. client' = client /\ server.st # "listen" /\ skbmark'[c2s] = skbmark[c2s]
  BY ServerQueues
<1> QED
  BY <1>2, <1>3, <1>4, Zenon DEF Phases, Starting, Idle

LEMMA OpeningPhases ==
  ASSUME SessionTypeOK, Opening
  PROVE  Phases'
BY Opened DEF Phases, Starting, Idle

\* A packet leaves the queue, examined or not.
LEMMA Leaving ==
  ASSUME SessionTypeOK, NEW id \in {c2s, s2c}, NEW dir, Examined(id, dir) \/ Bypassed(id, dir)
  PROVE  /\ ~Idle(id) /\ skbmark'[id] = NoPacket
         /\ \A other \in {c2s, s2c} \ {id} : skbmark'[other] = skbmark[other]
         /\ \E verdict : Answered(id, verdict)
<1>1. wire[id].id = id
  BY Ids DEF SessionTypeOK, WireTypeOK, ClientPacket, ServerPacket
<1>2. \E verdict, mark : Dequeue(id, verdict, mark) /\ Answered(id, verdict)
  BY <1>1, Zenon DEF Examined, TcpCallback, Bypassed, Unexamined
<1>3. ~Idle(id)
  BY <1>1, Zenon DEF Examined, TcpCallback, Bypassed, Unexamined, Idle
<1> QED
  BY <1>2, <1>3, DequeueMarks, Zenon

\* What a packet of the client does to the server's phase.
LEMMA ServerPhase ==
  ASSUME SessionTypeOK, NEW intact, NEW s, s = ServerReceive(wire[c2s], intact)
  PROVE  /\ server.st # "listen" => s.st # "listen"
         /\ server.st = "listen" /\ s.st # "listen" => wire[c2s].syn
         /\ server.st = "closing" => s.st = "closing"
         /\ s.st = "closing" => server.st = "closing" \/ wire[c2s].fin
<1>1. /\ server \in ServerType /\ wire[c2s].fin \in BOOLEAN /\ wire[c2s].syn \in BOOLEAN
      /\ wire[c2s].syn => ~wire[c2s].fin
  BY Zenon DEF SessionTypeOK, ServerTypeOK, WireTypeOK, ClientPacket, Packet, PacketsOn
<1>2. CASE wire[c2s].syn
  <2>1. s = [server EXCEPT !.st = IF server.st = "listen" THEN "synrcvd" ELSE server.st]
    BY <1>1, <1>2 DEF ServerReceive
  <2> QED
    BY <1>1, <1>2, <2>1 DEF ServerType
<1>3. CASE wire[c2s].fin
  <2>1. s = [server EXCEPT !.st = IF server.st = "listen" THEN server.st ELSE "closing"]
    BY <1>1, <1>3 DEF ServerReceive
  <2> QED
    BY <1>1, <1>3, <2>1 DEF ServerType
<1>4. CASE ~wire[c2s].syn /\ ~wire[c2s].fin
  <2>1. CASE server.st \notin {"synrcvd", "open"}
    <3>1. s = server
      BY <1>4, <2>1 DEF ServerReceive
    <3> QED
      BY <3>1
  <2>2. CASE server.st \in {"synrcvd", "open"}
    <3>1. s.st = "open"
      BY <1>1, <1>4, <2>2 DEF ServerReceive, ServerType
    <3> QED
      BY <2>2, <3>1
  <2> QED
    BY <2>1, <2>2
<1> QED
  BY <1>1, <1>2, <1>3, <1>4

\* What a packet of the server does to the client's phase.
LEMMA ClientPhase ==
  ASSUME SessionTypeOK, Phases, ~Idle(s2c), NEW c, c = ClientReceive(wire[s2c])
  PROVE  \/ c.st = client.st
         \/ client.st = "synsent" /\ c.st = "open"
         \/ server.st = "closing" /\ c.st = "closed"
<1>1. /\ client \in ClientType /\ wire[s2c].fin \in BOOLEAN /\ wire[s2c].syn \in BOOLEAN
      /\ ~(wire[s2c].syn /\ wire[s2c].fin)
  BY DEF SessionTypeOK, ClientTypeOK, WireTypeOK, ServerPacket, Packet, PacketsOn
<1>2. ~wire[s2c].rst /\ (wire[s2c].fin => server.st = "closing")
  BY DEF Phases
<1>3. CASE wire[s2c].syn
  <2>1. c = [client EXCEPT !.st = IF client.st = "synsent" THEN "open" ELSE client.st]
    BY <1>1, <1>2, <1>3 DEF ClientReceive
  <2> QED
    BY <1>1, <2>1 DEF ClientType
<1>4. CASE wire[s2c].fin
  <2>1. c.st = "closed"
    BY <1>1, <1>2, <1>4, Zenon DEF ClientReceive, ClientType
  <2> QED
    BY <1>2, <1>4, <2>1
<1>5. CASE ~wire[s2c].syn /\ ~wire[s2c].fin
  BY <1>1, <1>2, <1>5 DEF ClientReceive, ClientType
<1> QED
  BY <1>1, <1>3, <1>4, <1>5

LEMMA AnsweredPhases ==
  ASSUME SessionTypeOK, Phases, NEW id \in {c2s, s2c}, NEW dir, Examined(id, dir) \/ Bypassed(id, dir)
  PROVE  Phases'
<1>1. PICK verdict : Answered(id, verdict)
  BY Leaving
<1>2. CASE id = c2s
  <2>1. ~Idle(c2s) /\ skbmark'[c2s] = NoPacket /\ skbmark'[s2c] = skbmark[s2c]
    BY <1>2, Leaving, Ids, Zenon
  <2>2. /\ client' = client /\ wire' = [wire EXCEPT ![c2s] = NoSegment(c2s)]
        /\ server' = server \/ \E intact : server' = ServerReceive(wire[c2s], intact)
    BY <1>1, <1>2, Ids DEF Answered
  <2>3. wire'[s2c] = wire[s2c]
    BY <2>2, Statuses, Ids
  <2>4. /\ server.st # "listen" => server'.st # "listen"
        /\ server.st = "closing" => server'.st = "closing"
        /\ server'.st = "closing" => server.st = "closing" \/ wire[c2s].fin
    BY <2>2, ServerPhase
  <2> QED
    BY <2>1, <2>2, <2>3, <2>4, Zenon DEF Phases, Starting, Idle
<1>3. CASE id = s2c
  <2>1. ~Idle(s2c) /\ skbmark'[s2c] = NoPacket /\ skbmark'[c2s] = skbmark[c2s]
    BY <1>3, Leaving, Ids, Zenon
  <2>2. /\ server' = server /\ wire' = [wire EXCEPT ![s2c] = NoSegment(s2c)]
        /\ client' = client \/ client' = ClientReceive(wire[s2c])
    BY <1>1, <1>3, Ids DEF Answered
  <2>3. wire'[c2s] = wire[c2s]
    BY <2>2, Statuses, Ids
  <2>4. \/ client'.st = client.st
        \/ client.st = "synsent" /\ client'.st = "open"
        \/ server.st = "closing" /\ client'.st = "closed"
    BY <2>1, <2>2, ClientPhase
  <2> QED
    BY <2>1, <2>2, <2>3, <2>4, Zenon DEF Phases, Starting, Idle
<1> QED
  BY <1>2, <1>3
=============================================================================
