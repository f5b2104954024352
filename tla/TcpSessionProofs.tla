-------------------------- MODULE TcpSessionProofs --------------------------
(***************************************************************************)
(* Connections through the daemon, for every stream, window, number of     *)
(* connections, sequence space and timeout, under loss, resets, probes,    *)
(* pauses and policies about other pods: the rules in force are applied.   *)
(***************************************************************************)
EXTENDS SessionTypesProofs

-----------------------------------------------------------------------------
(***************************************************************************)
(* The policies that RulesNotBypassed is about.  The policy in force has   *)
(* rules on requests to the pod that agree in what they do, and none on    *)
(* the responses; what is installed later is about other pods, under other *)
(* names.                                                                  *)
(***************************************************************************)
OnRequests(r) == r.dir = "ingress" /\ c2s \in r.ids
OnResponses(r) == r.dir = "egress" /\ s2c \in r.ids

PoliciesApart ==
  /\ \A d \in Installed :
       /\ \A r \in d.rules : ~OnResponses(r)
       /\ \A r, q \in d.rules : OnRequests(r) /\ OnRequests(q) => r.action = q.action
  /\ \A d \in Definitions :
       /\ ~d.names_pod
       /\ \A i \in Installed : d.rule_key # i.rule_key
       /\ \A r \in d.rules : ~OnRequests(r) /\ ~OnResponses(r)

\* The policy in force stays in force.
PolicyInv ==
  /\ nodes_ip = {}
  /\ \A r \in rules : ValidPriority(r) /\ ~OnResponses(r)
  /\ \A r, q \in IngressRules : r.action = q.action /\ r.rule_key = q.rule_key
  /\ \A r \in IngressRules : \E d \in Installed : r.rule_key = d.rule_key

\* The policy key of a tracked request direction is the one in force.
KeyInForce ==
  MicrosegTracked(c2s) =>
    \E r \in IngressRules : /\ r.rule_key = microseg_conns[c2s].rule_key
                            /\ HasHttp("ingress", r.rule_key)

DenyInForce == \E r \in IngressRules : r.action = kDeny /\ ~HasHttp("ingress", r.rule_key)

\* Under HTTP rules: the mark of the connection, the marks of the queued
\* response and request, the server's state and whether requests are tracked.
\* A response is never examined, and kAllow goes with an untracked direction.
HttpMarks(mark, response, request, st, tracked) ==
  /\ mark \in {0, kAllowReq, kAllow}
  /\ response \in {NoPacket, kAllowReq, kAllow}
  /\ request \in {NoPacket, 0, kAllowReq, kAllow}
  /\ mark = 0 => st = "listen" /\ response = NoPacket
  /\ request = 0 => mark = 0
  /\ request = kAllowReq => mark # kAllow
  /\ response = kAllow => mark = kAllow
  /\ tracked => mark # kAllow /\ request # kAllow

\* Under a rule that denies: nothing ever answers.
DenyMarks(mark, response, request, st) ==
  /\ mark \in {0, kAllowReq}
  /\ response = NoPacket
  /\ request \in {NoPacket, 0, kAllowReq}
  /\ st = "listen"

UnderHttp == HttpMarks(connmark[Flow(c2s)], skbmark[s2c], skbmark[c2s], server.st, MicrosegTracked(c2s))
UnderDenial == DenyMarks(connmark[Flow(c2s)], skbmark[s2c], skbmark[c2s], server.st)

MarksInv == (HttpInForce => UnderHttp) /\ (DenyInForce => UnderDenial)

BypassInv == PolicyInv /\ KeyInForce /\ MarksInv

-----------------------------------------------------------------------------
(***************************************************************************)
(* Matching.                                                               *)
(***************************************************************************)
LEMMA RequestMatch ==
  ASSUME TypeOK, PolicyInv
  PROVE  /\ MatchNetPolicyRule(c2s, "ingress") \subseteq IngressRules
         /\ IngressRules # {} => MatchNetPolicyRule(c2s, "ingress") # {}
         /\ MatchNetPolicyRule(s2c, "egress") = {}
<1>1. ASSUME NEW r \in rules PROVE r.priority \in Nat
  BY DEF TypeOK, Rule, PolicyInv, ValidPriority
<1>2. MatchNetPolicyRule(c2s, "ingress")
        = {r \in IngressRules : \A q \in IngressRules : r.priority <= q.priority}
  BY DEF MatchNetPolicyRule, IngressRules, PolicyInv
<1>3. ASSUME IngressRules # {} PROVE MatchNetPolicyRule(c2s, "ingress") # {}
  <2> DEFINE T == {r.priority : r \in IngressRules}
  <2>1. T \subseteq Nat /\ T # {}
    BY <1>1, <1>3 DEF IngressRules
  <2> HIDE DEF T
  <2>2. PICK n \in T : \A m \in T : n <= m
    BY <2>1, Least, Zenon
  <2>3. PICK r \in IngressRules : r.priority = n
    BY DEF T
  <2>4. \A q \in IngressRules : r.priority <= q.priority
    BY <2>2, <2>3 DEF T
  <2> QED
    BY <1>2, <2>4
<1>4. MatchNetPolicyRule(s2c, "egress") = {}
  BY DEF MatchNetPolicyRule, PolicyInv, OnResponses
<1> QED
  BY <1>2, <1>3, <1>4

LEMMA RequestMatches ==
  ASSUME TypeOK, PolicyInv, NEW m \in MatchMicroPolicyRule(c2s, "ingress")
  PROVE  /\ IngressRules # {} => \E r \in IngressRules : m.action = r.action /\ m.rule_key = r.rule_key
         /\ IngressRules = {} => m.action = kDefault
<1>1. MatchNetPolicyRule(Peer(c2s), Opposite("ingress")) = {}
  BY RequestMatch, Ids DEF Opposite
<1>2. CASE MatchNetPolicyRule(c2s, "ingress") = {}
  <2>1. m = NoMatch
    BY <1>2 DEF MatchMicroPolicyRule
  <2> QED
    BY <1>2, <2>1, RequestMatch DEF NoMatch, Match
<1>3. CASE MatchNetPolicyRule(c2s, "ingress") # {}
  <2>1. PICK r \in MatchNetPolicyRule(c2s, "ingress") : m = Match(r.action, r.rule_key)
    BY <1>1, <1>3, Zenon DEF MatchMicroPolicyRule
  <2> QED
    BY <2>1, RequestMatch DEF Match
<1> QED
  BY <1>2, <1>3

-----------------------------------------------------------------------------
(***************************************************************************)
(* The answers to requests.                                                *)
(***************************************************************************)
HttpAnswer(p, nfmark, r) ==
  /\ r.verdict # "drop"
  /\ r.mark \in {kAllowReq, kAllow, nfmark}
  /\ p.syn => r.mark = kAllowReq
  /\ r.mark = kAllow => r.conns[c2s] = NoEntry /\ PacketKind(p) = "Closed"
  /\ r.conns[c2s] # NoEntry => \E q \in IngressRules : q.rule_key = r.conns[c2s].rule_key

DenyAnswer(p, r) == r.verdict = "drop" \/ (~p.syn /\ r.mark = kAllowReq)

\* What a rule answers to an untracked request.
LEMMA BindAnswer ==
  ASSUME TypeOK, PolicyInv, NEW p \in Packet, p.id = c2s, NEW nfmark, nfmark # kAllow,
         NEW conns \in Conns, conns[c2s] = NoEntry,
         NEW m \in MatchMicroPolicyRule(c2s, "ingress"),
         NEW r \in Bind("ingress", p, nfmark, conns, m)
  PROVE  /\ HttpInForce => HttpAnswer(p, nfmark, r)
         /\ ~HttpInForce => r.conns[c2s] = NoEntry
         /\ DenyInForce => r.verdict = "drop"
<1>1. CASE IngressRules = {}
  <2>1. m.action = kDefault
    BY <1>1, RequestMatches
  <2>2. r = Accept(conns, kAllow)
    BY <2>1 DEF Bind
  <2> QED
    BY <1>1, <2>2 DEF HttpInForce, DenyInForce, Accept, Answer
<1>2. CASE IngressRules # {}
  <2>1. PICK q \in IngressRules : m.action = q.action /\ m.rule_key = q.rule_key
    BY <1>2, RequestMatches
  <2>2. /\ m.action # kDefault /\ m.rule_key \in RuleKeys
        /\ \A x \in IngressRules : x.action = m.action /\ x.rule_key = m.rule_key
    BY <2>1 DEF TypeOK, Rule, RuleActions, kDeny, kAllow, kMark, kDefault, PolicyInv, IngressRules
  <2>3. CASE ~HasHttp("ingress", m.rule_key)
    <3>1. r = ByRule(conns, nfmark, m) /\ ~HttpInForce
      BY <2>2, <2>3 DEF Bind, HttpInForce
    <3>2. r.conns = conns /\ (m.action = kDeny => r.verdict = "drop")
      BY <3>1 DEF ByRule, Answer
    <3> QED
      BY <2>2, <3>1, <3>2 DEF DenyInForce
  <2>4. CASE HasHttp("ingress", m.rule_key)
    <3>1. r.verdict # "drop" /\ r.mark = kAllowReq /\ r.conns[c2s].rule_key = m.rule_key
      BY <2>2, <2>4, BindTracks DEF TrackMark
    <3>2. HttpAnswer(p, nfmark, r)
      BY <2>1, <3>1 DEF HttpAnswer, kAllow, kAllowReq
    <3>3. HttpInForce /\ ~DenyInForce
      BY <2>1, <2>2, <2>4 DEF HttpInForce, DenyInForce
    <3> QED
      BY <3>2, <3>3
  <2> QED
    BY <2>3, <2>4
<1> QED
  BY <1>1, <1>2

\* What the daemon answers to a request of the client.
LEMMA RequestAnswer ==
  ASSUME TypeOK, PolicyInv, KeyInForce, NEW p \in Packet, p.id = c2s, ~p.rst, p.syn => ~p.fin,
         NEW nfmark, nfmark # kAllow, NEW r \in TcpAnswers("ingress", p, nfmark)
  PROVE  /\ HttpInForce => HttpAnswer(p, nfmark, r)
         /\ ~HttpInForce => r.conns[c2s] = NoEntry
         /\ DenyInForce => DenyAnswer(p, r)
<1> DEFINE touched == MicrosegTouch(microseg_conns, p)
           conns == MicrosegClose(touched, p)
<1>1. Within(touched) /\ (MicrosegTracked(c2s) => touched[c2s] # NoEntry)
  BY TouchWithin DEF TypeOK, Conns
<1> HIDE DEF touched
<1>2. /\ Within(conns)
      /\ PacketKind(p) = "Closed" => conns[c2s] = NoEntry
      /\ PacketKind(p) # "Closed" => conns = touched
  BY <1>1, CloseWithin
<1> HIDE DEF conns
<1>3. /\ conns \in Conns
      /\ conns[c2s] # NoEntry => MicrosegTracked(c2s) /\ conns[c2s].rule_key = microseg_conns[c2s].rule_key
  BY <1>2, Ids DEF Within
<1>4. PacketKind(p) # "Ignore" /\ (PacketKind(p) = "Closed" => ~p.syn)
  BY DEF PacketKind
<1>5. CASE MicrosegTracked(c2s)
  <2>1. PICK q \in IngressRules : q.rule_key = microseg_conns[c2s].rule_key /\ HasHttp("ingress", q.rule_key)
    BY <1>5 DEF KeyInForce
  <2>2. HttpInForce /\ ~DenyInForce
    BY <2>1 DEF HttpInForce, DenyInForce, PolicyInv
  <2>3. r \in Tracked("ingress", p, nfmark, conns)
    BY <1>4, <1>5 DEF TcpAnswers, touched, conns
  <2>4. CASE PacketKind(p) = "Closed"
    <3>1. r = Accept(conns, kAllow)
      BY <2>3, <2>4 DEF Tracked
    <3> QED
      BY <1>2, <1>4, <2>2, <2>4, <3>1 DEF HttpAnswer, Accept, Answer
  <2>5. CASE PacketKind(p) # "Closed" /\ r = Accept(conns, TrackMark("ingress"))
    BY <1>3, <2>1, <2>2, <2>5 DEF HttpAnswer, Accept, Answer, TrackMark, kAllow, kAllowReq
  <2>6. CASE PacketKind(p) # "Closed" /\ ~p.syn /\ r = Accept(conns, nfmark)
    BY <1>3, <2>1, <2>2, <2>6 DEF HttpAnswer, Accept, Answer
  <2>7. CASE PacketKind(p) # "Closed" /\ ~p.syn /\ r \in Inspect("ingress", p, conns, microseg_conns[c2s].rule_key)
    <3>1. conns[c2s] # NoEntry
      BY <1>1, <1>2, <1>5, <2>7
    <3>2. r.verdict # "drop" /\ r.mark = kAllowReq /\ r.conns[c2s].rule_key = microseg_conns[c2s].rule_key
      BY <1>3, <2>1, <2>7, <3>1, InspectTracks DEF TrackMark
    <3> QED
      BY <2>1, <2>2, <2>7, <3>2 DEF HttpAnswer, kAllow, kAllowReq
  <2> QED
    BY <2>3, <2>4, <2>5, <2>6, <2>7 DEF Tracked
<1>6. CASE ~MicrosegTracked(c2s)
  <2>1. r \in Untracked("ingress", p, nfmark, conns) /\ conns[c2s] = NoEntry
    BY <1>3, <1>4, <1>6 DEF TcpAnswers, touched, conns
  <2>2. CASE ~p.syn /\ ~HasPayload(p)
    <3>1. r = Accept(conns, TrackMark("ingress"))
      BY <2>1, <2>2 DEF Untracked
    <3> QED
      BY <2>1, <2>2, <3>1 DEF HttpAnswer, DenyAnswer, Accept, Answer, TrackMark, kAllow, kAllowReq
  <2>3. CASE p.syn \/ HasPayload(p)
    <3>1. PICK m \in MatchMicroPolicyRule(c2s, "ingress") : r \in Bind("ingress", p, nfmark, conns, m)
      BY <2>1, <2>3 DEF Untracked
    <3> QED
      BY <1>3, <2>1, <3>1, BindAnswer DEF DenyAnswer
  <2> QED
    BY <2>2, <2>3 DEF Packet, PacketsOn
<1> QED
  BY <1>5, <1>6

-----------------------------------------------------------------------------
(***************************************************************************)
(* The steps.                                                              *)
(***************************************************************************)
LEMMA NoPacketMark == NoPacket \notin {0, kAllowReq, kAllow, kAllowRsp}
BY NoPacketAssumption DEF Marks, kAllowReq, kAllow, kAllowRsp

LEMMA Unfold ==
  ASSUME BypassInv
  PROVE  /\ PolicyInv /\ KeyInForce
         /\ HttpInForce => UnderHttp
         /\ DenyInForce => UnderDenial
BY DEF BypassInv, MarksInv

\* While the policy stays, the invariant is about marks, server and entry.
LEMMA SamePolicy ==
  ASSUME BypassInv, UNCHANGED policy,
         microseg_conns'[c2s] # NoEntry =>
           \E r \in IngressRules : /\ r.rule_key = microseg_conns'[c2s].rule_key
                                   /\ HasHttp("ingress", r.rule_key),
         HttpInForce => UnderHttp',
         DenyInForce => UnderDenial'
  PROVE  BypassInv'
<1>1. rules' = rules /\ http_policy' = http_policy /\ nodes_ip' = nodes_ip
  BY DEF policy
<1>2. IngressRules' = IngressRules /\ \A key : HasHttp("ingress", key)' <=> HasHttp("ingress", key)
  BY <1>1 DEF IngressRules, HasHttp
<1>3. PolicyInv'
  BY <1>1, <1>2, Unfold DEF PolicyInv
<1>4. KeyInForce'
  BY <1>2 DEF KeyInForce, MicrosegTracked
<1>5. (HttpInForce' <=> HttpInForce) /\ (DenyInForce' <=> DenyInForce)
  BY <1>2 DEF HttpInForce, DenyInForce
<1>6. MarksInv'
  BY <1>5 DEF MarksInv
<1> QED
  BY <1>3, <1>4, <1>6 DEF BypassInv

\* So does the key of an entry that is kept.
LEMMA SameEntry ==
  ASSUME BypassInv, UNCHANGED policy,
         microseg_conns'[c2s] # NoEntry =>
           MicrosegTracked(c2s) /\ microseg_conns'[c2s].rule_key = microseg_conns[c2s].rule_key,
         HttpInForce => UnderHttp',
         DenyInForce => UnderDenial'
  PROVE  BypassInv'
<1>1. microseg_conns'[c2s] # NoEntry =>
        \E r \in IngressRules : /\ r.rule_key = microseg_conns'[c2s].rule_key
                                /\ HasHttp("ingress", r.rule_key)
  BY Unfold DEF KeyInForce
<1> QED
  BY <1>1, SamePolicy

\* The client queues a packet, or loses it.
LEMMA ClientSendMarks ==
  ASSUME SessionTypeOK, BypassInv, ClientSends
  PROVE  BypassInv'
<1>1. microseg_conns' = microseg_conns /\ connmark' = connmark /\ server' = server /\ UNCHANGED policy
  BY ClientQueues DEF tables
<1>2. UnderHttp => UnderHttp'
  BY <1>1, ClientQueues DEF UnderHttp, HttpMarks, MicrosegTracked, kAllow, kAllowReq
<1>3. UnderDenial => UnderDenial'
  BY <1>1, ClientQueues DEF UnderDenial, DenyMarks
<1> QED
  BY <1>1, <1>2, <1>3, Unfold, SameEntry DEF MicrosegTracked

\* The server queues a packet; it is past listening.
LEMMA ServerSendMarks ==
  ASSUME SessionTypeOK, BypassInv, ServerSends
  PROVE  BypassInv'
<1>1. microseg_conns' = microseg_conns /\ connmark' = connmark /\ UNCHANGED policy
  BY ServerQueues DEF tables
<1>2. ~UnderDenial
  BY ServerQueues DEF UnderDenial, DenyMarks
<1>3. UnderHttp => UnderHttp'
  BY <1>1, ServerQueues DEF UnderHttp, HttpMarks, MicrosegTracked, kAllow, kAllowReq
<1> QED
  BY <1>1, <1>2, <1>3, Unfold, SameEntry DEF MicrosegTracked

LEMMA OpeningMarks ==
  ASSUME SessionTypeOK, BypassInv, Opening
  PROVE  BypassInv'
<1>1. microseg_conns' = microseg_conns /\ UNCHANGED policy
  BY Opened DEF tables
<1>2. UnderHttp' /\ UnderDenial'
  BY Opened, NoPacketMark DEF UnderHttp, UnderDenial, HttpMarks, DenyMarks, kAllow, kAllowReq
<1> QED
  BY <1>1, <1>2, SameEntry DEF MicrosegTracked

\* The server stays listening unless a SYN reaches it.
LEMMA Listening ==
  ASSUME SessionTypeOK, server.st = "listen", ~wire[c2s].syn, NEW intact
  PROVE  ServerReceive(wire[c2s], intact).st = "listen"
<1>1. server \in ServerType /\ wire[c2s].fin \in BOOLEAN
  BY DEF SessionTypeOK, ServerTypeOK, WireTypeOK, ClientPacket, Packet, PacketsOn
<1>2. CASE wire[c2s].fin
  BY <1>1, <1>2 DEF ServerReceive, ServerType
<1>3. CASE ~wire[c2s].fin
  BY <1>1, <1>3 DEF ServerReceive
<1> QED
  BY <1>1, <1>2, <1>3

\* A request is examined, with an answer r.
RequestStep(r) ==
  /\ r \in TcpAnswers("ingress", wire[c2s], skbmark[c2s])
  /\ skbmark[c2s] \notin {NoPacket, kAllow, kAllowRsp}
  /\ microseg_conns' = r.conns /\ UNCHANGED policy /\ receive(wire[c2s])
  /\ HttpInForce => HttpAnswer(wire[c2s], skbmark[c2s], r)
  /\ ~HttpInForce => r.conns[c2s] = NoEntry
  /\ DenyInForce => DenyAnswer(wire[c2s], r)
  /\ skbmark'[c2s] = NoPacket /\ skbmark'[s2c] = skbmark[s2c]
  /\ connmark'[Flow(c2s)] = IF r.verdict = "drop" THEN connmark[Flow(c2s)] ELSE r.mark
  /\ Answered(c2s, r.verdict)

LEMMA RequestExamined ==
  ASSUME SessionTypeOK, BypassInv, Examined(c2s, "ingress")
  PROVE  \E r : RequestStep(r)
<1>1. PICK r \in TcpAnswers("ingress", wire[c2s], skbmark[c2s]) :
        TcpCallback("ingress", wire[c2s], r) /\ Answered(c2s, r.verdict)
  BY DEF Examined
<1>2. /\ wire[c2s] \in Packet /\ wire[c2s].id = c2s
      /\ ~wire[c2s].rst /\ (wire[c2s].syn => ~wire[c2s].fin)
  BY DEF SessionTypeOK, WireTypeOK, ClientPacket
<1>3. /\ skbmark[c2s] \notin {NoPacket, kAllow, kAllowRsp}
      /\ microseg_conns' = r.conns /\ UNCHANGED policy /\ receive(wire[c2s])
      /\ Dequeue(c2s, r.verdict, r.mark)
  BY <1>1, <1>2, Zenon DEF TcpCallback, BypassMarks
<1>4. /\ HttpInForce => HttpAnswer(wire[c2s], skbmark[c2s], r)
      /\ ~HttpInForce => r.conns[c2s] = NoEntry
      /\ DenyInForce => DenyAnswer(wire[c2s], r)
  <2>1. TypeOK
    BY DEF SessionTypeOK
  <2> QED
    BY <1>1, <1>2, <1>3, <2>1, Unfold, RequestAnswer
<1>5. /\ skbmark'[c2s] = NoPacket /\ skbmark'[s2c] = skbmark[s2c]
      /\ connmark'[Flow(c2s)] = IF r.verdict = "drop" THEN connmark[Flow(c2s)] ELSE r.mark
  BY <1>3, Ids, DequeueMarks
<1> QED
  BY <1>1, <1>3, <1>4, <1>5, Zenon DEF RequestStep

LEMMA RequestMarks ==
  ASSUME SessionTypeOK, BypassInv, Examined(c2s, "ingress")
  PROVE  BypassInv'
<1>1. PICK r : RequestStep(r)
  BY RequestExamined
<1>3. skbmark[c2s] \notin {NoPacket, kAllow, kAllowRsp} /\ microseg_conns' = r.conns /\ UNCHANGED policy
  BY <1>1 DEF RequestStep
<1>4. /\ HttpInForce => HttpAnswer(wire[c2s], skbmark[c2s], r)
      /\ ~HttpInForce => r.conns[c2s] = NoEntry
      /\ DenyInForce => DenyAnswer(wire[c2s], r)
  BY <1>1 DEF RequestStep
<1>5. /\ skbmark'[c2s] = NoPacket /\ skbmark'[s2c] = skbmark[s2c]
      /\ connmark'[Flow(c2s)] = IF r.verdict = "drop" THEN connmark[Flow(c2s)] ELSE r.mark
  BY <1>1 DEF RequestStep
<1>6. server' = IF r.verdict = "drop" THEN server ELSE ServerReceive(wire[c2s], r.verdict = "accept")
  BY <1>1 DEF RequestStep, Answered
<1>7. ASSUME r.conns[c2s] # NoEntry
      PROVE  \E q \in IngressRules : q.rule_key = r.conns[c2s].rule_key /\ HasHttp("ingress", q.rule_key)
  <2>1. HttpInForce /\ \E q \in IngressRules : q.rule_key = r.conns[c2s].rule_key
    BY <1>4, <1>7 DEF HttpAnswer
  <2> QED
    BY <2>1, Unfold DEF HttpInForce, PolicyInv
<1>8. ASSUME HttpInForce PROVE UnderHttp'
  <2>1. UnderHttp /\ HttpAnswer(wire[c2s], skbmark[c2s], r)
    BY <1>4, <1>8, Unfold
  <2>2. /\ skbmark[c2s] = 0 \/ skbmark[c2s] = kAllowReq
        /\ skbmark[s2c] \in {NoPacket, kAllowReq}
        /\ skbmark[c2s] = 0 => server.st = "listen" /\ skbmark[s2c] = NoPacket
    BY <1>3, <2>1 DEF UnderHttp, HttpMarks, kAllow, kAllowReq
  <2>3. /\ r.mark \in {0, kAllowReq, kAllow} /\ connmark'[Flow(c2s)] = r.mark
        /\ r.mark = 0 => skbmark[c2s] = 0 /\ ~wire[c2s].syn /\ r.verdict # "drop"
    BY <1>5, <2>1, <2>2 DEF HttpAnswer, kAllow, kAllowReq
  <2>4. microseg_conns'[c2s] # NoEntry => r.mark # kAllow
    BY <1>3, <2>1 DEF HttpAnswer
  <2>5. r.mark = 0 => server'.st = "listen" /\ skbmark[s2c] = NoPacket
    BY <1>6, <2>2, <2>3, Listening
  <2> QED
    BY <1>5, <2>2, <2>3, <2>4, <2>5, NoPacketMark
    DEF UnderHttp, HttpMarks, MicrosegTracked, kAllow, kAllowReq
<1>9. ASSUME DenyInForce PROVE UnderDenial'
  <2>1. UnderDenial
    BY <1>9, Unfold
  <2>2. r.verdict # "drop" => ~wire[c2s].syn /\ r.mark = kAllowReq
    BY <1>4, <1>9 DEF DenyAnswer
  <2>3. server.st = "listen"
    BY <2>1 DEF UnderDenial, DenyMarks
  <2>4. server'.st = "listen"
    BY <1>6, <2>2, <2>3, Listening
  <2> QED
    BY <1>5, <2>1, <2>2, <2>4 DEF UnderDenial, DenyMarks
<1> QED
  BY <1>3, <1>7, <1>8, <1>9, SamePolicy

\* A response is examined: neither under HTTP rules nor under a denial.
LEMMA ResponseLeaves ==
  ASSUME SessionTypeOK, BypassInv, Examined(s2c, "egress")
  PROVE  ~HttpInForce /\ ~DenyInForce /\ UNCHANGED policy /\ microseg_conns'[c2s] = NoEntry
<1>0. TypeOK
  BY DEF SessionTypeOK
<1>1. PICK r \in TcpAnswers("egress", wire[s2c], skbmark[s2c]) :
        TcpCallback("egress", wire[s2c], r)
  BY DEF Examined
<1>2. wire[s2c] \in Packet /\ wire[s2c].id = s2c
  BY DEF SessionTypeOK, WireTypeOK, ServerPacket
<1>3. /\ skbmark[s2c] \notin {NoPacket, kAllow, kAllowReq}
      /\ microseg_conns' = r.conns /\ UNCHANGED policy
  BY <1>1, <1>2 DEF TcpCallback, BypassMarks
<1>4. ~UnderHttp /\ ~UnderDenial
  BY <1>3 DEF UnderHttp, UnderDenial, HttpMarks, DenyMarks
<1>5. ~HttpInForce /\ ~DenyInForce
  BY <1>4, Unfold
<1>6. ~MicrosegTracked(c2s)
  BY <1>5, Unfold DEF KeyInForce, HttpInForce
<1>7. skbmark[s2c] \in Marks
  BY <1>0, <1>3, Ids, MarkTypes
<1>8. r.conns[c2s] = NoEntry
  BY <1>0, <1>1, <1>2, <1>6, <1>7, Ids, AnswerOther
<1> QED
  BY <1>3, <1>5, <1>8

LEMMA ResponseMarks ==
  ASSUME SessionTypeOK, BypassInv, Examined(s2c, "egress")
  PROVE  BypassInv'
BY ResponseLeaves, SameEntry

\* A packet passes unexamined.
LEMMA BypassedMarks ==
  ASSUME SessionTypeOK, BypassInv, Bypassed(c2s, "ingress") \/ Bypassed(s2c, "egress")
  PROVE  BypassInv'
<1>1. UNCHANGED <<tables, policy>>
  BY DEF Bypassed, Unexamined
<1>2. microseg_conns' = microseg_conns
  BY <1>1 DEF tables
<1>3. (UnderHttp => UnderHttp') /\ ~UnderDenial
  <2>1. CASE Bypassed(c2s, "ingress")
    <3>1. skbmark[c2s] \in {kAllow, kAllowRsp} /\ Dequeue(c2s, "accept", skbmark[c2s])
      BY <2>1 DEF Bypassed, BypassMarks, Unexamined
    <3>2. /\ skbmark'[c2s] = NoPacket /\ skbmark'[s2c] = skbmark[s2c]
          /\ connmark'[Flow(c2s)] = skbmark[c2s]
      BY <3>1, Ids, DequeueMarks
    <3>3. ~UnderDenial
      BY <3>1, NoPacketMark DEF UnderDenial, DenyMarks, kAllow, kAllowRsp, kAllowReq
    <3>4. ASSUME UnderHttp PROVE UnderHttp'
      <4>1. skbmark[c2s] = kAllow
        BY <3>1, <3>4, NoPacketMark DEF UnderHttp, HttpMarks, kAllow, kAllowRsp, kAllowReq
      <4> QED
        BY <1>2, <3>2, <3>4, <4>1, NoPacketMark
        DEF UnderHttp, HttpMarks, MicrosegTracked, kAllow, kAllowReq
    <3> QED
      BY <3>3, <3>4
  <2>2. CASE Bypassed(s2c, "egress")
    <3>1. skbmark[s2c] \in {kAllow, kAllowReq} /\ Dequeue(s2c, "accept", skbmark[s2c])
      BY <2>2 DEF Bypassed, BypassMarks, Unexamined
    <3>2. /\ skbmark'[s2c] = NoPacket /\ skbmark'[c2s] = skbmark[c2s]
          /\ connmark'[Flow(c2s)] = skbmark[s2c]
      BY <3>1, Ids, DequeueMarks
    <3>3. server' = server
      BY <2>2, Ids DEF Bypassed, Answered
    <3>4. ~UnderDenial
      BY <3>1, NoPacketMark DEF UnderDenial, DenyMarks
    <3>5. ASSUME UnderHttp PROVE UnderHttp'
      <4>1. HttpMarks(skbmark[s2c], NoPacket, skbmark[c2s], server.st, MicrosegTracked(c2s))
        BY <3>1, <3>5, NoPacketMark DEF UnderHttp, HttpMarks, kAllow, kAllowReq
      <4> QED
        BY <1>2, <3>2, <3>3, <4>1 DEF UnderHttp, MicrosegTracked
    <3> QED
      BY <3>4, <3>5
  <2> QED
    BY <2>1, <2>2
<1> QED
  BY <1>1, <1>2, <1>3, Unfold, SameEntry DEF MicrosegTracked

\* Time passes, and the reaper sweeps: entries keep their keys or go.
LEMMA TimeMarks ==
  ASSUME SessionTypeOK, BypassInv, SessionTick \/ Reap
  PROVE  BypassInv'
<1>1. UNCHANGED <<policy, connmark, skbmark, server>>
  BY DEF SessionTick, Tick, Reap, ReaperTimerEvent, endpoints
<1>2. microseg_conns'[c2s] # NoEntry =>
        MicrosegTracked(c2s) /\ microseg_conns'[c2s].rule_key = microseg_conns[c2s].rule_key
  <2>1. CASE Tick
    <3>1. MicrosegTracked(c2s) => microseg_conns[c2s] \in Entry
      BY Ids DEF MicrosegTracked, SessionTypeOK, TypeOK
    <3> QED
      BY <2>1, <3>1, EntryFacts, Ids DEF Tick, AgeEntries, MicrosegTracked
  <2>2. CASE ReaperTimerEvent
    BY <2>2, Ids DEF ReaperTimerEvent, EvictStale, MicrosegTracked
  <2> QED
    BY <2>1, <2>2 DEF SessionTick, Reap
<1>3. UnderHttp => UnderHttp'
  BY <1>1, <1>2 DEF UnderHttp, HttpMarks, MicrosegTracked
<1>4. UnderDenial => UnderDenial'
  BY <1>1 DEF UnderDenial, DenyMarks
<1> QED
  BY <1>1, <1>2, <1>3, <1>4, Unfold, SameEntry

\* A policy about other pods is installed.
LEMMA Repolicied ==
  ASSUME SessionTypeOK, BypassInv, PoliciesApart, Repolicy
  PROVE  /\ PolicyInv'
         /\ UNCHANGED <<tcbs, microseg_conns, connmark, skbmark, endpoints>>
         /\ IngressRules' = IngressRules
         /\ \A r \in IngressRules : HasHttp("ingress", r.rule_key)' <=> HasHttp("ingress", r.rule_key)
         /\ HttpInForce' <=> HttpInForce
         /\ DenyInForce' <=> DenyInForce
<1>0. TypeOK
  BY DEF SessionTypeOK
<1>1. PICK d \in Definitions : AddPolicyRule(d) /\ UNCHANGED endpoints
  BY DEF Repolicy
<1>2. /\ ~d.names_pod /\ d.rule_key \in RuleKeys
      /\ \A i \in Installed : d.rule_key # i.rule_key
      /\ \A r \in d.rules : ~OnRequests(r) /\ ~OnResponses(r)
  BY DefinitionsAssumption DEF PoliciesApart
<1>3. UNCHANGED <<tables, connmark, skbmark, server, nodes_ip>>
  BY <1>1, <1>2, Zenon DEF AddPolicyRule, Install, endpoints
<1>4. /\ rules' = OtherRules(d.rule_key) \cup {r \in d.rules : ValidPriority(r)}
      /\ http_policy' = [dir \in Dirs |-> [http_policy[dir] EXCEPT ![d.rule_key] = d.http[dir]]]
  BY <1>1, Zenon DEF AddPolicyRule, Install
<1>5. \A r \in IngressRules : r.rule_key # d.rule_key
  BY <1>2, Unfold DEF PolicyInv
<1>6. IngressRules' = IngressRules
  BY <1>2, <1>4, <1>5 DEF IngressRules, OtherRules, OnRequests
<1>7. \A r \in IngressRules : HasHttp("ingress", r.rule_key)' <=> HasHttp("ingress", r.rule_key)
  <2>1. http_policy'["ingress"] = [http_policy["ingress"] EXCEPT ![d.rule_key] = d.http["ingress"]]
    BY <1>4 DEF Dirs
  <2>2. http_policy["ingress"] \in [RuleKeys -> HttpRules \cup {NoHttp}]
    BY <1>0 DEF TypeOK, Dirs
  <2>3. \A r \in IngressRules : r.rule_key \in RuleKeys
    BY <1>0 DEF TypeOK, Rule, IngressRules
  <2> QED
    BY <1>5, <2>1, <2>2, <2>3 DEF HasHttp
<1>8. PolicyInv'
  <2>1. \A r \in rules' : ValidPriority(r) /\ ~OnResponses(r)
    BY <1>2, <1>4, Unfold DEF PolicyInv, OtherRules
  <2> QED
    BY <1>3, <1>6, <2>1, Unfold DEF PolicyInv, ValidPriority, OnResponses
<1>9. (HttpInForce' <=> HttpInForce) /\ (DenyInForce' <=> DenyInForce)
  BY <1>6, <1>7 DEF HttpInForce, DenyInForce
<1> QED
  BY <1>1, <1>3, <1>6, <1>7, <1>8, <1>9 DEF tables

LEMMA RepolicyMarks ==
  ASSUME SessionTypeOK, BypassInv, PoliciesApart, Repolicy
  PROVE  BypassInv'
<1>1. UNCHANGED <<microseg_conns, connmark, skbmark, server>>
  BY Repolicied DEF endpoints
<1>2. KeyInForce'
  BY <1>1, Repolicied, Unfold DEF KeyInForce, MicrosegTracked
<1>3. UnderHttp' = UnderHttp /\ UnderDenial' = UnderDenial
  BY <1>1 DEF UnderHttp, UnderDenial, HttpMarks, DenyMarks, MicrosegTracked
<1>4. MarksInv'
  BY <1>3, Repolicied, Unfold DEF MarksInv
<1> QED
  BY <1>2, <1>4, Repolicied DEF BypassInv

LEMMA BypassInit == PoliciesApart /\ SessionInit => BypassInv
<1> SUFFICES ASSUME PoliciesApart, SessionInit PROVE BypassInv
  OBVIOUS
<1>1. PICK d \in Installed : rules = {r \in d.rules : ValidPriority(r)}
  BY DEF SessionInit
<1>2. \A r \in rules : r.rule_key = d.rule_key
  BY <1>1, SessionAssumption
<1>3. PolicyInv
  <2>1. nodes_ip = {}
    BY DEF SessionInit
  <2>2. \A r \in d.rules : ~OnResponses(r)
    BY DEF PoliciesApart
  <2>3. \A r, q \in d.rules : OnRequests(r) /\ OnRequests(q) => r.action = q.action
    BY DEF PoliciesApart
  <2>4. \A r, q \in IngressRules : r.action = q.action
    BY <1>1, <2>3 DEF IngressRules, OnRequests
  <2> QED
    BY <1>1, <1>2, <2>1, <2>2, <2>4 DEF PolicyInv, IngressRules
<1>4. KeyInForce
  BY Ids DEF SessionInit, ManagerInit, KeyInForce, MicrosegTracked
<1>5. /\ connmark[Flow(c2s)] = 0 /\ skbmark[s2c] = NoPacket /\ skbmark[c2s] = NoPacket
      /\ server.st = "listen" /\ ~MicrosegTracked(c2s)
  BY Ids, Zenon DEF SessionInit, ManagerInit, MicrosegTracked
<1>6. MarksInv
  BY <1>5, NoPacketMark
  DEF MarksInv, UnderHttp, UnderDenial, HttpMarks, DenyMarks, kAllow, kAllowReq
<1> QED
  BY <1>3, <1>4, <1>6 DEF BypassInv

LEMMA BypassImplies == BypassInv => RulesNotBypassed
<1> SUFFICES ASSUME BypassInv PROVE RulesNotBypassed
  OBVIOUS
<1>1. DeniedNeverEstablished
  <2>1. UnderDenial => server.st = "listen"
    BY DEF UnderDenial, DenyMarks
  <2> QED
    BY <2>1, Unfold DEF DenyInForce, DeniedNeverEstablished
<1>2. InspectedWhileTracked
  <2>1. UnderHttp /\ MicrosegTracked(c2s) => connmark[Flow(c2s)] \notin BypassMarks("ingress")
    BY DEF UnderHttp, HttpMarks, BypassMarks, kAllow, kAllowReq, kAllowRsp
  <2>2. MicrosegTracked(c2s) => HttpInForce
    BY Unfold DEF KeyInForce, HttpInForce
  <2> QED
    BY <2>1, <2>2, Unfold DEF InspectedWhileTracked
<1> QED
  BY <1>1, <1>2 DEF RulesNotBypassed

LEMMA BypassStep ==
  PoliciesApart /\ SessionTypeOK /\ BypassInv /\ [SessionNext]_sessionVars => BypassInv'
<1> SUFFICES ASSUME PoliciesApart, SessionTypeOK, BypassInv, [SessionNext]_sessionVars PROVE BypassInv'
  OBVIOUS
<1>1. CASE Opening \/ ClientSends \/ ServerSends
  BY <1>1, OpeningMarks, ClientSendMarks, ServerSendMarks
<1>2. CASE Examined(c2s, "ingress") \/ Examined(s2c, "egress")
  BY <1>2, RequestMarks, ResponseMarks
<1>3. CASE Bypassed(c2s, "ingress") \/ Bypassed(s2c, "egress")
  BY <1>3, BypassedMarks
<1>4. CASE SessionTick \/ Reap
  BY <1>4, TimeMarks
<1>5. CASE Repolicy
  BY <1>5, RepolicyMarks
<1>6. CASE UNCHANGED sessionVars
  <2>1. UNCHANGED <<policy, microseg_conns, connmark, skbmark, server>>
    BY <1>6 DEF sessionVars, endpoints, vars, tables, policy
  <2>2. UnderHttp' = UnderHttp /\ UnderDenial' = UnderDenial
    BY <2>1 DEF UnderHttp, UnderDenial, HttpMarks, DenyMarks, MicrosegTracked
  <2> QED
    BY <2>1, <2>2, Unfold, SameEntry DEF MicrosegTracked
<1> QED
  BY <1>1, <1>2, <1>3, <1>4, <1>5, <1>6 DEF SessionNext, Opening, ClientSends, ServerSends

(***************************************************************************)
(* No retransmission and no mark takes a connection past the rules that    *)
(* deny or inspect it, for every stream, number of connections, loss,      *)
(* reset and pause, as long as the pod's policy stays in force: the        *)
(* callbacks' bypasses (net-policy.cpp:426-430) against the marks that     *)
(* they set themselves.                                                    *)
(***************************************************************************)
THEOREM RulesHold == PoliciesApart /\ SessionSpec => []RulesNotBypassed
<1> SUFFICES ASSUME PoliciesApart PROVE SessionSpec => []RulesNotBypassed
  OBVIOUS
<1>1. SessionInit => BypassInv
  BY BypassInit
<1>2. SessionTypeOK /\ BypassInv /\ [SessionNext]_sessionVars => BypassInv'
  BY BypassStep
<1> QED
  BY <1>1, <1>2, BypassImplies, SessionTypes, PTL DEF SessionSpec

-----------------------------------------------------------------------------
(***************************************************************************)
(* The entry of the request direction, of connections that end by FINs.    *)
(***************************************************************************)
\* Until it ends, a connection under HTTP rules is known to the engine and
\* not let go; its entry is gone when it has ended, and fresh until data comes.
EntryInv ==
  /\ HttpInForce /\ Starting => kAllow \notin {connmark[Flow(c2s)], skbmark[c2s], skbmark[s2c]}
  /\ HttpInForce /\ Starting /\ server.st # "listen" => Known(c2s)
  /\ MicrosegTracked(c2s) => Known(c2s) /\ client.st # "closed" /\ server.st # "closing"
  /\ Starting /\ seen = {} /\ MicrosegTracked(c2s) => microseg_conns[c2s].conn = NewConn

LEMMA SameHttp ==
  ASSUME UNCHANGED policy
  PROVE  HttpInForce' <=> HttpInForce
<1>1. rules' = rules /\ http_policy' = http_policy
  BY DEF policy
<1> QED
  BY <1>1 DEF HttpInForce, IngressRules, HasHttp

\* Steps that leave the tables alone and let no connection go that starts.
LEMMA EntryStays ==
  ASSUME EntryInv, UNCHANGED <<tables, policy>>, seen' = seen, server'.st = server.st,
         Starting' => Starting,
         client'.st = "closed" => client.st = "closed" \/ server.st = "closing",
         HttpInForce /\ Starting => kAllow \notin {connmark'[Flow(c2s)], skbmark'[c2s], skbmark'[s2c]}
  PROVE  EntryInv'
<1>1. tcbs' = tcbs /\ microseg_conns' = microseg_conns
  BY DEF tables
<1>2. /\ Known(c2s)' <=> Known(c2s)
      /\ MicrosegTracked(c2s)' <=> MicrosegTracked(c2s)
      /\ HttpInForce' <=> HttpInForce
  BY <1>1, SameHttp DEF Known, MicrosegTracked
<1> QED
  BY <1>1, <1>2, Zenon DEF EntryInv

LEMMA ClientSendEntry ==
  ASSUME SessionTypeOK, Phases, EntryInv, ClientSends
  PROVE  EntryInv'
<1>1. HttpInForce /\ Starting => kAllow \notin {connmark'[Flow(c2s)], skbmark'[c2s], skbmark'[s2c]}
  BY ClientQueues DEF EntryInv
<1>2. (Starting' => Starting) /\ (client'.st = "closed" => client.st = "closed")
  BY ClientSendPhases DEF Starting
<1> QED
  BY <1>1, <1>2, ClientQueues, EntryStays

LEMMA ServerSendEntry ==
  ASSUME SessionTypeOK, Phases, EntryInv, ServerSends, "reset" \notin behaviours
  PROVE  EntryInv'
<1>1. HttpInForce /\ Starting => kAllow \notin {connmark'[Flow(c2s)], skbmark'[c2s], skbmark'[s2c]}
  BY ServerQueues DEF EntryInv
<1>2. server'.st = server.st
  BY ServerSendPhases
<1> QED
  BY <1>1, <1>2, ServerQueues, EntryStays DEF Starting

\* A connection is opened when the last one is closed, and its entry is gone.
LEMMA OpeningEntry ==
  ASSUME SessionTypeOK, EntryInv, Opening
  PROVE  EntryInv'
<1>1. ~MicrosegTracked(c2s)'
  BY Opened DEF EntryInv, MicrosegTracked, tables
<1>2. kAllow \notin {connmark'[Flow(c2s)], skbmark'[c2s], skbmark'[s2c]}
  <2>1. connmark'[Flow(c2s)] = 0 /\ skbmark'[c2s] = 0 /\ skbmark'[s2c] = NoPacket
    BY Opened, Zenon
  <2>2. kAllow # 0
    BY DEF kAllow
  <2> QED
    BY <2>1, <2>2, NoPacketMark, Zenon
<1> QED
  BY <1>1, <1>2, Opened, Zenon DEF EntryInv

\* A request of a connection that starts is examined: the engine knows it.
LEMMA RequestKnown ==
  ASSUME SessionTypeOK, Phases, EntryInv, HttpInForce, Starting, ~Idle(c2s), receive(wire[c2s])
  PROVE  Known(c2s)' /\ PacketKind(wire[c2s]) # "Closed"
<1>1. EngineTypeOK
  BY DEF SessionTypeOK, TypeOK
<1>2. /\ wire[c2s] \in Packet /\ wire[c2s].id = c2s
      /\ ~wire[c2s].rst /\ ~wire[c2s].fin
  BY DEF SessionTypeOK, WireTypeOK, ClientPacket, Phases
<1>3. PacketKind(wire[c2s]) # "Closed"
  BY <1>2, Zenon DEF PacketKind
<1>4. CASE client.st = "synsent"
  <2>1. wire[c2s].syn
    BY <1>4 DEF Phases
  <2> QED
    BY <1>1, <1>2, <1>3, <2>1, KnownAfterSyn, Zenon
<1>5. CASE client.st = "open"
  <2>1. Known(c2s)
    BY <1>5 DEF Phases, EntryInv
  <2> QED
    BY <1>1, <1>2, <1>3, <2>1, ForgottenByClose, Ids
<1> QED
  BY <1>4, <1>5 DEF Starting

\* The last packets of a connection bind no entry.
LEMMA LastPackets ==
  ASSUME SessionTypeOK, Phases, EntryInv, ~Starting, NEW r, RequestStep(r)
  PROVE  r.conns[c2s] = NoEntry
<1> SUFFICES ASSUME r.conns[c2s] # NoEntry PROVE FALSE
  OBVIOUS
<1>1. wire[c2s] \in Packet /\ wire[c2s].id = c2s /\ ~wire[c2s].rst /\ (wire[c2s].syn => ~wire[c2s].fin)
  BY DEF SessionTypeOK, WireTypeOK, ClientPacket
<1>2. r \in TcpAnswers("ingress", wire[c2s], skbmark[c2s]) /\ ~Idle(c2s) /\ TypeOK
  BY Zenon DEF RequestStep, Idle, SessionTypeOK
<1>3. wire[c2s].fin /\ wire[c2s].len = 0 /\ ~wire[c2s].syn
  BY <1>1, <1>2, Zenon DEF Phases
<1>4. PacketKind(wire[c2s]) # "Closed" /\ MicrosegTracked(c2s)
  BY <1>1, <1>2, <1>3, BareAnswer, Zenon
<1>5. Known(c2s)
  BY <1>4, Zenon DEF EntryInv
<1> QED
  BY <1>1, <1>3, <1>4, <1>5 DEF PacketKind

\* Before data comes, an entry that a packet binds or keeps is fresh.
LEMMA FreshUntilData ==
  ASSUME SessionTypeOK, EntryInv, Starting, NEW r, RequestStep(r), seen' = {}, r.conns[c2s] # NoEntry
  PROVE  r.conns[c2s].conn = NewConn
<1>1. /\ wire[c2s] \in Packet /\ wire[c2s].id = c2s /\ wire[c2s].len \in Nat
      /\ ~wire[c2s].rst /\ (wire[c2s].syn => ~wire[c2s].fin)
  <2>1. wire \in [ConnectionId -> Packet] /\ ClientPacket(wire[c2s])
    BY Zenon DEF SessionTypeOK, WireTypeOK
  <2>2. wire[c2s] \in Packet
    BY <2>1, Ids, Zenon
  <2>3. wire[c2s].len \in Nat
    BY <2>2, SizesAssumption DEF Packet, PacketsOn
  <2> QED
    BY <2>1, <2>2, <2>3, Zenon DEF ClientPacket
<1>2. r \in TcpAnswers("ingress", wire[c2s], skbmark[c2s]) /\ TypeOK
  BY Zenon DEF RequestStep, SessionTypeOK
<1>3. seen = {} /\ wire[c2s].len = 0
  <2>1. seen' = seen \cup Positions(wire[c2s])
    BY Zenon DEF RequestStep, Answered
  <2>2. ~(wire[c2s].len > 0) /\ seen = {}
    BY <2>1, SentPositions, Zenon
  <2>3. wire[c2s].len \in Nat /\ ~(wire[c2s].len > 0) => wire[c2s].len = 0
    OBVIOUS
  <2> QED
    BY <1>1, <2>2, <2>3, Zenon
<1>4. MicrosegTracked(c2s) => microseg_conns[c2s].conn = NewConn
  BY <1>3, Zenon DEF EntryInv
<1>5. /\ MicrosegTracked(c2s) => r.conns[c2s].conn = microseg_conns[c2s].conn
      /\ ~MicrosegTracked(c2s) => r.conns[c2s].conn = NewConn
  <2> DEFINE p == wire[c2s]
  <2>1. /\ p \in Packet /\ p.id = c2s /\ p.len = 0 /\ ~p.rst /\ (p.syn => ~p.fin)
        /\ r \in TcpAnswers("ingress", p, skbmark[c2s]) /\ r.conns[p.id] # NoEntry
    BY <1>1, <1>2, <1>3, Zenon
  <2> HIDE DEF p
  <2>2. /\ MicrosegTracked(p.id) => r.conns[p.id].conn = microseg_conns[p.id].conn
        /\ ~MicrosegTracked(p.id) => r.conns[p.id].conn = NewConn
    BY <1>2, <2>1, BareAnswer, Zenon
  <2> QED
    BY <2>1, <2>2, Zenon
<1> QED
  BY <1>4, <1>5

LEMMA RequestEntry ==
  ASSUME SessionTypeOK, BypassInv, Phases, EntryInv, Examined(c2s, "ingress")
  PROVE  EntryInv'
<1>1. PICK r : RequestStep(r)
  BY RequestExamined
<1>2. /\ microseg_conns' = r.conns /\ receive(wire[c2s]) /\ ~Idle(c2s)
      /\ ~HttpInForce => r.conns[c2s] = NoEntry
  BY <1>1, Zenon DEF RequestStep, Idle
<1>3. client' = client /\ (server' = server \/ \E intact : server' = ServerReceive(wire[c2s], intact))
  BY <1>1, Ids, Zenon DEF RequestStep, Answered
<1>4. HttpInForce' <=> HttpInForce
  BY <1>1, SameHttp, Zenon DEF RequestStep
<1>5. CASE ~HttpInForce
  BY <1>2, <1>4, <1>5, Zenon DEF EntryInv, MicrosegTracked
<1>6. CASE ~Starting
  <2>1. ~MicrosegTracked(c2s)' /\ ~Starting'
    BY <1>1, <1>2, <1>3, <1>6, LastPackets, Zenon DEF MicrosegTracked, Starting
  <2> QED
    BY <2>1, Zenon DEF EntryInv
<1>7. CASE HttpInForce /\ Starting
  <2>1. Known(c2s)' /\ PacketKind(wire[c2s]) # "Closed"
    BY <1>2, <1>7, RequestKnown, Zenon
  <2>2. kAllow \notin {connmark'[Flow(c2s)], skbmark'[c2s], skbmark'[s2c]}
    <3>1. r.mark # kAllow /\ r.verdict # "drop"
      BY <1>1, <1>7, <2>1, Zenon DEF RequestStep, HttpAnswer
    <3>2. skbmark[s2c] # kAllow
      BY <1>7, Zenon DEF EntryInv
    <3> QED
      BY <1>1, <3>1, <3>2, NoPacketMark, Zenon DEF RequestStep
  <2>3. client'.st # "closed" /\ server'.st # "closing"
    <3>1. server.st # "closing" /\ ~wire[c2s].fin
      BY <1>2, <1>7, Zenon DEF Phases
    <3>2. server'.st # "closing"
      BY <1>3, <3>1, ServerPhase
    <3> QED
      BY <1>3, <1>7, <3>2 DEF Starting
  <2>4. seen' = {} /\ MicrosegTracked(c2s)' => microseg_conns'[c2s].conn = NewConn
    BY <1>1, <1>2, <1>7, FreshUntilData, Zenon DEF MicrosegTracked
  <2> QED
    BY <2>1, <2>2, <2>3, <2>4, Zenon DEF EntryInv
<1> QED
  BY <1>5, <1>6, <1>7

LEMMA ResponseEntry ==
  ASSUME SessionTypeOK, BypassInv, Examined(s2c, "egress")
  PROVE  EntryInv'
<1>1. ~HttpInForce' /\ ~MicrosegTracked(c2s)'
  BY ResponseLeaves, SameHttp DEF MicrosegTracked
<1> QED
  BY <1>1, Zenon DEF EntryInv

\* A request that passes unexamined belongs to a connection that has ended.
LEMMA BypassedRequestEntry ==
  ASSUME SessionTypeOK, BypassInv, EntryInv, Bypassed(c2s, "ingress")
  PROVE  EntryInv'
<1>1. /\ UNCHANGED <<tables, policy>> /\ client' = client
      /\ skbmark[c2s] \in {kAllow, kAllowRsp}
  BY Ids DEF Bypassed, BypassMarks, Unexamined, Answered
<1>2. ASSUME HttpInForce PROVE ~Starting /\ ~MicrosegTracked(c2s)
  <2>1. UnderHttp
    BY <1>2, Unfold
  <2>2. skbmark[c2s] = kAllow /\ ~MicrosegTracked(c2s)
    BY <1>1, <2>1, NoPacketMark DEF UnderHttp, HttpMarks, kAllow, kAllowRsp, kAllowReq
  <2> QED
    BY <1>2, <2>2 DEF EntryInv
<1>3. MicrosegTracked(c2s) => HttpInForce
  BY Unfold DEF KeyInForce, HttpInForce
<1>4. ~MicrosegTracked(c2s)'
  BY <1>1, <1>2, <1>3 DEF MicrosegTracked, tables
<1>5. HttpInForce' => ~Starting'
  BY <1>1, <1>2, SameHttp DEF Starting
<1> QED
  BY <1>4, <1>5, Zenon DEF EntryInv

LEMMA BypassedResponseEntry ==
  ASSUME SessionTypeOK, BypassInv, Phases, EntryInv, Bypassed(s2c, "egress")
  PROVE  EntryInv'
<1>1. /\ UNCHANGED <<tables, policy>> /\ Dequeue(s2c, "accept", skbmark[s2c])
      /\ ~Idle(s2c) /\ server' = server /\ seen' = seen
      /\ client' = ClientReceive(wire[s2c])
  BY Ids DEF Bypassed, Unexamined, Answered, Idle
<1>2. /\ skbmark'[s2c] = NoPacket /\ skbmark'[c2s] = skbmark[c2s]
      /\ connmark'[Flow(c2s)] = skbmark[s2c]
  BY <1>1, Ids, DequeueMarks, Zenon
<1>3. HttpInForce /\ Starting => kAllow \notin {connmark'[Flow(c2s)], skbmark'[c2s], skbmark'[s2c]}
  BY <1>2, NoPacketMark, Zenon DEF EntryInv
<1>4. (Starting' => Starting) /\ (client'.st = "closed" => client.st = "closed" \/ server.st = "closing")
  BY <1>1, ClientPhase DEF Starting
<1> QED
  BY <1>1, <1>3, <1>4, EntryStays

LEMMA RepolicyEntry ==
  ASSUME SessionTypeOK, BypassInv, PoliciesApart, Phases, EntryInv, Repolicy
  PROVE  Phases' /\ EntryInv'
<1>1. UNCHANGED <<tcbs, microseg_conns, connmark, skbmark, client, server, wire, seen>>
  BY Repolicied DEF endpoints
<1>2. Phases'
  BY <1>1 DEF Phases, Starting, Idle
<1>3. HttpInForce' <=> HttpInForce
  BY Repolicied
<1>4. EntryInv'
  BY <1>1, <1>3, Zenon DEF EntryInv, Starting, Known, MicrosegTracked
<1> QED
  BY <1>2, <1>4

LEMMA BehavioursStay == [SessionNext]_sessionVars => behaviours' = behaviours
<1>1. Opening \/ ClientSends \/ ServerSends => behaviours' = behaviours
  BY DEF Opening, ClientOpen, ClientSends, ClientResendSyn, ClientData, ClientAck, ClientKeepalive,
         ClientFin, ServerSends, ServerSynAck, ServerAck, ServerRespond, ServerFin, ServerReset, ServerSend
<1>2. \A id, dir : Examined(id, dir) \/ Bypassed(id, dir) => behaviours' = behaviours
  BY DEF Examined, Bypassed, Answered
<1>3. SessionTick \/ Reap \/ Repolicy \/ UNCHANGED sessionVars => behaviours' = behaviours
  BY DEF SessionTick, Reap, Repolicy, endpoints, sessionVars
<1> QED
  BY <1>1, <1>2, <1>3 DEF SessionNext, Opening, ClientSends, ServerSends

\* Where connections end by FINs, within the timeout.
FreshInv == Without({"reset", "time"}) => Phases /\ EntryInv

LEMMA FreshInit == SessionInit => FreshInv
<1> SUFFICES ASSUME SessionInit PROVE Phases /\ EntryInv
  BY DEF FreshInv
<1>1. /\ client.st = "closed" /\ server.st = "listen" /\ Idle(c2s) /\ Idle(s2c)
      /\ ~MicrosegTracked(c2s)
  BY Ids, Zenon DEF SessionInit, ManagerInit, MicrosegTracked, Idle
<1> QED
  BY <1>1, Zenon DEF Phases, EntryInv, Starting

LEMMA FreshStep ==
  PoliciesApart /\ SessionTypeOK /\ BypassInv /\ FreshInv /\ [SessionNext]_sessionVars => FreshInv'
<1> SUFFICES ASSUME PoliciesApart, SessionTypeOK, BypassInv, FreshInv, [SessionNext]_sessionVars,
                    Without({"reset", "time"})'
             PROVE  Phases' /\ EntryInv'
  BY DEF FreshInv
<1>1. Without({"reset", "time"})
  BY BehavioursStay DEF Without
<1>2. "reset" \notin behaviours /\ "time" \notin behaviours /\ Phases /\ EntryInv
  BY <1>1 DEF Without, FreshInv
<1>3. CASE Opening \/ ClientSends \/ ServerSends
  BY <1>2, <1>3, OpeningPhases, OpeningEntry, ClientSendPhases, ClientSendEntry,
     ServerSendPhases, ServerSendEntry
<1>4. CASE Examined(c2s, "ingress") \/ Examined(s2c, "egress")
  BY <1>2, <1>4, AnsweredPhases, RequestEntry, ResponseEntry
<1>5. CASE Bypassed(c2s, "ingress") \/ Bypassed(s2c, "egress")
  BY <1>2, <1>5, AnsweredPhases, BypassedRequestEntry, BypassedResponseEntry
<1>6. CASE SessionTick \/ Reap
  BY <1>2, <1>6 DEF SessionTick, Reap
<1>7. CASE Repolicy
  BY <1>2, <1>7, RepolicyEntry
<1>8. CASE UNCHANGED sessionVars
  <2>1. /\ UNCHANGED <<tables, policy, connmark, skbmark, client, server, wire, seen>>
    BY <1>8 DEF sessionVars, endpoints, vars, tables, policy
  <2>2. Phases'
    BY <1>2, <2>1 DEF Phases, Starting, Idle
  <2>3. EntryInv'
    BY <1>2, <2>1, EntryStays, Zenon DEF EntryInv, Starting
  <2> QED
    BY <2>2, <2>3
<1> QED
  BY <1>3, <1>4, <1>5, <1>6, <1>7, <1>8 DEF SessionNext, Opening, ClientSends, ServerSends

(***************************************************************************)
(* A connection starts with fresh parser state on a 4-tuple that is used   *)
(* again, for every stream, number of connections, loss and probe, where   *)
(* connections end by FINs and within the timeout: MicrosegClose takes the *)
(* entry with the client's FIN (connection_manager.h:157-187), and no      *)
(* later packet of that connection binds a new one.                        *)
(***************************************************************************)
THEOREM ReuseFresh == PoliciesApart /\ SessionSpec => []ReuseAfterFinStartsFresh
<1> SUFFICES ASSUME PoliciesApart PROVE SessionSpec => []ReuseAfterFinStartsFresh
  OBVIOUS
<1>1. SessionInit => BypassInv /\ FreshInv
  BY BypassInit, FreshInit
<1>2. SessionTypeOK /\ BypassInv /\ FreshInv /\ [SessionNext]_sessionVars => FreshInv'
  BY FreshStep
<1>3. SessionTypeOK /\ BypassInv /\ [SessionNext]_sessionVars => BypassInv'
  BY BypassStep
<1>4. FreshInv => ReuseAfterFinStartsFresh
  BY Zenon DEF FreshInv, EntryInv, Starting, ReuseAfterFinStartsFresh, StartsFresh
<1> QED
  BY <1>1, <1>2, <1>3, <1>4, SessionTypes, PTL DEF SessionSpec
=============================================================================
