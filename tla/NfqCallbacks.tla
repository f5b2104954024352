---------------------------- MODULE NfqCallbacks ----------------------------
(***************************************************************************)
(* The packet path of the daemon for one pod.  A packet takes the mark of  *)
(* its conntrack entry when it is queued; input_nfq_cb or output_nfq_cb    *)
(* answers it later; an accepted packet saves its mark back.  Control      *)
(* requests change the policy, the reaper sweeps, conntrack entries come   *)
(* and go.  The daemon's own steps run on the one epoll thread, so each of *)
(* them is atomic.                                                         *)
(*                                                                         *)
(* The policy is the one of PolicyLookup, which the rule trees implement.  *)
(***************************************************************************)
EXTENDS ConnectionManager, PolicyRules

CONSTANTS
  Definitions,     \* the policies that AddPolicyRule may install
  NoHttp,          \* a policy without HTTP rules in a direction
  Endpoints,       \* the addresses that ids are made of
  Pod,             \* the pod's own endpoint
  NodeAddresses,   \* the addresses that UpdateNodeConfig may name
  DatagramIds,     \* ids of UDP and ICMP flows; the others are TCP
  ResetMayFail,    \* may the update of a conntrack mark fail?
  NoPacket         \* no packet of this id is queued

VARIABLES
  rules,           \* installed network rules
  http_policy,     \* input_http_policy_ and output_http_policy_
  nodes_ip,        \* registered node addresses
  connmark,        \* conntrack mark of each flow
  skbmark          \* mark of the queued packet of each id

policy == <<rules, http_policy, nodes_ip>>

INSTANCE PolicyLookup

tables == <<tcbs, microseg_conns>>
vars == <<tcbs, microseg_conns, rules, http_policy, nodes_ip, connmark, skbmark>>

Marks == 0 .. 5

ASSUME DefinitionsAssumption ==
  \A d \in Definitions :
    /\ d.rule_key \in RuleKeys
    /\ \A r \in d.rules : r \in Rule /\ r.rule_key = d.rule_key
    /\ d.http \in [Dirs -> HttpRules \cup {NoHttp}]
    /\ d.names_pod \in BOOLEAN
ASSUME NoHttpAssumption == NoHttp \notin HttpRules
ASSUME NoPacketAssumption == NoPacket \notin Marks
ASSUME PodAssumption ==
  /\ ResetMayFail \in BOOLEAN
  /\ Pod \in Endpoints
  /\ NodeAddresses \subseteq Endpoints
  /\ \A id \in ConnectionId : id \in DatagramIds <=> Peer(id) \in DatagramIds
  /\ \A id \in ConnectionId : id \in Endpoints \X Endpoints

\* Both directions of a connection; conntrack keeps one entry for them.
Flow(id) == {id, Peer(id)}
Flows == {Flow(id) : id \in ConnectionId}

\* The queue that a packet passes: 0 behind PREROUTING, 1 behind OUTPUT.
Passes(id, dir) == IF dir = "ingress" THEN id[2] = Pod ELSE id[1] = Pod

-----------------------------------------------------------------------------
(***************************************************************************)
(* Matching.                                                               *)
(***************************************************************************)
Match(action, key) == [action |-> action, rule_key |-> key]
NoMatch == Match(kDefault, CHOOSE key \in RuleKeys : TRUE)

\* A rule that does not allow yields to a stronger rule of the other direction.
MatchMicroPolicyRule(id, dir) ==
  LET details == MatchNetPolicyRule(id, dir)
      reverse == MatchNetPolicyRule(Peer(id), Opposite(dir))
      Stronger(r) == {q \in reverse : q.priority < r.priority}
      Final(r) == IF r.action = kAllow \/ Stronger(r) = {} THEN {r} ELSE Stronger(r)
  IN  IF details = {} THEN {NoMatch}
      ELSE {Match(r.action, r.rule_key) : r \in UNION {Final(d) : d \in details}}

-----------------------------------------------------------------------------
(***************************************************************************)
(* The callbacks.  They are one program up to the direction's HTTP table   *)
(* and marks.  Given a packet and its nfmark they answer with a verdict, a *)
(* mark, the policy match they report, and the changed table of entries.   *)
(***************************************************************************)
BypassMarks(dir) == IF dir = "ingress" THEN {kAllow, kAllowRsp} ELSE {kAllow, kAllowReq}
TrackMark(dir) == IF dir = "ingress" THEN kAllowReq ELSE kAllowRsp

Answer(conns, verdict, mark, event) ==
  [conns |-> conns, verdict |-> verdict, mark |-> mark, event |-> event]
Accept(conns, mark) == Answer(conns, "accept", mark, "none")

\* A rule without HTTP rules decides at once.
ByRule(conns, nfmark, m) ==
  IF m.action = kDeny THEN Answer(conns, "drop", nfmark, "match")
                      ELSE Answer(conns, "accept", kAllow, "match")

\* A completed header is put to the HTTP rules; a denied one is blanked.
ByHeader(dir, key, r) ==
  IF r.header = NoHeader THEN Accept(r.conns, TrackMark(dir))
  ELSE IF ~HasHttp(dir, key) THEN Accept(r.conns, kDefault)
  ELSE LET action == http_policy[dir][key][r.header]
       IN  IF action = kDefault THEN Accept(r.conns, TrackMark(dir))
           ELSE Answer(r.conns, IF action = kDeny THEN "blank" ELSE "accept",
                       TrackMark(dir), "match")

Inspect(dir, p, conns, key) ==
  {ByHeader(dir, key, r) : r \in DispatchMicroseg(conns, p)}

\* The rule m is in force: the flow gets an entry if HTTP rules go with it.
Bind(dir, p, nfmark, conns, m) ==
  LET bound == MicrosegTrack(conns, p.id, m.rule_key)
  IN  IF m.action = kDefault THEN {Accept(conns, kAllow)}
      ELSE IF ~HasHttp(dir, m.rule_key) THEN {ByRule(conns, nfmark, m)}
      ELSE IF p.syn THEN {Accept(bound, TrackMark(dir))}
      ELSE Inspect(dir, p, bound, m.rule_key)

\* A flow with an entry: no rule is matched again.
Tracked(dir, p, nfmark, conns) ==
  IF PacketKind(p) = "Closed" THEN {Accept(conns, kAllow)}
  ELSE IF p.syn \/ ~HasPayload(p) THEN {Accept(conns, TrackMark(dir))}
  ELSE IF PacketKind(p) = "Duplicate" THEN {Accept(conns, nfmark)}
  ELSE Inspect(dir, p, conns, microseg_conns[p.id].rule_key)

\* Changed: a packet that shows no payload is let go for good.
UntrackedAllows(dir, p, nfmark, conns) ==
  IF ~p.syn /\ ~HasPayload(p) THEN {Accept(conns, kAllow)}
  ELSE UNION {Bind(dir, p, nfmark, conns, m) : m \in MatchMicroPolicyRule(p.id, dir)}

\* Changed: the engine's kind is asked for, not the SYN flag.
UntrackedByKind(dir, p, nfmark, conns) ==
  IF PacketKind(p) # "NewConnection" /\ ~HasPayload(p) THEN {Accept(conns, TrackMark(dir))}
  ELSE UNION {Bind(dir, p, nfmark, conns, m) : m \in MatchMicroPolicyRule(p.id, dir)}

\* A flow without one: a SYN or a payload is put to the rules.
Untracked(dir, p, nfmark, conns) ==
  IF ~p.syn /\ ~HasPayload(p) THEN {Accept(conns, TrackMark(dir))}
  ELSE UNION {Bind(dir, p, nfmark, conns, m) : m \in MatchMicroPolicyRule(p.id, dir)}

\* MicrosegTouch and MicrosegClose come before the split, whatever the flow.
TcpAnswers(dir, p, nfmark) ==
  LET touched == MicrosegTouch(microseg_conns, p)
      conns == MicrosegClose(touched, p)
  IN  IF PacketKind(p) = "Ignore" THEN {Accept(touched, TrackMark(dir))}
      ELSE IF MicrosegTracked(p.id) THEN Tracked(dir, p, nfmark, conns)
      ELSE Untracked(dir, p, nfmark, conns)

\* UDP and ICMP never reach the tables.
DatagramAnswers(dir, id, nfmark) ==
  {IF m.action = kDefault THEN Accept(microseg_conns, kAllow)
   ELSE ByRule(microseg_conns, nfmark, m) : m \in MatchMicroPolicyRule(id, dir)}

-----------------------------------------------------------------------------
(***************************************************************************)
(* The kernel's side: --restore-mark and the queue, --save-mark after an   *)
(* accepting verdict.  A packet of mark kAllow is not queued; it takes the *)
(* same two steps, and nothing looks at it in between.                     *)
(***************************************************************************)
Enqueue(id) ==
  /\ skbmark[id] = NoPacket
  /\ skbmark' = [skbmark EXCEPT ![id] = connmark[Flow(id)]]

Dequeue(id, verdict, mark) ==
  /\ skbmark' = [skbmark EXCEPT ![id] = NoPacket]
  /\ connmark' = IF verdict = "drop" THEN connmark
                 ELSE [connmark EXCEPT ![Flow(id)] = mark]

\* The callback on a TCP packet p, whose answer is r.
TcpCallback(dir, p, r) ==
  /\ skbmark[p.id] # NoPacket
  /\ skbmark[p.id] \notin BypassMarks(dir)
  /\ receive(p)
  /\ microseg_conns' = r.conns
  /\ Dequeue(p.id, r.verdict, r.mark)
  /\ UNCHANGED policy

DatagramCallback(dir, id, r) ==
  /\ skbmark[id] # NoPacket
  /\ skbmark[id] \notin BypassMarks(dir)
  /\ Dequeue(id, r.verdict, r.mark)
  /\ UNCHANGED <<tables, policy>>

\* A bypassing mark, or a packet that is too short or of another protocol.
Unexamined(id) ==
  /\ skbmark[id] # NoPacket
  /\ Dequeue(id, "accept", skbmark[id])
  /\ UNCHANGED <<tables, policy>>

\* Conntrack forgets a connection; the next one of the flow starts at mark 0.
ConntrackExpire(flow) ==
  /\ \A id \in flow : skbmark[id] = NoPacket
  /\ connmark' = [connmark EXCEPT ![flow] = 0]
  /\ UNCHANGED <<tables, policy, skbmark>>

-----------------------------------------------------------------------------
(***************************************************************************)
(* Control requests, the clock and the reaper.                             *)
(***************************************************************************)
\* The marks after UpdateMark; an entry whose update fails keeps its mark.
UpdateMark(failed) == [flow \in Flows |-> IF flow \in failed THEN connmark[flow] ELSE kDeny]
FailedUpdates == IF ResetMayFail THEN SUBSET Flows ELSE {{}}

AddPolicyRule(d) ==
  /\ Install(d)
  /\ IF d.names_pod THEN \E failed \in FailedUpdates : connmark' = UpdateMark(failed)
                    ELSE UNCHANGED connmark
  /\ UNCHANGED <<tables, skbmark>>

\* The marks of the connections that the policy let through stay.
DeletePolicyRule(key) ==
  /\ Remove(key)
  /\ UNCHANGED <<tables, connmark, skbmark>>

ResetConfig ==
  /\ ClearRules
  /\ UNCHANGED <<tables, connmark, skbmark>>

UpdateNodeConfig(addresses, is_delete) ==
  /\ SetNodes(addresses, is_delete)
  /\ UNCHANGED <<tables, connmark, skbmark>>

Tick ==
  /\ UNCHANGED <<policy, connmark, skbmark>>
  /\ AgeFlows
  /\ AgeEntries

ReaperTimerEvent ==
  /\ UNCHANGED <<policy, connmark, skbmark>>
  /\ EvictStale

-----------------------------------------------------------------------------
Init ==
  /\ ManagerInit
  /\ LookupInit
  /\ connmark = [flow \in Flows |-> 0]
  /\ skbmark = [id \in ConnectionId |-> NoPacket]

PacketArrives(id) ==
  /\ Enqueue(id)
  /\ UNCHANGED <<tables, policy, connmark>>

\* The ids whose packet waits in the queue of a direction.
Waiting(dir) == {id \in ConnectionId : skbmark[id] # NoPacket /\ Passes(id, dir)}

Callback(dir) ==
  \/ \E p \in PacketsOn(Waiting(dir) \ DatagramIds) :
       \E r \in TcpAnswers(dir, p, skbmark[p.id]) : TcpCallback(dir, p, r)
  \/ \E id \in Waiting(dir) \cap DatagramIds :
       \E r \in DatagramAnswers(dir, id, skbmark[id]) : DatagramCallback(dir, id, r)

input_nfq_cb == Callback("ingress")
output_nfq_cb == Callback("egress")

Control ==
  \/ \E d \in Definitions : AddPolicyRule(d)
  \/ \E key \in RuleKeys : DeletePolicyRule(key)
  \/ ResetConfig
  \/ \E addresses \in SUBSET NodeAddresses, is_delete \in BOOLEAN :
       UpdateNodeConfig(addresses, is_delete)

Next ==
  \/ \E id \in ConnectionId : PacketArrives(id)
  \/ input_nfq_cb
  \/ output_nfq_cb
  \/ \E id \in ConnectionId : Unexamined(id)
  \/ \E flow \in Flows : ConntrackExpire(flow)
  \/ Control
  \/ Tick
  \/ ReaperTimerEvent

(***************************************************************************)
(* Time passes, and the reaper's timer keeps firing: it is armed with an   *)
(* interval and the epoll loop serves every ready descriptor.              *)
(***************************************************************************)
Spec == Init /\ [][Next]_vars
FairSpec == Spec /\ WF_vars(Tick) /\ WF_vars(ReaperTimerEvent)

-----------------------------------------------------------------------------
\* Tables, policy and marks stay well formed under every packet and request.
TypeOK ==
  /\ EngineTypeOK
  /\ microseg_conns \in [ConnectionId -> Entry \cup {NoEntry}]
  /\ rules \subseteq Rule
  /\ http_policy \in [Dirs -> [RuleKeys -> HttpRules \cup {NoHttp}]]
  /\ nodes_ip \subseteq NodeAddresses
  /\ connmark \in [Flows -> Marks]
  /\ skbmark \in [ConnectionId -> Marks \cup {NoPacket}]

(***************************************************************************)
(* When the engine forgets a direction of a flow, because of a FIN or RST  *)
(* on either direction or because the reaper found it stale, the microseg  *)
(* entry of that direction goes in the same step, so no half-parsed        *)
(* request or policy key is left for the next connection on the 4-tuple    *)
(* (MicrosegClose above the tracked/untracked split, net-policy.cpp:563-   *)
(* 575; the sweep, connection_manager.h:344-348).                          *)
(***************************************************************************)
EntryGoesWithFlow ==
  \A id \in ConnectionId :
    Known(id) /\ ~Known(id)' /\ MicrosegTracked(id) => microseg_conns'[id] = NoEntry

EntryDiesWithFlow == [][EntryGoesWithFlow]_vars

(***************************************************************************)
(* A flow keeps the policy key it was bound with for as long as its entry  *)
(* lives, through retransmitted SYNs, matches of other rules and replaced  *)
(* policies: the entry's own key is authoritative for the tracked path     *)
(* (connection_manager.h:85-100), and binding never rebinds (149-155).     *)
(***************************************************************************)
KeyUnchanged ==
  \A id \in ConnectionId :
    MicrosegTracked(id) /\ MicrosegTracked(id)' =>
      microseg_conns'[id].rule_key = microseg_conns[id].rule_key

EntryKeepsKey == [][KeyUnchanged]_vars

(***************************************************************************)
(* An entry is bound once and lives no longer than its flow: the two       *)
(* properties above together (MicrosegTrack, MicrosegClose, the sweep).    *)
(***************************************************************************)
EntryFollowsFlow == [][EntryGoesWithFlow /\ KeyUnchanged]_vars

(***************************************************************************)
(* The mark kAllow takes a connection out of the daemon's hands: iptables  *)
(* accepts its packets unqueued from then on.  It appears on a connection  *)
(* only when a queued packet of it is answered that the rules in force do  *)
(* not deny (a rule of either direction, net-policy.cpp:350-371), when a   *)
(* flow under HTTP rules ends, or when the packet took the mark before     *)
(* UpdateMark removed it from the connection and now saves it back.        *)
(***************************************************************************)
NotDenied(id) ==
  \E dir \in Dirs : /\ Passes(id, dir)
                    /\ \E m \in MatchMicroPolicyRule(id, dir) : m.action # kDeny
Ends(id) == MicrosegTracked(id) /\ Known(id) /\ ~Known(id)'

AllowHasCause ==
  \A flow \in Flows :
    connmark[flow] # kAllow /\ connmark'[flow] = kAllow =>
      \E id \in flow : /\ skbmark[id] # NoPacket /\ skbmark'[id] = NoPacket
                       /\ skbmark[id] = kAllow \/ NotDenied(id) \/ Ends(id)

AllowIsEarned == [][AllowHasCause]_vars

(***************************************************************************)
(* Memory is bounded in time: an entry or a TCB that has been idle for a   *)
(* tick is refreshed by a packet or removed, whichever of the two tables   *)
(* knows the flow (net-policy.cpp:1968-1974; connection_manager.h:308-330).*)
(***************************************************************************)
IdleEntry(id) == MicrosegTracked(id) /\ microseg_conns[id].idle > 0
IdleFlow(id) == Known(id) /\ tcbs[id].idle > 0

IdleStateReaped ==
  \A id \in ConnectionId :
    /\ []<>~IdleEntry(id)
    /\ []<>~IdleFlow(id)
=============================================================================
