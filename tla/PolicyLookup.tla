---------------------------- MODULE PolicyLookup ----------------------------
(***************************************************************************)
(* The policy as the packet path sees it.  A network rule applies to a set *)
(* of connection ids and has an action and a priority; the lookup answers  *)
(* with a rule of the lowest priority number that applies, and whatever a  *)
(* policy is replaced by replaces all of it.  PolicyConfig, the rule trees *)
(* and the parser of control requests, implements this specification.      *)
(***************************************************************************)
EXTENDS Integers, PolicyRules

CONSTANTS
  ConnectionId,    \* ids; the first component is the source address
  RuleKeys,        \* policy names
  Headers,         \* HTTP headers that rules can tell apart
  Definitions,     \* the policies that AddPolicyRule may install
  NoHttp,          \* a policy without HTTP rules in a direction
  NodeAddresses    \* the addresses that UpdateNodeConfig may name

VARIABLES
  rules,           \* installed network rules
  http_policy,     \* input_http_policy_ and output_http_policy_
  nodes_ip         \* registered node addresses

lookup == <<rules, http_policy, nodes_ip>>

Rule == [dir : Dirs, ids : SUBSET ConnectionId, rule_key : RuleKeys,
         action : RuleActions, priority : Int]

\* What MatchHttpPolicyRule answers for each header, given a rule list.
HttpRules == [Headers -> RuleActions \cup {kDefault}]

Definition == [rule_key : RuleKeys, rules : SUBSET Rule,
               http : [Dirs -> HttpRules \cup {NoHttp}], names_pod : BOOLEAN]

\* The rules that may answer for an id in a direction.
MatchNetPolicyRule(id, dir) ==
  LET applicable == {r \in rules : r.dir = dir /\ id \in r.ids /\ id[1] \notin nodes_ip}
  IN  {r \in applicable : \A q \in applicable : r.priority <= q.priority}

HasHttp(dir, key) == http_policy[dir][key] # NoHttp

-----------------------------------------------------------------------------
LookupInit ==
  /\ rules = {}
  /\ http_policy = [dir \in Dirs |-> [key \in RuleKeys |-> NoHttp]]
  /\ nodes_ip = {}

OtherRules(key) == {r \in rules : r.rule_key # key}
ValidPriority(r) == r.priority > 0 /\ r.priority < 129

\* HTTP rules are installed whatever the priority of their rule.
Install(d) ==
  /\ rules' = OtherRules(d.rule_key) \cup {r \in d.rules : ValidPriority(r)}
  /\ http_policy' = [dir \in Dirs |-> [http_policy[dir] EXCEPT ![d.rule_key] = d.http[dir]]]
  /\ UNCHANGED nodes_ip

Remove(key) ==
  /\ rules' = OtherRules(key)
  /\ http_policy' = [dir \in Dirs |-> [http_policy[dir] EXCEPT ![key] = NoHttp]]
  /\ UNCHANGED nodes_ip

\* clear_cfg empties the rule trees, not the HTTP tables.
ClearRules ==
  /\ rules' = {}
  /\ UNCHANGED <<http_policy, nodes_ip>>

SetNodes(addresses, is_delete) ==
  /\ nodes_ip' = IF is_delete THEN nodes_ip \ addresses ELSE nodes_ip \cup addresses
  /\ UNCHANGED <<rules, http_policy>>

LookupNext ==
  \/ \E d \in Definitions : Install(d)
  \/ \E key \in RuleKeys : Remove(key)
  \/ ClearRules
  \/ \E addresses \in SUBSET NodeAddresses, is_delete \in BOOLEAN :
       SetNodes(addresses, is_delete)

LookupSpec == LookupInit /\ [][LookupNext]_lookup
=============================================================================
