---------------------------- MODULE PolicyConfig ----------------------------
(***************************************************************************)
(* The control requests about policy: AddPolicyRule, DeletePolicyRule,     *)
(* ResetConfig and UpdateNodeConfig, from the protobuf message through the *)
(* JSON text to the rule trees, the HTTP tables and the conntrack marks.   *)
(*                                                                         *)
(* A request is one step of the epoll thread, but not one that succeeds or *)
(* fails as a whole: the old policy is deleted first, rules are installed  *)
(* one by one, a field that is missing ends the list it is missed in, be   *)
(* it of rules, HTTP rules or addresses, and a range that does not parse   *)
(* throws out of it.  A field is missing when the allocation of its JSON   *)
(* item failed: every object of a request has the set of those it lost.    *)
(***************************************************************************)
EXTENDS PolicyEngine, SequencesExt

CONSTANTS
  OctetBits,     \* width of the last octet of an address, 8 in the code
  IntMax,        \* the largest int, at which a JSON integer saturates
  PortSpace,     \* ports are taken modulo this, 2^16 in the code
  Mantissa,      \* bits of a JSON number, 53 in the code
  PodBits,       \* bits of a pod id, 64 in the code
  EmptyName,     \* the empty policy name
  Requests,      \* the AddPolicyRule messages
  HttpHeaders,   \* headers that HTTP rules may be asked about
  NodeRequests,  \* the address lists of UpdateNodeConfig
  NoHttp         \* no HTTP rules in a direction

VARIABLES
  http_policy,   \* HTTP rules by direction and policy, in order
  nodes_ip,      \* registered node addresses
  pods,          \* pods with queues
  last           \* the last request, its result, the pods it reset and
                 \* those whose conntrack session failed

config == <<engine, asked, http_policy, nodes_ip, pods, last>>

PodIds == 0 .. 2^PodBits - 1

\* NetPolicyRule
kDeny == 0
kAllow == 1
kMark == 2
kDefault == 5

-----------------------------------------------------------------------------
(***************************************************************************)
(* The enumerations of the protobuf message, by way of their JSON names.   *)
(***************************************************************************)
PolicyAction(action) == IF action = 2 THEN kAllow ELSE IF action = 3 THEN kMark ELSE kDeny
FlowDirection(direction) == IF direction = 1 THEN "ingress" ELSE "egress"
L4Protocol(protocol) ==
  IF protocol = 1 THEN 6 ELSE IF protocol = 2 THEN 17 ELSE IF protocol = 3 THEN Icmp ELSE 0

(***************************************************************************)
(* A pod id travels as a double: it is rounded to Mantissa bits, half to   *)
(* even.  Converting a double that is too large back is undefined.         *)
(***************************************************************************)
Ulp(n) == LET fits == {k \in 0 .. PodBits - Mantissa : n < 2^(Mantissa + k)}
          IN  2^(CHOOSE k \in fits : \A j \in fits : k <= j)

ToDouble(n) ==
  LET u == Ulp(n)
      low == n - (n % u)
      down == 2 * (n % u) < u \/ (2 * (n % u) = u /\ (low \div u) % 2 = 0)
  IN  IF down THEN low ELSE low + u

FromDouble(d) == IF d \in PodIds THEN {d} ELSE PodIds

-----------------------------------------------------------------------------
(***************************************************************************)
(* ParseIpString.  The text of an endpoint is a list of segments: an       *)
(* address with or without a mask, a range of last octets, or a range that *)
(* is not a number, on which std::stoi throws.  A range does not stop at   *)
(* the last octet; what follows does not parse as an address.              *)
(***************************************************************************)
Text(ip, mask) == [kind |-> "text", ip |-> ip, mask |-> mask]
IpRange(base, first, end) == [kind |-> "range", base |-> base, first |-> first, last |-> end]
Malformed == [kind |-> "malformed"]

Octet(base, i) == IF i < 2^OctetBits THEN base + i ELSE 2^AddrBits + base + i

Segment(s) ==
  CASE s.kind = "text" -> {[ip |-> s.ip, mask |-> s.mask]}
    [] s.kind = "range" -> {BareText(Octet(s.base, i)) : i \in s.first .. s.last}
    [] OTHER -> {}

Segments(endpoints) == UNION {ToSet(ep.ip) : ep \in ToSet(endpoints)}
Throws(endpoints) == Malformed \in Segments(endpoints)
ParseIpString(endpoints) == UNION {Segment(s) : s \in Segments(endpoints)}

-----------------------------------------------------------------------------
(***************************************************************************)
(* One rule of a request.  The parser works on the state                   *)
(* [engine, asked, http, pods, outcome]; the outcome is "ok", "break" when *)
(* a field of the rule is missing, or "threw".  HTTP rules are installed   *)
(* as they are read, network rules once the whole rule is.                 *)
(***************************************************************************)
Has(object, field) == field \notin object.lost

\* A list as it is read: the members there are, up to the first that lacks one
\* of the fields.
ReadUntil(list, fields) ==
  LET there == SelectSeq(list, LAMBDA e : Has(e, "itself"))
      stop == SelectInSeq(there, LAMBDA e : e.lost \cap fields # {})
  IN  IF stop = 0 THEN there ELSE SubSeq(there, 1, stop - 1)

HttpRead(spec) == IF Has(spec, "http") THEN ReadUntil(spec.http, {"host", "method", "path"}) ELSE <<>>
FromRead(spec) == ReadUntil(spec.from, {"ip"})
ToRead(spec) == ReadUntil(spec.to, {"ip"})
PortsRead(spec) == IF Has(spec, "ports") THEN ReadUntil(spec.ports, {}) ELSE <<>>

Protocol(spec) == IF Has(spec, "protocol") THEN L4Protocol(spec.protocol) ELSE 0

AddHttpPolicy(http, name, spec) ==
  LET dir == FlowDirection(spec.direction)
      read == HttpRead(spec)
      added == [i \in DOMAIN read |-> [when |-> read[i].when, action |-> PolicyAction(spec.action)]]
      old == IF http[dir][name] = NoHttp THEN <<>> ELSE http[dir][name]
  IN  IF read = <<>> THEN http ELSE [http EXCEPT ![dir][name] = old \o added]

\* The port fields are narrower than the message's; a missing field is 0, and no
\* end means one port.
ValueInt(n) == IF n < IntMax THEN n ELSE IntMax

RulePort(p) ==
  LET port == IF Has(p, "port") THEN ValueInt(p.port) % PortSpace ELSE 0
      end == IF Has(p, "endPort") THEN ValueInt(p.end_port) % PortSpace ELSE 0
  IN  [port |-> port, end_port |-> IF end = 0 THEN port ELSE end]

RulePorts(spec) ==
  IF PortsRead(spec) = <<>> THEN {[port |-> 0, end_port |-> 0]}
  ELSE {RulePort(p) : p \in ToSet(PortsRead(spec))}

NetRules(name, spec) ==
  {[policy_key |-> name, dir |-> FlowDirection(spec.direction), priority |-> spec.priority,
    proto |-> Protocol(spec), action |-> PolicyAction(spec.action), src |-> src, dst |-> dst] :
     src \in ParseIpString(FromRead(spec)), dst \in ParseIpString(ToRead(spec))}

AddNewPolicy(st, a) ==
  IF a.rule.priority <= 0 \/ a.rule.priority >= 129 THEN st
  ELSE [st EXCEPT !.engine = add_policy(@, a.rule, a.port), !.asked = @ \cup {a}]

AddNewPolicies(st, name, spec) ==
  LET all == {Asked(r, port) : r \in NetRules(name, spec), port \in RulePorts(spec)}
      Step(a, s) == AddNewPolicy(s, a)
  IN  FoldSet(Step, st, all)

\* An endpoint without a pod_id is skipped.
PodsOf(endpoints) == {ep.pod_id : ep \in {e \in ToSet(endpoints) : Has(e, "pod_id")}}

Outcome(st, outcome) == [st EXCEPT !.outcome = outcome]

ParseRule(st, name, spec) ==
  LET http == [st EXCEPT !.http = AddHttpPolicy(@, name, spec)]
      egress == FlowDirection(spec.direction) = "egress"
      from == [http EXCEPT !.pods = IF egress THEN @ \cup PodsOf(FromRead(spec)) ELSE @]
      to == [from EXCEPT !.pods = IF egress THEN @ ELSE @ \cup PodsOf(ToRead(spec))]
  IN  IF st.outcome # "ok" THEN st
      ELSE IF ~Has(spec, "action") \/ ~Has(spec, "direction") THEN Outcome(st, "break")
      ELSE IF ~Has(spec, "from_addresses") THEN Outcome(http, "break")
      ELSE IF Throws(FromRead(spec)) THEN Outcome(http, "threw")
      ELSE IF ~Has(spec, "priority") \/ ~Has(spec, "to_addresses") THEN Outcome(from, "break")
      ELSE IF Throws(ToRead(spec)) THEN Outcome(from, "threw")
      ELSE AddNewPolicies(to, name, spec)

-----------------------------------------------------------------------------
(***************************************************************************)
(* A request.                                                              *)
(***************************************************************************)
\* Changed: only the rules of the ingress direction go.
DeletePolicyIngress(st, name) ==
  IF name = EmptyName THEN st
  ELSE [st EXCEPT !.engine = delete_policy(@, "ingress", name),
                  !.asked = {a \in @ : a.rule.policy_key # name},
                  !.http = [dir \in Directions |-> [@[dir] EXCEPT ![name] = NoHttp]]]

\* Nothing is deleted under the empty name.
DeletePolicy(st, name) ==
  IF name = EmptyName THEN st
  ELSE [st EXCEPT !.engine = delete_policy(delete_policy(@, "ingress", name), "egress", name),
                  !.asked = {a \in @ : a.rule.policy_key # name},
                  !.http = [dir \in Directions |-> [@[dir] EXCEPT ![name] = NoHttp]]]

ParserState ==
  [engine |-> engine, asked |-> asked, http |-> http_policy, pods |-> {}, outcome |-> "ok"]

\* The rules of a request in order, after its old version is deleted.  A text that
\* does not parse or has no name changes nothing; one without rules deletes.
ParseRules(req) ==
  LET Step(st, spec) == ParseRule(st, req.name, spec)
      deleted == DeletePolicy(ParserState, req.name)
  IN  IF req.lost \cap {"root", "policy_name"} # {} THEN Outcome(ParserState, "refused")
      ELSE IF ~Has(req, "rules") THEN Outcome(deleted, "refused")
      ELSE FoldLeft(Step, deleted, ReadUntil(req.rules, {}))

\* The pods an UpdateMark looks for: each named id after its trip as a double.
Converted(named) == {f \in [named -> PodIds] : \A id \in named : f[id] \in FromDouble(ToDouble(id))}

Apply(st) ==
  /\ engine' = st.engine
  /\ asked' = st.asked
  /\ http_policy' = st.http
  /\ UNCHANGED <<nodes_ip, pods>>

Done(request, result, reset, failed) ==
  [request |-> request, result |-> result, reset |-> reset, failed |-> failed]
Other == Done(<<>>, 0, {}, {})

\* ParseNetPolicy answers -1 through its label err; the result stays 1 when the
\* closure throws.
Result(st) == CASE st.outcome = "threw" -> 1 [] st.outcome = "refused" -> -1 [] OTHER -> 0

\* UpdateMark: each pod there is of the ids read.  A session that is missing or
\* fails is logged.
UpdateMark(req, st, named) ==
  \E found \in {{f[id] : id \in named} \cap pods : f \in Converted(named)} :
    \E failed \in SUBSET found : last' = Done(<<req>>, Result(st), found \ failed, failed)

\* Changed: marks are reset only when every rule was read.
AddPolicyRuleWhole(req) ==
  LET st == ParseRules(req)
  IN  /\ Apply(st)
      /\ UpdateMark(req, st, IF st.outcome = "ok" THEN st.pods ELSE {})

\* ParseNetPolicy in a closure of the epoll thread.
AddPolicyRule(req) ==
  LET st == ParseRules(req)
  IN  /\ Apply(st)
      /\ UpdateMark(req, st, IF st.outcome \in {"ok", "break"} THEN st.pods ELSE {})

DeletePolicyRule(name) ==
  /\ Apply(DeletePolicy(ParserState, name))
  /\ last' = Other

\* The HTTP tables stay.
ResetConfig ==
  /\ Apply([ParserState EXCEPT !.engine = clear_cfg, !.asked = {}])
  /\ last' = Other

\* A text that is not an address registers 0.0.0.0.
UpdateNodeConfig(addresses, is_delete) ==
  LET ips == {Parse(ip) : ip \in addresses}
  IN  /\ nodes_ip' = IF is_delete THEN nodes_ip \ ips ELSE nodes_ip \cup ips
      /\ last' = Other
      /\ UNCHANGED <<engine, asked, http_policy, pods>>

\* Pods come and go; PodLifecycle has the detail.
PodChange(id) ==
  /\ pods' = IF id \in pods THEN pods \ {id} ELSE pods \cup {id}
  /\ last' = Other
  /\ UNCHANGED <<engine, asked, http_policy, nodes_ip>>

-----------------------------------------------------------------------------
NamedPods == {ep.pod_id : ep \in UNION {ToSet(spec.from \o spec.to) :
                                         spec \in UNION {ToSet(req.rules) : req \in Requests}}}

ConfigInit ==
  /\ EngineInit
  /\ http_policy = [dir \in Directions |-> [name \in RuleNames |-> NoHttp]]
  /\ nodes_ip = {}
  /\ pods = {}
  /\ last = Other

ConfigNext ==
  \/ \E req \in Requests : AddPolicyRule(req)
  \/ \E name \in RuleNames : DeletePolicyRule(name)
  \/ ResetConfig
  \/ \E addresses \in NodeRequests, is_delete \in BOOLEAN : UpdateNodeConfig(addresses, is_delete)
  \/ \E id \in NamedPods : PodChange(id)

ConfigSpec == ConfigInit /\ [][ConfigNext]_config

-----------------------------------------------------------------------------
(***************************************************************************)
(* What a request means.  The rules before the first one that cannot be    *)
(* read count, and the HTTP rules of that one if it got that far; so do    *)
(* the HTTP rules and the addresses of a rule before the first that cannot *)
(* be read.  Rules of one policy that share a key are one rule, with the   *)
(* first's action.                                                         *)
(***************************************************************************)
Id(p) == <<p.src, p.dst, p.proto, p.dst_port>>

Complete(spec) ==
  /\ spec.lost \cap {"action", "direction", "from_addresses", "priority", "to_addresses"} = {}
  /\ ~Throws(FromRead(spec)) /\ ~Throws(ToRead(spec))

\* The rules in force, and those whose HTTP rules are.
AllRules(req) == IF Has(req, "rules") THEN ReadUntil(req.rules, {}) ELSE <<>>
InForce(req) == SelectInSeq(AllRules(req), LAMBDA spec : ~Complete(spec)) - 1
Rules(req) == SubSeq(AllRules(req), 1, IF InForce(req) < 0 THEN Len(AllRules(req)) ELSE InForce(req))
HttpSpecs(req) ==
  LET next == Len(Rules(req)) + 1
      readable == next <= Len(AllRules(req)) /\ AllRules(req)[next].lost \cap {"action", "direction"} = {}
  IN  IF readable THEN Append(Rules(req), AllRules(req)[next]) ELSE Rules(req)

Meant(name, spec) == {Asked(r, port) : r \in NetRules(name, spec), port \in RulePorts(spec)}

NetMeaning(req) ==
  LET specs == Rules(req)
      all == UNION {Meant(req.name, specs[i]) : i \in DOMAIN specs}
      Same(a) == {b \in all : b.rule.dir = a.rule.dir /\ create_rule_key(b.rule) = create_rule_key(a.rule)}
      First(a) == SelectInSeq(specs, LAMBDA spec : Meant(req.name, spec) \cap Same(a) # {})
  IN  {[dir |-> a.rule.dir, rule_key |-> req.name, priority |-> a.rule.priority,
        action |-> PolicyAction(specs[First(a)].action),
        ids |-> {Id(p) : p \in {q \in Packets : \E b \in Same(a) : Covers(b, q, a.rule.dir)}}] :
          a \in all}

\* An empty host, method or path stands for any.
Applies(when, header) == \A field \in DOMAIN when : when[field] \in {"", header[field]}

MatchHttpPolicyRule(list, header) ==
  LET first == SelectInSeq(list, LAMBDA r : Applies(r.when, header))
  IN  IF first = 0 THEN kDefault ELSE list[first].action

HttpAnswers(list) ==
  IF list = NoHttp THEN NoHttp ELSE [h \in HttpHeaders |-> MatchHttpPolicyRule(list, h)]

HttpMeaning(req, dir) ==
  LET specs == SelectSeq(HttpSpecs(req), LAMBDA spec : FlowDirection(spec.direction) = dir)
      when == FlattenSeq([i \in DOMAIN specs |->
                [k \in DOMAIN HttpRead(specs[i]) |->
                   [when |-> HttpRead(specs[i])[k].when, action |-> PolicyAction(specs[i].action)]]])
  IN  IF when = <<>> THEN NoHttp ELSE HttpAnswers(when)

Meaning(req) ==
  [rule_key |-> req.name, rules |-> NetMeaning(req),
   http |-> [dir \in Directions |-> HttpMeaning(req, dir)], names_pod |-> TRUE]

\* The pods on the pods' own side of the rules in force, as far as they were read.
LocalPods(req) ==
  UNION {PodsOf(IF spec.direction = 1 THEN ToRead(spec) ELSE FromRead(spec)) : spec \in ToSet(Rules(req))}

Meanings == {Meaning(req) : req \in {r \in Requests : r.name # EmptyName}}

-----------------------------------------------------------------------------
(***************************************************************************)
(* The rule trees seen as the packet path sees them.                       *)
(***************************************************************************)
PolicyNames == RuleNames \ {EmptyName}

Installed(dir) ==
  {[dir |-> dir, rule_key |-> name, priority |-> key.priority,
    action |-> engine.chain[dir][key][name].action,
    ids |-> {Id(p) : p \in {q \in Packets : /\ key \in create_rule_key_by_tuple(engine, q, dir)
                                          /\ matches(engine.chain[dir][key][name], q)}}] :
      <<key, name>> \in {kn \in (DOMAIN engine.chain[dir]) \X PolicyNames :
                          kn[2] \in DOMAIN engine.chain[dir][kn[1]]}}

Lookup == INSTANCE PolicyLookup WITH
  ConnectionId <- {Id(p) : p \in Packets}, RuleKeys <- PolicyNames, Headers <- HttpHeaders,
  Definitions <- Meanings, NodeAddresses <- Addr,
  rules <- Installed("ingress") \cup Installed("egress"),
  http_policy <- [dir \in Directions |-> [name \in PolicyNames |-> HttpAnswers(http_policy[dir][name])]]

(***************************************************************************)
(* Every request about a named policy does one thing to what the packet    *)
(* path sees: it replaces the whole policy by what the request means, up   *)
(* to the first rule that lacks a field and, within a rule, up to the      *)
(* first HTTP rule or address that does, and no trace of an earlier        *)
(* version stays (ParseNetPolicy, net-policy.cpp:1241-1449; the tree's     *)
(* keys, masks and priorities, net_policy_engine/src/lib.rs).              *)
(***************************************************************************)
ImplementsLookup == Lookup!LookupSpec

(***************************************************************************)
(* A request that returns 0 has asked the conntrack session of every pod   *)
(* with queues on the local side of a rule it put in force to reset its    *)
(* marks, even when it stopped at a missing field after it.  Not reset are *)
(* the pods whose session failed, which UpdateMark only logs, the          *)
(* endpoints read without a pod_id and those behind one without an ip      *)
(* (CONTINUE_ERROR and BREAK_ERROR).  The id is a JSON number on the way,  *)
(* exact up to 2^Mantissa (UpdateMark, net-policy.cpp:1152-1180; the       *)
(* number at net-policy.cpp:1710, read back at 1351 and 1409).             *)
(***************************************************************************)
NamedPodsReset ==
  \A req \in ToSet(last.request) : last.result = 0 =>
    \A id \in LocalPods(req) \cap pods : id <= 2^Mantissa => id \in last.reset \cup last.failed
=============================================================================
