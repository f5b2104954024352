---------------------------- MODULE PolicyEngine ----------------------------
(***************************************************************************)
(* RustPolicyEngine: the network rules, filed under keys made of priority, *)
(* protocol, a CIDR block on one side and an exact address on the other.   *)
(* A packet is looked up by trying the keys it could be filed under.  The  *)
(* engine is a record, and its methods are functions of it, because one    *)
(* control request calls many of them.                                     *)
(***************************************************************************)
EXTENDS Integers, FiniteSets

CONSTANTS
  AddrBits,      \* width of an address, 32 in the code
  Bare,          \* an address text without a mask
  RuleNames,     \* policy names
  EngineRules,   \* the rules that may be added
  EnginePorts,   \* the port ranges they may be added with
  Packets        \* five-tuples that may be looked up

VARIABLES
  engine,        \* the engine
  asked          \* what callers asked for: the rules and ports not deleted since

Addr == 0 .. 2^AddrBits - 1
Icmp == 1

ASSUME EngineAssumption ==
  /\ AddrBits \in Nat \ {0}
  /\ Bare \notin Int
  /\ \A r \in EngineRules : /\ r.dir \in {"ingress", "egress"}
                            /\ r.policy_key \in RuleNames
                            /\ r.priority \in Nat
                            /\ r.src.mask \in Int \cup {Bare}
                            /\ r.dst.mask \in Int \cup {Bare}
  /\ \A p \in Packets : p.src \in Addr /\ p.dst \in Addr

\* Named for the proofs: the provers have no theory of powers.
ASSUME PowerAssumption == \A k \in 0 .. AddrBits : 2^k \in Nat \ {0}

-----------------------------------------------------------------------------
(***************************************************************************)
(* Addresses.  A text is an address with a mask or without; an address     *)
(* outside Addr stands for a text that does not parse.                     *)
(***************************************************************************)
Parse(ip) == IF ip \in Addr THEN ip ELSE 0

\* The shift wraps: a mask of 0 shifts by 0 and keeps every bit.
ipv4_cidr_to_ip(ip, mask) == Parse(ip) - (Parse(ip) % 2^((AddrBits - mask) % AddrBits))

parse_cidr(text) ==
  LET mask == IF text.mask = Bare THEN AddrBits ELSE text.mask
  IN  [ip |-> ipv4_cidr_to_ip(text.ip, mask), mask |-> mask]

BareText(ip) == [ip |-> ip, mask |-> Bare]

-----------------------------------------------------------------------------
(***************************************************************************)
(* Keys, and the order in which the lookup tries them: by priority, the    *)
(* wildcard before the blocks, wide blocks before narrow ones, the         *)
(* packet's protocol before any protocol.                                  *)
(***************************************************************************)
CidrSide(dir, src, dst) == IF dir = "ingress" THEN src ELSE dst
ExactSide(dir, src, dst) == IF dir = "ingress" THEN dst ELSE src

Key(priority, proto, cidr, exact) ==
  [priority |-> priority, proto |-> proto, cidr |-> cidr, exact |-> exact]

create_rule_key(r) ==
  Key(r.priority, r.proto, parse_cidr(CidrSide(r.dir, r.src, r.dst)),
      ExactSide(r.dir, r.src, r.dst))

Wildcard == [ip |-> 0, mask |-> AddrBits]

Blocks(e, addr) == {[ip |-> ipv4_cidr_to_ip(addr, mask), mask |-> mask] : mask \in e.mask_cidr}

create_rule_key_by_tuple(e, p, dir) ==
  {Key(priority, proto, cidr, BareText(ExactSide(dir, p.src, p.dst))) :
     priority \in e.priority, proto \in {p.proto, 0},
     cidr \in {Wildcard} \cup Blocks(e, CidrSide(dir, p.src, p.dst))}

Width(key) == IF key.cidr = Wildcard THEN 0 ELSE key.cidr.mask

TriedBefore(k, j) ==
  \/ k.priority < j.priority
  \/ k.priority = j.priority /\ Width(k) < Width(j)
  \/ k.priority = j.priority /\ Width(k) = Width(j) /\ k.proto # 0 /\ j.proto = 0

-----------------------------------------------------------------------------
(***************************************************************************)
(* Matching.  An ICMP packet takes the rule's protocol and needs no port;  *)
(* the end port 0 stands for any port.                                     *)
(***************************************************************************)
matches(r, p) ==
  /\ r.proto = 0 \/ p.proto = Icmp \/ p.proto = r.proto
  /\ \/ r.ports = {} \/ p.proto = Icmp
     \/ \E q \in r.ports : q.end_port = 0 \/ (q.port <= p.dst_port /\ p.dst_port <= q.end_port)

\* What a group may answer: it is a hash map, the first match in hash order.
match_rule(group, p) == {r \in {group[name] : name \in DOMAIN group} : matches(r, p)}

\* The answers of the first key that has one.
match_five_tuple(e, p, dir) ==
  LET chain == e.chain[dir]
      Hits(key) == IF key \in DOMAIN chain THEN match_rule(chain[key], p) ELSE {}
      keys == {key \in create_rule_key_by_tuple(e, p, dir) : Hits(key) # {}}
      first == {key \in keys : \A other \in keys : ~TriedBefore(other, key)}
  IN  UNION {Hits(key) : key \in first}

-----------------------------------------------------------------------------
(***************************************************************************)
(* The rule trees of the two directions.                                   *)
(***************************************************************************)
Directions == {"ingress", "egress"}
Extend(f, x, y) == [z \in DOMAIN f \cup {x} |-> IF z = x THEN y ELSE f[z]]
Without(f, x) == [z \in DOMAIN f \ {x} |-> f[z]]
Empty == [x \in {} |-> x]

new_policy_engine ==
  [chain |-> [dir \in Directions |-> Empty], tree |-> [dir \in Directions |-> Empty],
   mask_cidr |-> {AddrBits}, priority |-> {}]

Stored(r, ports) ==
  [policy_key |-> r.policy_key, dir |-> r.dir, priority |-> r.priority, proto |-> r.proto,
   action |-> r.action, src |-> r.src, dst |-> r.dst, ports |-> ports]

\* A rule of the same policy under the same key takes the port and keeps its action.
add_rule_detail(group, r, port) ==
  LET name == r.policy_key
  IN  Extend(group, name, IF name \in DOMAIN group
                            THEN Stored(group[name], group[name].ports \cup {port})
                            ELSE Stored(r, {port}))

add_rule_to_chain(chain, key, r, port) ==
  Extend(chain, key, add_rule_detail(IF key \in DOMAIN chain THEN chain[key] ELSE Empty, r, port))

\* Changed: only the latest key of a policy is remembered.
record_key_last(tree, name, key) == Extend(tree, name, {key})

record_key(tree, name, key) ==
  Extend(tree, name, (IF name \in DOMAIN tree THEN tree[name] ELSE {}) \cup {key})

\* Changed: masks are recorded for the protocols' own rules only.
add_mask_and_priority_own(e, priority, mask) ==
  [e EXCEPT !.priority = @ \cup {priority}]

add_mask_and_priority(e, priority, mask) ==
  [e EXCEPT !.priority = @ \cup {priority},
            !.mask_cidr = IF mask > 0 /\ mask <= AddrBits THEN @ \cup {mask} ELSE @]

add_policy(e, r, port) ==
  LET key == create_rule_key(r)
      filed == [e EXCEPT !.chain[r.dir] = add_rule_to_chain(@, key, r, port),
                         !.tree[r.dir] = record_key(@, r.policy_key, key)]
  IN  add_mask_and_priority(filed, r.priority, key.cidr.mask)

\* A group that loses its last rule goes.
delete_rule_from_chain(chain, name, keys) ==
  LET left == {key \in DOMAIN chain : key \notin keys \/ DOMAIN chain[key] # {name}}
  IN  [key \in left |-> IF key \in keys THEN Without(chain[key], name) ELSE chain[key]]

\* The tree is cleared with its last policy; masks and priorities stay.
delete_policy(e, dir, name) ==
  IF name \notin DOMAIN e.tree[dir] THEN e
  ELSE LET tree == Without(e.tree[dir], name)
       IN  [e EXCEPT !.tree[dir] = tree,
                     !.chain[dir] = IF DOMAIN tree = {} THEN Empty
                                    ELSE delete_rule_from_chain(@, name, e.tree[dir][name])]

clear_cfg == new_policy_engine

-----------------------------------------------------------------------------
(***************************************************************************)
(* The engine under any sequence of calls.                                 *)
(***************************************************************************)
Asked(r, port) == [rule |-> r, port |-> port]

Add(r, port) ==
  /\ engine' = add_policy(engine, r, port)
  /\ asked' = asked \cup {Asked(r, port)}

Delete(dir, name) ==
  /\ engine' = delete_policy(engine, dir, name)
  /\ asked' = {a \in asked : a.rule.dir # dir \/ a.rule.policy_key # name}

Clear ==
  /\ engine' = clear_cfg
  /\ asked' = {}

EngineInit == engine = new_policy_engine /\ asked = {}

EngineNext ==
  \/ \E r \in EngineRules, port \in EnginePorts : Add(r, port)
  \/ \E dir \in Directions, name \in RuleNames : Delete(dir, name)
  \/ Clear

EngineSpec == EngineInit /\ [][EngineNext]_<<engine, asked>>

-----------------------------------------------------------------------------
(***************************************************************************)
(* Every filed rule can be deleted by its policy's name, and nothing else  *)
(* is recorded: the tree lists exactly the keys under which the chain      *)
(* holds a rule of the policy, and no group is empty.  A rule the tree had *)
(* lost would decide packets after its policy is deleted                   *)
(* (delete_policy_from_tree, net_policy_engine/src/lib.rs:274-284).        *)
(***************************************************************************)
TreeMatchesChain ==
  \A dir \in Directions :
    LET chain == engine.chain[dir]
        tree == engine.tree[dir]
    IN  /\ \A key \in DOMAIN chain : DOMAIN chain[key] # {}
        /\ \A key \in DOMAIN chain : \A name \in DOMAIN chain[key] :
             name \in DOMAIN tree /\ key \in tree[name]
        /\ \A name \in DOMAIN tree : \A key \in tree[name] :
             key \in DOMAIN chain /\ name \in DOMAIN chain[key]

\* What a rule text means: any address, or the addresses that share its prefix.
AnyAddress(text) == Parse(text.ip) = 0 /\ text.mask \in {Bare, AddrBits}
InBlock(addr, text) ==
  LET mask == IF text.mask = Bare THEN AddrBits ELSE text.mask
      size == 2^(AddrBits - mask)
  IN  mask \in 1 .. AddrBits /\ addr \div size = Parse(text.ip) \div size

\* The rule asked for applies to the packet, whatever else is installed.
Covers(a, p, dir) ==
  LET r == a.rule
      text == CidrSide(dir, r.src, r.dst)
  IN  /\ r.dir = dir
      /\ r.proto \in {0, p.proto}
      /\ ExactSide(dir, r.src, r.dst) = BareText(ExactSide(dir, p.src, p.dst))
      /\ AnyAddress(text) \/ InBlock(CidrSide(dir, p.src, p.dst), text)
      /\ \/ p.proto = Icmp \/ a.port.end_port = 0
         \/ a.port.port <= p.dst_port /\ p.dst_port <= a.port.end_port

(***************************************************************************)
(* The lookup answers with a rule that was asked for and not deleted, that *)
(* covers the packet, and that no other covering rule beats in priority;   *)
(* and it answers whenever some rule covers the packet.  The reference     *)
(* knows nothing of keys: it is the meaning of the rules (the masks and    *)
(* priorities collected at lib.rs:355-360 must reach every rule, and the   *)
(* order of lib.rs:366-396 must put the strongest first).                  *)
(***************************************************************************)
LookupIsStrongest ==
  \A dir \in Directions, p \in Packets :
    LET covering == {a \in asked : Covers(a, p, dir)}
        answers == match_five_tuple(engine, p, dir)
    IN  /\ (answers = {}) = (covering = {})
        /\ \A r \in answers :
             /\ \A a \in covering : r.priority <= a.rule.priority
             /\ \E a \in covering : /\ a.rule.policy_key = r.policy_key
                                    /\ a.rule.priority = r.priority
             /\ \E a \in asked : /\ create_rule_key(a.rule) = create_rule_key(r)
                                 /\ a.rule.policy_key = r.policy_key
                                 /\ a.rule.action = r.action
=============================================================================
