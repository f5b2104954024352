------------------------- MODULE PolicyEngineProofs -------------------------
(***************************************************************************)
(* Proofs about the rule trees and the lookup in them, for every address   *)
(* width, every set of rules, ports, names and packets, and every sequence *)
(* of calls.                                                               *)
(***************************************************************************)
EXTENDS PolicyEngine, WellFoundedInduction, TLAPS

\* The two views of one direction agree: what TreeMatchesChain says of it.
Agree(chain, tree) ==
  /\ \A key \in DOMAIN chain : DOMAIN chain[key] # {}
  /\ \A key \in DOMAIN chain : \A name \in DOMAIN chain[key] :
       name \in DOMAIN tree /\ key \in tree[name]
  /\ \A name \in DOMAIN tree : \A key \in tree[name] :
       key \in DOMAIN chain /\ name \in DOMAIN chain[key]

\* The engine is a record whose two indexes are functions of the direction.
EngineShape ==
  /\ engine = [chain |-> engine.chain, tree |-> engine.tree,
               mask_cidr |-> engine.mask_cidr, priority |-> engine.priority]
  /\ engine.chain = [dir \in Directions |-> engine.chain[dir]]
  /\ engine.tree = [dir \in Directions |-> engine.tree[dir]]

EngineInv == EngineShape /\ TreeMatchesChain

-----------------------------------------------------------------------------
\* Filing a rule adds its policy's name to the group.
LEMMA GroupNames ==
  ASSUME NEW group, NEW r, NEW port
  PROVE  DOMAIN add_rule_detail(group, r, port) = DOMAIN group \cup {r.policy_key}
BY DEF add_rule_detail, Extend

\* add_rule_to_chain and record_key together keep the views in agreement.
LEMMA AddAgrees ==
  ASSUME NEW chain, NEW tree, NEW key, NEW r, NEW port, Agree(chain, tree)
  PROVE  Agree(add_rule_to_chain(chain, key, r, port), record_key(tree, r.policy_key, key))
<1> DEFINE group == IF key \in DOMAIN chain THEN chain[key] ELSE Empty
           chain2 == add_rule_to_chain(chain, key, r, port)
           keys == IF r.policy_key \in DOMAIN tree THEN tree[r.policy_key] ELSE {}
           tree2 == record_key(tree, r.policy_key, key)
<1>1. /\ DOMAIN chain2 = DOMAIN chain \cup {key}
      /\ DOMAIN chain2[key] = DOMAIN group \cup {r.policy_key}
      /\ \A k \in DOMAIN chain : k # key => chain2[k] = chain[k]
  <2>1. /\ DOMAIN chain2 = DOMAIN chain \cup {key}
        /\ chain2[key] = add_rule_detail(group, r, port)
        /\ \A k \in DOMAIN chain : k # key => chain2[k] = chain[k]
    BY DEF add_rule_to_chain, Extend
  <2> HIDE DEF group, chain2
  <2>2. DOMAIN add_rule_detail(group, r, port) = DOMAIN group \cup {r.policy_key}
    BY GroupNames, Zenon
  <2> QED
    BY <2>1, <2>2
<1>2. /\ DOMAIN tree2 = DOMAIN tree \cup {r.policy_key}
      /\ tree2[r.policy_key] = keys \cup {key}
      /\ \A name \in DOMAIN tree : name # r.policy_key => tree2[name] = tree[name]
  BY DEF record_key, Extend
<1>3. DOMAIN Empty = {}
  BY DEF Empty
<1> HIDE DEF chain2, tree2
<1>4. \A k \in DOMAIN chain2 : DOMAIN chain2[k] # {}
  BY <1>1 DEF Agree
<1>5. ASSUME NEW k \in DOMAIN chain2, NEW name \in DOMAIN chain2[k]
      PROVE  name \in DOMAIN tree2 /\ k \in tree2[name]
  <2>1. CASE k = key /\ name = r.policy_key
    BY <1>2, <2>1
  <2>2. CASE k # key \/ name # r.policy_key
    <3>1. k \in DOMAIN chain /\ name \in DOMAIN chain[k]
      BY <1>1, <1>3, <1>5, <2>2
    <3> QED
      BY <3>1, <1>2 DEF Agree
  <2> QED
    BY <2>1, <2>2
<1>6. ASSUME NEW name \in DOMAIN tree2, NEW k \in tree2[name]
      PROVE  k \in DOMAIN chain2 /\ name \in DOMAIN chain2[k]
  <2>1. CASE k = key /\ name = r.policy_key
    BY <1>1, <2>1
  <2>2. CASE k # key \/ name # r.policy_key
    <3>1. name \in DOMAIN tree /\ k \in tree[name]
      BY <1>2, <1>6, <2>2
    <3> QED
      BY <3>1, <1>1 DEF Agree
  <2> QED
    BY <2>1, <2>2
<1> QED
  BY <1>4, <1>5, <1>6 DEF Agree, chain2, tree2

\* Deleting a policy takes exactly its rules out of both views.
LEMMA DeleteAgrees ==
  ASSUME NEW chain, NEW tree, NEW name \in DOMAIN tree, Agree(chain, tree)
  PROVE  Agree(delete_rule_from_chain(chain, name, tree[name]), Without(tree, name))
<1> DEFINE chain2 == delete_rule_from_chain(chain, name, tree[name])
           tree2 == Without(tree, name)
<1>1. /\ DOMAIN chain2 = {k \in DOMAIN chain : k \notin tree[name] \/ DOMAIN chain[k] # {name}}
      /\ \A k \in DOMAIN chain2 : DOMAIN chain2[k] = DOMAIN chain[k] \ {name}
  BY DEF delete_rule_from_chain, Without, Agree
<1>2. /\ DOMAIN tree2 = DOMAIN tree \ {name}
      /\ \A n \in DOMAIN tree2 : tree2[n] = tree[n]
  BY DEF Without
<1> HIDE DEF chain2, tree2
<1>3. ASSUME NEW k \in DOMAIN chain2
      PROVE  DOMAIN chain2[k] # {}
  <2>1. CASE name \in DOMAIN chain[k]
    BY <1>1, <1>3, <2>1 DEF Agree
  <2>2. CASE name \notin DOMAIN chain[k]
    BY <1>1, <1>3, <2>2 DEF Agree
  <2> QED
    BY <2>1, <2>2
<1>4. \A k \in DOMAIN chain2 : \A n \in DOMAIN chain2[k] : n \in DOMAIN tree2 /\ k \in tree2[n]
  BY <1>1, <1>2 DEF Agree
<1>5. \A n \in DOMAIN tree2 : \A k \in tree2[n] : k \in DOMAIN chain2 /\ n \in DOMAIN chain2[k]
  BY <1>1, <1>2 DEF Agree
<1> QED
  BY <1>3, <1>4, <1>5 DEF Agree, chain2, tree2

\* Two empty indexes agree.
LEMMA EmptyAgrees == ASSUME NEW tree, DOMAIN tree = {} PROVE Agree(Empty, tree)
BY DEF Agree, Empty

-----------------------------------------------------------------------------
\* TreeMatchesChain is agreement in both directions.
LEMMA AgreeIsMatch == TreeMatchesChain <=> \A dir \in Directions : Agree(engine.chain[dir], engine.tree[dir])
BY DEF TreeMatchesChain, Agree

\* add_policy changes one direction, and there files and records one rule.
LEMMA AddKeeps ==
  ASSUME EngineInv, NEW r \in EngineRules, NEW port, Add(r, port)
  PROVE  EngineInv'
<1> DEFINE key == create_rule_key(r)
           chain2 == add_rule_to_chain(engine.chain[r.dir], key, r, port)
           tree2 == record_key(engine.tree[r.dir], r.policy_key, key)
<1> HIDE DEF key, chain2, tree2
<1>1. r.dir \in Directions
  BY EngineAssumption DEF Directions
<1>2. /\ EngineShape'
      /\ engine'.chain = [engine.chain EXCEPT ![r.dir] = chain2]
      /\ engine'.tree = [engine.tree EXCEPT ![r.dir] = tree2]
  BY <1>1, Zenon DEF EngineInv, EngineShape, Add, add_policy, add_mask_and_priority, key, chain2, tree2
<1>3. \A dir \in Directions :
        /\ engine'.chain[dir] = IF dir = r.dir THEN chain2 ELSE engine.chain[dir]
        /\ engine'.tree[dir] = IF dir = r.dir THEN tree2 ELSE engine.tree[dir]
  BY <1>1, <1>2 DEF EngineInv, EngineShape
<1>4. \A dir \in Directions : Agree(engine.chain[dir], engine.tree[dir])
  BY AgreeIsMatch DEF EngineInv
<1>5. Agree(chain2, tree2)
  BY <1>1, <1>4, AddAgrees DEF chain2, tree2
<1>6. \A dir \in Directions : Agree(engine'.chain[dir], engine'.tree[dir])
  BY <1>3, <1>4, <1>5
<1> QED
  BY <1>2, <1>6 DEF EngineInv, TreeMatchesChain, Agree

\* delete_policy empties the chain with its last policy, which leaves nothing
\* behind because the tree knew every rule.
LEMMA DeleteKeeps ==
  ASSUME EngineInv, NEW dir \in Directions, NEW name, Delete(dir, name)
  PROVE  EngineInv'
<1> DEFINE tree2 == Without(engine.tree[dir], name)
           rest == delete_rule_from_chain(engine.chain[dir], name, engine.tree[dir][name])
           chain2 == IF DOMAIN tree2 = {} THEN Empty ELSE rest
<1> HIDE DEF tree2, rest, chain2
<1>1. CASE name \notin DOMAIN engine.tree[dir]
  BY <1>1 DEF Delete, delete_policy, EngineInv, EngineShape, TreeMatchesChain
<1>2. CASE name \in DOMAIN engine.tree[dir]
  <2>1. /\ EngineShape'
        /\ engine'.chain = [engine.chain EXCEPT ![dir] = chain2]
        /\ engine'.tree = [engine.tree EXCEPT ![dir] = tree2]
    BY <1>2, Zenon DEF EngineInv, EngineShape, Delete, delete_policy, tree2, rest, chain2
  <2>2. \A d \in Directions :
          /\ engine'.chain[d] = IF d = dir THEN chain2 ELSE engine.chain[d]
          /\ engine'.tree[d] = IF d = dir THEN tree2 ELSE engine.tree[d]
    BY <2>1 DEF EngineInv, EngineShape
  <2>3. \A d \in Directions : Agree(engine.chain[d], engine.tree[d])
    BY AgreeIsMatch DEF EngineInv
  <2>4. Agree(rest, tree2)
    BY <1>2, <2>3, DeleteAgrees DEF rest, tree2
  <2>5. Agree(chain2, tree2)
    BY <2>4, EmptyAgrees DEF chain2
  <2>6. \A d \in Directions : Agree(engine'.chain[d], engine'.tree[d])
    BY <2>2, <2>3, <2>5
  <2> QED
    BY <2>1, <2>6 DEF EngineInv, TreeMatchesChain, Agree
<1> QED
  BY <1>1, <1>2

\* An engine without rules has the invariant.
LEMMA NewEngine == engine = new_policy_engine => EngineInv
BY DEF new_policy_engine, EngineInv, EngineShape, TreeMatchesChain, Empty

(***************************************************************************)
(* Under any sequence of add_policy, delete_policy and clear_cfg, the tree *)
(* lists exactly the keys under which the chain holds rules of a policy:   *)
(* deleting a policy by its name removes all of its rules and no other's,  *)
(* for every address width, rule set and set of names.                     *)
(***************************************************************************)
THEOREM EngineDeletable == EngineSpec => []TreeMatchesChain
<1>1. EngineInit => EngineInv
  BY NewEngine DEF EngineInit
<1>2. EngineInv /\ [EngineNext]_<<engine, asked>> => EngineInv'
  <2> SUFFICES ASSUME EngineInv, [EngineNext]_<<engine, asked>>
               PROVE  EngineInv'
    OBVIOUS
  <2>1. ASSUME NEW r \in EngineRules, NEW port \in EnginePorts, Add(r, port)
        PROVE  EngineInv'
    BY <2>1, AddKeeps
  <2>2. ASSUME NEW dir \in Directions, NEW name \in RuleNames, Delete(dir, name)
        PROVE  EngineInv'
    BY <2>2, DeleteKeeps
  <2>3. CASE Clear
    BY <2>3 DEF Clear, clear_cfg, new_policy_engine, EngineInv, EngineShape, TreeMatchesChain, Empty
  <2>4. CASE UNCHANGED <<engine, asked>>
    BY <2>4 DEF EngineInv, EngineShape, TreeMatchesChain
  <2> QED
    BY <2>1, <2>2, <2>3, <2>4 DEF EngineNext
<1>3. EngineInv => TreeMatchesChain
  BY DEF EngineInv
<1> QED
  BY <1>1, <1>2, <1>3, PTL DEF EngineSpec

-----------------------------------------------------------------------------
(***************************************************************************)
(* What the engine holds, told by what it was asked for.                   *)
(***************************************************************************)
\* The calls that were filed as one rule.
Same(rules, dir, key, name) ==
  {a \in rules : /\ a.rule.dir = dir
                 /\ a.rule.policy_key = name
                 /\ create_rule_key(a.rule) = key}

\* A filed rule has the ports of all of these calls and the action of one.
Joined(r, calls, dir, key, name) ==
  /\ r.policy_key = name
  /\ r.dir = dir
  /\ create_rule_key(r) = key
  /\ r.ports = {a.port : a \in calls}
  /\ \E a \in calls : a.rule.action = r.action

\* The chain of a direction holds what was asked for in it, and all of it.
Filed(chain, rules, dir) ==
  /\ \A key \in DOMAIN chain : \A name \in DOMAIN chain[key] :
       Joined(chain[key][name], Same(rules, dir, key, name), dir, key, name)
  /\ \A a \in rules : a.rule.dir = dir =>
       /\ create_rule_key(a.rule) \in DOMAIN chain
       /\ a.rule.policy_key \in DOMAIN chain[create_rule_key(a.rule)]

\* The priorities and masks that a lookup goes through reach every rule.
Reached(e, rules) ==
  /\ e.priority \subseteq Nat
  /\ e.mask_cidr \subseteq 1 .. AddrBits
  /\ AddrBits \in e.mask_cidr
  /\ \A a \in rules :
       LET mask == create_rule_key(a.rule).cidr.mask
       IN  /\ a.rule.priority \in e.priority
           /\ mask \in 1 .. AddrBits => mask \in e.mask_cidr

FiledInv ==
  /\ EngineInv
  /\ \A a \in asked : a.rule \in EngineRules
  /\ \A dir \in Directions : Filed(engine.chain[dir], asked, dir)
  /\ Reached(engine, asked)

-----------------------------------------------------------------------------
\* The parts of a rule's key.
LEMMA KeyParts ==
  ASSUME NEW r
  PROVE  /\ create_rule_key(r).priority = r.priority
         /\ create_rule_key(r).proto = r.proto
         /\ create_rule_key(r).cidr = parse_cidr(CidrSide(r.dir, r.src, r.dst))
         /\ create_rule_key(r).exact = ExactSide(r.dir, r.src, r.dst)
BY DEF create_rule_key, Key

\* A key's mask is the rule's, or the width of an address.
LEMMA MaskType ==
  ASSUME NEW r \in EngineRules
  PROVE  create_rule_key(r).cidr.mask \in Int
<1> DEFINE text == CidrSide(r.dir, r.src, r.dst)
<1>1. text.mask \in Int \cup {Bare}
  BY EngineAssumption DEF CidrSide
<1> HIDE DEF text
<1>2. parse_cidr(text).mask = IF text.mask = Bare THEN AddrBits ELSE text.mask
  BY DEF parse_cidr
<1>3. create_rule_key(r).cidr = parse_cidr(text)
  BY KeyParts DEF text
<1> QED
  BY <1>1, <1>2, <1>3, EngineAssumption

\* Storing a rule keeps everything but its ports.
LEMMA StoredParts ==
  ASSUME NEW r, NEW ports
  PROVE  /\ Stored(r, ports).policy_key = r.policy_key
         /\ Stored(r, ports).dir = r.dir
         /\ Stored(r, ports).action = r.action
         /\ Stored(r, ports).ports = ports
         /\ create_rule_key(Stored(r, ports)) = create_rule_key(r)
BY DEF Stored, create_rule_key, Key

\* A call joins the rule it is filed as: its port is added to the others.
LEMMA JoinCall ==
  ASSUME NEW rules, NEW r, NEW port, NEW old, NEW key, key = create_rule_key(r),
         Joined(old, Same(rules, r.dir, key, r.policy_key), r.dir, key, r.policy_key)
  PROVE  Joined(Stored(old, old.ports \cup {port}),
                Same(rules \cup {Asked(r, port)}, r.dir, key, r.policy_key),
                r.dir, key, r.policy_key)
<1> DEFINE before == Same(rules, r.dir, key, r.policy_key)
           after == Same(rules \cup {Asked(r, port)}, r.dir, key, r.policy_key)
           new == Stored(old, old.ports \cup {port})
<1>1. Asked(r, port).rule = r /\ Asked(r, port).port = port
  BY DEF Asked
<1>2. after = before \cup {Asked(r, port)}
  BY <1>1 DEF Same
<1> HIDE DEF before, after
<1>3. {a.port : a \in after} = {a.port : a \in before} \cup {port}
  BY <1>1, <1>2
<1>4. /\ new.policy_key = old.policy_key
      /\ new.dir = old.dir
      /\ new.action = old.action
      /\ new.ports = old.ports \cup {port}
      /\ create_rule_key(new) = create_rule_key(old)
  BY StoredParts
<1> HIDE DEF new
<1>5. Joined(old, before, r.dir, key, r.policy_key)
  BY DEF before
<1>6. Joined(new, after, r.dir, key, r.policy_key)
  BY <1>2, <1>3, <1>4, <1>5 DEF Joined
<1> QED
  BY <1>6 DEF new, after

\* The first call under a key makes the rule.
LEMMA JoinFirst ==
  ASSUME NEW rules, NEW r, NEW port, NEW key, key = create_rule_key(r),
         Same(rules, r.dir, key, r.policy_key) = {}
  PROVE  Joined(Stored(r, {port}), Same(rules \cup {Asked(r, port)}, r.dir, key, r.policy_key),
                r.dir, key, r.policy_key)
<1> DEFINE after == Same(rules \cup {Asked(r, port)}, r.dir, key, r.policy_key)
           new == Stored(r, {port})
<1>1. Asked(r, port).rule = r /\ Asked(r, port).port = port
  BY DEF Asked
<1>2. after = {Asked(r, port)}
  BY <1>1 DEF Same
<1> HIDE DEF after
<1>3. {a.port : a \in after} = {port}
  BY <1>1, <1>2
<1>4. /\ new.policy_key = r.policy_key
      /\ new.dir = r.dir
      /\ new.action = r.action
      /\ new.ports = {port}
      /\ create_rule_key(new) = create_rule_key(r)
  BY StoredParts
<1> HIDE DEF new
<1>5. Joined(new, after, r.dir, key, r.policy_key)
  BY <1>1, <1>2, <1>3, <1>4 DEF Joined
<1> QED
  BY <1>5 DEF new, after

\* A call does not concern the rules under other keys and names.
LEMMA SameElsewhere ==
  ASSUME NEW rules, NEW r, NEW port, NEW dir, NEW key, NEW name,
         dir # r.dir \/ key # create_rule_key(r) \/ name # r.policy_key
  PROVE  Same(rules \cup {Asked(r, port)}, dir, key, name) = Same(rules, dir, key, name)
<1>1. Asked(r, port).rule = r
  BY DEF Asked
<1> QED
  BY <1>1 DEF Same

\* add_rule_to_chain files the call in its direction.
LEMMA AddFiles ==
  ASSUME NEW chain, NEW rules, NEW r, NEW port, Filed(chain, rules, r.dir)
  PROVE  Filed(add_rule_to_chain(chain, create_rule_key(r), r, port),
               rules \cup {Asked(r, port)}, r.dir)
<1> DEFINE key == create_rule_key(r)
           name == r.policy_key
           group == IF key \in DOMAIN chain THEN chain[key] ELSE Empty
           group2 == add_rule_detail(group, r, port)
           chain2 == add_rule_to_chain(chain, key, r, port)
           rules2 == rules \cup {Asked(r, port)}
<1>1. /\ DOMAIN chain2 = DOMAIN chain \cup {key}
      /\ chain2[key] = group2
      /\ \A k \in DOMAIN chain : k # key => chain2[k] = chain[k]
  BY DEF add_rule_to_chain, Extend
<1>2. /\ DOMAIN group2 = DOMAIN group \cup {name}
      /\ group2[name] = IF name \in DOMAIN group
                          THEN Stored(group[name], group[name].ports \cup {port})
                          ELSE Stored(r, {port})
      /\ \A n \in DOMAIN group : n # name => group2[n] = group[n]
  BY DEF add_rule_detail, Extend
<1>3. DOMAIN Empty = {}
  BY DEF Empty
<1>4. Asked(r, port).rule = r
  BY DEF Asked
<1> HIDE DEF key, group2, chain2
<1>5. Joined(group2[name], Same(rules2, r.dir, key, name), r.dir, key, name)
  <2>1. CASE name \in DOMAIN group
    <3>1. key \in DOMAIN chain /\ group = chain[key]
      BY <1>3, <2>1
    <3>2. Joined(group[name], Same(rules, r.dir, key, name), r.dir, key, name)
      BY <2>1, <3>1 DEF Filed
    <3>3. group2[name] = Stored(group[name], group[name].ports \cup {port})
      BY <1>2, <2>1
    <3>4. key = create_rule_key(r)
      BY DEF key
    <3> DEFINE old == group[name]
    <3> HIDE DEF group, old
    <3>5. Joined(Stored(old, old.ports \cup {port}), Same(rules2, r.dir, key, name), r.dir, key, name)
      <4>1. Joined(old, Same(rules, r.dir, key, name), r.dir, key, name)
        BY <3>2 DEF old
      <4> QED
        BY <3>4, <4>1, JoinCall, Zenon
    <3> QED
      BY <3>3, <3>5 DEF old
  <2>2. CASE name \notin DOMAIN group
    <3>1. Same(rules, r.dir, key, name) = {}
      BY <1>3, <2>2 DEF Filed, Same
    <3>2. group2[name] = Stored(r, {port})
      BY <1>2, <2>2
    <3>3. key = create_rule_key(r)
      BY DEF key
    <3> HIDE DEF group
    <3>4. Joined(Stored(r, {port}), Same(rules2, r.dir, key, name), r.dir, key, name)
      BY ONLY <3>1, <3>3, JoinFirst, Zenon
    <3> QED
      BY <3>2, <3>4, Zenon
  <2> QED
    BY <2>1, <2>2
<1>6. ASSUME NEW k \in DOMAIN chain2, NEW n \in DOMAIN chain2[k], k # key \/ n # name
      PROVE  Joined(chain2[k][n], Same(rules2, r.dir, k, n), r.dir, k, n)
  <2>1. k \in DOMAIN chain /\ n \in DOMAIN chain[k] /\ chain2[k][n] = chain[k][n]
    <3>1. CASE k # key
      BY <1>1, <1>6, <3>1
    <3>2. CASE k = key
      <4>1. n \in DOMAIN group /\ n # name
        BY <1>1, <1>2, <1>6, <3>2
      <4>2. k \in DOMAIN chain /\ group = chain[k]
        BY <1>3, <3>2, <4>1
      <4> QED
        BY <1>1, <1>2, <3>2, <4>1, <4>2
    <3> QED
      BY <3>1, <3>2
  <2>2. Same(rules2, r.dir, k, n) = Same(rules, r.dir, k, n)
    BY <1>6, SameElsewhere DEF key
  <2> QED
    BY <2>1, <2>2 DEF Filed
<1>7. ASSUME NEW a \in rules2, a.rule.dir = r.dir
      PROVE  /\ create_rule_key(a.rule) \in DOMAIN chain2
             /\ a.rule.policy_key \in DOMAIN chain2[create_rule_key(a.rule)]
  <2>1. CASE a = Asked(r, port)
    BY <1>1, <1>2, <1>4, <2>1 DEF key
  <2>2. CASE a \in rules
    <3>1. /\ create_rule_key(a.rule) \in DOMAIN chain
          /\ a.rule.policy_key \in DOMAIN chain[create_rule_key(a.rule)]
      BY <1>7, <2>2 DEF Filed
    <3> QED
      BY <1>1, <1>2, <3>1
  <2> QED
    BY <1>7, <2>1, <2>2
<1> HIDE DEF name, group, rules2
<1>8. ASSUME NEW k \in DOMAIN chain2, NEW n \in DOMAIN chain2[k]
      PROVE  Joined(chain2[k][n], Same(rules2, r.dir, k, n), r.dir, k, n)
  BY <1>1, <1>5, <1>6
<1>9. Filed(chain2, rules2, r.dir)
  BY <1>7, <1>8 DEF Filed
<1> QED
  BY <1>9 DEF chain2, rules2, key

\* The other direction is not concerned.
LEMMA AddElsewhere ==
  ASSUME NEW chain, NEW rules, NEW r, NEW port, NEW dir, dir # r.dir, Filed(chain, rules, dir)
  PROVE  Filed(chain, rules \cup {Asked(r, port)}, dir)
<1>1. Asked(r, port).rule = r
  BY DEF Asked
<1>2. \A k, n : Same(rules \cup {Asked(r, port)}, dir, k, n) = Same(rules, dir, k, n)
  BY SameElsewhere
<1> QED
  BY <1>1, <1>2, Zenon DEF Filed

\* What is left of the calls when a policy is deleted from a direction.
Remaining(rules, dir, name) == {a \in rules : a.rule.dir # dir \/ a.rule.policy_key # name}

\* The other policies and the other direction keep their calls.
LEMMA SameRemains ==
  ASSUME NEW rules, NEW dir, NEW name, NEW d, NEW k, NEW n, d # dir \/ n # name
  PROVE  Same(Remaining(rules, dir, name), d, k, n) = Same(rules, d, k, n)
BY DEF Same, Remaining

\* delete_rule_from_chain leaves the rules of the other policies as they were.
LEMMA DeleteFiles ==
  ASSUME NEW chain, NEW tree, NEW rules, NEW dir, NEW name \in DOMAIN tree,
         Agree(chain, tree), Filed(chain, rules, dir)
  PROVE  Filed(delete_rule_from_chain(chain, name, tree[name]), Remaining(rules, dir, name), dir)
<1> DEFINE chain2 == delete_rule_from_chain(chain, name, tree[name])
           rules2 == Remaining(rules, dir, name)
<1>1. /\ DOMAIN chain2 = {k \in DOMAIN chain : k \notin tree[name] \/ DOMAIN chain[k] # {name}}
      /\ \A k \in DOMAIN chain2 : DOMAIN chain2[k] = DOMAIN chain[k] \ {name}
      /\ \A k \in DOMAIN chain2 : \A n \in DOMAIN chain2[k] : chain2[k][n] = chain[k][n]
  BY DEF delete_rule_from_chain, Without, Agree
<1>2. \A k, n : n # name => Same(rules2, dir, k, n) = Same(rules, dir, k, n)
  BY SameRemains
<1> HIDE DEF chain2
<1>3. ASSUME NEW k \in DOMAIN chain2, NEW n \in DOMAIN chain2[k]
      PROVE  Joined(chain2[k][n], Same(rules2, dir, k, n), dir, k, n)
  <2>1. /\ k \in DOMAIN chain
        /\ n \in DOMAIN chain[k]
        /\ n # name
        /\ chain2[k][n] = chain[k][n]
    BY <1>1, <1>3
  <2>2. Joined(chain[k][n], Same(rules, dir, k, n), dir, k, n)
    BY <2>1 DEF Filed
  <2> QED
    BY <1>2, <2>1, <2>2
<1>4. ASSUME NEW a \in rules2, a.rule.dir = dir
      PROVE  /\ create_rule_key(a.rule) \in DOMAIN chain2
             /\ a.rule.policy_key \in DOMAIN chain2[create_rule_key(a.rule)]
  <2>1. a \in rules /\ a.rule.policy_key # name
    BY <1>4 DEF Remaining
  <2>2. /\ create_rule_key(a.rule) \in DOMAIN chain
        /\ a.rule.policy_key \in DOMAIN chain[create_rule_key(a.rule)]
    BY <1>4, <2>1 DEF Filed
  <2> QED
    BY <1>1, <2>1, <2>2
<1> HIDE DEF rules2
<1>5. Filed(chain2, rules2, dir)
  BY <1>3, <1>4 DEF Filed
<1> QED
  BY <1>5 DEF chain2, rules2

\* With the last policy of a direction goes the last call.
LEMMA LastFiles ==
  ASSUME NEW chain, NEW tree, NEW rules, NEW dir, NEW name, DOMAIN Without(tree, name) = {},
         Agree(chain, tree), Filed(chain, rules, dir)
  PROVE  Filed(Empty, Remaining(rules, dir, name), dir)
<1>1. DOMAIN tree \subseteq {name}
  BY DEF Without
<1>2. \A a \in Remaining(rules, dir, name) : a.rule.dir # dir
  BY <1>1 DEF Remaining, Filed, Agree
<1>3. DOMAIN Empty = {}
  BY DEF Empty
<1> QED
  BY <1>2, <1>3 DEF Filed

\* A policy the tree does not know has no calls in the direction.
LEMMA UnknownFiles ==
  ASSUME NEW chain, NEW tree, NEW rules, NEW dir, NEW name, name \notin DOMAIN tree,
         Agree(chain, tree), Filed(chain, rules, dir)
  PROVE  Remaining(rules, dir, name) = rules
BY DEF Remaining, Filed, Agree

\* The other direction is not concerned.
LEMMA DeleteElsewhere ==
  ASSUME NEW chain, NEW rules, NEW dir, NEW name, NEW d, d # dir, Filed(chain, rules, d)
  PROVE  Filed(chain, Remaining(rules, dir, name), d)
<1>1. \A k, n : Same(Remaining(rules, dir, name), d, k, n) = Same(rules, d, k, n)
  BY SameRemains
<1>2. Remaining(rules, dir, name) \subseteq rules
  BY DEF Remaining
<1> QED
  BY <1>1, <1>2 DEF Filed

-----------------------------------------------------------------------------
\* add_policy keeps the account of what was asked.
LEMMA AddAccount ==
  ASSUME FiledInv, NEW r \in EngineRules, NEW port, Add(r, port)
  PROVE  FiledInv'
<1> DEFINE key == create_rule_key(r)
           chain2 == add_rule_to_chain(engine.chain[r.dir], key, r, port)
<1> HIDE DEF key, chain2
<1>1. EngineInv'
  BY AddKeeps DEF FiledInv
<1>2. r.dir \in Directions /\ r.priority \in Nat
  BY EngineAssumption DEF Directions
<1>3. /\ engine'.chain = [engine.chain EXCEPT ![r.dir] = chain2]
      /\ engine'.priority = engine.priority \cup {r.priority}
      /\ engine'.mask_cidr = IF key.cidr.mask > 0 /\ key.cidr.mask <= AddrBits
                               THEN engine.mask_cidr \cup {key.cidr.mask} ELSE engine.mask_cidr
  BY <1>2 DEF FiledInv, EngineInv, EngineShape, Add, add_policy, add_mask_and_priority, key, chain2
<1>4. \A dir \in Directions :
        engine'.chain[dir] = IF dir = r.dir THEN chain2 ELSE engine.chain[dir]
  BY <1>2, <1>3 DEF FiledInv, EngineInv, EngineShape
<1>5. asked' = asked \cup {Asked(r, port)} /\ Asked(r, port).rule = r
  BY DEF Add, Asked
<1>6. \A a \in asked' : a.rule \in EngineRules
  BY <1>5 DEF FiledInv
<1>7. ASSUME NEW dir \in Directions
      PROVE  Filed(engine'.chain[dir], asked', dir)
  <2>1. CASE dir = r.dir
    <3>1. Filed(engine.chain[r.dir], asked, r.dir)
      BY <2>1 DEF FiledInv
    <3>2. Filed(chain2, asked \cup {Asked(r, port)}, r.dir)
      BY <3>1, AddFiles DEF chain2, key
    <3> QED
      BY <1>4, <1>5, <2>1, <3>2
  <2>2. CASE dir # r.dir
    BY <1>4, <1>5, <2>2, AddElsewhere DEF FiledInv
  <2> QED
    BY <2>1, <2>2
<1>8. key.cidr.mask \in Int
  BY MaskType DEF key
<1>9. Reached(engine', asked')
  <2> DEFINE mask(a) == create_rule_key(a.rule).cidr.mask
  <2>1. /\ engine'.priority \subseteq Nat
        /\ engine'.mask_cidr \subseteq 1 .. AddrBits
        /\ AddrBits \in engine'.mask_cidr
    BY <1>2, <1>3, <1>8, EngineAssumption DEF FiledInv, Reached
  <2>2. ASSUME NEW a \in asked'
        PROVE  /\ a.rule.priority \in engine'.priority
               /\ mask(a) \in 1 .. AddrBits => mask(a) \in engine'.mask_cidr
    <3>1. CASE a \in asked
      BY <1>3, <3>1 DEF FiledInv, Reached
    <3>2. CASE a = Asked(r, port)
      <4>1. a.rule = r /\ mask(a) = key.cidr.mask
        BY <1>5, <3>2 DEF key
      <4> HIDE DEF mask
      <4> QED
        BY <1>3, <1>8, <4>1, EngineAssumption
    <3> QED
      BY <1>5, <2>2, <3>1, <3>2
  <2> QED
    BY <2>1, <2>2 DEF Reached
<1> QED
  BY <1>1, <1>6, <1>7, <1>9 DEF FiledInv

\* delete_policy too: masks and priorities that no rule needs stay.
LEMMA DeleteAccount ==
  ASSUME FiledInv, NEW dir \in Directions, NEW name, Delete(dir, name)
  PROVE  FiledInv'
<1> DEFINE tree == engine.tree[dir]
           rest == delete_rule_from_chain(engine.chain[dir], name, tree[name])
           chain2 == IF DOMAIN Without(tree, name) = {} THEN Empty ELSE rest
<1>1. EngineInv'
  BY DeleteKeeps DEF FiledInv
<1>2. asked' = Remaining(asked, dir, name)
  BY DEF Delete, Remaining
<1>3. asked' \subseteq asked
  BY <1>2 DEF Remaining
<1>4. Agree(engine.chain[dir], tree)
  BY AgreeIsMatch DEF FiledInv, EngineInv
<1>5. engine'.priority = engine.priority /\ engine'.mask_cidr = engine.mask_cidr
  BY DEF FiledInv, EngineInv, EngineShape, Delete, delete_policy
<1>6. ASSUME NEW d \in Directions
      PROVE  Filed(engine'.chain[d], asked', d)
  <2>1. CASE name \notin DOMAIN tree
    <3>1. engine' = engine
      BY <2>1 DEF Delete, delete_policy
    <3>2. asked' = asked
      BY <1>2, <1>4, <2>1, UnknownFiles DEF FiledInv
    <3> QED
      BY <3>1, <3>2 DEF FiledInv
  <2>2. CASE name \in DOMAIN tree
    <3>1. engine'.chain = [engine.chain EXCEPT ![dir] = chain2]
      BY <2>2 DEF FiledInv, EngineInv, EngineShape, Delete, delete_policy
    <3>2. engine'.chain[d] = IF d = dir THEN chain2 ELSE engine.chain[d]
      BY <3>1 DEF FiledInv, EngineInv, EngineShape
    <3> HIDE DEF tree
    <3>3. Filed(rest, Remaining(asked, dir, name), dir)
      BY <1>4, <2>2, DeleteFiles DEF FiledInv
    <3> HIDE DEF rest
    <3>4. Filed(chain2, Remaining(asked, dir, name), dir)
      BY <1>4, <3>3, LastFiles DEF FiledInv
    <3> HIDE DEF chain2
    <3>5. d # dir => Filed(engine.chain[d], Remaining(asked, dir, name), d)
      BY DeleteElsewhere DEF FiledInv
    <3> QED
      BY <1>2, <3>2, <3>4, <3>5
  <2> QED
    BY <2>1, <2>2
<1>7. Reached(engine', asked')
  BY <1>3, <1>5 DEF FiledInv, Reached
<1> QED
  BY <1>1, <1>3, <1>6, <1>7 DEF FiledInv

\* An engine without rules was asked for nothing.
LEMMA NewFiles ==
  /\ \A dir \in Directions : Filed(new_policy_engine.chain[dir], {}, dir)
  /\ Reached(new_policy_engine, {})
<1>1. /\ \A dir \in Directions : new_policy_engine.chain[dir] = Empty
      /\ new_policy_engine.priority = {}
      /\ new_policy_engine.mask_cidr = {AddrBits}
  BY DEF new_policy_engine
<1>2. DOMAIN Empty = {}
  BY DEF Empty
<1> QED
  BY <1>1, <1>2, EngineAssumption DEF Filed, Reached

\* Every state satisfies the account of what was asked.
LEMMA FiledAlways == EngineSpec => []FiledInv
<1>1. EngineInit => FiledInv
  BY NewEngine, NewFiles DEF EngineInit, FiledInv
<1>2. FiledInv /\ [EngineNext]_<<engine, asked>> => FiledInv'
  <2> SUFFICES ASSUME FiledInv, [EngineNext]_<<engine, asked>>
               PROVE  FiledInv'
    OBVIOUS
  <2>1. ASSUME NEW r \in EngineRules, NEW port \in EnginePorts, Add(r, port)
        PROVE  FiledInv'
    BY <2>1, AddAccount
  <2>2. ASSUME NEW dir \in Directions, NEW name \in RuleNames, Delete(dir, name)
        PROVE  FiledInv'
    BY <2>2, DeleteAccount
  <2>3. CASE Clear
    <3>1. EngineInv'
      BY <2>3 DEF Clear, clear_cfg, new_policy_engine, EngineInv, EngineShape, TreeMatchesChain, Empty
    <3> QED
      BY <2>3, <3>1, NewFiles DEF Clear, clear_cfg, FiledInv
  <2>4. CASE UNCHANGED <<engine, asked>>
    BY <2>4 DEF FiledInv, EngineInv, EngineShape, TreeMatchesChain
  <2> QED
    BY <2>1, <2>2, <2>3, <2>4 DEF EngineNext
<1> QED
  BY <1>1, <1>2, PTL DEF EngineSpec

-----------------------------------------------------------------------------
(***************************************************************************)
(* The keys a packet is looked up under are those of the rules that mean   *)
(* it.                                                                     *)
(***************************************************************************)
LEMMA SamePrefix ==
  ASSUME NEW x \in Nat, NEW y \in Nat, NEW size \in Nat \ {0}
  PROVE  x - (x % size) = y - (y % size) <=> x \div size = y \div size
<1>1. x - (x % size) = size * (x \div size)
  OBVIOUS
<1>2. y - (y % size) = size * (y \div size)
  OBVIOUS
<1>3. x \div size \in Nat /\ y \div size \in Nat
  OBVIOUS
<1>4. ASSUME NEW a \in Nat, NEW b \in Nat, size * a = size * b
      PROVE  a = b
  BY <1>4
<1> QED
  BY <1>1, <1>2, <1>3, <1>4

\* A text that does not parse counts as 0.
LEMMA ParseType == \A ip : Parse(ip) \in Nat
<1>1. 2^AddrBits \in Nat
  BY PowerAssumption, EngineAssumption
<1> QED
  BY <1>1 DEF Parse, Addr

\* A full mask keeps every bit.
LEMMA FullMask == \A ip : ipv4_cidr_to_ip(ip, AddrBits) = Parse(ip)
<1> TAKE ip
<1>1. (AddrBits - AddrBits) % AddrBits = 0
  BY EngineAssumption
<1>2. 2^0 = 1
  OBVIOUS
<1>3. Parse(ip) \in Nat
  BY ParseType
<1>4. Parse(ip) % 1 = 0
  BY <1>3
<1>5. 2^((AddrBits - AddrBits) % AddrBits) = 1
  BY <1>1, <1>2, Zenon
<1>6. ipv4_cidr_to_ip(ip, AddrBits) = Parse(ip) - (Parse(ip) % 1)
  BY <1>5 DEF ipv4_cidr_to_ip
<1> QED
  BY <1>3, <1>4, <1>6

\* The wildcard and the blocks of an address are the texts that mean it.
LEMMA BlocksMean ==
  ASSUME NEW e, NEW text, NEW addr \in Addr,
         text.mask \in Int \cup {Bare},
         e.mask_cidr \subseteq 1 .. AddrBits,
         parse_cidr(text).mask \in 1 .. AddrBits => parse_cidr(text).mask \in e.mask_cidr
  PROVE  parse_cidr(text) \in {Wildcard} \cup Blocks(e, addr)
           <=> AnyAddress(text) \/ InBlock(addr, text)
<1> DEFINE mask == IF text.mask = Bare THEN AddrBits ELSE text.mask
<1>1. mask \in Int
  BY EngineAssumption
<1>2. parse_cidr(text) = [ip |-> ipv4_cidr_to_ip(text.ip, mask), mask |-> mask]
  BY DEF parse_cidr
<1>3. AnyAddress(text) <=> Parse(text.ip) = 0 /\ mask = AddrBits
  BY EngineAssumption DEF AnyAddress
<1>4. InBlock(addr, text) <=> /\ mask \in 1 .. AddrBits
                              /\ addr \div 2^(AddrBits - mask) = Parse(text.ip) \div 2^(AddrBits - mask)
  BY DEF InBlock
<1> HIDE DEF mask
<1>5. parse_cidr(text) = Wildcard <=> AnyAddress(text)
  <2>1. parse_cidr(text) = Wildcard <=> ipv4_cidr_to_ip(text.ip, mask) = 0 /\ mask = AddrBits
    BY <1>2 DEF Wildcard
  <2> QED
    BY <1>3, <2>1, FullMask
<1>6. parse_cidr(text) \in Blocks(e, addr)
        <=> mask \in 1 .. AddrBits /\ ipv4_cidr_to_ip(text.ip, mask) = ipv4_cidr_to_ip(addr, mask)
  <2>1. mask \in 1 .. AddrBits <=> mask \in e.mask_cidr
    BY <1>2
  <2>2. ASSUME NEW m
        PROVE  parse_cidr(text) = [ip |-> ipv4_cidr_to_ip(addr, m), mask |-> m]
                 <=> mask = m /\ ipv4_cidr_to_ip(text.ip, mask) = ipv4_cidr_to_ip(addr, m)
    BY <1>2
  <2> QED
    BY <2>1, <2>2, Zenon DEF Blocks
<1>7. ASSUME mask \in 1 .. AddrBits
      PROVE  ipv4_cidr_to_ip(text.ip, mask) = ipv4_cidr_to_ip(addr, mask)
               <=> addr \div 2^(AddrBits - mask) = Parse(text.ip) \div 2^(AddrBits - mask)
  <2> DEFINE size == 2^(AddrBits - mask)
  <2>1. (AddrBits - mask) % AddrBits = AddrBits - mask
    BY <1>7, EngineAssumption
  <2>2. size \in Nat \ {0}
    BY <1>7, PowerAssumption, EngineAssumption
  <2>3. Parse(addr) = addr /\ addr \in Nat /\ Parse(text.ip) \in Nat
    BY ParseType DEF Parse
  <2>4. /\ ipv4_cidr_to_ip(text.ip, mask) = Parse(text.ip) - (Parse(text.ip) % size)
        /\ ipv4_cidr_to_ip(addr, mask) = addr - (addr % size)
    BY <2>1, <2>3 DEF ipv4_cidr_to_ip
  <2> HIDE DEF size
  <2>5. ipv4_cidr_to_ip(text.ip, mask) = ipv4_cidr_to_ip(addr, mask)
          <=> Parse(text.ip) \div size = addr \div size
    <3> DEFINE x == Parse(text.ip)
    <3> HIDE DEF x
    <3>1. x \in Nat
      BY <2>3 DEF x
    <3>2. x - (x % size) = addr - (addr % size) <=> x \div size = addr \div size
      BY ONLY <2>2, <2>3, <3>1, SamePrefix, Zenon
    <3> QED
      BY <2>4, <3>2, Zenon DEF x
  <2> QED
    BY <2>5 DEF size
<1> QED
  BY <1>4, <1>5, <1>6, <1>7

\* The rule means the packet, ports aside.
Means(r, p) ==
  LET text == CidrSide(r.dir, r.src, r.dst)
  IN  /\ r.proto \in {0, p.proto}
      /\ ExactSide(r.dir, r.src, r.dst) = BareText(ExactSide(r.dir, p.src, p.dst))
      /\ AnyAddress(text) \/ InBlock(CidrSide(r.dir, p.src, p.dst), text)

\* The keys a packet is looked up under.
LEMMA TupleKeys ==
  ASSUME NEW e, NEW p, NEW dir, NEW priority, NEW proto, NEW cidr, NEW exact
  PROVE  Key(priority, proto, cidr, exact) \in create_rule_key_by_tuple(e, p, dir)
           <=> /\ priority \in e.priority /\ proto \in {p.proto, 0}
               /\ cidr \in {Wildcard} \cup Blocks(e, CidrSide(dir, p.src, p.dst))
               /\ exact = BareText(ExactSide(dir, p.src, p.dst))
<1> DEFINE cidrs == {Wildcard} \cup Blocks(e, CidrSide(dir, p.src, p.dst))
           bare == BareText(ExactSide(dir, p.src, p.dst))
<1>1. create_rule_key_by_tuple(e, p, dir)
        = {Key(n, t, c, bare) : n \in e.priority, t \in {p.proto, 0}, c \in cidrs}
  BY DEF create_rule_key_by_tuple
<1> HIDE DEF cidrs, bare
<1>2. ASSUME NEW n, NEW t, NEW c
      PROVE  Key(priority, proto, cidr, exact) = Key(n, t, c, bare)
               <=> priority = n /\ proto = t /\ cidr = c /\ exact = bare
  BY DEF Key
<1>3. Key(priority, proto, cidr, exact) \in create_rule_key_by_tuple(e, p, dir)
        <=> \E n \in e.priority, t \in {p.proto, 0}, c \in cidrs :
              Key(priority, proto, cidr, exact) = Key(n, t, c, bare)
  BY <1>1
<1>4. Key(priority, proto, cidr, exact) \in create_rule_key_by_tuple(e, p, dir)
        <=> priority \in e.priority /\ proto \in {p.proto, 0} /\ cidr \in cidrs /\ exact = bare
  BY <1>2, <1>3
<1> QED
  BY <1>4 DEF cidrs, bare

\* A packet is looked up under a rule's key iff the rule means the packet.
LEMMA KeyMeans ==
  ASSUME NEW e, NEW rules, Reached(e, rules), NEW a \in rules, a.rule \in EngineRules,
         NEW p \in Packets
  PROVE  create_rule_key(a.rule) \in create_rule_key_by_tuple(e, p, a.rule.dir)
           <=> Means(a.rule, p)
<1> DEFINE r == a.rule
           dir == r.dir
           text == CidrSide(dir, r.src, r.dst)
           addr == CidrSide(dir, p.src, p.dst)
           exact == BareText(ExactSide(dir, p.src, p.dst))
           key == create_rule_key(r)
           cidrs == {Wildcard} \cup Blocks(e, addr)
<1>1. addr \in Addr /\ text.mask \in Int \cup {Bare}
  BY EngineAssumption DEF CidrSide
<1>2. key = Key(r.priority, r.proto, parse_cidr(text), ExactSide(dir, r.src, r.dst))
  BY DEF create_rule_key
<1>3. /\ e.mask_cidr \subseteq 1 .. AddrBits
      /\ r.priority \in e.priority
      /\ key.cidr.mask \in 1 .. AddrBits => key.cidr.mask \in e.mask_cidr
  BY DEF Reached
<1>4. key.cidr = parse_cidr(text)
  BY KeyParts
<1> HIDE DEF key, addr, text
<1>5. parse_cidr(text) \in cidrs <=> AnyAddress(text) \/ InBlock(addr, text)
  BY <1>1, <1>3, <1>4, BlocksMean
<1>6. key \in create_rule_key_by_tuple(e, p, dir)
        <=> /\ r.proto \in {p.proto, 0}
            /\ parse_cidr(text) \in cidrs
            /\ ExactSide(dir, r.src, r.dst) = exact
  <2> HIDE DEF cidrs, exact, r, dir
  <2>1. Key(r.priority, r.proto, parse_cidr(text), ExactSide(dir, r.src, r.dst))
            \in create_rule_key_by_tuple(e, p, dir)
          <=> /\ r.priority \in e.priority /\ r.proto \in {p.proto, 0}
              /\ parse_cidr(text) \in {Wildcard} \cup Blocks(e, CidrSide(dir, p.src, p.dst))
              /\ ExactSide(dir, r.src, r.dst) = BareText(ExactSide(dir, p.src, p.dst))
    BY TupleKeys
  <2>2. /\ cidrs = {Wildcard} \cup Blocks(e, CidrSide(dir, p.src, p.dst))
        /\ exact = BareText(ExactSide(dir, p.src, p.dst))
    BY DEF cidrs, exact, addr
  <2> QED
    BY ONLY <1>2, <1>3, <2>1, <2>2
<1> HIDE DEF cidrs, exact
<1>7. Means(r, p) <=> /\ r.proto \in {0, p.proto}
                      /\ ExactSide(dir, r.src, r.dst) = exact
                      /\ AnyAddress(text) \/ InBlock(addr, text)
  BY DEF Means, exact, text, addr
<1> HIDE DEF r, dir
<1>8. r.proto \in {p.proto, 0} <=> r.proto \in {0, p.proto}
  OBVIOUS
<1>9. key \in create_rule_key_by_tuple(e, p, dir) <=> Means(r, p)
  BY ONLY <1>5, <1>6, <1>7, <1>8
<1> QED
  BY <1>9 DEF key, r, dir

-----------------------------------------------------------------------------
\* Natural numbers are well ordered.
LessThan == {pair \in Nat \X Nat : pair[1] < pair[2]}

LEMMA LessThanIsWellFounded == IsWellFoundedOn(LessThan, Nat)
<1>1. OpToRel(<, Nat) = LessThan
  BY Zenon DEF OpToRel, LessThan
<1> QED
  BY <1>1, NatLessThanWellFounded, Zenon

LEMMA Least ==
  ASSUME NEW T, T \subseteq Nat, T # {}
  PROVE  \E x \in T : \A y \in T : x <= y
<1>1. \E x \in T : \A y \in T : ~(<<y, x>> \in LessThan)
  BY LessThanIsWellFounded, WFMin, Zenon
<1>2. ASSUME NEW x \in Nat, NEW y \in Nat, ~(<<y, x>> \in LessThan)
      PROVE  x <= y
  BY <1>2 DEF LessThan
<1> QED
  BY <1>1, <1>2, Zenon

\* Some key is tried first.
LEMMA FirstKey ==
  ASSUME NEW keys, keys # {}, \A k \in keys : k.priority \in Nat /\ Width(k) \in Nat
  PROVE  \E k \in keys : \A j \in keys : ~TriedBefore(j, k)
<1>1. PICK n \in {k.priority : k \in keys} : \A m \in {k.priority : k \in keys} : n <= m
  <2> DEFINE T == {k.priority : k \in keys}
  <2>1. T \subseteq Nat /\ T # {}
    OBVIOUS
  <2> HIDE DEF T
  <2>2. \E x \in T : \A y \in T : x <= y
    BY <2>1, Least, Zenon
  <2> QED
    BY <2>2 DEF T
<1> DEFINE strong == {k \in keys : k.priority = n}
<1>2. PICK w \in {Width(k) : k \in strong} : \A v \in {Width(k) : k \in strong} : w <= v
  <2> DEFINE T == {Width(k) : k \in strong}
  <2>1. T \subseteq Nat /\ T # {}
    BY <1>1
  <2> HIDE DEF T
  <2>2. \E x \in T : \A y \in T : x <= y
    BY <2>1, Least, Zenon
  <2> QED
    BY <2>2 DEF T
<1> DEFINE wide == {k \in strong : Width(k) = w}
<1>3. wide # {}
  BY <1>2
<1>4. PICK k \in wide : k.proto = 0 => \A j \in wide : j.proto = 0
  BY <1>3
<1>5. ASSUME NEW j \in keys, TriedBefore(j, k)
      PROVE  FALSE
  <2>1. k.priority = n /\ Width(k) = w /\ n <= j.priority /\ n \in Nat /\ j.priority \in Nat
    BY <1>1, <1>4
  <2>2. CASE j.priority < k.priority
    BY <2>1, <2>2
  <2>3. CASE j.priority = k.priority
    <3>1. w <= Width(j) /\ w \in Nat /\ Width(j) \in Nat
      BY <1>2, <2>1, <2>3
    <3>2. Width(j) = Width(k) /\ j.proto # 0 /\ k.proto = 0
      BY <1>5, <2>1, <2>3, <3>1 DEF TriedBefore
    <3> QED
      BY <1>4, <2>1, <2>3, <3>2
  <2> QED
    BY <1>5, <2>2, <2>3 DEF TriedBefore
<1> QED
  BY <1>4, <1>5

\* The keys of a lookup are ordered by natural numbers.
LEMMA KeyOrder ==
  ASSUME NEW e, NEW rules, Reached(e, rules), NEW p, NEW dir,
         NEW k \in create_rule_key_by_tuple(e, p, dir)
  PROVE  k.priority \in Nat /\ Width(k) \in Nat
<1> DEFINE cidrs == {Wildcard} \cup Blocks(e, CidrSide(dir, p.src, p.dst))
           bare == BareText(ExactSide(dir, p.src, p.dst))
<1>1. PICK priority \in e.priority, proto \in {p.proto, 0}, cidr \in cidrs :
        k = Key(priority, proto, cidr, bare)
  <2>1. create_rule_key_by_tuple(e, p, dir)
          = {Key(n, t, c, bare) : n \in e.priority, t \in {p.proto, 0}, c \in cidrs}
    BY DEF create_rule_key_by_tuple
  <2> HIDE DEF cidrs, bare
  <2> QED
    BY <2>1
<1>2. k.priority = priority /\ k.cidr = cidr
  BY <1>1 DEF Key
<1>3. cidr = Wildcard \/ cidr.mask \in e.mask_cidr
  BY <1>1 DEF Blocks
<1>4. e.mask_cidr \subseteq 1 .. AddrBits /\ e.priority \subseteq Nat
  BY DEF Reached
<1> QED
  BY <1>1, <1>2, <1>3, <1>4, EngineAssumption DEF Width

-----------------------------------------------------------------------------
(***************************************************************************)
(* The lookup, by the keys that have an answer.                            *)
(***************************************************************************)
Hits(e, p, dir, key) ==
  IF key \in DOMAIN e.chain[dir] THEN match_rule(e.chain[dir][key], p) ELSE {}

HitKeys(e, p, dir) ==
  {key \in create_rule_key_by_tuple(e, p, dir) : Hits(e, p, dir, key) # {}}

\* The call's port, if the packet has one, fits.
PortFits(port, p) ==
  \/ p.proto = Icmp \/ port.end_port = 0
  \/ port.port <= p.dst_port /\ p.dst_port <= port.end_port

\* An answer is a hit under a key that no other key with hits precedes.
LEMMA Answers ==
  ASSUME NEW e, NEW p, NEW dir, NEW r
  PROVE  r \in match_five_tuple(e, p, dir) <=>
           \E key \in HitKeys(e, p, dir) :
             /\ \A other \in HitKeys(e, p, dir) : ~TriedBefore(other, key)
             /\ r \in Hits(e, p, dir, key)
BY Zenon DEF match_five_tuple, HitKeys, Hits

\* A covering call is one whose key the packet is looked up under and whose
\* port fits.
LEMMA CoversByKey ==
  ASSUME FiledInv, NEW a \in asked, NEW p \in Packets, NEW dir \in Directions
  PROVE  Covers(a, p, dir) <=> /\ a.rule.dir = dir
                               /\ create_rule_key(a.rule) \in create_rule_key_by_tuple(engine, p, dir)
                               /\ PortFits(a.port, p)
<1>1. Reached(engine, asked) /\ a.rule \in EngineRules
  BY DEF FiledInv
<1>2. a.rule.dir = dir => (create_rule_key(a.rule) \in create_rule_key_by_tuple(engine, p, dir)
                             <=> Means(a.rule, p))
  BY <1>1, KeyMeans
<1>3. Covers(a, p, dir) <=> a.rule.dir = dir /\ Means(a.rule, p) /\ PortFits(a.port, p)
  BY DEF Covers, Means, PortFits
<1> QED
  BY <1>2, <1>3

\* A covering call hits under its key.
LEMMA CoveringHits ==
  ASSUME FiledInv, NEW a \in asked, NEW p \in Packets, NEW dir \in Directions, Covers(a, p, dir)
  PROVE  create_rule_key(a.rule) \in HitKeys(engine, p, dir)
<1> DEFINE key == create_rule_key(a.rule)
           name == a.rule.policy_key
           chain == engine.chain[dir]
           r == chain[key][name]
<1>1. /\ a.rule.dir = dir
      /\ key \in create_rule_key_by_tuple(engine, p, dir)
      /\ PortFits(a.port, p)
  BY CoversByKey
<1>2. a.rule.proto \in {0, p.proto}
  BY DEF Covers
<1>3. key \in DOMAIN chain /\ name \in DOMAIN chain[key]
  BY <1>1 DEF FiledInv, Filed
<1>4. Joined(r, Same(asked, dir, key, name), dir, key, name)
  BY <1>3 DEF FiledInv, Filed
<1>5. a.port \in r.ports
  BY <1>1, <1>4, Zenon DEF Joined, Same
<1> HIDE DEF r
<1>6. r.proto = a.rule.proto
  <2>1. create_rule_key(r) = create_rule_key(a.rule)
    BY <1>4 DEF Joined
  <2>2. create_rule_key(r).proto = r.proto /\ create_rule_key(a.rule).proto = a.rule.proto
    BY KeyParts
  <2> QED
    BY ONLY <2>1, <2>2
<1> HIDE DEF key
<1>7. matches(r, p)
  BY <1>1, <1>2, <1>5, <1>6 DEF matches, PortFits
<1>8. r \in Hits(engine, p, dir, key)
  BY <1>3, <1>7 DEF Hits, match_rule, r
<1> QED
  BY <1>1, <1>8 DEF HitKeys, key

\* A hit is a rule filed for a covering call.
LEMMA HitsCover ==
  ASSUME FiledInv, NEW p \in Packets, NEW dir \in Directions,
         NEW key \in HitKeys(engine, p, dir), NEW r \in Hits(engine, p, dir, key)
  PROVE  /\ create_rule_key(r) = key
         /\ \E a \in asked : /\ Covers(a, p, dir)
                             /\ a.rule.policy_key = r.policy_key
                             /\ create_rule_key(a.rule) = key
         /\ \E a \in asked : /\ create_rule_key(a.rule) = key
                             /\ a.rule.policy_key = r.policy_key
                             /\ a.rule.action = r.action
<1> DEFINE chain == engine.chain[dir]
<1>1. key \in DOMAIN chain /\ r \in match_rule(chain[key], p)
  BY DEF Hits
<1>2. PICK name \in DOMAIN chain[key] : r = chain[key][name]
  BY <1>1 DEF match_rule
<1>3. matches(r, p)
  BY <1>1 DEF match_rule
<1> DEFINE calls == Same(asked, dir, key, name)
<1>4. Joined(r, calls, dir, key, name)
  BY <1>1, <1>2 DEF FiledInv, Filed
<1>5. \A a \in calls : /\ a \in asked /\ a.rule.dir = dir
                       /\ a.rule.policy_key = name /\ create_rule_key(a.rule) = key
  BY DEF Same
<1> HIDE DEF calls
<1>6. \E a \in calls : PortFits(a.port, p)
  <2>1. PICK a \in calls : a.rule.action = r.action
    BY <1>4 DEF Joined
  <2>2. r.ports = {c.port : c \in calls}
    BY <1>4 DEF Joined
  <2> QED
    BY <1>3, <2>1, <2>2, Zenon DEF matches, PortFits
<1>7. PICK a \in calls : PortFits(a.port, p)
  BY <1>6
<1>8. key \in create_rule_key_by_tuple(engine, p, dir)
  BY DEF HitKeys
<1>9. Covers(a, p, dir)
  BY <1>5, <1>7, <1>8, CoversByKey
<1> QED
  BY <1>4, <1>5, <1>7, <1>9 DEF Joined

\* What the lookup answers follows from the account of what was asked.
LEMMA StrongestAnswers == FiledInv => LookupIsStrongest
<1> SUFFICES ASSUME FiledInv, NEW dir \in Directions, NEW p \in Packets
             PROVE  LET covering == {a \in asked : Covers(a, p, dir)}
                        answers == match_five_tuple(engine, p, dir)
                    IN  /\ (answers = {}) = (covering = {})
                        /\ \A r \in answers :
                             /\ \A a \in covering : r.priority <= a.rule.priority
                             /\ \E a \in covering : /\ a.rule.policy_key = r.policy_key
                                                    /\ a.rule.priority = r.priority
                             /\ \E a \in asked : /\ create_rule_key(a.rule) = create_rule_key(r)
                                                 /\ a.rule.policy_key = r.policy_key
                                                 /\ a.rule.action = r.action
  BY DEF LookupIsStrongest
<1> DEFINE covering == {a \in asked : Covers(a, p, dir)}
           answers == match_five_tuple(engine, p, dir)
           keys == HitKeys(engine, p, dir)
<1>1. \A k \in keys : k.priority \in Nat /\ Width(k) \in Nat
  BY KeyOrder DEF HitKeys, FiledInv
<1>2. \A r : r \in answers <=> \E key \in keys :
        /\ \A other \in keys : ~TriedBefore(other, key)
        /\ r \in Hits(engine, p, dir, key)
  BY Answers
<1>3. \A a \in covering : create_rule_key(a.rule) \in keys
  BY CoveringHits
<1>4. \A key \in keys : Hits(engine, p, dir, key) # {}
  BY DEF HitKeys
<1> HIDE DEF answers, keys
<1>5. covering # {} => answers # {}
  <2> SUFFICES ASSUME covering # {} PROVE answers # {}
    OBVIOUS
  <2>1. keys # {}
    BY <1>3
  <2>2. PICK k \in keys : \A j \in keys : ~TriedBefore(j, k)
    BY <1>1, <2>1, FirstKey
  <2> QED
    BY <1>2, <1>4, <2>2
<1>6. ASSUME NEW r \in answers
      PROVE  /\ \A a \in covering : r.priority <= a.rule.priority
             /\ \E a \in covering : /\ a.rule.policy_key = r.policy_key
                                    /\ a.rule.priority = r.priority
             /\ \E a \in asked : /\ create_rule_key(a.rule) = create_rule_key(r)
                                 /\ a.rule.policy_key = r.policy_key
                                 /\ a.rule.action = r.action
  <2>1. PICK key \in keys : /\ \A other \in keys : ~TriedBefore(other, key)
                            /\ r \in Hits(engine, p, dir, key)
    BY <1>2, <1>6
  <2>2. /\ create_rule_key(r) = key
        /\ \E a \in asked : /\ Covers(a, p, dir)
                            /\ a.rule.policy_key = r.policy_key
                            /\ create_rule_key(a.rule) = key
        /\ \E a \in asked : /\ create_rule_key(a.rule) = key
                            /\ a.rule.policy_key = r.policy_key
                            /\ a.rule.action = r.action
    BY <2>1, HitsCover DEF keys
  <2>3. r.priority = key.priority
    BY <2>2, KeyParts
  <2>4. ASSUME NEW a \in covering
        PROVE  r.priority <= a.rule.priority
    <3>1. create_rule_key(a.rule) \in keys /\ create_rule_key(a.rule).priority = a.rule.priority
      BY <1>3, KeyParts
    <3>2. ~(create_rule_key(a.rule).priority < key.priority)
      BY <2>1, <3>1 DEF TriedBefore
    <3> QED
      BY <1>1, <2>1, <2>3, <3>1, <3>2
  <2>5. \E a \in covering : /\ a.rule.policy_key = r.policy_key
                            /\ a.rule.priority = r.priority
    <3>1. PICK a \in asked : /\ Covers(a, p, dir) /\ a.rule.policy_key = r.policy_key
                             /\ create_rule_key(a.rule) = key
      BY <2>2
    <3>2. a.rule.priority = r.priority
      BY <2>3, <3>1, KeyParts
    <3> QED
      BY <3>1, <3>2
  <2> QED
    BY <2>2, <2>4, <2>5
<1>7. answers # {} => covering # {}
  BY <1>6
<1> QED
  BY <1>5, <1>6, <1>7 DEF answers

(***************************************************************************)
(* Under any sequence of add_policy, delete_policy and clear_cfg, the      *)
(* lookup of match_five_tuple answers exactly when some rule asked for and *)
(* not deleted covers the packet, and answers with one that no covering    *)
(* rule beats in priority: for every address width, every set of rules,    *)
(* ports and packets.                                                      *)
(***************************************************************************)
THEOREM LookupSound == EngineSpec => []LookupIsStrongest
BY FiledAlways, StrongestAnswers, PTL
=============================================================================
