--------------------------- MODULE PodPartsProofs ---------------------------
(***************************************************************************)
(* Two of the parts PodLifecycle puts together, on their own: what one     *)
(* call of write_iptable_rule leaves in a mangle table, whatever earlier   *)
(* calls left there, when none or one of its commands fails; and what      *)
(* receiving messages does to a queue.                                     *)
(***************************************************************************)
EXTENDS Iptables, NfqQueue, Integers, FiniteSetTheorems, TLAPS

-----------------------------------------------------------------------------
(* The two directions of a mangle table *)

Directions == {"in", "out"}
Other(d) == IF d = "in" THEN "out" ELSE "in"

Rules == UserChains \cup {Restore, Save, AcceptMarked, Queue("in"), Queue("out")}

\* A mangle table: the built-in chains and some of the two user chains.
Table(t) ==
    /\ t \in [DOMAIN t -> Seq(Rules)]
    /\ Builtin \subseteq DOMAIN t /\ DOMAIN t \subseteq Builtin \cup UserChains

AcceptThenQueue(chain, d) ==
    Len(chain) = 2 /\ chain[1] = AcceptMarked /\ chain[2] = Queue(d)

\* The rules of direction d are all there and in an order that works.
Complete(t, d) ==
    /\ Zero(d) \in DOMAIN t /\ AcceptThenQueue(t[Zero(d)], d)
    /\ Len(t[Hook(d)]) >= 2 /\ t[Hook(d)][1] = Restore /\ t[Hook(d)][2] = Zero(d)
    /\ \E i \in DOMAIN t[SaveHook(d)] : t[SaveHook(d)][i] = Save

\* u has the chains of direction d as t has them.
Same(t, u, d) ==
    /\ Zero(d) \in DOMAIN t <=> Zero(d) \in DOMAIN u
    /\ t[Hook(d)] = u[Hook(d)] /\ t[SaveHook(d)] = u[SaveHook(d)]
    /\ Zero(d) \in DOMAIN t => t[Zero(d)] = u[Zero(d)]

\* The chains of the two directions are six different ones, and no target of
\* a rule is mistaken for another.
LEMMA Chains ==
    ASSUME NEW d \in Directions
    PROVE  /\ Hook(d) \in Builtin /\ SaveHook(d) \in Builtin /\ Hook(d) # SaveHook(d)
           /\ Zero(d) \in UserChains /\ Zero(d) \notin Builtin
           /\ Other(d) \in Directions /\ Zero(d) # Zero(Other(d))
           /\ Hook(Other(d)) \in Builtin /\ SaveHook(Other(d)) \in Builtin
           /\ Zero(Other(d)) \notin Builtin
           /\ Hook(d) # Hook(Other(d)) /\ Hook(d) # SaveHook(Other(d))
           /\ SaveHook(d) # Hook(Other(d)) /\ SaveHook(d) # SaveHook(Other(d))
           /\ UserChains = {Zero(d), Zero(Other(d))}
  BY DEF Builtin, Hook, SaveHook, Zero, UserChains, Directions, Other

LEMMA Targets ==
    ASSUME NEW d \in Directions
    PROVE  /\ {Zero(d), Restore, Save, AcceptMarked, Queue(d)} \subseteq Rules
           /\ Restore \notin UserChains /\ Save \notin UserChains
           /\ AcceptMarked \notin UserChains /\ Queue(d) \notin UserChains
           /\ Queue(d) # AcceptMarked
  BY DEF Zero, UserChains, Directions, Rules, Restore, Save, AcceptMarked, Queue

\* A direction stays complete while its chains stay.
LEMMA SameComplete ==
    ASSUME NEW t, NEW u, NEW d, Same(t, u, d), Complete(t, d)
    PROVE  Complete(u, d)
  BY DEF Same, Complete

\* A complete direction sends unmarked packets to its queue, lets the packets
\* of marked connections through and saves the marks.
LEMMA CompleteFilters ==
    ASSUME NEW t, NEW d \in Directions, Table(t), Complete(t, d)
    PROVE  /\ Traverse(t, d, 0) = "queue"
           /\ Traverse(t, d, 1) = "accept"
<1> DEFINE chain == t[Zero(d)]
           hook == t[Hook(d)]
           hits(marked) == {i \in DOMAIN chain : chain[i] = Queue(d) \/ (marked /\ chain[i] = AcceptMarked)}
           first(S) == CHOOSE i \in S : \A j \in S : i <= j
<1>1. /\ chain \in Seq(Rules) /\ hook \in Seq(Rules)
      /\ DOMAIN chain = 1..2 /\ chain[1] = AcceptMarked /\ chain[2] = Queue(d)
      /\ 1 \in DOMAIN hook /\ 2 \in DOMAIN hook /\ DOMAIN hook \subseteq Nat \ {0}
      /\ hook[1] = Restore /\ hook[2] = Zero(d)
  <2>1. chain \in Seq(Rules) /\ hook \in Seq(Rules)
    BY Chains DEF Complete, Table
  <2> QED
    BY <2>1 DEF Complete, AcceptThenQueue
<1>2. Queue(d) # AcceptMarked /\ Restore # Zero(d)
  BY Targets, Chains
<1> HIDE DEF chain, hook
<1>3. hits(FALSE) = {2} /\ hits(TRUE) = {1, 2}
  BY <1>1, <1>2
<1>4. first({2}) = 2 /\ first({1, 2}) = 1
  OBVIOUS
<1>5. InZero(t, d, FALSE) = "queue" /\ InZero(t, d, TRUE) = "accept"
  <2>1. \A m \in BOOLEAN : InZero(t, d, m) =
          IF hits(m) = {} THEN "return" ELSE IF chain[first(hits(m))] = Queue(d) THEN "queue" ELSE "accept"
    BY DEF InZero, chain
  <2> HIDE DEF hits, first
  <2> QED
    BY <2>1, <1>1, <1>2, <1>3, <1>4, Zenon
<1>6. RestoredBefore(t, d, 2)
  BY <1>1 DEF RestoredBefore, hook
<1> DEFINE end(k, i) == InZero(t, d, k = 1 /\ RestoredBefore(t, d, i))
           ending(k) == {i \in DOMAIN hook : hook[i] = Zero(d) /\ end(k, i) # "return"}
<1>7. \A k : Traverse(t, d, k) = IF ending(k) = {} THEN "accept" ELSE end(k, first(ending(k)))
  BY DEF Traverse, hook
<1>8. end(0, 2) = "queue" /\ end(1, 2) = "accept"
  <2>1. (0 = 1 /\ RestoredBefore(t, d, 2)) = FALSE /\ (1 = 1 /\ RestoredBefore(t, d, 2)) = TRUE
    BY <1>6
  <2> QED
    BY <2>1, <1>5, Zenon
<1> HIDE DEF end
<1>9. \A k \in {0, 1} : 2 \in ending(k) /\ \A j \in ending(k) : 2 <= j /\ j \in Nat
  BY <1>1, <1>2, <1>8
<1> HIDE DEF ending
<1>10. \A k \in {0, 1} : first(ending(k)) = 2
  BY <1>9
<1> HIDE DEF first
<1> QED
  BY <1>7, <1>8, <1>9, <1>10

-----------------------------------------------------------------------------
(* One command *)

\* A new chain is empty and nothing else changes.
LEMMA NewChainKeeps ==
    ASSUME NEW t, Table(t), NEW d \in Directions
    PROVE  /\ Table(NewChain(t, Zero(d))) /\ Same(t, NewChain(t, Zero(d)), Other(d))
           /\ DOMAIN NewChain(t, Zero(d)) = DOMAIN t \cup {Zero(d)}
           /\ \A c \in DOMAIN t : NewChain(t, Zero(d))[c] = t[c]
           /\ Zero(d) \notin DOMAIN t => NewChain(t, Zero(d))[Zero(d)] = << >>
<1>1. CASE Zero(d) \in DOMAIN t
  BY <1>1, Zenon DEF NewChain, Same
<1>2. CASE Zero(d) \notin DOMAIN t
  <2> DEFINE u == NewChain(t, Zero(d))
  <2>1. /\ u = [x \in DOMAIN t \cup {Zero(d)} |-> IF x = Zero(d) THEN << >> ELSE t[x]]
    BY <1>2 DEF NewChain
  <2>2. /\ DOMAIN u = DOMAIN t \cup {Zero(d)} /\ u[Zero(d)] = << >>
        /\ \A c \in DOMAIN t : u[c] = t[c] /\ u[c] \in Seq(Rules)
    BY <2>1, <1>2 DEF Table
  <2>3. u \in [DOMAIN u -> Seq(Rules)]
    BY <2>1, <2>2
  <2> HIDE DEF u
  <2>4. Table(u)
    BY <2>2, <2>3, Chains DEF Table
  <2>5. Same(t, u, Other(d))
    BY <2>2, Chains DEF Same, Table
  <2> QED
    BY <2>2, <2>4, <2>5, <1>2 DEF u
<1> QED
  BY <1>1, <1>2

\* Setting one chain of the direction d.
LEMMA SetChainKeeps ==
    ASSUME NEW t, Table(t), NEW d \in Directions,
           NEW c \in {Zero(d), Hook(d), SaveHook(d)} \cap DOMAIN t, NEW s \in Seq(Rules)
    PROVE  /\ Table([t EXCEPT ![c] = s]) /\ Same(t, [t EXCEPT ![c] = s], Other(d))
           /\ DOMAIN [t EXCEPT ![c] = s] = DOMAIN t /\ [t EXCEPT ![c] = s][c] = s
           /\ \A x \in DOMAIN t \ {c} : [t EXCEPT ![c] = s][x] = t[x]
<1> DEFINE u == [t EXCEPT ![c] = s]
<1>1. /\ DOMAIN u = DOMAIN t /\ u[c] = s
      /\ \A x \in DOMAIN t \ {c} : u[x] = t[x]
      /\ u \in [DOMAIN u -> Seq(Rules)]
  BY DEF Table
<1> HIDE DEF u
<1>2. Table(u)
  BY <1>1 DEF Table
<1>3. Same(t, u, Other(d))
  <2>1. c \notin {Zero(Other(d)), Hook(Other(d)), SaveHook(Other(d))}
    BY Chains
  <2>2. Hook(Other(d)) \in DOMAIN t /\ SaveHook(Other(d)) \in DOMAIN t
    BY Chains DEF Table
  <2> QED
    BY <1>1, <2>1, <2>2 DEF Same
<1> QED
  BY <1>1, <1>2, <1>3 DEF u

\* Inserting and appending a rule, where the command applies.
LEMMA RuleKeeps ==
    ASSUME NEW t, Table(t), NEW d \in Directions,
           NEW c \in {Zero(d), Hook(d), SaveHook(d)}, NEW rule \in Rules
    PROVE  \A u \in {InsertRule(t, c, rule), AppendRule(t, c, rule)} :
              Table(u) /\ Same(t, u, Other(d)) /\ DOMAIN u = DOMAIN t
<1>1. CASE ~Applies(t, c, rule)
  BY <1>1 DEF InsertRule, AppendRule, Same
<1>2. CASE Applies(t, c, rule)
  <2>1. c \in DOMAIN t /\ t[c] \in Seq(Rules)
    BY <1>2 DEF Applies, Table
  <2>2. c \in {Zero(d), Hook(d), SaveHook(d)} \cap DOMAIN t
    BY <2>1
  <2>3. <<rule>> \o t[c] \in Seq(Rules) /\ Append(t[c], rule) \in Seq(Rules)
    BY <2>1
  <2>4. \A s \in {<<rule>> \o t[c], Append(t[c], rule)} :
          /\ Table([t EXCEPT ![c] = s]) /\ Same(t, [t EXCEPT ![c] = s], Other(d))
          /\ DOMAIN [t EXCEPT ![c] = s] = DOMAIN t
    BY <2>2, <2>3, SetChainKeeps, ZenonT(60)
  <2> QED
    BY <1>2, <2>4, Zenon DEF InsertRule, AppendRule
<1> QED
  BY <1>1, <1>2

\* A command of direction d, failed or not, keeps the table a table and leaves
\* the other direction alone; only -N changes which chains there are.
LEMMA RunKeeps ==
    ASSUME NEW t, Table(t), NEW d \in Directions, NEW failed, NEW step \in InstallSteps
    PROVE  /\ Table(Run(t, d, failed, step)) /\ Same(t, Run(t, d, failed, step), Other(d))
           /\ step # "-N" => DOMAIN Run(t, d, failed, step) = DOMAIN t
           /\ DOMAIN t \subseteq DOMAIN Run(t, d, failed, step)
           /\ step = "-N" /\ <<d, step>> \notin failed => Zero(d) \in DOMAIN Run(t, d, failed, step)
<1>1. CASE <<d, step>> \in failed
  BY <1>1 DEF Run, Unless, Same
<1>2. CASE <<d, step>> \notin failed
  <2>1. Run(t, d, failed, step) = Command(t, d, step)
    BY <1>2 DEF Run, Unless
  <2>2. CASE step = "-N"
    <3>1. Run(t, d, failed, step) = NewChain(t, Zero(d))
      BY <2>1, <2>2 DEF Command
    <3>2. /\ Table(NewChain(t, Zero(d))) /\ Same(t, NewChain(t, Zero(d)), Other(d))
          /\ DOMAIN NewChain(t, Zero(d)) = DOMAIN t \cup {Zero(d)}
      BY NewChainKeeps, Zenon
    <3> QED
      BY <2>2, <3>1, <3>2
  <2>3. CASE step \in {"jump", "restore"}
    <3>1. PICK rule \in Rules : Command(t, d, step) = InsertRule(t, Hook(d), rule)
      BY <2>3, Targets DEF Command
    <3> QED
      BY <2>1, <2>3, <3>1, RuleKeeps
  <2>4. CASE step \in {"accept", "queue", "save"}
    <3>1. PICK c \in {Zero(d), SaveHook(d)}, rule \in Rules : Command(t, d, step) = AppendRule(t, c, rule)
      BY <2>4, Targets DEF Command
    <3> QED
      BY <2>1, <2>4, <3>1, RuleKeeps
  <2> QED
    BY <2>2, <2>3, <2>4 DEF InstallSteps
<1> QED
  BY <1>1, <1>2

\* The whole block of one direction.
LEMMA DirectionKeeps ==
    ASSUME NEW t, Table(t), NEW d \in Directions, NEW failed
    PROVE  /\ Table(write_direction(t, d, failed))
           /\ Same(t, write_direction(t, d, failed), Other(d))
           /\ Zero(d) \in DOMAIN t => Zero(d) \in DOMAIN write_direction(t, d, failed)
           /\ <<d, "-N">> \notin failed => Zero(d) \in DOMAIN write_direction(t, d, failed)
<1> DEFINE t1 == Run(t, d, failed, "-N")
           t2 == Run(t1, d, failed, "jump")
           t3 == Run(t2, d, failed, "restore")
           t4 == Run(t3, d, failed, "accept")
           t5 == Run(t4, d, failed, "queue")
           t6 == Run(t5, d, failed, "save")
<1>1. CASE mangle_table_contains(t, Zero(d), failed, <<d, "-S">>)
  BY <1>1 DEF mangle_table_contains, write_direction, Same
<1>2. CASE ~mangle_table_contains(t, Zero(d), failed, <<d, "-S">>)
  <2>1. write_direction(t, d, failed) = t6
    BY <1>2 DEF write_direction
  <2>2. /\ "-N" \in InstallSteps /\ "jump" \in InstallSteps /\ "restore" \in InstallSteps
        /\ "accept" \in InstallSteps /\ "queue" \in InstallSteps /\ "save" \in InstallSteps
        /\ "-N" \notin {"jump", "restore", "accept", "queue", "save"}
    BY DEF InstallSteps
  <2> HIDE DEF t1, t2, t3, t4, t5, t6
  <2>3. /\ Table(t1) /\ Same(t, t1, Other(d)) /\ DOMAIN t \subseteq DOMAIN t1
        /\ <<d, "-N">> \notin failed => Zero(d) \in DOMAIN t1
    BY <2>2, RunKeeps DEF t1
  <2>4. Table(t2) /\ Same(t1, t2, Other(d)) /\ DOMAIN t2 = DOMAIN t1
    BY <2>2, <2>3, RunKeeps, Zenon DEF t2
  <2>5. Table(t3) /\ Same(t2, t3, Other(d)) /\ DOMAIN t3 = DOMAIN t2
    BY <2>2, <2>4, RunKeeps, Zenon DEF t3
  <2>6. Table(t4) /\ Same(t3, t4, Other(d)) /\ DOMAIN t4 = DOMAIN t3
    BY <2>2, <2>5, RunKeeps, Zenon DEF t4
  <2>7. Table(t5) /\ Same(t4, t5, Other(d)) /\ DOMAIN t5 = DOMAIN t4
    BY <2>2, <2>6, RunKeeps, Zenon DEF t5
  <2>8. Table(t6) /\ Same(t5, t6, Other(d)) /\ DOMAIN t6 = DOMAIN t5
    BY <2>2, <2>7, RunKeeps, Zenon DEF t6
  <2>9. Same(t, t6, Other(d))
    BY <2>3, <2>4, <2>5, <2>6, <2>7, <2>8 DEF Same
  <2> QED
    BY <2>1, <2>3, <2>4, <2>5, <2>6, <2>7, <2>8, <2>9
<1> QED
  BY <1>1, <1>2

\* A block none of whose commands fails, on a table without the chain.
LEMMA DirectionCompletes ==
    ASSUME NEW t, Table(t), NEW d \in Directions, NEW failed, Zero(d) \notin DOMAIN t,
           \A step \in InstallSteps : <<d, step>> \notin failed
    PROVE  Complete(write_direction(t, d, failed), d)
<1> DEFINE z == Zero(d)
           h == Hook(d)
           v == SaveHook(d)
           t1 == NewChain(t, z)
           t2 == InsertRule(t1, h, z)
           t3 == InsertRule(t2, h, Restore)
           t4 == AppendRule(t3, z, AcceptMarked)
           t5 == AppendRule(t4, z, Queue(d))
           t6 == AppendRule(t5, v, Save)
<1>1. \A u : \A step \in InstallSteps : Run(u, d, failed, step) = Command(u, d, step)
  BY DEF Run, Unless
<1>2. /\ Run(t, d, failed, "-N") = t1
      /\ Run(t1, d, failed, "jump") = t2
      /\ Run(t2, d, failed, "restore") = t3
      /\ Run(t3, d, failed, "accept") = t4
      /\ Run(t4, d, failed, "queue") = t5
      /\ Run(t5, d, failed, "save") = t6
  <2> HIDE DEF t1, t2, t3, t4, t5, t6
  <2>1. /\ Run(t, d, failed, "-N") = Command(t, d, "-N")
        /\ Run(t1, d, failed, "jump") = Command(t1, d, "jump")
        /\ Run(t2, d, failed, "restore") = Command(t2, d, "restore")
        /\ Run(t3, d, failed, "accept") = Command(t3, d, "accept")
        /\ Run(t4, d, failed, "queue") = Command(t4, d, "queue")
        /\ Run(t5, d, failed, "save") = Command(t5, d, "save")
    BY <1>1 DEF InstallSteps
  <2> QED
    BY <2>1 DEF Command, t1, t2, t3, t4, t5, t6
<1> HIDE DEF t1, t2, t3, t4, t5, t6
<1>3. write_direction(t, d, failed) = t6
  BY <1>2 DEF write_direction, mangle_table_contains
<1>4. /\ h \in DOMAIN t /\ v \in DOMAIN t /\ z \notin {h, v} /\ h # v
      /\ {h, v} \cap UserChains = {} /\ z \in UserChains
      /\ {Restore, AcceptMarked, Queue(d), Save} \cap UserChains = {}
      /\ z \in Rules /\ Restore \in Rules /\ AcceptMarked \in Rules /\ Queue(d) \in Rules /\ Save \in Rules
  BY Chains, Targets DEF Table
<1> HIDE DEF z, h, v
<1>5. /\ t[h] \in Seq(Rules) /\ t[v] \in Seq(Rules)
  BY <1>4 DEF Table
<1>6. /\ DOMAIN t1 = DOMAIN t \cup {z} /\ t1[z] = << >> /\ t1[h] = t[h] /\ t1[v] = t[v]
  BY <1>4, NewChainKeeps, Zenon DEF t1, z
<1>7. /\ DOMAIN t2 = DOMAIN t1 /\ t2[z] = << >> /\ t2[h] = <<z>> \o t[h] /\ t2[v] = t[v]
  BY <1>4, <1>6 DEF t2, InsertRule, Applies
<1>8. /\ DOMAIN t3 = DOMAIN t1 /\ t3[z] = << >> /\ t3[h] = <<Restore>> \o (<<z>> \o t[h]) /\ t3[v] = t[v]
  BY <1>4, <1>6, <1>7 DEF t3, InsertRule, Applies
<1>9. /\ DOMAIN t4 = DOMAIN t1 /\ t4[z] = <<AcceptMarked>> /\ t4[h] = t3[h] /\ t4[v] = t[v]
  BY <1>4, <1>6, <1>8 DEF t4, AppendRule, Applies
<1>10. /\ DOMAIN t5 = DOMAIN t1 /\ AcceptThenQueue(t5[z], d) /\ t5[h] = t3[h] /\ t5[v] = t[v]
  <2>1. /\ DOMAIN t5 = DOMAIN t1 /\ t5[z] = Append(t4[z], Queue(d)) /\ t5[h] = t4[h] /\ t5[v] = t4[v]
    BY <1>4, <1>6, <1>9 DEF t5, AppendRule, Applies
  <2>2. AcceptThenQueue(Append(<<AcceptMarked>>, Queue(d)), d)
    BY <1>4 DEF AcceptThenQueue
  <2> QED
    BY <2>1, <2>2, <1>9
<1>11. /\ DOMAIN t6 = DOMAIN t1 /\ AcceptThenQueue(t6[z], d) /\ t6[h] = t3[h] /\ t6[v] = Append(t[v], Save)
  BY <1>4, <1>6, <1>10 DEF t6, AppendRule, Applies
<1>12. Len(t6[h]) >= 2 /\ t6[h][1] = Restore /\ t6[h][2] = z
  <2> DEFINE s == t[h]
             s1 == <<z>> \o s
             s2 == <<Restore>> \o s1
  <2>1. s \in Seq(Rules)
    BY <1>5
  <2> HIDE DEF s
  <2>2. s1 \in Seq(Rules) /\ Len(s1) = Len(s) + 1 /\ s1[1] = z
    BY <2>1, <1>4
  <2> HIDE DEF s1
  <2>3. s2 \in Seq(Rules) /\ Len(s2) = Len(s1) + 1 /\ s2[1] = Restore /\ s2[2] = s1[1]
    BY <2>1, <2>2, <1>4
  <2>4. t6[h] = s2
    BY <1>8, <1>11 DEF s1, s
  <2> HIDE DEF s2
  <2> QED
    BY <2>1, <2>2, <2>3, <2>4
<1>13. \E i \in DOMAIN t6[v] : t6[v][i] = Save
  <2> DEFINE s == t[v]
  <2>1. s \in Seq(Rules) /\ Save \in Rules
    BY <1>4, <1>5
  <2> HIDE DEF s
  <2>2. Len(s) + 1 \in DOMAIN Append(s, Save) /\ Append(s, Save)[Len(s) + 1] = Save
    BY <2>1
  <2>3. t6[v] = Append(s, Save)
    BY <1>11 DEF s
  <2> QED
    BY <2>2, <2>3
<1> QED
  BY <1>3, <1>6, <1>11, <1>12, <1>13 DEF Complete, z, h, v

-----------------------------------------------------------------------------
(* Clearing *)

\* Deleting a user chain keeps the table a table.
LEMMA DeleteKeeps ==
    ASSUME NEW t, Table(t), NEW d \in Directions
    PROVE  /\ Table(DeleteChain(t, Zero(d)))
           /\ DOMAIN DeleteChain(t, Zero(d)) \subseteq DOMAIN t
           /\ \A c \in DOMAIN DeleteChain(t, Zero(d)) : DeleteChain(t, Zero(d))[c] = t[c]
           /\ (\A c \in DOMAIN t : t[c] = << >>) => Zero(d) \notin DOMAIN DeleteChain(t, Zero(d))
<1> DEFINE u == Restrict(t, DOMAIN t \ {Zero(d)})
<1>1. /\ DOMAIN u = DOMAIN t \ {Zero(d)} /\ \A c \in DOMAIN u : u[c] = t[c]
      /\ u \in [DOMAIN u -> Seq(Rules)]
  BY DEF Restrict, Table
<1> HIDE DEF u
<1>2. Table(u)
  BY <1>1, Chains DEF Table
<1>3. ASSUME \A c \in DOMAIN t : t[c] = << >>
      PROVE  ~Referenced(t, Zero(d))
  BY <1>3 DEF Referenced, Range
<1> QED
  BY <1>1, <1>2, <1>3, Zenon DEF DeleteChain, u

\* clear_iptables_rule keeps the table a table, whatever fails; when nothing
\* does, only the built-in chains are left.
LEMMA ClearKeeps ==
    ASSUME NEW t, Table(t), NEW failed
    PROVE  /\ Table(clear_iptables_rule(t, failed))
           /\ (\A x : <<"clear", x>> \notin failed) =>
                \A d \in Directions : Zero(d) \notin DOMAIN clear_iptables_rule(t, failed)
<1> DEFINE t1 == Unless(failed, <<"clear", "-F">>, Flush(t), t)
           t2 == Unless(failed, <<"clear", "-X in">>, DeleteChain(t1, Zero("in")), t1)
           t3 == Unless(failed, <<"clear", "-X out">>, DeleteChain(t2, Zero("out")), t2)
<1>1. clear_iptables_rule(t, failed) = t3
  BY DEF clear_iptables_rule
<1>2. "in" \in Directions /\ "out" \in Directions /\ Directions = {"in", "out"}
  BY DEF Directions
<1>3. /\ Table(t1)
      /\ <<"clear", "-F">> \notin failed => \A c \in DOMAIN t1 : t1[c] = << >>
  <2>1. /\ DOMAIN Flush(t) = DOMAIN t /\ \A c \in DOMAIN t : Flush(t)[c] = << >>
        /\ Flush(t) \in [DOMAIN t -> Seq(Rules)]
    BY DEF Flush
  <2>2. Table(Flush(t))
    BY <2>1 DEF Table
  <2> QED
    BY <2>1, <2>2 DEF Unless
<1> HIDE DEF t1
<1>4. /\ Table(t2)
      /\ DOMAIN t2 \subseteq DOMAIN t1 /\ \A c \in DOMAIN t2 : t2[c] = t1[c]
      /\ <<"clear", "-X in">> \notin failed /\ (\A c \in DOMAIN t1 : t1[c] = << >>)
           => Zero("in") \notin DOMAIN t2
  BY <1>2, <1>3, DeleteKeeps, ZenonT(60) DEF Unless
<1> HIDE DEF t2
<1>5. /\ Table(t3)
      /\ DOMAIN t3 \subseteq DOMAIN t2
      /\ <<"clear", "-X out">> \notin failed /\ (\A c \in DOMAIN t2 : t2[c] = << >>)
           => Zero("out") \notin DOMAIN t3
  BY <1>2, <1>4, DeleteKeeps, Zenon DEF Unless
<1> HIDE DEF t3
<1>6. ASSUME \A x : <<"clear", x>> \notin failed
      PROVE  \A d \in Directions : Zero(d) \notin DOMAIN t3
  <2>1. \A c \in DOMAIN t1 : t1[c] = << >>
    BY <1>3, <1>6
  <2>2. \A c \in DOMAIN t2 : t2[c] = << >>
    BY <1>4, <2>1, Zenon
  <2> QED
    BY <1>2, <1>4, <1>5, <1>6, <2>1, <2>2, Zenon
<1> QED
  BY <1>1, <1>5, <1>6, Zenon

-----------------------------------------------------------------------------
(* The whole call *)

\* What every call finds and leaves.  Only the chain of the arriving direction
\* is looked for before the table is cleared, so a table without it must not
\* have half of the other direction.
TableInv(t) ==
    /\ Table(t)
    /\ Zero("in") \notin DOMAIN t /\ Zero("out") \in DOMAIN t => Complete(t, "out")

\* The block of a direction that is complete or absent, when none of its
\* install commands fails.
LEMMA DirectionDone ==
    ASSUME NEW t, Table(t), NEW d \in Directions, NEW failed,
           \A step : <<d, step>> \notin failed,
           Zero(d) \in DOMAIN t => Complete(t, d)
    PROVE  Complete(write_direction(t, d, failed), d)
<1>1. CASE Zero(d) \in DOMAIN t
  BY <1>1 DEF write_direction, mangle_table_contains
<1>2. CASE Zero(d) \notin DOMAIN t
  BY <1>2, DirectionCompletes
<1> QED
  BY <1>1, <1>2

\* At most one of the commands of a call fails.
AtMostOne(failed) == failed = {} \/ \E c : failed = {c}

(***************************************************************************)
(* write_iptable_rule keeps TableInv when at most one of its commands      *)
(* fails, and completes both directions when none does.                    *)
(***************************************************************************)
THEOREM WriteKeeps ==
    ASSUME NEW t, TableInv(t), NEW failed, AtMostOne(failed)
    PROVE  /\ TableInv(write_iptable_rule(t, failed))
           /\ failed = {} => \A d \in Directions : Complete(write_iptable_rule(t, failed), d)
<1> DEFINE t1 == IF check_iptables_rule(t, failed) THEN clear_iptables_rule(t, failed) ELSE t
           t2 == write_direction(t1, "in", failed)
           t3 == write_direction(t2, "out", failed)
<1>1. write_iptable_rule(t, failed) = t3
  BY DEF write_iptable_rule
<1>2. /\ "in" \in Directions /\ "out" \in Directions /\ Directions = {"in", "out"}
      /\ Other("in") = "out" /\ Other("out") = "in"
  BY DEF Directions, Other
<1>3. Table(t1)
  BY ClearKeeps DEF TableInv
<1> HIDE DEF t1
<1>4. /\ Table(t2) /\ Same(t1, t2, "out")
      /\ Zero("in") \in DOMAIN t1 => Zero("in") \in DOMAIN t2
      /\ <<"in", "-N">> \notin failed => Zero("in") \in DOMAIN t2
  BY <1>2, <1>3, DirectionKeeps
<1> HIDE DEF t2
<1>5. Table(t3) /\ Same(t2, t3, "in")
  BY <1>2, <1>4, DirectionKeeps
<1> HIDE DEF t3
<1>6. ASSUME failed = {} \/ Zero("in") \notin DOMAIN t3
      PROVE  /\ Zero("in") \notin DOMAIN t1
             /\ Complete(t3, "out")
  <2>1. failed = {} \/ failed = {<<"in", "-N">>}
    <3>1. CASE failed = {}
      BY <3>1
    <3>2. CASE Zero("in") \notin DOMAIN t3
      <4>1. <<"in", "-N">> \in failed
        BY <3>2, <1>4, <1>5 DEF Same
      <4> QED
        BY <4>1 DEF AtMostOne
    <3> QED
      BY <3>1, <3>2, <1>6
  <2>2. \A x : <<"clear", x>> \notin failed /\ <<"out", x>> \notin failed /\ <<"check", x>> \notin failed
    BY <2>1
  <2>3. /\ Zero("in") \notin DOMAIN t1
        /\ Zero("out") \in DOMAIN t1 => Complete(t1, "out")
    <3>1. check_iptables_rule(t, failed) <=> Zero("in") \in DOMAIN t
      BY <2>2, Zenon DEF check_iptables_rule, mangle_table_contains
    <3>2. CASE Zero("in") \in DOMAIN t
      <4>1. t1 = clear_iptables_rule(t, failed)
        BY <3>1, <3>2 DEF t1
      <4> QED
        BY <4>1, <2>2, <1>2, ClearKeeps, Zenon DEF TableInv
    <3>3. CASE Zero("in") \notin DOMAIN t
      <4>1. t1 = t
        BY <3>1, <3>3 DEF t1
      <4> QED
        BY <4>1, <3>3 DEF TableInv
    <3> QED
      BY <3>2, <3>3
  <2>4. Zero("out") \in DOMAIN t2 => Complete(t2, "out")
    <3>1. Zero("out") \in DOMAIN t2 => Zero("out") \in DOMAIN t1
      BY <1>4 DEF Same
    <3> QED
      BY <3>1, <2>3, <1>4, SameComplete
  <2>5. Complete(t3, "out")
    BY <2>2, <2>4, <1>2, <1>4, DirectionDone, Zenon DEF t3
  <2> QED
    BY <2>3, <2>5
<1>7. TableInv(t3)
  BY <1>5, <1>6 DEF TableInv
<1>8. ASSUME failed = {} PROVE Complete(t3, "in") /\ Complete(t3, "out")
  <2>1. Zero("in") \notin DOMAIN t1 /\ Complete(t3, "out")
    BY <1>6, <1>8
  <2>2. Complete(t2, "in")
    BY <1>2, <1>3, <1>8, <2>1, DirectionDone DEF t2
  <2> QED
    BY <1>5, <2>1, <2>2, SameComplete
<1> QED
  BY <1>1, <1>2, <1>7, <1>8

-----------------------------------------------------------------------------
(* The queues *)

\* A queue whose unanswerable packets all met a fault.
QueueOk(q, P, H) ==
    /\ q \in [held : SUBSET P, socket : Seq(P), pending : SUBSET P]
    /\ Stranded(q) \subseteq H
    /\ q.pending \subseteq H
    /\ Cardinality(q.pending) <= MAX_BATCH

\* The messages of one recv_batch are at most n different packets.
LEMMA PrefixRange ==
    ASSUME NEW S, NEW s \in Seq(S), NEW n \in 0..Len(s), NEW U \in SUBSET Range(SubSeq(s, 1, n))
    PROVE  Cardinality(U) \in Nat /\ Cardinality(U) <= n
<1> DEFINE f == SubSeq(s, 1, n)
           T == Range(f)
<1>1. f \in Seq(S) /\ DOMAIN f = 1..n /\ n \in Nat
  OBVIOUS
<1> HIDE DEF f
<1>2. f \in Surjection(1..n, T)
  BY <1>1 DEF Surjection, Range
<1>3. IsFiniteSet(1..n) /\ Cardinality(1..n) = n
  BY <1>1, FS_Interval
<1>4. IsFiniteSet(T) /\ Cardinality(T) <= n
  BY <1>2, <1>3, FS_Surjection
<1>5. U \in SUBSET T
  BY DEF f
<1> HIDE DEF T
<1>6. IsFiniteSet(U) /\ Cardinality(U) <= Cardinality(T)
  BY <1>4, <1>5, FS_Subset
<1>7. Cardinality(U) \in Nat /\ Cardinality(T) \in Nat
  BY <1>4, <1>6, FS_CardinalityType
<1> QED
  BY <1>1, <1>4, <1>6, <1>7

\* A recv_batch splits the socket's messages.
LEMMA SplitRange ==
    ASSUME NEW S, NEW s \in Seq(S), NEW n \in 0..Len(s)
    PROVE  /\ SubSeq(s, 1, n) \in Seq(S) /\ SubSeq(s, n + 1, Len(s)) \in Seq(S)
           /\ DOMAIN SubSeq(s, 1, n) = 1..n
           /\ Range(s) = Range(SubSeq(s, 1, n)) \cup Range(SubSeq(s, n + 1, Len(s)))
<1> DEFINE a == SubSeq(s, 1, n)
           b == SubSeq(s, n + 1, Len(s))
<1>1. /\ a \in Seq(S) /\ DOMAIN a = 1..n
      /\ \A i \in 1..n : a[i] = s[i]
  OBVIOUS
<1>2. /\ b \in Seq(S) /\ DOMAIN b = 1..(Len(s) - n)
      /\ \A i \in 1..(Len(s) - n) : b[i] = s[n + i]
  OBVIOUS
<1> HIDE DEF a, b
<1>3. Range(a) \subseteq Range(s) /\ Range(b) \subseteq Range(s)
  <2>1. \A i \in 1..n : i \in DOMAIN s
    OBVIOUS
  <2>2. \A i \in 1..(Len(s) - n) : n + i \in DOMAIN s
    OBVIOUS
  <2> QED
    BY <1>1, <1>2, <2>1, <2>2, Zenon DEF Range
<1>4. ASSUME NEW i \in DOMAIN s PROVE s[i] \in Range(a) \cup Range(b)
  <2>1. CASE i <= n
    BY <2>1, <1>1 DEF Range
  <2>2. CASE i > n
    <3>1. i - n \in 1..(Len(s) - n) /\ n + (i - n) = i
      BY <2>2
    <3>2. b[i - n] = s[n + (i - n)]
      BY <3>1, <1>2
    <3> QED
      BY <3>1, <3>2, <1>2 DEF Range
  <2> QED
    BY <2>1, <2>2
<1>5. Range(s) \subseteq Range(a) \cup Range(b)
  BY <1>4 DEF Range
<1>6. Range(s) = Range(a) \cup Range(b)
  BY <1>3, <1>5
<1> QED
  BY <1>1, <1>2, <1>6 DEF a, b

\* A fresh queue holds nothing, and a fault met elsewhere changes nothing.
LEMMA OpenOk == ASSUME NEW P, NEW H PROVE QueueOk(OpenQueue, P, H)
<1>1. /\ OpenQueue.held = {} /\ OpenQueue.socket = << >> /\ OpenQueue.pending = {}
      /\ OpenQueue \in [held : SUBSET P, socket : Seq(P), pending : SUBSET P]
  BY DEF OpenQueue
<1>2. Cardinality(OpenQueue.pending) = 0
  BY <1>1, FS_EmptySet
<1> QED
  BY <1>1, <1>2, BatchAssumption DEF QueueOk, Stranded

LEMMA MoreHits ==
    ASSUME NEW q, NEW P, NEW H, NEW G, H \subseteq G, QueueOk(q, P, H)
    PROVE  QueueOk(q, P, G)
  BY DEF QueueOk

\* A packet that arrives can be received.
LEMMA EnqueueOk ==
    ASSUME NEW q, NEW P, NEW H, QueueOk(q, P, H), NEW p \in P
    PROVE  QueueOk(Enqueue(q, p), P, H)
<1> DEFINE e == Enqueue(q, p)
<1>1. /\ q \in [held : SUBSET P, socket : Seq(P), pending : SUBSET P]
      /\ q.socket \in Seq(P)
  BY DEF QueueOk
<1>2. /\ e.held = q.held \cup {p} /\ e.socket = Append(q.socket, p) /\ e.pending = q.pending
      /\ e \in [held : SUBSET P, socket : Seq(P), pending : SUBSET P]
  <2>1. Append(q.socket, p) \in Seq(P)
    BY <1>1
  <2> QED
    BY <1>1, <2>1, Zenon DEF Enqueue
<1>3. Range(Append(q.socket, p)) = Range(q.socket) \cup {p}
  <2> DEFINE s == q.socket
             a == Append(s, p)
  <2>1. s \in Seq(P)
    BY <1>1
  <2> HIDE DEF s
  <2>2. /\ DOMAIN s = 1..Len(s) /\ Len(s) \in Nat /\ DOMAIN a = 1..(Len(s) + 1)
        /\ \A i \in 1..(Len(s) + 1) : a[i] = IF i \in 1..Len(s) THEN s[i] ELSE p
    BY <2>1
  <2>3. Len(s) + 1 \in DOMAIN a /\ a[Len(s) + 1] = p
    BY <2>2
  <2> HIDE DEF a
  <2>4. Range(a) = Range(s) \cup {p}
    BY <2>2, <2>3 DEF Range
  <2> QED
    BY <2>4 DEF s, a
<1> HIDE DEF e
<1> QED
  BY <1>2, <1>3 DEF QueueOk, Stranded, e
=============================================================================
