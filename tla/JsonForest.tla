----------------------------- MODULE JsonForest -----------------------------
(***************************************************************************)
(* What the item functions of cJSON promise (cjson.h).  The caller holds   *)
(* some JSON values, builds larger ones from them and takes them apart.    *)
(* An operator says which values the caller may hold `after` a call with   *)
(* given arguments; every value the call is not about stays.               *)
(*                                                                         *)
(* A value has a kind, the name it has in an object ("" for none), its     *)
(* text and the sequence of its items.  A call that is `scarce` of memory  *)
(* may also do nothing.                                                    *)
(***************************************************************************)
EXTENDS Integers, SequencesExt

CONSTANT Lower(_)   \* a name in lower case

VARIABLE forest     \* the items the caller holds -> their values

Leaf(kind, text) == [kind |-> kind, key |-> "", text |-> text, items |-> << >>]
Named(v, key) == [v EXCEPT !.key = key]

(* the places in a value: sequences of positions *)
RECURSIVE Places(_)
Places(v) == {<< >>} \cup UNION {{<<i>> \o p : p \in Places(v.items[i])} : i \in DOMAIN v.items}

RECURSIVE At(_, _)
At(v, p) == IF p = << >> THEN v ELSE At(v.items[Head(p)], Tail(p))

RECURSIVE With(_, _, _)
With(v, p, w) ==
    IF p = << >> THEN w ELSE [v EXCEPT !.items[Head(p)] = With(@, Tail(p), w)]

WithItems(v, p, items) == With(v, p, [At(v, p) EXCEPT !.items = items])

Held == DOMAIN forest
Spots == UNION {{<<h, p>> : p \in Places(forest[h])} : h \in Held}
ValueAt(s) == At(forest[s[1]], s[2])
Items(s) == ValueAt(s).items

(* the position of an index, and of the first item of a name; 0 if there is none *)
Position(s, which) == IF which < Len(Items(s)) THEN which + 1 ELSE 0
NamePosition(s, name, case_sensitive) ==
    SelectInSeq(Items(s), LAMBDA v : /\ v.key # ""
                                     /\ IF case_sensitive THEN v.key = name ELSE Lower(v.key) = Lower(name))

(* the forest without `gone`, the items at spot s replaced *)
Rebuilt(gone, s, items) ==
    [h \in Held \ gone |-> IF h = s[1] THEN WithItems(forest[h], s[2], items) ELSE forest[h]]

(* `f`, and in the caller's hands one item more *)
Gains(after, f, v) ==
    \E h \in DOMAIN after \ DOMAIN f : after = [x \in DOMAIN f \cup {h} |-> IF x = h THEN v ELSE f[x]]

Same(after, scarce) == scarce /\ after = forest

(* the Create functions, and the copies: of a value as it is, without its items, *)
(* or without its name                                                       *)
Creates(after, v, scarce) == Gains(after, forest, v) \/ Same(after, scarce)
CreatesArray(after, v, count, scarce) ==
    Creates(after, [Leaf("array", "") EXCEPT !.items = [i \in 1..count |-> v]], scarce)
Duplicates(after, s, recurse, scarce) ==
    Creates(after, IF recurse THEN ValueAt(s) ELSE [ValueAt(s) EXCEPT !.items = << >>], scarce)
RefersTo(after, s, scarce) == Creates(after, Named(ValueAt(s), ""), scarce)

Drops(after, h) == after = [x \in Held \ {h} |-> forest[x]]

(* an item the caller holds becomes the last item, or the one at an index, which *)
(* shifts those behind it                                                    *)
Appends(after, s, g) == after = Rebuilt({g}, s, Append(Items(s), forest[g]))
AppendsNamed(after, s, g, name, scarce) ==
    after = Rebuilt({g}, s, Append(Items(s), Named(forest[g], name))) \/ Same(after, scarce)
Inserts(after, s, g, which) ==
    IF Position(s, which) = 0 THEN Appends(after, s, g)
    ELSE after = Rebuilt({g}, s, InsertAt(Items(s), which + 1, forest[g]))

(* a new item, or one that refers to an existing item's contents, at the end *)
Adds(after, s, v, name, scarce) ==
    after = Rebuilt({}, s, Append(Items(s), Named(v, name))) \/ Same(after, scarce)

(* the item at a position leaves: for the caller to hold, for good, or for another *)
Detaches(after, s, i) ==
    IF i = 0 THEN after = forest ELSE Gains(after, Rebuilt({}, s, RemoveAt(Items(s), i)), Items(s)[i])
Deletes(after, s, i) ==
    after = IF i = 0 THEN forest ELSE Rebuilt({}, s, RemoveAt(Items(s), i))
Replaces(after, s, i, g, key) ==
    after = IF i = 0 THEN [forest EXCEPT ![g].key = key]
              ELSE Rebuilt({g}, s, [Items(s) EXCEPT ![i] = Named(forest[g], key)])

(* a name that cannot be copied is lost *)
ReplacesNamed(after, s, name, case_sensitive, g, scarce) ==
    \E key \in {name} \cup (IF scarce THEN {""} ELSE {}) :
        Replaces(after, s, NamePosition(s, name, case_sensitive), g, key)
=============================================================================
