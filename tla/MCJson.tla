------------------------------- MODULE MCJson -------------------------------
(* cJSON's two halves: a behaviour edits trees, or prints and parses them. *)
EXTENDS JsonText

VARIABLES kit, heap, strings, roots, damaged, editing

tree == <<kit, heap, strings, roots, damaged>>

Seven == Leaf("number", <<55>>)
Minus == Leaf("number", <<45, 49, 50>>)
NotFinite == Leaf("number", << >>)
Str(s) == Leaf("string", s)

(* raw texts: [], [/*x*/], 7//x to the end of the line, a space and 7, and the *)
(* string "/*"; and one whose line comment does not end                      *)
MCBare == <<91, 93>> :> <<91, 93>> @@ <<91, 47, 42, 120, 42, 47, 93>> :> <<91, 93>>
          @@ <<55, 47, 47, 120, 10>> :> <<55>> @@ <<32, 55>> :> <<55>>
          @@ <<34, 47, 42, 34>> :> <<34, 47, 42, 34>>
Raws == {Leaf("raw", t) : t \in DOMAIN MCBare} \cup {Leaf("raw", <<55, 47, 47>>)}

(* letters, a space, slashes, and bytes that need each kind of escape *)
Strings == {<< >>, <<120>>, <<34>>, <<92>>, <<1, 120>>, <<120, 32>>, <<10, 31>>, <<195, 169>>, <<92, 34>>,
            <<47, 47>>}
Leaves == {Leaf(k, << >>) : k \in {"null", "true", "false"}} \cup {Seven, Minus, NotFinite} \cup Raws
          \cup {Str(s) : s \in Strings}
Few == {Seven, Str(<<92, 34>>), Box("array", << >>), Box("object", << >>)}
Flat == {Box("array", <<v>>) : v \in Few} \cup {Box("array", <<v, w>>) : v, w \in Few}
        \cup {Box("object", <<Member(<<120>>, v)>>) : v \in Few}
        \cup {Box("object", <<Member(k, Seven), Member(<<34, 32>>, v)>>) : k \in {<< >>, <<120>>}, v \in Few}
Deep == {Box("array", <<Box("object", <<Member(<<120>>, v), Member(<<121>>, Seven)>>), Seven>>) : v \in Few}
        \cup {Box("object", <<Member(<<120>>, Box("object", <<Member(<<121>>, v)>>))>>) : v \in Few}
Odd == {Box("array", <<v, Seven>>) : v \in Raws \cup {NotFinite}}
       \cup {Box("object", <<Member(<<120>>, v), Member(<<47, 42>>, Seven)>>) : v \in Raws \cup {NotFinite}}
MCValues == Leaves \cup Few \cup Flat \cup Deep \cup Odd

Unit == {65, 127, 128, 2047, 2048, 55295, 55296, 56319, 56320, 57343, 57344, 65535}
MCUnits == {<<u>> : u \in Unit} \cup {<<u, w>> : u, w \in Unit} \cup {<<55296, 56320, u>> : u \in Unit}

(* Only "A" and "a" differ in case alone. *)
MCLower(k) == IF k = "A" THEN "a" ELSE k

Kit(leaves, names, refs, nodes, mallocs) ==
    [leaves |-> leaves, names |-> names, refs |-> refs, nodes |-> nodes, mallocs |-> mallocs]
Of(kind, text) == [kind |-> kind, text |-> text]

MCKits == {
    Kit({Of("array", "")}, {}, FALSE, 4, {0, 12}),
    Kit({Of("object", "")}, {"a", "A"}, FALSE, 3, {1, 9}),
    Kit({Of("array", ""), Of("object", "")}, {"a"}, FALSE, 3, {9}),
    Kit({Of("array", ""), Of("number", "1"), Of("number", "NaN")}, {}, TRUE, 3, {9}),
    Kit({Of("string", "x"), Of("string", "y"), Of("raw", "x"), Of("true", "")}, {}, TRUE, 2, {9}),
    Kit({Of("array", ""), Of("string", "x")}, {"a"}, TRUE, 3, {2, 9}),
    Kit({Of("object", ""), Of("string", "x")}, {"a"}, TRUE, 3, {1, 2, 9})}

Tree == INSTANCE Cjson WITH Lower <- MCLower, NaN <- "NaN", Kits <- MCKits

MCInit ==
    \/ /\ editing = TRUE /\ Tree!Init
       /\ value = Leaf("null", << >>) /\ printed = None /\ wire = None /\ result = None
    \/ /\ editing = FALSE /\ Init
       /\ Tree!Init /\ kit = CHOOSE k \in MCKits : TRUE

MCNext ==
    \/ editing /\ Tree!Next /\ UNCHANGED <<editing, vars>>
    \/ ~editing /\ Next /\ UNCHANGED <<editing, tree>>

MCSpec == MCInit /\ [][MCNext]_<<editing, vars, tree>>

(* The properties of Cjson, in its terms (cJSON_Delete, add_item_to_array,   *)
(* cJSON_Compare and the rest of its functions).                             *)
HeapIsSound == Tree!HeapIsSound
ImplementsForest == Tree!ImplementsForest
=============================================================================
