------------------------------- MODULE Cjson -------------------------------
(***************************************************************************)
(* cjson.c, the item functions: nodes linked by next, prev and child,      *)
(* the strings they own, and an allocator that may fail.                   *)
(*                                                                         *)
(* The caller keeps to the contract of the library: an item is added to    *)
(* one place only, never to itself or below itself, and what a reference   *)
(* refers to is left alone while the reference exists.                     *)
(***************************************************************************)
EXTENDS Integers, SequencesExt

CONSTANTS
    Lower(_),       \* a key in lower case
    NaN,            \* the text of the number that is not equal to itself
    Kits            \* what a caller uses: [leaves, names, refs, nodes, mallocs]

VARIABLES
    kit,            \* the items it creates, the keys, whether it makes references;
                    \* bounds: nodes at a time, allocations that succeed in a call
    heap,           \* the allocated nodes
    strings,        \* how many strings are allocated
    roots,          \* the items the caller holds
    damaged         \* freed memory was used

vars == <<kit, heap, strings, roots, damaged>>

NULL == 0

(* a node; text stands for valuestring or valuedouble, and str names the     *)
(* node whose string valuestring is                                          *)
Node == [kind |-> "invalid", ref |-> FALSE, const |-> FALSE, key |-> "", text |-> "", str |-> NULL,
         next |-> NULL, prev |-> NULL, child |-> NULL]
Empty(kind) == [kind |-> kind, text |-> ""]

(* a call works on the memory and a number of allocations that will succeed *)
Memory(left) == [heap |-> heap, strings |-> strings, left |-> left, damaged |-> damaged]
Fresh(m) == CHOOSE n \in 1..(kit.nodes + 1) : n \notin DOMAIN m.heap /\ \A k \in 1..(n - 1) : k \in DOMAIN m.heap
Set(m, n, node) == [m EXCEPT !.heap = [x \in DOMAIN @ \cup {n} |-> IF x = n THEN node ELSE @[x]]]

-----------------------------------------------------------------------------
(* Allocation and deletion *)

(* cJSON_New_Item: NULL when the allocation fails *)
cJSON_New_Item(m) ==
    IF m.left = 0 THEN [m |-> m, item |-> NULL]
    ELSE [m |-> [Set(m, Fresh(m), Node) EXCEPT !.left = @ - 1], item |-> Fresh(m)]

(* cJSON_strdup: one more string, or a failure *)
cJSON_strdup(m) ==
    IF m.left = 0 THEN [m |-> m, ok |-> FALSE]
    ELSE [m |-> [m EXCEPT !.left = @ - 1, !.strings = @ + 1], ok |-> TRUE]

(* the strings a node frees: its value unless it is a reference, its key     *)
(* unless the key is constant                                                *)
OwnedStrings(node) ==
    (IF node.str # NULL /\ ~node.ref THEN 1 ELSE 0) + (IF node.key # "" /\ ~node.const THEN 1 ELSE 0)

FreeNode(m, n) ==
    [m EXCEPT !.heap = [x \in DOMAIN @ \ {n} |-> @[x]], !.strings = @ - OwnedStrings(m.heap[n])]

RECURSIVE cJSON_Delete(_, _)
cJSON_Delete(m, item) ==
    IF item = NULL THEN m
    ELSE IF item \notin DOMAIN m.heap THEN [m EXCEPT !.damaged = TRUE]
    ELSE LET node == m.heap[item]
             m1 == IF node.ref THEN m ELSE cJSON_Delete(m, node.child)
         IN  IF item \notin DOMAIN m1.heap THEN [m1 EXCEPT !.damaged = TRUE]
             ELSE cJSON_Delete(FreeNode(m1, item), node.next)

(* the cJSON_Create functions; a string or raw item also copies its text *)
cJSON_Create(m, leaf) ==
    LET n == cJSON_New_Item(m)
        node == [Node EXCEPT !.kind = leaf.kind, !.text = leaf.text]
        made == Set(n.m, n.item, node)
        text == cJSON_strdup(made)
    IN  IF n.item = NULL THEN n
        ELSE IF leaf.kind \notin {"string", "raw"} THEN [n EXCEPT !.m = made]
        ELSE IF text.ok THEN [n EXCEPT !.m = Set(text.m, n.item, [node EXCEPT !.str = n.item])]
        ELSE [m |-> cJSON_Delete(made, n.item), item |-> NULL]

(* create_reference: the node's contents, not its name or its neighbours *)
create_reference(m, item) ==
    LET n == cJSON_New_Item(m)
    IN  IF n.item = NULL THEN n
        ELSE [n EXCEPT !.m = Set(n.m, n.item,
                [m.heap[item] EXCEPT !.key = "", !.ref = TRUE, !.next = NULL, !.prev = NULL])]

-----------------------------------------------------------------------------
(* Lists *)

RECURSIVE ListFrom(_, _)
ListFrom(h, n) == IF n = NULL THEN << >> ELSE <<n>> \o ListFrom(h, h[n].next)
Children(h, n) == ListFrom(h, h[n].child)

cJSON_GetArraySize(h, n) == Len(Children(h, n))
get_array_item(h, n, i) == IF i < cJSON_GetArraySize(h, n) THEN Children(h, n)[i + 1] ELSE NULL

(* the first item of that name; an item without a name is never found *)
SameName(a, b, case_sensitive) ==
    a # "" /\ b # "" /\ IF case_sensitive THEN a = b ELSE Lower(a) = Lower(b)
get_object_item(h, n, name, case_sensitive) ==
    LET found == {i \in DOMAIN Children(h, n) : SameName(h[Children(h, n)[i]].key, name, case_sensitive)}
    IN  IF found = {} THEN NULL ELSE Children(h, n)[CHOOSE i \in found : \A j \in found : i <= j]

suffix_object(m, prev, item) ==
    [m EXCEPT !.heap[prev].next = item, !.heap[item].prev = prev]

add_item_to_array(m, array, item) ==
    IF item = NULL THEN m
    ELSE IF m.heap[array].child = NULL THEN [m EXCEPT !.heap[array].child = item]
    ELSE suffix_object(m, Last(Children(m.heap, array)), item)

(* the new key is made before the old one is freed *)
add_item_to_object(m, object, name, item, constant_key) ==
    LET key == IF constant_key THEN [m |-> m, ok |-> TRUE] ELSE cJSON_strdup(m)
        node == m.heap[item]
        freed == IF node.key # "" /\ ~node.const THEN 1 ELSE 0
        renamed == [Set(key.m, item, [node EXCEPT !.key = name, !.const = constant_key])
                      EXCEPT !.strings = @ - freed]
    IN  IF item = NULL \/ ~key.ok THEN [m |-> m, ok |-> FALSE]
        ELSE [m |-> add_item_to_array(renamed, object, item), ok |-> TRUE]

(* the cJSON_Add..ToObject functions: an item that cannot be added is freed *)
cJSON_AddToObject_leaks(m, object, name, leaf) ==
    LET n == cJSON_Create(m, leaf)
    IN  IF n.item = NULL THEN m ELSE add_item_to_object(n.m, object, name, n.item, FALSE).m

cJSON_AddToObject(m, object, name, leaf) ==
    LET n == cJSON_Create(m, leaf)
        added == add_item_to_object(n.m, object, name, n.item, FALSE)
    IN  IF n.item = NULL THEN m
        ELSE IF added.ok THEN added.m ELSE cJSON_Delete(n.m, n.item)

(* cJSON_CreateIntArray, FloatArray, DoubleArray, StringArray: `count` items   *)
(* one behind the other, or nothing                                          *)
RECURSIVE FillArray(_, _, _, _)
FillArray(m, a, leaf, count) ==
    LET n == cJSON_Create(m, leaf)
    IN  IF count = 0 THEN [m |-> m, item |-> a]
        ELSE IF n.item = NULL THEN [m |-> cJSON_Delete(n.m, a), item |-> NULL]
        ELSE FillArray(add_item_to_array(n.m, a, n.item), a, leaf, count - 1)
cJSON_CreateArrayOf(m, leaf, count) ==
    LET a == cJSON_Create(m, Empty("array"))
    IN  IF a.item = NULL THEN a ELSE FillArray(a.m, a.item, leaf, count)

cJSON_DetachItemViaPointer(m, parent, item) ==
    LET node == m.heap[item]
        m1 == IF node.prev # NULL THEN [m EXCEPT !.heap[node.prev].next = node.next] ELSE m
        m2 == IF node.next # NULL THEN [m1 EXCEPT !.heap[node.next].prev = node.prev] ELSE m1
        m3 == IF item = m2.heap[parent].child THEN [m2 EXCEPT !.heap[parent].child = node.next] ELSE m2
    IN  IF item = NULL THEN m
        ELSE [m3 EXCEPT !.heap[item].prev = NULL, !.heap[item].next = NULL]

cJSON_InsertItemInArray(m, array, which, newitem) ==
    LET after == get_array_item(m.heap, array, which)
        before == m.heap[after].prev
        m1 == [m EXCEPT !.heap[newitem].next = after, !.heap[newitem].prev = before,
                        !.heap[after].prev = newitem]
    IN  IF after = NULL THEN add_item_to_array(m, array, newitem)
        ELSE IF after = m.heap[array].child THEN [m1 EXCEPT !.heap[array].child = newitem]
        ELSE [m1 EXCEPT !.heap[before].next = newitem]

cJSON_ReplaceItemViaPointer_cuts(m, parent, item, replacement) ==
    LET node == m.heap[item]
        m1 == [m EXCEPT !.heap[replacement].prev = node.prev]
        m3 == IF node.prev # NULL THEN [m1 EXCEPT !.heap[node.prev].next = replacement] ELSE m1
        m4 == IF m3.heap[parent].child = item THEN [m3 EXCEPT !.heap[parent].child = replacement] ELSE m3
    IN  IF item = NULL THEN m
        ELSE cJSON_Delete([m4 EXCEPT !.heap[item].next = NULL, !.heap[item].prev = NULL], item)

cJSON_ReplaceItemViaPointer(m, parent, item, replacement) ==
    LET node == m.heap[item]
        m1 == [m EXCEPT !.heap[replacement].next = node.next, !.heap[replacement].prev = node.prev]
        m2 == IF node.next # NULL THEN [m1 EXCEPT !.heap[node.next].prev = replacement] ELSE m1
        m3 == IF node.prev # NULL THEN [m2 EXCEPT !.heap[node.prev].next = replacement] ELSE m2
        m4 == IF m3.heap[parent].child = item THEN [m3 EXCEPT !.heap[parent].child = replacement] ELSE m3
    IN  IF item = NULL THEN m
        ELSE cJSON_Delete([m4 EXCEPT !.heap[item].next = NULL, !.heap[item].prev = NULL], item)

(* replace_item_in_object renames the replacement first, and it keeps that   *)
(* name when there is no item to replace; a failed copy leaves it unnamed    *)
renamed_for_object(m, name, replacement) ==
    LET node == m.heap[replacement]
        freed == IF node.key # "" /\ ~node.const THEN 1 ELSE 0
        key == cJSON_strdup([m EXCEPT !.strings = @ - freed])
    IN  Set(key.m, replacement, [node EXCEPT !.key = IF key.ok THEN name ELSE "", !.const = FALSE])

-----------------------------------------------------------------------------
(* Copies *)

(* one node with its strings; a constant key is shared, not copied *)
CopyNode(m, item) ==
    LET n == cJSON_New_Item(m)
        node == m.heap[item]
        bare == [node EXCEPT !.ref = FALSE, !.next = NULL, !.prev = NULL, !.child = NULL,
                             !.key = "", !.str = NULL]
        m1 == Set(n.m, n.item, bare)
        str == IF node.str # NULL THEN cJSON_strdup(m1) ELSE [m |-> m1, ok |-> TRUE]
        text == IF node.str # NULL THEN n.item ELSE NULL
        m2 == Set(str.m, n.item, [bare EXCEPT !.str = text])
        key == IF node.key # "" /\ ~node.const THEN cJSON_strdup(m2) ELSE [m |-> m2, ok |-> TRUE]
    IN  IF n.item = NULL THEN n
        ELSE IF ~str.ok THEN [m |-> cJSON_Delete(m1, n.item), item |-> NULL]
        ELSE IF ~key.ok THEN [m |-> cJSON_Delete(m2, n.item), item |-> NULL]
        ELSE [n EXCEPT !.m = Set(key.m, n.item, [bare EXCEPT !.str = text, !.key = node.key])]

RECURSIVE cJSON_Duplicate(_, _, _), CopyChildren(_, _, _, _)
cJSON_Duplicate(m, item, recurse) ==
    LET n == CopyNode(m, item)
    IN  IF n.item = NULL \/ ~recurse THEN n
        ELSE CopyChildren(n.m, n.item, m.heap[item].child, NULL)

(* the copies of the list from `child` on are linked behind `last` *)
CopyChildren(m, newitem, child, last) ==
    IF child = NULL THEN [m |-> m, item |-> newitem]
    ELSE LET c == cJSON_Duplicate(m, child, TRUE)
             linked == IF last = NULL THEN [c.m EXCEPT !.heap[newitem].child = c.item]
                       ELSE suffix_object(c.m, last, c.item)
         IN  IF c.item = NULL THEN [m |-> cJSON_Delete(c.m, newitem), item |-> NULL]
             ELSE CopyChildren(linked, newitem, m.heap[child].next, c.item)

RECURSIVE cJSON_Compare(_, _, _, _), AllIn(_, _, _, _)

(* every item of object a has an equal item of its name in object b *)
AllIn(h, a, b, case_sensitive) ==
    \A c \in ToSet(Children(h, a)) :
        LET o == get_object_item(h, b, h[c].key, case_sensitive)
        IN  o # NULL /\ cJSON_Compare(h, c, o, case_sensitive)


cJSON_Compare(h, a, b, case_sensitive) ==
    /\ h[a].kind = h[b].kind /\ h[a].kind # "invalid"
    /\ \/ a = b
       \/ h[a].kind \in {"true", "false", "null"}
       \/ h[a].kind = "number" /\ h[a].text = h[b].text /\ h[a].text # NaN
       \/ h[a].kind \in {"string", "raw"} /\ NULL \notin {h[a].str, h[b].str} /\ h[a].text = h[b].text
       \/ /\ h[a].kind = "array" /\ cJSON_GetArraySize(h, a) = cJSON_GetArraySize(h, b)
          /\ \A i \in DOMAIN Children(h, a) :
               cJSON_Compare(h, Children(h, a)[i], Children(h, b)[i], case_sensitive)
       \/ h[a].kind = "object" /\ AllIn(h, a, b, case_sensitive) /\ AllIn(h, b, a, case_sensitive)

-----------------------------------------------------------------------------
(* The caller *)

RECURSIVE Below(_, _), Owned(_, _)
Below(h, n) == {n} \cup UNION {Below(h, c) : c \in ToSet(Children(h, n))}
Owned(h, n) == {n} \cup IF h[n].ref THEN {} ELSE UNION {Owned(h, c) : c \in ToSet(Children(h, n))}

Reachable == UNION {Below(heap, r) : r \in roots}

(* what the references among `nodes` refer to: lists of items, and texts *)
ListsOf(nodes) == UNION {Below(heap, n) \ {n} : n \in {k \in nodes : heap[k].ref}}
TextsOf(nodes) == {heap[n].str : n \in {k \in nodes : heap[k].ref}} \ {NULL}

(* items that may be changed, moved under a box, or freed *)
Boxes(kinds) ==
    LET shared == ListsOf(Reachable)
    IN  {n \in Reachable \ shared : heap[n].kind \in kinds /\ ~heap[n].ref /\ heap[n].child \notin shared}
Movable(box) == {r \in roots : box \notin Below(heap, r)}
Disposable(item) ==
    LET kept == Reachable \ Owned(heap, item)
    IN  Owned(heap, item) \cap (ListsOf(kept) \cup TextsOf(kept)) = {}
Room(k) == Cardinality(DOMAIN heap) + k <= kit.nodes

(* A call is the set of what it may leave, the memory and the items the caller *)
(* then holds: empty where the caller may not make it.                       *)
Left(m, held) == {[m |-> m, held |-> held \ {NULL}]}
When(allowed, outcome) == IF allowed THEN outcome ELSE {}

Create(leaf, left) ==
    LET n == cJSON_Create(Memory(left), leaf)
    IN  When(Room(1), Left(n.m, roots \cup {n.item}))

CreateArrayOf(leaf, count, left) ==
    LET a == cJSON_CreateArrayOf(Memory(left), leaf, count)
    IN  When(Empty("array") \in kit.leaves /\ leaf.kind \in {"number", "string"} /\ Room(1 + count),
             Left(a.m, roots \cup {a.item}))

(* cJSON_CreateStringReference, ObjectReference, ArrayReference *)
CreateReference(item, left) ==
    LET n == create_reference(Memory(left), item)
    IN  When(kit.refs /\ Room(1) /\ ~heap[item].ref, Left(n.m, roots \cup {n.item}))

AddItemToArray(array, item) ==
    Left(add_item_to_array(Memory(0), array, item), roots \ {item})

AddItemToObject(object, name, item, constant_key, left) ==
    LET a == add_item_to_object(Memory(left), object, name, item, constant_key)
    IN  Left(a.m, IF a.ok THEN roots \ {item} ELSE roots)

AddToObject(object, name, leaf, left) ==
    When(Room(1), Left(cJSON_AddToObject(Memory(left), object, name, leaf), roots))

(* a reference that gets no name is added nowhere, and nobody holds it *)
AddItemReference(box, name, item, left) ==
    LET r == create_reference(Memory(left), item)
    IN  When(kit.refs /\ Room(1) /\ ~heap[item].ref /\ box \notin Below(heap, item),
             Left(IF heap[box].kind = "array" THEN add_item_to_array(r.m, box, r.item)
                  ELSE add_item_to_object(r.m, box, name, r.item, FALSE).m, roots))

DetachItem(box, item) ==
    Left(cJSON_DetachItemViaPointer(Memory(0), box, item), roots \cup {item})

DeleteItem(box, item) ==
    When(item # NULL => Disposable(item),
         Left(cJSON_Delete(cJSON_DetachItemViaPointer(Memory(0), box, item), item), roots))

(* the same for an item found by its index or its name.  The caller searches   *)
(* with regard to case only where every item has a name: strcmp needs one.   *)
DetachItemFromArray(array, which) == DetachItem(array, get_array_item(heap, array, which))
DeleteItemFromArray(array, which) == DeleteItem(array, get_array_item(heap, array, which))

Searchable(object, case_sensitive) ==
    case_sensitive => \A c \in ToSet(Children(heap, object)) : heap[c].key # ""
DetachItemFromObject(object, name, case_sensitive) ==
    When(Searchable(object, case_sensitive),
         DetachItem(object, get_object_item(heap, object, name, case_sensitive)))
DeleteItemFromObject(object, name, case_sensitive) ==
    When(Searchable(object, case_sensitive),
         DeleteItem(object, get_object_item(heap, object, name, case_sensitive)))

InsertItemInArray(array, which, item) ==
    Left(cJSON_InsertItemInArray(Memory(0), array, which, item), roots \ {item})

(* nothing is replaced when there is no such item *)
Replace(box, old, m, item) ==
    When(old # NULL => Disposable(old),
         Left(cJSON_ReplaceItemViaPointer(m, box, old, item), IF old = NULL THEN roots ELSE roots \ {item}))

ReplaceItemInArray(array, which, item) ==
    Replace(array, get_array_item(heap, array, which), Memory(0), item)

ReplaceItemInObject(object, name, item, case_sensitive, left) ==
    When(Searchable(object, case_sensitive),
         Replace(object, get_object_item(heap, object, name, case_sensitive),
                 renamed_for_object(Memory(left), name, item), item))

Duplicate(item, recurse, left) ==
    LET d == cJSON_Duplicate(Memory(left), item, recurse)
    IN  When(Room(Cardinality(Below(heap, item))), Left(d.m, roots \cup {d.item}))

Delete(item) == When(Disposable(item), Left(cJSON_Delete(Memory(0), item), roots \ {item}))

(* the caller makes the call *)
Return(outcomes) ==
    \E o \in outcomes :
        /\ heap' = o.m.heap /\ strings' = o.m.strings /\ damaged' = o.m.damaged
        /\ roots' = o.held /\ UNCHANGED kit

Init == kit \in Kits /\ heap = << >> /\ strings = 0 /\ roots = {} /\ damaged = FALSE

Indices == 0..(kit.nodes - 1)

Next ==
    \/ \E leaf \in kit.leaves, left \in kit.mallocs :
         Return(Create(leaf, left)) \/ \E count \in Indices : Return(CreateArrayOf(leaf, count, left))
    \/ \E item \in roots : Return(Delete(item))
    \/ \E item \in Reachable, left \in kit.mallocs :
         Return(CreateReference(item, left)) \/ \E recurse \in BOOLEAN : Return(Duplicate(item, recurse, left))
    \/ \E array \in Boxes({"array"}) : \E item \in Movable(array), which \in Indices :
         \/ Return(AddItemToArray(array, item))
         \/ Return(InsertItemInArray(array, which, item)) \/ Return(ReplaceItemInArray(array, which, item))
    \/ \E array \in Boxes({"array"}), which \in Indices :
         Return(DetachItemFromArray(array, which)) \/ Return(DeleteItemFromArray(array, which))
    \/ \E object \in Boxes({"object"}), name \in kit.names, left \in kit.mallocs :
         \/ \E leaf \in kit.leaves : Return(AddToObject(object, name, leaf, left))
         \/ \E item \in Movable(object), b \in BOOLEAN :
              \/ Return(AddItemToObject(object, name, item, b, left))
              \/ Return(ReplaceItemInObject(object, name, item, b, left))
    \/ \E object \in Boxes({"object"}), name \in kit.names, b \in BOOLEAN :
         Return(DetachItemFromObject(object, name, b)) \/ Return(DeleteItemFromObject(object, name, b))
    \/ \E box \in Boxes({"array", "object"}) :
         \/ \E item \in ToSet(Children(heap, box)) : Return(DetachItem(box, item)) \/ Return(DeleteItem(box, item))
         \/ \E item \in Reachable, name \in kit.names, left \in kit.mallocs :
              Return(AddItemReference(box, name, item, left))

Spec == Init /\ [][Next]_vars

-----------------------------------------------------------------------------
(* Properties *)

(* The links stay sound: the neighbours of a list point at each other, no    *)
(* item is first in its parent's list and has a predecessor, every owned     *)
(* item has one owner, an item the caller holds is in no list, and no call   *)
(* touches freed memory (add_item_to_array, cJSON_DetachItemViaPointer,      *)
(* cJSON_InsertItemInArray, cJSON_ReplaceItemViaPointer, cJSON_Delete).      *)
WellLinked ==
    /\ ~damaged
    /\ \A n \in DOMAIN heap : {heap[n].next, heap[n].prev} \subseteq DOMAIN heap \cup {NULL}
    /\ \A n \in Reachable :
         /\ heap[n].next # NULL => heap[heap[n].next].prev = n
         /\ heap[n].prev # NULL => heap[heap[n].prev].next = n
         /\ heap[n].child # NULL => heap[n].child \in DOMAIN heap /\ heap[heap[n].child].prev = NULL
         /\ n \in roots => heap[n].next = NULL /\ heap[n].prev = NULL
    /\ \A r1, r2 \in roots : r1 # r2 => Owned(heap, r1) \cap Owned(heap, r2) = {}

(* Whatever allocation fails, nothing is lost: every node is below an item   *)
(* the caller holds and every string belongs to a node, with one exception:  *)
(* cJSON_AddItemReferenceToObject drops a reference it could not name.       *)
NothingLeaks ==
    /\ \A n \in DOMAIN heap \ Reachable : heap[n].ref
    /\ strings = FoldSet(LAMBDA n, sum : OwnedStrings(heap[n]) + sum, 0, DOMAIN heap)

(* The heap is sound after every call: the two properties above together.    *)
HeapIsSound == WellLinked /\ NothingLeaks

RECURSIVE Value(_, _), Meaning(_)
Value(h, n) == [kind |-> h[n].kind, key |-> h[n].key, text |-> h[n].text,
                items |-> [i \in DOMAIN Children(h, n) |-> Value(h, Children(h, n)[i])]]

(* what an item stands for: the order of an object's items does not matter,  *)
(* and a NaN stands for nothing but itself                                   *)
Meaning(n) ==
    LET c == Children(heap, n)
    IN  IF heap[n].kind = "object" THEN <<"object", {<<heap[c[i]].key, Meaning(c[i])>> : i \in DOMAIN c}>>
        ELSE IF heap[n].text = NaN THEN <<"number", NaN, n>>
        ELSE <<heap[n].kind, heap[n].text, [i \in DOMAIN c |-> Meaning(c[i])]>>

(* an item in which the objects name all their items, each differently, also *)
(* in lower case                                                             *)
Proper(n) ==
    \A o \in {k \in Below(heap, n) : heap[k].kind = "object"} :
        LET c == Children(heap, o)
        IN  /\ \A i \in DOMAIN c : heap[c[i]].key # ""
            /\ \A i, j \in DOMAIN c : i # j => Lower(heap[c[i]].key) # Lower(heap[c[j]].key)


ValuesOf(h, held) == [r \in held |-> Value(h, r)]
Forest == INSTANCE JsonForest WITH forest <- ValuesOf(heap, roots)

(* where a node is: below which item of the caller, and at which place *)
RECURSIVE NodeAt(_, _)
NodeAt(n, p) == IF p = << >> THEN n ELSE NodeAt(Children(heap, n)[Head(p)], Tail(p))
Spot(n) == CHOOSE s \in Forest!Spots : NodeAt(s[1], s[2]) = n
Place(box, item) == SelectInSeq(Children(heap, box), LAMBDA n : n = item)
LeafValue(leaf) == Forest!Leaf(leaf.kind, leaf.text)

(* an item and its two strings can be allocated for every node *)
Scarce(left) == left < 3 * kit.nodes

CreatingKept ==
    \A left \in kit.mallocs :
        /\ \A leaf \in kit.leaves :
             /\ \A o \in Create(leaf, left) : Forest!Creates(ValuesOf(o.m.heap, o.held), LeafValue(leaf), Scarce(left))
             /\ \A count \in Indices : \A o \in CreateArrayOf(leaf, count, left) :
                  Forest!CreatesArray(ValuesOf(o.m.heap, o.held), LeafValue(leaf), count, Scarce(left))
        /\ \A item \in Reachable :
             /\ \A o \in CreateReference(item, left) :
                  Forest!RefersTo(ValuesOf(o.m.heap, o.held), Spot(item), Scarce(left))
             /\ \A recurse \in BOOLEAN : \A o \in Duplicate(item, recurse, left) :
                  Forest!Duplicates(ValuesOf(o.m.heap, o.held), Spot(item), recurse, Scarce(left))

ArraysKept ==
    \A array \in Boxes({"array"}), which \in Indices :
        LET s == Spot(array)
            i == Forest!Position(s, which)
        IN  /\ \A o \in DetachItemFromArray(array, which) : Forest!Detaches(ValuesOf(o.m.heap, o.held), s, i)
            /\ \A o \in DeleteItemFromArray(array, which) : Forest!Deletes(ValuesOf(o.m.heap, o.held), s, i)
            /\ \A item \in Movable(array) :
                 /\ \A o \in AddItemToArray(array, item) : Forest!Appends(ValuesOf(o.m.heap, o.held), s, item)
                 /\ \A o \in InsertItemInArray(array, which, item) :
                      Forest!Inserts(ValuesOf(o.m.heap, o.held), s, item, which)
                 /\ \A o \in ReplaceItemInArray(array, which, item) :
                      Forest!Replaces(ValuesOf(o.m.heap, o.held), s, i, item, heap[item].key)

ObjectsKept ==
    \A object \in Boxes({"object"}), name \in kit.names, b \in BOOLEAN :
        LET s == Spot(object)
            i == Forest!NamePosition(s, name, b)
        IN  /\ \A o \in DetachItemFromObject(object, name, b) : Forest!Detaches(ValuesOf(o.m.heap, o.held), s, i)
            /\ \A o \in DeleteItemFromObject(object, name, b) : Forest!Deletes(ValuesOf(o.m.heap, o.held), s, i)
            /\ \A left \in kit.mallocs :
                 /\ \A leaf \in kit.leaves : \A o \in AddToObject(object, name, leaf, left) :
                      Forest!Adds(ValuesOf(o.m.heap, o.held), s, LeafValue(leaf), name, Scarce(left))
                 /\ \A item \in Movable(object) :
                      /\ \A o \in AddItemToObject(object, name, item, b, left) :
                           Forest!AppendsNamed(ValuesOf(o.m.heap, o.held), s, item, name, Scarce(left) /\ ~b)
                      /\ \A o \in ReplaceItemInObject(object, name, item, b, left) :
                           Forest!ReplacesNamed(ValuesOf(o.m.heap, o.held), s, name, b, item, Scarce(left))

BoxesKept ==
    \A box \in Boxes({"array", "object"}) :
        LET s == Spot(box)
            Key(name) == IF heap[box].kind = "array" THEN "" ELSE name
        IN  /\ \A item \in ToSet(Children(heap, box)) :
                 /\ \A o \in DetachItem(box, item) : Forest!Detaches(ValuesOf(o.m.heap, o.held), s, Place(box, item))
                 /\ \A o \in DeleteItem(box, item) : Forest!Deletes(ValuesOf(o.m.heap, o.held), s, Place(box, item))
            /\ \A item \in Reachable, name \in kit.names, left \in kit.mallocs :
                 \A o \in AddItemReference(box, name, item, left) :
                    Forest!Adds(ValuesOf(o.m.heap, o.held), s, Value(heap, item), Key(name), Scarce(left))

(* Seen through the values of the caller's items, every call the caller may  *)
(* make does what cjson.h promises of it for its arguments, and changes no   *)
(* other value: an item goes to the end or to the index asked for, and the   *)
(* item with the index or the first with the name is the one that leaves, is *)
(* deleted or is replaced.  The pointer surgery of add_item_to_array,        *)
(* cJSON_InsertItemInArray, cJSON_DetachItemViaPointer,                      *)
(* cJSON_ReplaceItemViaPointer and cJSON_Duplicate implements JsonForest.    *)
ImplementsForest ==
    /\ CreatingKept /\ ArraysKept /\ ObjectsKept /\ BoxesKept
    /\ \A item \in roots : \A o \in Delete(item) : Forest!Drops(ValuesOf(o.m.heap, o.held), item)
=============================================================================
