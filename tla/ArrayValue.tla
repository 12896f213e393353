----------------------------- MODULE ArrayValue -----------------------------
(***************************************************************************)
(* The value of a PHP array, and what the operations of                    *)
(* runtime/php-hash.scm do to that value, apart from how the value is      *)
(* stored.  An array value is a record                                     *)
(*   order  the keys in the order of the entry list                        *)
(*   elem   the element under each key: a value, the box of a reference    *)
(*          (a container whose tag is 3), or Absent                        *)
(*   cur    the key of the current entry (the array pointer), or AtEnd,    *)
(*          which is the sentinel                                          *)
(*   max    the maximum integer key, -1 in a new array                     *)
(* PhpArray is the specification in which every variable holds such a      *)
(* value of its own; LazyHash and HashTable are the implementations.       *)
(***************************************************************************)
EXTENDS Integers, Sequences

CONSTANTS
    MaxInt,     \* the largest integer key of an instance
    StrKeys,    \* keys that are strings and not numbers
    Vals,       \* what an element may hold
    Null,       \* PHP's NULL
    Boxes,      \* containers that were made references
    Absent,     \* no element under this key
    AtEnd       \* the sentinel, as an array pointer

IntKeys == 0 .. MaxInt
Keys == IntKeys \cup StrKeys
Elems == Vals \cup Boxes

ASSUME ConstantsAssumption ==
    /\ MaxInt \in Nat
    /\ Null \in Vals
    /\ Vals \cap Boxes = {}
    /\ Absent \notin Elems
    /\ \A k \in StrKeys : k \notin Int
    /\ AtEnd \notin Keys

ArrayValues ==
    [order: Seq(Keys), elem: [Keys -> Elems \cup {Absent}],
     cur: Keys \cup {AtEnd}, max: -1 .. MaxInt]

(* The entry list names the present keys, each once, and the array pointer *)
(* is at one of them or at the sentinel.                                   *)
WellFormed(a) ==
    /\ \A i \in 1 .. Len(a.order) : a.elem[a.order[i]] # Absent
    /\ \A k \in Keys : a.elem[k] # Absent =>
          \E i \in 1 .. Len(a.order) : a.order[i] = k
    /\ \A i, j \in 1 .. Len(a.order) : a.order[i] = a.order[j] => i = j
    /\ a.cur # AtEnd => a.elem[a.cur] # Absent

EmptyArray ==
    [order |-> <<>>, elem |-> [k \in Keys |-> Absent],
     cur |-> AtEnd, max |-> -1]

Has(a, k) == a.elem[k] # Absent

-----------------------------------------------------------------------------
(* The entry list. *)

Head1(a) == IF a.order = <<>> THEN AtEnd ELSE a.order[1]
Tail1(a) == IF a.order = <<>> THEN AtEnd ELSE a.order[Len(a.order)]

Place(a, k) == CHOOSE i \in 1 .. Len(a.order) : a.order[i] = k
NextKey(a, k) ==
    IF Place(a, k) = Len(a.order) THEN AtEnd ELSE a.order[Place(a, k) + 1]
PrevKey(a, k) ==
    IF Place(a, k) = 1 THEN AtEnd ELSE a.order[Place(a, k) - 1]

Without(a, k) ==
    [i \in 1 .. Len(a.order) - 1 |->
        IF i < Place(a, k) THEN a.order[i] ELSE a.order[i + 1]]

-----------------------------------------------------------------------------
(* Insertion.  An integer key that is not below the maximum becomes the    *)
(* maximum; a lookup that creates the element leaves the maximum alone.    *)

RaiseMax(a, k) ==
    IF k \in IntKeys /\ k > a.max THEN [a EXCEPT !.max = k] ELSE a

(* A new entry goes to the tail, and becomes current when nothing is.      *)
SetElem(a, k, e) ==
    IF Has(a, k)
    THEN [a EXCEPT !.elem = [@ EXCEPT ![k] = e]]
    ELSE [order |-> Append(a.order, k), elem |-> [a.elem EXCEPT ![k] = e],
          cur |-> IF a.cur = AtEnd THEN k ELSE a.cur, max |-> a.max]

-----------------------------------------------------------------------------
(* Removal.  The array pointer moves off an entry that goes away.          *)

RemoveKey(a, k) ==
    IF Has(a, k)
    THEN [order |-> Without(a, k), elem |-> [a.elem EXCEPT ![k] = Absent],
          cur |-> IF a.cur = k THEN NextKey(a, k) ELSE a.cur, max |-> a.max]
    ELSE a

(* array_pop: the tail, and the maximum drops by one if it was the maximum. *)
PopTail(a) ==
    IF a.order = <<>> THEN a
    ELSE LET b == RemoveKey(a, Tail1(a))
         IN  IF Tail1(a) = a.max THEN [b EXCEPT !.max = @ - 1] ELSE b

-----------------------------------------------------------------------------
(* The array pointer. *)

Reset1(a) == [a EXCEPT !.cur = Head1(a)]
ToEnd(a) == [a EXCEPT !.cur = Tail1(a)]
Advance1(a) == IF a.cur = AtEnd THEN a ELSE [a EXCEPT !.cur = NextKey(a, @)]
Prev1(a) == IF a.cur = AtEnd THEN a ELSE [a EXCEPT !.cur = PrevKey(a, @)]

-----------------------------------------------------------------------------
(* Sorting: the comparison is the caller's, so the result may be any       *)
(* permutation p of the entries.  The table is cleared and the elements    *)
(* inserted again, under their old keys or under 0, 1, 2...                *)

Permutations1(n) ==
    {p \in [1 .. n -> 1 .. n] :
        /\ \A i, j \in 1 .. n : p[i] = p[j] => i = j
        /\ \A j \in 1 .. n : \E i \in 1 .. n : p[i] = j}

MaxIntIn(ks) ==
    IF ks \cap IntKeys = {} THEN -1
    ELSE CHOOSE k \in ks \cap IntKeys : \A j \in ks \cap IntKeys : j <= k

Reinserted(order, elem) ==
    [order |-> order, elem |-> elem,
     cur |-> IF order = <<>> THEN AtEnd ELSE order[1],
     max |-> MaxIntIn({order[i] : i \in 1 .. Len(order)})]

SortSavingKeys(a, p) ==
    Reinserted([i \in 1 .. Len(a.order) |-> a.order[p[i]]], a.elem)

SortTrashingKeys(a, p) ==
    LET n == Len(a.order)
    IN  Reinserted([i \in 1 .. n |-> i - 1],
                   [k \in Keys |-> IF k \in 0 .. n - 1
                                   THEN a.elem[a.order[p[k + 1]]]
                                   ELSE Absent])

=============================================================================
