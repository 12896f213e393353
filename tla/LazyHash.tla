------------------------------ MODULE LazyHash ------------------------------
(***************************************************************************)
(* The lazy copies of runtime/php-hash.scm.  A copy of a table is a new    *)
(* table structure with its own array pointer and maximum key that SHARES  *)
(* the entries (buckets, head, tail) and a counter cell with the original, *)
(* and adds one to the counter.  An operation that may write first calls   *)
(* %force-copy!: if the counter is not zero the table gets entries of its  *)
(* own, takes one off the old counter, and starts a counter at zero.       *)
(* Nothing is ever subtracted for a table that becomes garbage.            *)
(*                                                                         *)
(* The entry structure itself is HashTable's subject; here the entries of  *)
(* a table are a store, [order, elem] in the notation of ArrayValue.  What *)
(* has to hold is that a table writes to a store only when no other table  *)
(* uses it: LazyHash implements PhpArray.                                  *)
(***************************************************************************)
EXTENDS ArrayValue, FiniteSets

CONSTANTS
    Vars, RVars, NoArray, NoBox,
    Stores,     \* identities of shared entry structures
    Cells,      \* identities of counter cells
    MaxCount    \* bound: copies are not made beyond this count

ASSUME LazyAssumption ==
    /\ IsFiniteSet(Vars)
    /\ MaxCount \in Nat
    /\ NoArray \notin [store: Stores, cell: Cells,
                       cur: Keys \cup {AtEnd}, max: -1 .. MaxInt]
    /\ NoArray \notin ArrayValues
    /\ NoBox \notin Boxes

VARIABLES
    tab,        \* the table structure of each variable
    store,      \* the entries in each store
    count,      \* the number in each counter cell
    boxVal, bound

vars == <<tab, store, count, boxVal, bound>>

Tables ==
    [store: Stores, cell: Cells, cur: Keys \cup {AtEnd}, max: -1 .. MaxInt]

TypeOK ==
    /\ tab \in [Vars -> Tables \cup {NoArray}]
    /\ store \in [Stores -> [order: Seq(Keys),
                             elem: [Keys -> Elems \cup {Absent}]]]
    /\ count \in [Cells -> Nat]
    /\ boxVal \in [Boxes -> Vals]
    /\ bound \in [RVars -> Boxes \cup {NoBox}]

EmptyStore == [order |-> <<>>, elem |-> [k \in Keys |-> Absent]]

Init ==
    /\ tab = [v \in Vars |-> NoArray]
    /\ store = [s \in Stores |-> EmptyStore]
    /\ count = [c \in Cells |-> 0]
    /\ boxVal = [b \in Boxes |-> Null]
    /\ bound = [r \in RVars |-> NoBox]

Live == {v \in Vars : tab[v] # NoArray}

(* What allocation may return: what no table uses. *)
FreeStores == {s \in Stores : \A v \in Live : tab[v].store # s}
FreeCells == {c \in Cells : \A v \in Live : tab[v].cell # c}
FreeBoxes ==
    {b \in Boxes : /\ \A r \in RVars : bound[r] # b
                   /\ \A v \in Live : \A k \in Keys :
                         store[tab[v].store].elem[k] # b}
NewStore == CHOOSE s \in FreeStores : TRUE
NewCell == CHOOSE c \in FreeCells : TRUE
CanAllocate == FreeStores # {} /\ FreeCells # {}

(* The array value a variable sees through its table. *)
View(v) ==
    [order |-> store[tab[v].store].order, elem |-> store[tab[v].store].elem,
     cur |-> tab[v].cur, max |-> tab[v].max]

-----------------------------------------------------------------------------
Shared(v) == count[tab[v].cell] > 0

(* Mutants of %force-copy!: it never copies; it starts no counter. *)
ForcedNever(v) == [tab |-> tab, store |-> store, count |-> count]

ForcedKeepingCell(v) ==
    IF Shared(v)
    THEN [tab |-> [tab EXCEPT ![v].store = NewStore],
          store |-> [store EXCEPT ![NewStore] = store[tab[v].store]],
          count |-> [count EXCEPT ![tab[v].cell] = @ - 1]]
    ELSE [tab |-> tab, store |-> store, count |-> count]

(* The state after %force-copy! on v. *)
Forced(v) ==
    IF Shared(v)
    THEN [tab |-> [tab EXCEPT ![v].store = NewStore, ![v].cell = NewCell],
          store |-> [store EXCEPT ![NewStore] = store[tab[v].store]],
          count |-> [count EXCEPT ![tab[v].cell] = @ - 1, ![NewCell] = 0]]
    ELSE [tab |-> tab, store |-> store, count |-> count]

(* Force v, then make its entries, pointer and maximum those of a. *)
Mutate(v, a) ==
    LET f == Forced(v)
    IN  /\ tab[v] # NoArray
        /\ CanAllocate
        /\ tab' = [f.tab EXCEPT ![v].cur = a.cur, ![v].max = a.max]
        /\ store' = [f.store EXCEPT ![f.tab[v].store] =
                        [order |-> a.order, elem |-> a.elem]]
        /\ count' = f.count

(* The operations that do not force touch only the table structure. *)
Point(v, a) ==
    /\ tab[v] # NoArray
    /\ tab' = [tab EXCEPT ![v].cur = a.cur]
    /\ UNCHANGED <<store, count, boxVal, bound>>

-----------------------------------------------------------------------------
NewArray(v) ==
    /\ CanAllocate
    /\ tab' = [tab EXCEPT ![v] = [store |-> NewStore, cell |-> NewCell,
                                  cur |-> AtEnd, max |-> -1]]
    /\ store' = [store EXCEPT ![NewStore] = EmptyStore]
    /\ count' = [count EXCEPT ![NewCell] = 0]
    /\ UNCHANGED <<boxVal, bound>>

(* Mutant: the copy is not counted. *)
AssignUncounted(u, v) ==
    /\ tab[v] # NoArray
    /\ count[tab[v].cell] < MaxCount
    /\ tab' = [tab EXCEPT ![u] = tab[v]]
    /\ UNCHANGED <<store, count, boxVal, bound>>

(* $u = $v.  The table u held before becomes garbage and is not uncounted. *)
Assign(u, v) ==
    /\ tab[v] # NoArray
    /\ count[tab[v].cell] < MaxCount
    /\ tab' = [tab EXCEPT ![u] = tab[v]]
    /\ count' = [count EXCEPT ![tab[v].cell] = @ + 1]
    /\ UNCHANGED <<store, boxVal, bound>>

Unset(v) ==
    /\ tab[v] # NoArray
    /\ tab' = [tab EXCEPT ![v] = NoArray]
    /\ UNCHANGED <<store, count, boxVal, bound>>

Write(v, a, k, x) ==
    IF a.elem[k] \in Boxes
    THEN Mutate(v, a) /\ boxVal' = [boxVal EXCEPT ![a.elem[k]] = x]
    ELSE Mutate(v, SetElem(a, k, x)) /\ UNCHANGED boxVal

(* Mutant: the key does not raise the maximum. *)
InsertLow(v, k, x) ==
    /\ tab[v] # NoArray
    /\ Write(v, View(v), k, x)
    /\ UNCHANGED bound

Insert(v, k, x) ==
    /\ tab[v] # NoArray
    /\ Write(v, RaiseMax(View(v), k), k, x)
    /\ UNCHANGED bound

Push(v, x) ==
    /\ tab[v] # NoArray
    /\ tab[v].max < MaxInt
    /\ LET k == tab[v].max + 1
       IN  Write(v, RaiseMax(View(v), k), k, x)
    /\ UNCHANGED bound

InsertRef(v, k, r) ==
    /\ tab[v] # NoArray
    /\ bound[r] # NoBox
    /\ Mutate(v, SetElem(RaiseMax(View(v), k), k, bound[r]))
    /\ UNCHANGED <<boxVal, bound>>

BindRef(v, k, r) ==
    /\ tab[v] # NoArray
    /\ \/ /\ View(v).elem[k] \in Boxes
          /\ Mutate(v, View(v))
          /\ bound' = [bound EXCEPT ![r] = View(v).elem[k]]
          /\ UNCHANGED boxVal
       \/ /\ View(v).elem[k] \notin Boxes
          /\ FreeBoxes # {}
          /\ LET b == CHOOSE b \in FreeBoxes : TRUE
             IN  /\ Mutate(v, SetElem(View(v), k, b))
                 /\ boxVal' = [boxVal EXCEPT ![b] =
                        IF Has(View(v), k) THEN View(v).elem[k] ELSE Null]
                 /\ bound' = [bound EXCEPT ![r] = b]

WriteRef(r, x) ==
    /\ bound[r] # NoBox
    /\ boxVal' = [boxVal EXCEPT ![bound[r]] = x]
    /\ UNCHANGED <<tab, store, count, bound>>

Update(v, a) == Mutate(v, a) /\ UNCHANGED <<boxVal, bound>>

(* lookups for writing, and current(): they force, and only that. *)
Touch(v) == tab[v] # NoArray /\ Update(v, View(v))

Remove(v, k) == Update(v, RemoveKey(View(v), k))
Pop(v) == Update(v, PopTail(View(v)))
Clear(v) == Update(v, EmptyArray)
Reset(v) == Point(v, Reset1(View(v)))
End(v) == Point(v, ToEnd(View(v)))
Advance(v) == Point(v, Advance1(View(v)))
Prev(v) == Point(v, Prev1(View(v)))

Sort(v) ==
    /\ tab[v] # NoArray
    /\ \E p \in Permutations1(Len(View(v).order)) :
          \/ Update(v, SortSavingKeys(View(v), p))
          \/ Len(View(v).order) - 1 <= MaxInt
             /\ Update(v, SortTrashingKeys(View(v), p))

-----------------------------------------------------------------------------
Next ==
    \/ \E v \in Vars :
          \/ NewArray(v) \/ Unset(v) \/ Touch(v)
          \/ Pop(v) \/ Clear(v) \/ Sort(v)
          \/ Reset(v) \/ End(v) \/ Advance(v) \/ Prev(v)
          \/ \E u \in Vars \ {v} : Assign(u, v)
          \/ \E x \in Vals : Push(v, x)
          \/ \E k \in Keys : Remove(v, k) \/ \E x \in Vals : Insert(v, k, x)
          \/ \E k \in Keys, r \in RVars : InsertRef(v, k, r) \/ BindRef(v, k, r)
    \/ \E r \in RVars, x \in Vals : WriteRef(r, x)

Spec == Init /\ [][Next]_vars

-----------------------------------------------------------------------------
(* Who shares a counter cell, and who shares a store. *)
Sharers(c) == {v \in Live : tab[v].cell = c}

(* A table whose counter is zero is the only user of its entries, so       *)
(* %force-copy! may let it write in place.  (php-hash.scm %php-hash-shared?) *)
ZeroMeansSole ==
    \A u, v \in Live :
        u # v /\ tab[u].store = tab[v].store => Shared(u) /\ Shared(v)

(* The strengthening: tables share a store exactly when they share a       *)
(* counter, and a counter never falls below the number of other sharers.   *)
StoreIffCell ==
    \A u, v \in Live : (tab[u].store = tab[v].store) <=> (tab[u].cell = tab[v].cell)

CountsSharers ==
    \A v \in Live : Cardinality(Sharers(tab[v].cell)) <= count[tab[v].cell] + 1

(* What every variable sees is a well-formed array: in particular no copy  *)
(* is left with its array pointer at an entry another table removed.       *)
ViewsWellFormed == \A v \in Live : WellFormed(View(v))

IInv == TypeOK /\ StoreIffCell /\ CountsSharers /\ ViewsWellFormed

(* list-append-php-hash says it uses the "next available keys": no element  *)
(* is under the key that [] is about to use, so [] adds and never replaces. *)
PushIsFresh ==
    [][\A v \in Vars, x \in Vals :
         Push(v, x) => ~Has(View(v), tab[v].max + 1)]_vars

(* Copying on write keeps PHP's promise: every variable changes as if it   *)
(* had a value of its own.                                                 *)
ArrOf == [v \in Vars |-> IF tab[v] = NoArray THEN NoArray ELSE View(v)]
Promise == INSTANCE PhpArray WITH arr <- ArrOf
ImplementsPhpArray == Promise!Spec

=============================================================================
