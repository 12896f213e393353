------------------------------ MODULE PhpArray ------------------------------
(***************************************************************************)
(* What PHP promises about arrays: assignment copies.  Every variable      *)
(* holds an array value of its own; an operation on one variable changes   *)
(* that variable, and whatever is bound by reference to the element it     *)
(* writes through, and nothing else.                                       *)
(***************************************************************************)
EXTENDS ArrayValue

CONSTANTS
    Vars,       \* variables that hold arrays
    RVars,      \* variables bound by reference to an element
    NoArray,    \* the variable holds no array
    NoBox       \* the reference variable is unbound

VARIABLES
    arr,        \* the array value of each variable
    boxVal,     \* what each reference box holds
    bound       \* the box each reference variable is bound to

vars == <<arr, boxVal, bound>>

TypeOK ==
    /\ arr \in [Vars -> ArrayValues \cup {NoArray}]
    /\ boxVal \in [Boxes -> Vals]
    /\ bound \in [RVars -> Boxes \cup {NoBox}]

Init ==
    /\ arr = [v \in Vars |-> NoArray]
    /\ boxVal = [b \in Boxes |-> Null]
    /\ bound = [r \in RVars |-> NoBox]

Set(v, a) == arr' = [arr EXCEPT ![v] = a]

(* Boxes neither an element nor a variable refers to. *)
FreeBoxes ==
    {b \in Boxes : /\ \A r \in RVars : bound[r] # b
                   /\ \A v \in Vars : arr[v] # NoArray =>
                         \A k \in Keys : arr[v].elem[k] # b}

(* Write x under k: through the box if the element is a reference. *)
Write(v, a, k, x) ==
    IF a.elem[k] \in Boxes
    THEN Set(v, a) /\ boxVal' = [boxVal EXCEPT ![a.elem[k]] = x]
    ELSE Set(v, SetElem(a, k, x)) /\ UNCHANGED boxVal

-----------------------------------------------------------------------------
NewArray(v) ==
    Set(v, EmptyArray) /\ UNCHANGED <<boxVal, bound>>

Assign(u, v) ==
    arr[v] # NoArray /\ Set(u, arr[v]) /\ UNCHANGED <<boxVal, bound>>

Unset(v) ==
    arr[v] # NoArray /\ Set(v, NoArray) /\ UNCHANGED <<boxVal, bound>>

Insert(v, k, x) ==
    /\ arr[v] # NoArray
    /\ Write(v, RaiseMax(arr[v], k), k, x)
    /\ UNCHANGED bound

Push(v, x) ==
    /\ arr[v] # NoArray
    /\ arr[v].max < MaxInt
    /\ LET k == arr[v].max + 1
       IN  Write(v, RaiseMax(arr[v], k), k, x)
    /\ UNCHANGED bound

InsertRef(v, k, r) ==
    /\ arr[v] # NoArray
    /\ bound[r] # NoBox
    /\ Set(v, SetElem(RaiseMax(arr[v], k), k, bound[r]))
    /\ UNCHANGED <<boxVal, bound>>

(* $r = &$v[k]: the element is created when missing, and made a reference. *)
BindRef(v, k, r) ==
    /\ arr[v] # NoArray
    /\ \/ /\ arr[v].elem[k] \in Boxes
          /\ bound' = [bound EXCEPT ![r] = arr[v].elem[k]]
          /\ UNCHANGED <<arr, boxVal>>
       \/ /\ arr[v].elem[k] \notin Boxes
          /\ FreeBoxes # {}
          /\ LET b == CHOOSE b \in FreeBoxes : TRUE
             IN  /\ Set(v, SetElem(arr[v], k, b))
                 /\ boxVal' = [boxVal EXCEPT ![b] =
                        IF Has(arr[v], k) THEN arr[v].elem[k] ELSE Null]
                 /\ bound' = [bound EXCEPT ![r] = b]

WriteRef(r, x) ==
    /\ bound[r] # NoBox
    /\ boxVal' = [boxVal EXCEPT ![bound[r]] = x]
    /\ UNCHANGED <<arr, bound>>

Update(v, a) ==
    arr[v] # NoArray /\ Set(v, a) /\ UNCHANGED <<boxVal, bound>>

Remove(v, k) == Update(v, RemoveKey(arr[v], k))
Pop(v) == Update(v, PopTail(arr[v]))
Clear(v) == Update(v, EmptyArray)
Reset(v) == Update(v, Reset1(arr[v]))
End(v) == Update(v, ToEnd(arr[v]))
Advance(v) == Update(v, Advance1(arr[v]))
Prev(v) == Update(v, Prev1(arr[v]))

Sort(v) ==
    /\ arr[v] # NoArray
    /\ \E p \in Permutations1(Len(arr[v].order)) :
          \/ Update(v, SortSavingKeys(arr[v], p))
          \/ Len(arr[v].order) - 1 <= MaxInt
             /\ Update(v, SortTrashingKeys(arr[v], p))

-----------------------------------------------------------------------------
(* The variables that hold an array. *)
Held == {v \in Vars : arr[v] # NoArray}

Next ==
    \/ \E v \in Vars : NewArray(v)
    \/ \E v \in Held :
          \/ Unset(v) \/ Pop(v) \/ Clear(v)
          \/ Reset(v) \/ End(v) \/ Advance(v) \/ Prev(v)
          \/ \E u \in Vars \ {v} : Assign(u, v)
          \/ \E x \in Vals : Push(v, x)
          \/ \E k \in Keys : Remove(v, k) \/ \E x \in Vals : Insert(v, k, x)
          \/ \E k \in Keys, r \in RVars : InsertRef(v, k, r) \/ BindRef(v, k, r)
          \/ Sort(v)
    \/ \E r \in RVars, x \in Vals : WriteRef(r, x)

Spec == Init /\ [][Next]_vars

=============================================================================
