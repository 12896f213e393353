--------------------------- MODULE LazyHashProofs ---------------------------
(***************************************************************************)
(* Lazy copying is safe: the proofs that a table with a zero counter is    *)
(* the only user of its entries, that the views stay well formed, and that *)
(* LazyHash implements PhpArray, for any finite set of variables.          *)
(***************************************************************************)
EXTENDS LazyHash, FiniteSetTheorems, WellFoundedInduction, TLAPS

-----------------------------------------------------------------------------
(* Array values: every operation yields a well-formed one.                   *)
Good(a) == a \in ArrayValues /\ WellFormed(a)

(* A new array is good. *)
LEMMA EmptyGood == Good(EmptyArray)
BY ConstantsAssumption DEF Good, ArrayValues, WellFormed, EmptyArray

(* ->insert-key changes nothing but the maximum. *)
LEMMA RaiseMaxGood ==
    ASSUME NEW a, Good(a), NEW k \in Keys
    PROVE  /\ Good(RaiseMax(a, k))
           /\ RaiseMax(a, k).elem = a.elem
BY ConstantsAssumption DEF Good, ArrayValues, WellFormed, RaiseMax, IntKeys, Keys

(* Setting an element, new or old. *)
LEMMA SetElemGood ==
    ASSUME NEW a, Good(a), NEW k \in Keys, NEW e \in Elems
    PROVE  Good(SetElem(a, k, e))
<1> DEFINE b == SetElem(a, k, e)
<1>1. CASE Has(a, k)
  BY <1>1, ConstantsAssumption DEF Good, ArrayValues, WellFormed, SetElem, Has
<1>2. CASE ~Has(a, k)
  <2>1. b = [order |-> Append(a.order, k), elem |-> [a.elem EXCEPT ![k] = e],
             cur |-> IF a.cur = AtEnd THEN k ELSE a.cur, max |-> a.max]
    BY <1>2 DEF SetElem
  <2>2. b \in ArrayValues
    BY <2>1 DEF Good, ArrayValues
  <2>3. /\ Len(b.order) = Len(a.order) + 1
        /\ b.order[Len(a.order) + 1] = k
        /\ \A i \in 1 .. Len(a.order) : b.order[i] = a.order[i]
    BY <2>1 DEF Good, ArrayValues
  <2>4. /\ b.elem[k] = e
        /\ \A j \in Keys \ {k} : b.elem[j] = a.elem[j]
        /\ a.elem[k] = Absent
        /\ e # Absent
    BY <1>2, <2>1, ConstantsAssumption DEF Good, ArrayValues, Has
  <2>5. \A i \in 1 .. Len(a.order) : a.order[i] # k /\ a.order[i] \in Keys
    BY <2>4 DEF Good, ArrayValues, WellFormed
  <2>6. \A i \in 1 .. Len(b.order) : b.elem[b.order[i]] # Absent
    BY <2>3, <2>4, <2>5 DEF Good, ArrayValues, WellFormed
  <2>7. \A j \in Keys : b.elem[j] # Absent =>
           \E i \in 1 .. Len(b.order) : b.order[i] = j
    BY <2>3, <2>4, <2>5 DEF Good, ArrayValues, WellFormed
  <2>8. \A i, j \in 1 .. Len(b.order) : b.order[i] = b.order[j] => i = j
    BY <2>3, <2>5 DEF Good, ArrayValues, WellFormed
  <2>9. b.cur # AtEnd => b.elem[b.cur] # Absent
    BY <2>1, <2>4 DEF Good, ArrayValues, WellFormed
  <2>10. QED
    BY <2>2, <2>6, <2>7, <2>8, <2>9 DEF Good, WellFormed
<1>3. QED
  BY <1>1, <1>2

(* The place of a present key. *)
LEMMA PlaceOf ==
    ASSUME NEW a, Good(a), NEW k \in Keys, Has(a, k)
    PROVE  /\ Place(a, k) \in 1 .. Len(a.order)
           /\ a.order[Place(a, k)] = k
BY DEF Good, WellFormed, Place, Has

(* The neighbours of a present key are present keys or the sentinel. *)
LEMMA Neighbours ==
    ASSUME NEW a, Good(a), NEW k \in Keys, Has(a, k)
    PROVE  /\ NextKey(a, k) # AtEnd => NextKey(a, k) \in Keys /\ Has(a, NextKey(a, k))
           /\ PrevKey(a, k) # AtEnd => PrevKey(a, k) \in Keys /\ Has(a, PrevKey(a, k))
           /\ NextKey(a, k) # k
<1>1. Place(a, k) \in 1 .. Len(a.order) /\ a.order[Place(a, k)] = k
  BY PlaceOf
<1>2. Len(a.order) \in Nat /\ \A i \in 1 .. Len(a.order) : a.order[i] \in Keys
  BY DEF Good, ArrayValues
<1>3. QED
  BY <1>1, <1>2, ConstantsAssumption DEF NextKey, PrevKey, Good, WellFormed, Has

(* Removing a key. *)
LEMMA RemoveKeyGood ==
    ASSUME NEW a, Good(a), NEW k \in Keys
    PROVE  /\ Good(RemoveKey(a, k))
           /\ RemoveKey(a, k).max = a.max
<1> DEFINE b == RemoveKey(a, k)
<1> DEFINE p == Place(a, k)
<1> DEFINE n == Len(a.order)
<1>1. CASE ~Has(a, k)
  BY <1>1 DEF RemoveKey
<1>2. CASE Has(a, k)
  <2>1. p \in 1 .. n /\ a.order[p] = k /\ n \in Nat
    BY <1>2, PlaceOf DEF Good, ArrayValues
  <2>2. b = [order |-> Without(a, k), elem |-> [a.elem EXCEPT ![k] = Absent],
             cur |-> IF a.cur = k THEN NextKey(a, k) ELSE a.cur, max |-> a.max]
    BY <1>2 DEF RemoveKey
  <2>3. \A i \in 1 .. n : a.order[i] \in Keys
    BY DEF Good, ArrayValues
  <2>4. Without(a, k) \in Seq(Keys) /\ Len(Without(a, k)) = n - 1
    <3>1. \A i \in 1 .. n - 1 :
             (IF i < p THEN a.order[i] ELSE a.order[i + 1]) \in Keys
      BY <2>1, <2>3
    <3>2. Without(a, k) \in [1 .. n - 1 -> Keys]
      BY <3>1 DEF Without
    <3>3. n - 1 \in Nat
      BY <2>1
    <3>4. QED
      BY <3>2, <3>3
  <2>5. /\ Len(b.order) = n - 1
        /\ \A i \in 1 .. n - 1 :
              b.order[i] = IF i < p THEN a.order[i] ELSE a.order[i + 1]
    <3>1. b.order = Without(a, k)
      BY <2>2
    <3>2. \A i \in 1 .. n - 1 :
             Without(a, k)[i] = IF i < p THEN a.order[i] ELSE a.order[i + 1]
      BY DEF Without
    <3>3. QED
      BY <3>1, <3>2, <2>4
  <2>6. b.elem[k] = Absent /\ \A j \in Keys \ {k} : b.elem[j] = a.elem[j]
    BY <2>2 DEF Good, ArrayValues
  <2>7. NextKey(a, k) \in Keys \cup {AtEnd}
    BY <1>2, Neighbours
  <2>8. b \in ArrayValues /\ b.max = a.max
    BY <2>2, <2>4, <2>7 DEF Good, ArrayValues
  <2>9. \A i \in 1 .. n : a.order[i] = k => i = p
    BY <2>1 DEF Good, WellFormed
  <2>10. \A i \in 1 .. n - 1 : b.elem[b.order[i]] # Absent
    <3> SUFFICES ASSUME NEW i \in 1 .. n - 1
                 PROVE  b.elem[b.order[i]] # Absent
      OBVIOUS
    <3>1. PICK j \in 1 .. n : j # p /\ b.order[i] = a.order[j]
      <4>1. CASE i < p
        BY <4>1, <2>1, <2>5
      <4>2. CASE ~(i < p)
        BY <4>2, <2>1, <2>5
      <4>3. QED
        BY <4>1, <4>2
    <3>2. a.order[j] \in Keys \ {k} /\ a.elem[a.order[j]] # Absent
      BY <3>1, <2>3, <2>9 DEF Good, WellFormed
    <3>3. QED
      BY <3>1, <3>2, <2>6
  <2>11. \A j \in Keys : b.elem[j] # Absent =>
            \E i \in 1 .. n - 1 : b.order[i] = j
    <3> SUFFICES ASSUME NEW j \in Keys, b.elem[j] # Absent
                 PROVE  \E i \in 1 .. n - 1 : b.order[i] = j
      OBVIOUS
    <3>1. j # k /\ a.elem[j] # Absent
      BY <2>6
    <3>2. PICK i \in 1 .. n : a.order[i] = j
      BY <3>1 DEF Good, WellFormed
    <3>3. CASE i < p
      BY <3>2, <3>3, <2>1, <2>5
    <3>4. CASE i > p
      <4>1. i - 1 \in 1 .. n - 1 /\ ~(i - 1 < p)
        BY <3>4, <2>1
      <4>2. b.order[i - 1] = a.order[(i - 1) + 1]
        BY <4>1, <2>5
      <4>3. (i - 1) + 1 = i
        BY <2>1
      <4>4. QED
        BY <4>1, <4>2, <4>3, <3>2
    <3>5. i # p
      BY <3>1, <3>2, <2>1
    <3>6. QED
      BY <3>3, <3>4, <3>5, <2>1
  <2>12. \A i, j \in 1 .. n - 1 : b.order[i] = b.order[j] => i = j
    <3> SUFFICES ASSUME NEW i \in 1 .. n - 1, NEW j \in 1 .. n - 1,
                        b.order[i] = b.order[j]
                 PROVE  i = j
      OBVIOUS
    <3> DEFINE f(l) == IF l < p THEN l ELSE l + 1
    <3>1. /\ f(i) \in 1 .. n /\ b.order[i] = a.order[f(i)]
          /\ f(j) \in 1 .. n /\ b.order[j] = a.order[f(j)]
      BY <2>1, <2>5
    <3>2. f(i) = f(j)
      BY <3>1 DEF Good, WellFormed
    <3>3. QED
      BY <3>2, <2>1
  <2>13. b.cur # AtEnd => b.elem[b.cur] # Absent
    <3>1. CASE a.cur = k
      <4>1. b.cur = NextKey(a, k)
        BY <3>1, <2>2 DEF Good, ArrayValues
      <4>2. QED
        BY <4>1, <1>2, <2>6, Neighbours DEF Has
    <3>2. CASE a.cur # k
      <4>1. b.cur = a.cur /\ a.cur \in Keys \cup {AtEnd}
        BY <3>2, <2>2 DEF Good, ArrayValues
      <4>2. QED
        BY <4>1, <3>2, <2>6 DEF Good, WellFormed
    <3>3. QED
      BY <3>1, <3>2
  <2>14. QED
    BY <2>5, <2>8, <2>10, <2>11, <2>12, <2>13 DEF Good, WellFormed
<1>3. QED
  BY <1>1, <1>2

(* The ends of the entry list are present keys or the sentinel. *)
LEMMA EndsOf ==
    ASSUME NEW a, Good(a)
    PROVE  /\ Head1(a) # AtEnd => Head1(a) \in Keys /\ Has(a, Head1(a))
           /\ Tail1(a) # AtEnd => Tail1(a) \in Keys /\ Has(a, Tail1(a))
           /\ a.order # <<>> => Tail1(a) \in Keys /\ Has(a, Tail1(a))
BY DEF Good, ArrayValues, WellFormed, Head1, Tail1, Has

(* array_pop. *)
LEMMA PopTailGood ==
    ASSUME NEW a, Good(a)
    PROVE  Good(PopTail(a))
<1> DEFINE t == Tail1(a)
<1> DEFINE b == RemoveKey(a, t)
<1>1. CASE a.order = <<>>
  BY <1>1 DEF PopTail
<1>2. CASE a.order # <<>>
  <2>1. t \in Keys
    BY <1>2, EndsOf
  <2>2. Good(b) /\ b.max = a.max
    BY <2>1, RemoveKeyGood
  <2>3. PopTail(a) = IF t = a.max THEN [b EXCEPT !.max = @ - 1] ELSE b
    BY <1>2 DEF PopTail
  <2>4. CASE t = a.max
    <3>1. a.max \in -1 .. MaxInt
      BY DEF Good, ArrayValues
    <3>2. a.max \in 0 .. MaxInt
      BY <2>1, <2>4, <3>1, ConstantsAssumption DEF Keys, IntKeys
    <3>3. a.max - 1 \in -1 .. MaxInt
      BY <3>2, ConstantsAssumption
    <3>4. PopTail(a) = [b EXCEPT !.max = a.max - 1]
      BY <2>2, <2>3, <2>4
    <3>5. QED
      BY <2>2, <3>3, <3>4 DEF Good, ArrayValues, WellFormed
  <2>5. QED
    BY <2>2, <2>3, <2>4
<1>3. QED
  BY <1>1, <1>2

(* Moving the array pointer. *)
LEMMA PointerGood ==
    ASSUME NEW a, Good(a)
    PROVE  Good(Reset1(a)) /\ Good(ToEnd(a)) /\ Good(Advance1(a)) /\ Good(Prev1(a))
<1>1. ASSUME NEW c, c = AtEnd \/ (c \in Keys /\ Has(a, c))
      PROVE  Good([a EXCEPT !.cur = c])
  BY <1>1 DEF Good, ArrayValues, WellFormed, Has
<1>2. Good(Reset1(a)) /\ Good(ToEnd(a))
  BY <1>1, EndsOf DEF Reset1, ToEnd
<1>3. CASE a.cur = AtEnd
  BY <1>2, <1>3 DEF Advance1, Prev1
<1>4. CASE a.cur # AtEnd
  <2>1. a.cur \in Keys /\ Has(a, a.cur)
    BY <1>4 DEF Good, ArrayValues, WellFormed, Has
  <2>2. /\ Good([a EXCEPT !.cur = NextKey(a, a.cur)])
        /\ Good([a EXCEPT !.cur = PrevKey(a, a.cur)])
    BY <1>1, <2>1, Neighbours
  <2>3. QED
    BY <1>2, <1>4, <2>2 DEF Advance1, Prev1
<1>5. QED
  BY <1>3, <1>4

(* The maximum of a set of keys is an integer key, or -1. *)
LEMMA MaxIntInType ==
    ASSUME NEW ks
    PROVE  MaxIntIn(ks) \in -1 .. MaxInt
<1> DEFINE S == ks \cap IntKeys
<1> DEFINE T == {MaxInt - k : k \in S}
<1>1. CASE S = {}
  BY <1>1, ConstantsAssumption DEF MaxIntIn
<1>2. CASE S # {}
  <2>1. T \subseteq Nat /\ T # {}
    BY <1>2, ConstantsAssumption DEF IntKeys
  <2>2. PICK m \in T : \A n \in T : <<n, m>> \notin OpToRel(<, Nat)
    BY <2>1, NatLessThanWellFounded, WFMin
  <2>3. \A n \in T : m <= n
    <3> SUFFICES ASSUME NEW n \in T PROVE m <= n
      OBVIOUS
    <3>1. n \in Nat /\ m \in Nat
      BY <2>1
    <3>2. ~(n < m)
      BY <2>2, <3>1 DEF OpToRel
    <3>3. QED
      BY <3>1, <3>2
  <2>4. PICK k \in S : m = MaxInt - k
    OBVIOUS
  <2>5. \A j \in S : j <= k
    <3> SUFFICES ASSUME NEW j \in S PROVE j <= k
      OBVIOUS
    <3>1. MaxInt - k <= MaxInt - j
      BY <2>3, <2>4
    <3>2. MaxInt \in Int /\ j \in Int /\ k \in Int
      BY ConstantsAssumption DEF IntKeys
    <3>3. QED
      BY <3>1, <3>2
  <2>6. MaxIntIn(ks) \in S
    BY <1>2, <2>4, <2>5 DEF MaxIntIn
  <2>7. QED
    BY <2>6, ConstantsAssumption DEF IntKeys
<1>3. QED
  BY <1>1, <1>2

(* A list of distinct keys, and elements under exactly these, make an array. *)
LEMMA ReinsertedGood ==
    ASSUME NEW order \in Seq(Keys), NEW elem \in [Keys -> Elems \cup {Absent}],
           \A i \in 1 .. Len(order) : elem[order[i]] # Absent,
           \A k \in Keys : elem[k] # Absent =>
              \E i \in 1 .. Len(order) : order[i] = k,
           \A i, j \in 1 .. Len(order) : order[i] = order[j] => i = j
    PROVE  Good(Reinserted(order, elem))
<1> DEFINE b == Reinserted(order, elem)
<1>1. b.max \in -1 .. MaxInt
  BY MaxIntInType DEF Reinserted
<1>2. b.cur = AtEnd \/ (b.cur \in Keys /\ elem[b.cur] # Absent)
  BY DEF Reinserted
<1>3. b \in ArrayValues
  BY <1>1, <1>2 DEF Reinserted, ArrayValues
<1>4. b.order = order /\ b.elem = elem
  BY DEF Reinserted
<1>5. QED
  BY <1>2, <1>3, <1>4 DEF Good, WellFormed

(* Sorting, with the keys kept. *)
LEMMA SortSavingGood ==
    ASSUME NEW a, Good(a), NEW p \in Permutations1(Len(a.order))
    PROVE  Good(SortSavingKeys(a, p))
<1> DEFINE n == Len(a.order)
<1> DEFINE order == [i \in 1 .. n |-> a.order[p[i]]]
<1>1. n \in Nat /\ \A i \in 1 .. n : a.order[i] \in Keys
  BY DEF Good, ArrayValues
<1>2. \A i \in 1 .. n : p[i] \in 1 .. n
  BY DEF Permutations1
<1>3. order \in [1 .. n -> Keys]
  BY <1>1, <1>2
<1>4. order \in Seq(Keys) /\ Len(order) = n
  <2> HIDE DEF order
  <2>1. n \in Nat
    BY <1>1
  <2>2. order \in Seq(Keys)
    BY <1>3, <2>1
  <2>3. Len(order) = n
    BY <1>3, <2>1, <2>2
  <2>4. QED
    BY <2>2, <2>3
<1>5. \A i, j \in 1 .. n : p[i] = p[j] => i = j
  BY DEF Permutations1
<1>6. \A i, j \in 1 .. n : order[i] = order[j] => i = j
  BY <1>2, <1>5 DEF Good, WellFormed
<1>7. \A i \in 1 .. n : a.elem[order[i]] # Absent
  BY <1>2 DEF Good, WellFormed
<1>8. \A k \in Keys : a.elem[k] # Absent => \E i \in 1 .. n : order[i] = k
  <2> SUFFICES ASSUME NEW k \in Keys, a.elem[k] # Absent
               PROVE  \E i \in 1 .. n : order[i] = k
    OBVIOUS
  <2>1. PICK j \in 1 .. n : a.order[j] = k
    BY DEF Good, WellFormed
  <2>2. PICK i \in 1 .. n : p[i] = j
    BY DEF Permutations1
  <2>3. QED
    BY <2>1, <2>2
<1>9. a.elem \in [Keys -> Elems \cup {Absent}]
  BY DEF Good, ArrayValues
<1> HIDE DEF order
<1>10. Good(Reinserted(order, a.elem))
  BY <1>4, <1>6, <1>7, <1>8, <1>9, ReinsertedGood
<1>11. QED
  BY <1>10 DEF SortSavingKeys, order

(* Sorting, with the keys renumbered. *)
LEMMA SortTrashingGood ==
    ASSUME NEW a, Good(a), NEW p \in Permutations1(Len(a.order)),
           Len(a.order) - 1 <= MaxInt
    PROVE  Good(SortTrashingKeys(a, p))
<1> DEFINE n == Len(a.order)
<1> DEFINE order == [i \in 1 .. n |-> i - 1]
<1> DEFINE elem == [k \in Keys |-> IF k \in 0 .. n - 1
                                   THEN a.elem[a.order[p[k + 1]]]
                                   ELSE Absent]
<1>1. n \in Nat /\ \A i \in 1 .. n : a.order[i] \in Keys
  BY DEF Good, ArrayValues
<1>2. \A i \in 1 .. n : p[i] \in 1 .. n
  BY DEF Permutations1
<1>3. \A i \in 1 .. n : i - 1 \in Keys
  BY <1>1, ConstantsAssumption DEF Keys, IntKeys
<1>4. order \in Seq(Keys) /\ Len(order) = n
  <2>1. order \in [1 .. n -> Keys]
    BY <1>3
  <2>2. QED
    BY <1>1, <2>1
<1>5. \A k \in 0 .. n - 1 : k + 1 \in 1 .. n
  BY <1>1
<1>6. \A k \in 0 .. n - 1 : a.elem[a.order[p[k + 1]]] \in Elems
  <2> SUFFICES ASSUME NEW k \in 0 .. n - 1
               PROVE  a.elem[a.order[p[k + 1]]] \in Elems
    OBVIOUS
  <2>1. p[k + 1] \in 1 .. n
    BY <1>2, <1>5
  <2>2. a.order[p[k + 1]] \in Keys /\ a.elem[a.order[p[k + 1]]] # Absent
    BY <1>1, <2>1 DEF Good, WellFormed
  <2>3. QED
    BY <2>2 DEF Good, ArrayValues
<1>7. elem \in [Keys -> Elems \cup {Absent}]
  BY <1>6
<1>8. \A i \in 1 .. n : i - 1 \in 0 .. n - 1
  BY <1>1
<1>9. \A i \in 1 .. n : elem[order[i]] # Absent
  BY <1>3, <1>6, <1>8, ConstantsAssumption
<1>10. \A k \in Keys : elem[k] # Absent => \E i \in 1 .. n : order[i] = k
  <2> SUFFICES ASSUME NEW k \in Keys, elem[k] # Absent
               PROVE  \E i \in 1 .. n : order[i] = k
    OBVIOUS
  <2>1. k \in 0 .. n - 1
    OBVIOUS
  <2>2. k + 1 \in 1 .. n /\ order[k + 1] = k
    BY <1>1, <2>1
  <2>3. QED
    BY <2>2
<1>11. \A i, j \in 1 .. n : order[i] = order[j] => i = j
  BY <1>1
<1> HIDE DEF order, elem
<1>12. Good(Reinserted(order, elem))
  BY <1>4, <1>7, <1>9, <1>10, <1>11, ReinsertedGood
<1>13. QED
  BY <1>12 DEF SortTrashingKeys, order, elem

-----------------------------------------------------------------------------
(* Shared entries.                                                           *)

(* The allocator returns something no live table uses. *)
LEMMA Fresh ==
    ASSUME CanAllocate
    PROVE  /\ NewStore \in Stores /\ \A v \in Live : tab[v].store # NewStore
           /\ NewCell \in Cells /\ \A v \in Live : tab[v].cell # NewCell
BY DEF CanAllocate, NewStore, NewCell, FreeStores, FreeCells

(* What a live variable sees is a good array value. *)
LEMMA ViewGood ==
    ASSUME IInv, NEW v \in Live
    PROVE  Good(View(v))
<1>1. tab[v] \in Tables
  BY DEF IInv, TypeOK, Live
<1>2. store[tab[v].store] \in [order: Seq(Keys), elem: [Keys -> Elems \cup {Absent}]]
  BY <1>1 DEF IInv, TypeOK, Tables
<1>3. View(v) \in ArrayValues
  BY <1>1, <1>2 DEF View, ArrayValues, Tables
<1>4. QED
  BY <1>3 DEF Good, IInv, ViewsWellFormed

(* The size of a part of a finite set. *)
LEMMA PartOfFinite ==
    ASSUME NEW T, IsFiniteSet(T), NEW S \in SUBSET T
    PROVE  /\ IsFiniteSet(S)
           /\ Cardinality(S) <= Cardinality(T)
           /\ Cardinality(S) \in Nat
<1>1. IsFiniteSet(S) /\ Cardinality(S) <= Cardinality(T)
  BY FS_Subset, Zenon
<1>2. Cardinality(S) \in Nat
  BY <1>1, FS_CardinalityType, Zenon
<1>3. QED
  BY <1>1, <1>2

(* The sharers of a cell are finitely many. *)
LEMMA SharersFinite ==
    ASSUME NEW c
    PROVE  IsFiniteSet(Sharers(c)) /\ Cardinality(Sharers(c)) \in Nat
<1>1. Sharers(c) \in SUBSET Vars
  BY DEF Sharers, Live
<1>2. QED
  BY <1>1, LazyAssumption, PartOfFinite

(* The inductive invariant says what %force-copy! relies on. *)
THEOREM SoleOwner == IInv => ZeroMeansSole
<1> SUFFICES ASSUME IInv, NEW u \in Live, NEW v \in Live,
                    u # v, tab[u].store = tab[v].store
             PROVE  Shared(u) /\ Shared(v)
  BY DEF ZeroMeansSole
<1> DEFINE c == tab[v].cell
<1>1. tab[u].cell = c
  BY DEF IInv, StoreIffCell
<1>2. u \in Sharers(c) /\ v \in Sharers(c)
  BY <1>1 DEF Sharers
<1>3. IsFiniteSet({u}) /\ Cardinality({u}) = 1 /\ v \notin {u}
  BY FS_Singleton
<1>4. IsFiniteSet({u} \cup {v}) /\ Cardinality({u} \cup {v}) = 2
  <2>1. /\ IsFiniteSet({u} \cup {v})
        /\ Cardinality({u} \cup {v}) = IF v \in {u} THEN Cardinality({u})
                                       ELSE Cardinality({u}) + 1
    BY <1>3, FS_AddElement, Zenon
  <2>2. QED
    BY <1>3, <2>1
<1>5. {u} \cup {v} \in SUBSET Sharers(c)
  BY <1>2
<1>6. 2 <= Cardinality(Sharers(c))
  <2>1. IsFiniteSet(Sharers(c))
    BY SharersFinite
  <2>2. Cardinality({u} \cup {v}) <= Cardinality(Sharers(c))
    BY <1>5, <2>1, PartOfFinite
  <2>3. QED
    BY <1>4, <2>2
<1>7. Cardinality(Sharers(c)) <= count[c] + 1
  BY DEF IInv, CountsSharers
<1>8. count[c] \in Nat
  BY DEF IInv, TypeOK, Live, Tables
<1>9. count[c] > 0
  BY <1>6, <1>7, <1>8, SharersFinite
<1>10. QED
  BY <1>1, <1>9 DEF Shared

(* Giving one variable a store and a cell that nobody uses. *)
LEMMA FreshTable ==
    ASSUME IInv, NEW w \in Vars,
           tab' \in [Vars -> Tables \cup {NoArray}],
           count' \in [Cells -> Nat],
           \A v \in Vars \ {w} : tab'[v] = tab[v],
           tab'[w] # NoArray,
           \A v \in Live \ {w} : /\ tab[v].store # tab'[w].store
                                 /\ tab[v].cell # tab'[w].cell,
           \A v \in Live \ {w} :
              count'[tab[v].cell] >= count[tab[v].cell]
              \/ /\ w \in Live
                 /\ tab[w].cell = tab[v].cell
                 /\ count'[tab[v].cell] >= count[tab[v].cell] - 1
    PROVE  StoreIffCell' /\ CountsSharers'
<1>1. Live' = Live \cup {w}
  BY DEF Live
<1>2. StoreIffCell'
  <2> SUFFICES ASSUME NEW u \in Live', NEW v \in Live'
               PROVE  (tab'[u].store = tab'[v].store)
                      <=> (tab'[u].cell = tab'[v].cell)
    BY DEF StoreIffCell
  <2>1. CASE u = v
    BY <2>1
  <2>2. CASE u # v /\ (u = w \/ v = w)
    BY <2>2, <1>1 DEF Live
  <2>3. CASE u # w /\ v # w
    BY <2>3, <1>1 DEF Live, IInv, StoreIffCell
  <2>4. QED
    BY <2>1, <2>2, <2>3
<1>3. CountsSharers'
  <2> SUFFICES ASSUME NEW v \in Live'
               PROVE  Cardinality(Sharers(tab[v].cell)') <= count'[tab'[v].cell] + 1
    BY DEF CountsSharers, Sharers
  <2> DEFINE c == tab'[v].cell
  <2> DEFINE S == {u \in Live' : tab'[u].cell = c}
  <2>1. Sharers(tab[v].cell)' = S
    BY DEF Sharers
  <2>2. c \in Cells /\ count'[c] \in Nat
    BY DEF Live, Tables
  <2>3. CASE v = w
    <3>1. S = {w}
      BY <2>3, <1>1 DEF Live
    <3>2. Cardinality(S) = 1
      BY <3>1, FS_Singleton
    <3>3. QED
      BY <2>1, <2>2, <3>2
  <2>4. CASE v # w
    <3>1. v \in Live \ {w} /\ c = tab[v].cell /\ w \notin S
      BY <2>4, <1>1 DEF Live
    <3>2. S = Sharers(c) \ {w}
      BY <3>1, <1>1 DEF Sharers, Live
    <3>a. IsFiniteSet(Sharers(c))
      BY SharersFinite
    <3>b. Cardinality(Sharers(c) \ {w}) =
             IF w \in Sharers(c) THEN Cardinality(Sharers(c)) - 1
                                 ELSE Cardinality(Sharers(c))
      BY <3>a, FS_RemoveElement, Zenon
    <3>3. Cardinality(S) = IF w \in Sharers(c) THEN Cardinality(Sharers(c)) - 1
                                               ELSE Cardinality(Sharers(c))
      BY ONLY <3>2, <3>b
    <3>4. Cardinality(Sharers(c)) <= count[c] + 1
      BY <3>1 DEF IInv, CountsSharers
    <3>5. count[c] \in Nat /\ Cardinality(Sharers(c)) \in Nat
      BY <2>2, SharersFinite DEF IInv, TypeOK
    <3>6. w \in Live /\ tab[w].cell = c => w \in Sharers(c)
      BY DEF Sharers
    <3>7. count'[c] >= count[c] \/ (w \in Sharers(c) /\ count'[c] >= count[c] - 1)
      BY <3>1, <3>6
    <3>8. Cardinality(S) <= count'[c] + 1
      BY <3>3, <3>4, <3>5, <3>7, <2>2
    <3>9. QED
      BY <3>8, <2>1
  <2>5. QED
    BY <2>3, <2>4
<1>4. QED
  BY <1>2, <1>3

(* No table changes its store or its cell, and no counter falls. *)
LEMMA SameTables ==
    ASSUME IInv,
           Live' \subseteq Live,
           \A v \in Live' : /\ tab'[v].store = tab[v].store
                            /\ tab'[v].cell = tab[v].cell,
           \A v \in Live' : count'[tab[v].cell] = count[tab[v].cell]
    PROVE  StoreIffCell' /\ CountsSharers'
<1>1. StoreIffCell'
  BY DEF IInv, StoreIffCell
<1>2. CountsSharers'
  <2> SUFFICES ASSUME NEW v \in Live'
               PROVE  Cardinality(Sharers(tab[v].cell)') <= count'[tab'[v].cell] + 1
    BY DEF CountsSharers, Sharers
  <2> DEFINE c == tab[v].cell
  <2> DEFINE S == {u \in Live' : tab'[u].cell = tab'[v].cell}
  <2>1. Sharers(tab[v].cell)' = S
    BY DEF Sharers
  <2>2. S \in SUBSET Sharers(c)
    BY DEF Sharers
  <2>3. Cardinality(S) <= Cardinality(Sharers(c)) /\ Cardinality(S) \in Nat
    <3>1. IsFiniteSet(Sharers(c))
      BY SharersFinite
    <3>2. QED
      BY <2>2, <3>1, PartOfFinite
  <2>4. Cardinality(Sharers(c)) <= count[c] + 1
    BY DEF IInv, CountsSharers
  <2>5. v \in Live /\ count[c] \in Nat
    BY DEF IInv, TypeOK, Live, Tables
  <2>6. QED
    BY <2>1, <2>3, <2>4, <2>5, SharersFinite
<1>3. QED
  BY <1>1, <1>2

(* The new views, when one variable's table changes and its entries with it. *)
ViewsAfter(w, a) ==
    /\ View(w)' = a
    /\ \A v \in Live \ {w} : View(v)' = View(v)

(* %force-copy! and a write: no other variable sees a change. *)
LEMMA MutateStep ==
    ASSUME IInv, NEW w \in Vars, NEW a, Good(a), Mutate(w, a)
    PROVE  /\ tab' \in [Vars -> Tables \cup {NoArray}]
           /\ store' \in [Stores -> [order: Seq(Keys),
                                     elem: [Keys -> Elems \cup {Absent}]]]
           /\ count' \in [Cells -> Nat]
           /\ StoreIffCell' /\ CountsSharers'
           /\ Live' = Live /\ w \in Live
           /\ ViewsAfter(w, a)
<1> USE DEF IInv
<1>1. tab[w] # NoArray /\ w \in Live /\ CanAllocate
  BY DEF Mutate, Live
<1>2. /\ tab[w] \in Tables /\ tab[w].store \in Stores /\ tab[w].cell \in Cells
      /\ \A v \in Live : tab[v] \in Tables
      /\ \A v \in Vars \ Live : tab[v] = NoArray
  BY <1>1 DEF TypeOK, Live, Tables
<1>3. a.cur \in Keys \cup {AtEnd} /\ a.max \in -1 .. MaxInt
      /\ [order |-> a.order, elem |-> a.elem] \in
            [order: Seq(Keys), elem: [Keys -> Elems \cup {Absent}]]
      /\ a = [order |-> a.order, elem |-> a.elem, cur |-> a.cur, max |-> a.max]
  BY DEF Good, ArrayValues
<1>4. CASE Shared(w)
  <2> DEFINE s == NewStore
  <2> DEFINE c == NewCell
  <2>1. /\ s \in Stores /\ \A v \in Live : tab[v].store # s
        /\ c \in Cells /\ \A v \in Live : tab[v].cell # c
    BY <1>1, Fresh
  <2> HIDE DEF s, c
  <2>2. Forced(w) =
          [tab |-> [tab EXCEPT ![w].store = s, ![w].cell = c],
           store |-> [store EXCEPT ![s] = store[tab[w].store]],
           count |-> [count EXCEPT ![tab[w].cell] = @ - 1, ![c] = 0]]
    BY <1>4 DEF Forced, s, c
  <2>3. /\ tab' = [[tab EXCEPT ![w].store = s, ![w].cell = c]
                      EXCEPT ![w].cur = a.cur, ![w].max = a.max]
        /\ store' = [[store EXCEPT ![s] = store[tab[w].store]]
                        EXCEPT ![[tab EXCEPT ![w].store = s, ![w].cell = c][w].store] =
                           [order |-> a.order, elem |-> a.elem]]
        /\ count' = [count EXCEPT ![tab[w].cell] = @ - 1, ![c] = 0]
    BY <2>2 DEF Mutate
  <2>4. /\ tab'[w] = [store |-> s, cell |-> c, cur |-> a.cur, max |-> a.max]
        /\ \A v \in Vars \ {w} : tab'[v] = tab[v]
        /\ tab' \in [Vars -> Tables \cup {NoArray}]
        /\ tab'[w] \in Tables
    <3>1. tab[w] = [store |-> tab[w].store, cell |-> tab[w].cell,
                    cur |-> tab[w].cur, max |-> tab[w].max]
      BY <1>2 DEF Tables
    <3>2. /\ tab'[w] = [store |-> s, cell |-> c, cur |-> a.cur, max |-> a.max]
          /\ \A v \in Vars \ {w} : tab'[v] = tab[v]
          /\ DOMAIN tab' = Vars
          /\ tab' = [v \in Vars |-> tab'[v]]
      BY <2>3, <3>1 DEF TypeOK
    <3>3. tab'[w] \in Tables
      BY <3>2, <2>1, <1>3 DEF Tables
    <3>4. QED
      BY <3>2, <3>3 DEF TypeOK
  <2>5. [tab EXCEPT ![w].store = s, ![w].cell = c][w].store = s
    BY <1>2 DEF Tables, TypeOK
  <2>6. /\ store'[s] = [order |-> a.order, elem |-> a.elem]
        /\ \A t \in Stores \ {s} : store'[t] = store[t]
        /\ store' \in [Stores -> [order: Seq(Keys),
                                  elem: [Keys -> Elems \cup {Absent}]]]
    BY <2>1, <2>3, <2>5, <1>3 DEF TypeOK
  <2>7. /\ count' \in [Cells -> Nat]
        /\ \A d \in Cells \ {c} :
              count'[d] = IF d = tab[w].cell THEN count[d] - 1 ELSE count[d]
    <3> DEFINE x == tab[w].cell
    <3>1. x \in Cells /\ count[x] \in Nat /\ count[x] > 0 /\ count[x] - 1 \in Nat
      BY <1>2, <1>4 DEF TypeOK, Shared
    <3>2. count' = [[count EXCEPT ![x] = count[x] - 1] EXCEPT ![c] = 0]
      BY <2>3
    <3>3. count \in [Cells -> Nat] /\ c \in Cells
      BY <2>1 DEF TypeOK
    <3> HIDE DEF x
    <3>4. /\ count' \in [Cells -> Nat]
          /\ \A d \in Cells \ {c} : count'[d] = IF d = x THEN count[d] - 1 ELSE count[d]
      BY <3>1, <3>2, <3>3
    <3>5. QED
      BY <3>4 DEF x
  <2>8. Live' = Live
    BY <2>4, <1>1, LazyAssumption DEF Live, Tables
  <2>9. \A v \in Live \ {w} :
              count'[tab[v].cell] >= count[tab[v].cell]
              \/ /\ w \in Live
                 /\ tab[w].cell = tab[v].cell
                 /\ count'[tab[v].cell] >= count[tab[v].cell] - 1
    <3> SUFFICES ASSUME NEW v \in Live \ {w}
                 PROVE  count'[tab[v].cell] >= count[tab[v].cell]
                        \/ /\ tab[w].cell = tab[v].cell
                           /\ count'[tab[v].cell] >= count[tab[v].cell] - 1
      BY <1>1
    <3>1. tab[v].cell \in Cells \ {c} /\ count[tab[v].cell] \in Nat
      BY <1>2, <2>1 DEF Tables, TypeOK
    <3>2. QED
      BY <2>7, <3>1
  <2>10. \A v \in Live \ {w} : /\ tab[v].store # tab'[w].store
                               /\ tab[v].cell # tab'[w].cell
    BY <2>1, <2>4
  <2>11. tab'[w] # NoArray
    BY <2>8, <1>1 DEF Live
  <2>12. StoreIffCell' /\ CountsSharers'
    BY <2>4, <2>7, <2>9, <2>10, <2>11, FreshTable
  <2>13. View(w)' = a
    BY <2>4, <2>6, <1>3 DEF View
  <2>14. \A v \in Live \ {w} : View(v)' = View(v)
    BY <2>1, <2>4, <2>6, <1>2 DEF View, Live, Tables
  <2>15. QED
    BY <1>1, <2>4, <2>6, <2>7, <2>8, <2>12, <2>13, <2>14 DEF ViewsAfter
<1>5. CASE ~Shared(w)
  <2> DEFINE s == tab[w].store
  <2>1. Forced(w) = [tab |-> tab, store |-> store, count |-> count]
    BY <1>5 DEF Forced
  <2>2. /\ tab' = [tab EXCEPT ![w].cur = a.cur, ![w].max = a.max]
        /\ store' = [store EXCEPT ![s] = [order |-> a.order, elem |-> a.elem]]
        /\ count' = count
    BY <2>1 DEF Mutate
  <2>3. tab[w] = [store |-> s, cell |-> tab[w].cell,
                  cur |-> tab[w].cur, max |-> tab[w].max]
    BY <1>2 DEF Tables
  <2>4. /\ tab'[w] = [store |-> s, cell |-> tab[w].cell,
                      cur |-> a.cur, max |-> a.max]
        /\ \A v \in Vars \ {w} : tab'[v] = tab[v]
        /\ tab' = [v \in Vars |-> tab'[v]]
    BY <2>2, <2>3 DEF TypeOK
  <2>5. tab'[w] \in Tables /\ tab' \in [Vars -> Tables \cup {NoArray}]
    BY <2>4, <1>2, <1>3 DEF TypeOK, Tables
  <2>6. /\ store'[s] = [order |-> a.order, elem |-> a.elem]
        /\ \A t \in Stores \ {s} : store'[t] = store[t]
        /\ store' \in [Stores -> [order: Seq(Keys),
                                  elem: [Keys -> Elems \cup {Absent}]]]
    BY <2>2, <1>2, <1>3 DEF TypeOK
  <2>7. count' \in [Cells -> Nat]
    BY <2>2 DEF TypeOK
  <2>8. Live' = Live
    BY <2>4, <2>5, <1>1, LazyAssumption DEF Live, Tables
  <2>9. StoreIffCell' /\ CountsSharers'
    <3>1. \A v \in Live' : /\ tab'[v].store = tab[v].store
                           /\ tab'[v].cell = tab[v].cell
      BY <2>4 DEF Live
    <3>2. QED
      BY <2>2, <2>8, <3>1, SameTables
  <2>10. \A v \in Live \ {w} : tab[v].store # s
    BY <1>1, <1>5, SoleOwner DEF ZeroMeansSole
  <2>11. View(w)' = a
    BY <2>4, <2>6, <1>3 DEF View
  <2>12. \A v \in Live \ {w} : View(v)' = View(v)
    BY <2>4, <2>6, <2>10, <1>2 DEF View, Live, Tables
  <2>13. QED
    BY <1>1, <2>5, <2>6, <2>7, <2>8, <2>9, <2>11, <2>12 DEF ViewsAfter
<1>6. QED
  BY <1>4, <1>5

-----------------------------------------------------------------------------
(* The same step, seen as the specification sees it. *)
LEMMA MutateIsSet ==
    ASSUME IInv, NEW w \in Vars, NEW a, Good(a), Mutate(w, a),
           boxVal' \in [Boxes -> Vals], bound' \in [RVars -> Boxes \cup {NoBox}]
    PROVE  /\ IInv'
           /\ ArrOf[w] = View(w) /\ ArrOf[w] # NoArray
           /\ ArrOf' = [ArrOf EXCEPT ![w] = a]
<1>1. /\ tab' \in [Vars -> Tables \cup {NoArray}]
      /\ store' \in [Stores -> [order: Seq(Keys),
                                elem: [Keys -> Elems \cup {Absent}]]]
      /\ count' \in [Cells -> Nat]
      /\ StoreIffCell' /\ CountsSharers'
      /\ Live' = Live /\ w \in Live
      /\ View(w)' = a
      /\ \A v \in Live \ {w} : View(v)' = View(v)
  BY MutateStep DEF ViewsAfter
<1>2. TypeOK'
  BY <1>1 DEF TypeOK
<1>3. ViewsWellFormed'
  BY <1>1 DEF ViewsWellFormed, IInv, Good
<1>4. ArrOf[w] = View(w)
  BY <1>1 DEF ArrOf, Live
<1>5. ArrOf' = [ArrOf EXCEPT ![w] = a]
  <2>1. ArrOf' = [v \in Vars |-> IF v \in Live' THEN View(v)' ELSE NoArray]
    BY DEF ArrOf, Live
  <2>2. ArrOf = [v \in Vars |-> IF v \in Live THEN View(v) ELSE NoArray]
    BY DEF ArrOf, Live
  <2>3. QED
    BY <1>1, <2>1, <2>2
<1>6. ArrOf[w] # NoArray
  BY <1>1, <1>4, ViewGood, LazyAssumption DEF Good
<1>7. QED
  BY <1>1, <1>2, <1>3, <1>4, <1>5, <1>6 DEF IInv

(* Moving an array pointer changes one table structure. *)
LEMMA PointIsSet ==
    ASSUME IInv, NEW w \in Vars, NEW c \in Keys \cup {AtEnd},
           WellFormed([View(w) EXCEPT !.cur = c]),
           Point(w, [View(w) EXCEPT !.cur = c])
    PROVE  /\ IInv'
           /\ ArrOf[w] = View(w) /\ ArrOf[w] # NoArray
           /\ ArrOf' = [ArrOf EXCEPT ![w] = [View(w) EXCEPT !.cur = c]]
<1> DEFINE a == [View(w) EXCEPT !.cur = c]
<1>1. w \in Live /\ tab[w] # NoArray /\ tab[w] \in Tables
  BY DEF Point, Live, IInv, TypeOK
<1>2. tab' = [tab EXCEPT ![w].cur = c] /\ UNCHANGED <<store, count, boxVal, bound>>
  BY DEF Point, View
<1>3. /\ tab'[w] = [store |-> tab[w].store, cell |-> tab[w].cell,
                    cur |-> c, max |-> tab[w].max]
      /\ \A v \in Vars \ {w} : tab'[v] = tab[v]
      /\ tab' = [v \in Vars |-> tab'[v]]
  BY <1>1, <1>2 DEF IInv, TypeOK, Tables
<1>4. tab'[w] \in Tables /\ tab' \in [Vars -> Tables \cup {NoArray}]
  BY <1>1, <1>3 DEF IInv, TypeOK, Tables
<1>5. TypeOK'
  BY <1>2, <1>4 DEF IInv, TypeOK
<1>6. Live' = Live
  BY <1>1, <1>3, <1>4, LazyAssumption DEF Live, Tables
<1>7. \A v \in Live' : tab'[v].store = tab[v].store /\ tab'[v].cell = tab[v].cell
  BY <1>1, <1>3 DEF Live
<1>8. StoreIffCell' /\ CountsSharers'
  BY <1>2, <1>6, <1>7, SameTables
<1>9. View(w)' = a /\ \A v \in Live \ {w} : View(v)' = View(v)
  BY <1>2, <1>3 DEF View, Live
<1>10. ViewsWellFormed'
  BY <1>6, <1>9 DEF ViewsWellFormed, IInv
<1>11. ArrOf[w] = View(w)
  BY <1>1 DEF ArrOf
<1>12. ArrOf' = [ArrOf EXCEPT ![w] = a]
  <2>1. ArrOf' = [v \in Vars |-> IF v \in Live' THEN View(v)' ELSE NoArray]
    BY DEF ArrOf, Live
  <2>2. ArrOf = [v \in Vars |-> IF v \in Live THEN View(v) ELSE NoArray]
    BY DEF ArrOf, Live
  <2>3. QED
    BY <1>1, <1>6, <1>9, <2>1, <2>2
<1>13. ArrOf[w] # NoArray
  BY <1>1, <1>11, ViewGood, LazyAssumption DEF Good
<1>14. QED
  BY <1>5, <1>8, <1>10, <1>11, <1>12, <1>13 DEF IInv

(* array(): a table of its own, whatever the variable held. *)
LEMMA NewArrayIsSet ==
    ASSUME IInv, NEW w \in Vars, NewArray(w)
    PROVE  IInv' /\ ArrOf' = [ArrOf EXCEPT ![w] = EmptyArray]
<1> DEFINE s == NewStore
<1> DEFINE c == NewCell
<1>1. /\ s \in Stores /\ \A v \in Live : tab[v].store # s
      /\ c \in Cells /\ \A v \in Live : tab[v].cell # c
  BY Fresh DEF NewArray
<1>2. /\ tab' = [tab EXCEPT ![w] = [store |-> s, cell |-> c,
                                    cur |-> AtEnd, max |-> -1]]
      /\ store' = [store EXCEPT ![s] = EmptyStore]
      /\ count' = [count EXCEPT ![c] = 0]
      /\ UNCHANGED <<boxVal, bound>>
  BY DEF NewArray
<1> HIDE DEF s, c
<1>3. [store |-> s, cell |-> c, cur |-> AtEnd, max |-> -1] \in Tables
  BY <1>1, ConstantsAssumption DEF Tables
<1>4. /\ tab' \in [Vars -> Tables \cup {NoArray}]
      /\ tab'[w] = [store |-> s, cell |-> c, cur |-> AtEnd, max |-> -1]
      /\ \A v \in Vars \ {w} : tab'[v] = tab[v]
  BY <1>2, <1>3 DEF IInv, TypeOK
<1>5. /\ store' \in [Stores -> [order: Seq(Keys),
                                elem: [Keys -> Elems \cup {Absent}]]]
      /\ store'[s] = EmptyStore
      /\ \A t \in Stores \ {s} : store'[t] = store[t]
  <2>1. EmptyStore \in [order: Seq(Keys), elem: [Keys -> Elems \cup {Absent}]]
    BY DEF EmptyStore
  <2>2. QED
    BY <1>1, <1>2, <2>1 DEF IInv, TypeOK
<1>6. /\ count' \in [Cells -> Nat]
      /\ \A d \in Cells \ {c} : count'[d] = count[d]
  BY <1>1, <1>2 DEF IInv, TypeOK
<1>7. tab'[w] # NoArray
  BY <1>3, <1>4, LazyAssumption DEF Tables
<1>8. Live' = Live \cup {w}
  BY <1>4, <1>7 DEF Live
<1>9. \A v \in Live : tab[v] \in Tables
  BY DEF IInv, TypeOK, Live
<1>10. \A v \in Live \ {w} : count'[tab[v].cell] >= count[tab[v].cell]
  BY <1>1, <1>6, <1>9 DEF Tables, IInv, TypeOK
<1>11. StoreIffCell' /\ CountsSharers'
  BY <1>1, <1>4, <1>6, <1>7, <1>10, FreshTable
<1>12. View(w)' = EmptyArray
  BY <1>4, <1>5 DEF View, EmptyStore, EmptyArray
<1>13. \A v \in Live \ {w} : View(v)' = View(v)
  BY <1>1, <1>4, <1>5, <1>9 DEF View, Live, Tables
<1>14. ViewsWellFormed'
  BY <1>8, <1>12, <1>13, EmptyGood DEF ViewsWellFormed, IInv, Good
<1>15. TypeOK'
  BY <1>2, <1>4, <1>5, <1>6 DEF IInv, TypeOK
<1>16. ArrOf' = [ArrOf EXCEPT ![w] = EmptyArray]
  <2>1. ArrOf' = [v \in Vars |-> IF v \in Live' THEN View(v)' ELSE NoArray]
    BY DEF ArrOf, Live
  <2>2. ArrOf = [v \in Vars |-> IF v \in Live THEN View(v) ELSE NoArray]
    BY DEF ArrOf, Live
  <2>3. QED
    BY <1>8, <1>12, <1>13, <2>1, <2>2
<1>17. QED
  BY <1>11, <1>14, <1>15, <1>16 DEF IInv

(* $u = $v: a second table over v's entries, and one more on the counter. *)
LEMMA AssignIsSet ==
    ASSUME IInv, NEW u \in Vars, NEW v \in Vars, u # v, Assign(u, v)
    PROVE  /\ IInv'
           /\ ArrOf[v] # NoArray
           /\ ArrOf' = [ArrOf EXCEPT ![u] = ArrOf[v]]
<1> DEFINE d == tab[v].cell
<1>1. v \in Live /\ tab[v] \in Tables /\ d \in Cells /\ count[d] \in Nat
  BY DEF Assign, Live, IInv, TypeOK, Tables
<1>2. /\ tab' = [tab EXCEPT ![u] = tab[v]]
      /\ count' = [count EXCEPT ![d] = @ + 1]
      /\ UNCHANGED <<store, boxVal, bound>>
  BY DEF Assign
<1>3. /\ tab'[u] = tab[v]
      /\ \A x \in Vars \ {u} : tab'[x] = tab[x]
      /\ tab' \in [Vars -> Tables \cup {NoArray}]
  BY <1>1, <1>2 DEF IInv, TypeOK
<1>4. /\ count' \in [Cells -> Nat]
      /\ count'[d] = count[d] + 1
      /\ \A e \in Cells \ {d} : count'[e] = count[e]
  BY <1>1, <1>2 DEF IInv, TypeOK
<1>5. Live' = Live \cup {u}
  BY <1>1, <1>3 DEF Live
<1>6. TypeOK'
  BY <1>2, <1>3, <1>4 DEF IInv, TypeOK
<1>7. StoreIffCell'
  <2> DEFINE src(x) == IF x = u THEN v ELSE x
  <2>1. \A x \in Live' : src(x) \in Live /\ tab'[x] = tab[src(x)]
    BY <1>1, <1>3, <1>5 DEF Live
  <2>2. QED
    BY <2>1 DEF StoreIffCell, IInv
<1>8. CountsSharers'
  <2> SUFFICES ASSUME NEW x \in Live'
               PROVE  Cardinality(Sharers(tab[x].cell)') <= count'[tab'[x].cell] + 1
    BY DEF CountsSharers, Sharers
  <2> DEFINE c == tab'[x].cell
  <2> DEFINE S == {y \in Live' : tab'[y].cell = c}
  <2>1. Sharers(tab[x].cell)' = S
    BY DEF Sharers
  <2>2. PICK z \in Live : c = tab[z].cell
    BY <1>1, <1>3, <1>5 DEF Live
  <2>3. /\ Cardinality(Sharers(c)) <= count[c] + 1
        /\ c \in Cells /\ count[c] \in Nat /\ Cardinality(Sharers(c)) \in Nat
        /\ IsFiniteSet(Sharers(c))
    BY <2>2, SharersFinite DEF IInv, CountsSharers, TypeOK, Live, Tables
  <2>4. CASE c = d
    <3>1. S \in SUBSET (Sharers(c) \cup {u})
      BY <1>3, <1>5 DEF Sharers, Live
    <3>2. /\ IsFiniteSet(Sharers(c) \cup {u})
          /\ Cardinality(Sharers(c) \cup {u}) =
                IF u \in Sharers(c) THEN Cardinality(Sharers(c))
                                    ELSE Cardinality(Sharers(c)) + 1
      BY <2>3, FS_AddElement, Zenon
    <3>3. Cardinality(S) <= Cardinality(Sharers(c) \cup {u}) /\ Cardinality(S) \in Nat
      BY <3>1, <3>2, PartOfFinite
    <3>4. count'[c] = count[c] + 1
      BY <2>4, <1>4
    <3>5. QED
      BY <2>1, <2>3, <3>2, <3>3, <3>4
  <2>5. CASE c # d
    <3>1. S \in SUBSET Sharers(c)
      BY <2>5, <1>3, <1>5 DEF Sharers, Live
    <3>2. Cardinality(S) <= Cardinality(Sharers(c)) /\ Cardinality(S) \in Nat
      BY <2>3, <3>1, PartOfFinite
    <3>3. count'[c] = count[c]
      BY <2>3, <2>5, <1>4
    <3>4. QED
      BY <2>1, <2>3, <3>2, <3>3
  <2>6. QED
    BY <2>4, <2>5
<1>9. View(u)' = View(v) /\ \A x \in Live \ {u} : View(x)' = View(x)
  BY <1>2, <1>3 DEF View, Live
<1>10. ViewsWellFormed'
  BY <1>1, <1>5, <1>9 DEF ViewsWellFormed, IInv
<1>11. ArrOf[v] = View(v)
  BY <1>1 DEF ArrOf, Live
<1>12. ArrOf' = [ArrOf EXCEPT ![u] = ArrOf[v]]
  <2>1. ArrOf' = [x \in Vars |-> IF x \in Live' THEN View(x)' ELSE NoArray]
    BY DEF ArrOf, Live
  <2>2. ArrOf = [x \in Vars |-> IF x \in Live THEN View(x) ELSE NoArray]
    BY DEF ArrOf, Live
  <2>3. QED
    BY <1>5, <1>9, <1>11, <2>1, <2>2
<1>13. ArrOf[v] # NoArray
  BY <1>1, <1>11, ViewGood, LazyAssumption DEF Good
<1>14. QED
  BY <1>6, <1>7, <1>8, <1>10, <1>12, <1>13 DEF IInv

(* unset: a table becomes garbage, and its counter does not move. *)
LEMMA UnsetIsSet ==
    ASSUME IInv, NEW w \in Vars, Unset(w)
    PROVE  /\ IInv'
           /\ ArrOf[w] # NoArray
           /\ ArrOf' = [ArrOf EXCEPT ![w] = NoArray]
<1>1. w \in Live
  BY DEF Unset, Live
<1>2. tab' = [tab EXCEPT ![w] = NoArray] /\ UNCHANGED <<store, count, boxVal, bound>>
  BY DEF Unset
<1>3. /\ tab'[w] = NoArray
      /\ \A v \in Vars \ {w} : tab'[v] = tab[v]
      /\ tab' \in [Vars -> Tables \cup {NoArray}]
  BY <1>2 DEF IInv, TypeOK
<1>4. Live' = Live \ {w}
  BY <1>3 DEF Live
<1>5. TypeOK'
  BY <1>2, <1>3 DEF IInv, TypeOK
<1>6. StoreIffCell' /\ CountsSharers'
  BY <1>2, <1>3, <1>4, SameTables DEF Live
<1>7. \A v \in Live \ {w} : View(v)' = View(v)
  BY <1>2, <1>3 DEF View, Live
<1>8. ViewsWellFormed'
  BY <1>4, <1>7 DEF ViewsWellFormed, IInv
<1>9. ArrOf' = [ArrOf EXCEPT ![w] = NoArray]
  <2>1. ArrOf' = [v \in Vars |-> IF v \in Live' THEN View(v)' ELSE NoArray]
    BY DEF ArrOf, Live
  <2>2. ArrOf = [v \in Vars |-> IF v \in Live THEN View(v) ELSE NoArray]
    BY DEF ArrOf, Live
  <2>3. QED
    BY <1>4, <1>7, <2>1, <2>2
<1>10. ArrOf[w] # NoArray
  BY <1>1, ViewGood, LazyAssumption DEF Good, ArrOf, Live
<1>11. QED
  BY <1>5, <1>6, <1>8, <1>9, <1>10 DEF IInv

-----------------------------------------------------------------------------
(* The specification and the implementation compute with the same operators. *)
LEMMA SameOperators ==
    /\ Promise!EmptyArray = EmptyArray
    /\ Promise!Keys = Keys /\ Promise!IntKeys = IntKeys
    /\ \A n : Promise!Permutations1(n) = Permutations1(n)
    /\ \A a, k, e : Promise!SetElem(a, k, e) = SetElem(a, k, e)
    /\ \A a, k : /\ Promise!Has(a, k) = Has(a, k)
                 /\ Promise!RaiseMax(a, k) = RaiseMax(a, k)
                 /\ Promise!RemoveKey(a, k) = RemoveKey(a, k)
    /\ \A a : /\ Promise!PopTail(a) = PopTail(a)
              /\ Promise!Reset1(a) = Reset1(a)
              /\ Promise!ToEnd(a) = ToEnd(a)
              /\ Promise!Advance1(a) = Advance1(a)
              /\ Promise!Prev1(a) = Prev1(a)
    /\ \A a, p : /\ Promise!SortSavingKeys(a, p) = SortSavingKeys(a, p)
                 /\ Promise!SortTrashingKeys(a, p) = SortTrashingKeys(a, p)
<1>1. Promise!Keys = Keys /\ Promise!IntKeys = IntKeys
  BY DEF Promise!Keys, Keys, Promise!IntKeys, IntKeys
<1>2. Promise!EmptyArray = EmptyArray
  BY <1>1 DEF Promise!EmptyArray, EmptyArray
<1>3. \A n : Promise!Permutations1(n) = Permutations1(n)
  BY DEF Promise!Permutations1, Permutations1
<1>4. \A a, k : Promise!Has(a, k) = Has(a, k)
  BY DEF Promise!Has, Has
<1>5. \A a, k, e : Promise!SetElem(a, k, e) = SetElem(a, k, e)
  BY DEF SetElem, Promise!SetElem, Has, Promise!Has
<1>6. \A a, k : Promise!RaiseMax(a, k) = RaiseMax(a, k)
  BY DEF RaiseMax, Promise!RaiseMax, IntKeys, Promise!IntKeys
<1>7. \A a, k : Promise!RemoveKey(a, k) = RemoveKey(a, k)
  BY DEF RemoveKey, Promise!RemoveKey, Has, Promise!Has, Without, Promise!Without, Place, Promise!Place, NextKey, Promise!NextKey
<1>8. \A a : Promise!PopTail(a) = PopTail(a)
  BY DEF PopTail, Promise!PopTail, RemoveKey, Promise!RemoveKey, Tail1, Promise!Tail1, Has, Promise!Has, Without, Promise!Without, Place, Promise!Place, NextKey, Promise!NextKey
<1>9. \A a : Promise!Reset1(a) = Reset1(a)
  BY DEF Reset1, Promise!Reset1, Head1, Promise!Head1
<1>10. \A a : Promise!ToEnd(a) = ToEnd(a)
  BY DEF ToEnd, Promise!ToEnd, Tail1, Promise!Tail1
<1>11. \A a : Promise!Advance1(a) = Advance1(a)
  BY DEF Advance1, Promise!Advance1, NextKey, Promise!NextKey, Place, Promise!Place
<1>12. \A a : Promise!Prev1(a) = Prev1(a)
  BY DEF Prev1, Promise!Prev1, PrevKey, Promise!PrevKey, Place, Promise!Place
<1>13. \A a, p : Promise!SortSavingKeys(a, p) = SortSavingKeys(a, p)
  BY DEF SortSavingKeys, Promise!SortSavingKeys, Reinserted, Promise!Reinserted, MaxIntIn, Promise!MaxIntIn, IntKeys, Promise!IntKeys
<1>14. \A a, p : Promise!SortTrashingKeys(a, p) = SortTrashingKeys(a, p)
  BY DEF SortTrashingKeys, Promise!SortTrashingKeys,
         Reinserted, Promise!Reinserted, MaxIntIn, Promise!MaxIntIn, IntKeys, Promise!IntKeys, Keys, Promise!Keys
<1>15. QED
  BY <1>1, <1>2, <1>3, <1>4, <1>5, <1>6, <1>7, <1>8, <1>9, <1>10, <1>11, <1>12, <1>13, <1>14

(* A live variable's array, in both notations. *)
LEMMA LiveView ==
    ASSUME IInv, NEW w \in Vars, tab[w] # NoArray
    PROVE  /\ w \in Live /\ Good(View(w))
           /\ ArrOf[w] = View(w) /\ ArrOf[w] # NoArray
<1>1. w \in Live
  BY DEF Live
<1>2. Good(View(w)) /\ ArrOf[w] = View(w)
  BY <1>1, ViewGood DEF ArrOf
<1>3. QED
  BY <1>1, <1>2, LazyAssumption DEF Good

(* Both specifications find the same reference boxes free, so they make the *)
(* same choice of a new one.                                                *)
LEMMA SameFreeBoxes ==
    ASSUME IInv
    PROVE  Promise!FreeBoxes = FreeBoxes
<1>1. \A v \in Vars : /\ v \in Live <=> ArrOf[v] # NoArray
                      /\ v \in Live => ArrOf[v].elem = store[tab[v].store].elem
  BY LiveView DEF ArrOf, Live, View
<1>2. Live \subseteq Vars
  BY DEF Live
<1>3. QED
  BY <1>1, <1>2, SameOperators DEF Promise!FreeBoxes, FreeBoxes

(* An update of one variable. *)
LEMMA UpdateStep ==
    ASSUME IInv, NEW w \in Vars, NEW a, Good(a), Update(w, a)
    PROVE  IInv' /\ ArrOf[w] = View(w) /\ Promise!Update(w, a)
<1>1. Mutate(w, a) /\ UNCHANGED <<boxVal, bound>>
  BY DEF Update
<1>2. boxVal' \in [Boxes -> Vals] /\ bound' \in [RVars -> Boxes \cup {NoBox}]
  BY <1>1 DEF IInv, TypeOK
<1>3. /\ IInv' /\ ArrOf[w] = View(w) /\ ArrOf[w] # NoArray
      /\ ArrOf' = [ArrOf EXCEPT ![w] = a]
  BY <1>1, <1>2, MutateIsSet
<1>4. QED
  BY <1>1, <1>3 DEF Promise!Update, Promise!Set

(* A move of one array pointer. *)
LEMMA PointStep ==
    ASSUME IInv, NEW w \in Vars, NEW c \in Keys \cup {AtEnd},
           WellFormed([View(w) EXCEPT !.cur = c]),
           Point(w, [View(w) EXCEPT !.cur = c])
    PROVE  IInv' /\ ArrOf[w] = View(w)
           /\ Promise!Update(w, [View(w) EXCEPT !.cur = c])
<1>1. /\ IInv' /\ ArrOf[w] = View(w) /\ ArrOf[w] # NoArray
      /\ ArrOf' = [ArrOf EXCEPT ![w] = [View(w) EXCEPT !.cur = c]]
  BY PointIsSet
<1>2. UNCHANGED <<boxVal, bound>>
  BY DEF Point
<1>3. QED
  BY <1>1, <1>2 DEF Promise!Update, Promise!Set

(* A write of a plain value, through a reference or not. *)
LEMMA WriteStep ==
    ASSUME IInv, NEW w \in Vars, NEW a, Good(a), NEW k \in Keys, NEW x \in Vals,
           Write(w, a, k, x), UNCHANGED bound
    PROVE  IInv' /\ Promise!Write(w, a, k, x)
<1>1. bound' \in [RVars -> Boxes \cup {NoBox}]
  BY DEF IInv, TypeOK
<1>2. CASE a.elem[k] \in Boxes
  <2>1. Mutate(w, a) /\ boxVal' = [boxVal EXCEPT ![a.elem[k]] = x]
    BY <1>2 DEF Write
  <2>2. boxVal' \in [Boxes -> Vals]
    BY <2>1, <1>2 DEF IInv, TypeOK
  <2>3. IInv' /\ ArrOf' = [ArrOf EXCEPT ![w] = a]
    BY <1>1, <2>1, <2>2, MutateIsSet
  <2>4. QED
    BY <1>2, <2>1, <2>3 DEF Promise!Write, Promise!Set
<1>3. CASE a.elem[k] \notin Boxes
  <2>1. Mutate(w, SetElem(a, k, x)) /\ boxVal' = boxVal
    BY <1>3 DEF Write
  <2>2. boxVal' \in [Boxes -> Vals]
    BY <2>1 DEF IInv, TypeOK
  <2>3. Good(SetElem(a, k, x))
    BY SetElemGood DEF Elems
  <2>4. IInv' /\ ArrOf' = [ArrOf EXCEPT ![w] = SetElem(a, k, x)]
    BY <1>1, <2>1, <2>2, <2>3, MutateIsSet
  <2>5. QED
    BY <1>3, <2>1, <2>4, SameOperators DEF Promise!Write, Promise!Set
<1>4. QED
  BY <1>2, <1>3

(* $v[k] = x in the tables is $v[k] = x in the arrays.                      *)
LEMMA InsertStep ==
    ASSUME IInv, NEW w \in Vars, NEW k \in Keys, NEW x \in Vals, Insert(w, k, x)
    PROVE  IInv' /\ Promise!Insert(w, k, x)
<1>1. ArrOf[w] = View(w) /\ ArrOf[w] # NoArray /\ Good(View(w))
  BY LiveView DEF Insert
<1>2. Good(RaiseMax(View(w), k))
  BY <1>1, RaiseMaxGood
<1>3. IInv' /\ Promise!Write(w, RaiseMax(View(w), k), k, x)
  BY <1>2, WriteStep DEF Insert
<1>4. QED
  BY <1>1, <1>3, SameOperators DEF Promise!Insert, Insert

(* $v[] = x takes the same key in both.                                     *)
LEMMA PushStep ==
    ASSUME IInv, NEW w \in Vars, NEW x \in Vals, Push(w, x)
    PROVE  IInv' /\ Promise!Push(w, x)
<1> DEFINE k == tab[w].max + 1
<1>1. ArrOf[w] = View(w) /\ ArrOf[w] # NoArray /\ Good(View(w)) /\ w \in Live
  BY LiveView DEF Push
<1>2. View(w).max = tab[w].max
  BY DEF View
<1>3. tab[w].max \in -1 .. MaxInt /\ tab[w].max < MaxInt
  BY <1>1, <1>2 DEF Push, Good, ArrayValues
<1>4. k \in Keys
  BY <1>3, ConstantsAssumption DEF Keys, IntKeys
<1>5. Write(w, RaiseMax(View(w), k), k, x) /\ UNCHANGED bound
  BY DEF Push
<1> HIDE DEF k
<1>6. Good(RaiseMax(View(w), k))
  BY <1>1, <1>4, RaiseMaxGood
<1>7. IInv' /\ Promise!Write(w, RaiseMax(View(w), k), k, x)
  BY <1>4, <1>5, <1>6, WriteStep
<1>8. QED
  BY <1>1, <1>2, <1>3, <1>5, <1>7, SameOperators DEF Promise!Push, k

(* $v[k] = &$r binds the element to the same box in both.                   *)
LEMMA InsertRefStep ==
    ASSUME IInv, NEW w \in Vars, NEW k \in Keys, NEW r \in RVars, InsertRef(w, k, r)
    PROVE  IInv' /\ Promise!InsertRef(w, k, r)
<1> DEFINE a == SetElem(RaiseMax(View(w), k), k, bound[r])
<1>1. ArrOf[w] = View(w) /\ ArrOf[w] # NoArray /\ Good(View(w))
  BY LiveView DEF InsertRef
<1>2. bound[r] \in Elems
  BY DEF InsertRef, IInv, TypeOK, Elems
<1>3. Good(a)
  BY <1>1, <1>2, RaiseMaxGood, SetElemGood
<1>4. Update(w, a)
  BY DEF InsertRef, Update
<1> HIDE DEF a
<1>5. IInv' /\ Promise!Update(w, a)
  BY <1>3, <1>4, UpdateStep
<1>6. QED
  BY <1>1, <1>5, SameOperators DEF Promise!InsertRef, Promise!Update, InsertRef, a

(* $r = &$v[k] binds to the same box in both, made from the same element.   *)
LEMMA BindRefStep ==
    ASSUME IInv, NEW w \in Vars, NEW k \in Keys, NEW r \in RVars, BindRef(w, k, r)
    PROVE  IInv' /\ Promise!BindRef(w, k, r)
<1> DEFINE e == View(w).elem[k]
<1>1. ArrOf[w] = View(w) /\ ArrOf[w] # NoArray /\ Good(View(w))
  BY LiveView DEF BindRef
<1>2. e \in Elems \cup {Absent}
  BY <1>1 DEF Good, ArrayValues
<1>3. CASE e \in Boxes
  <2>1. /\ Mutate(w, View(w))
        /\ bound' = [bound EXCEPT ![r] = e]
        /\ UNCHANGED boxVal
    BY <1>3 DEF BindRef
  <2>2. boxVal' \in [Boxes -> Vals] /\ bound' \in [RVars -> Boxes \cup {NoBox}]
    BY <1>3, <2>1 DEF IInv, TypeOK
  <2>3. IInv' /\ ArrOf' = [ArrOf EXCEPT ![w] = View(w)]
    BY <1>1, <2>1, <2>2, MutateIsSet
  <2>4. ArrOf' = ArrOf
    BY <2>3, <1>1 DEF ArrOf
  <2>5. QED
    BY <1>1, <1>3, <2>1, <2>3, <2>4 DEF Promise!BindRef
<1>4. CASE e \notin Boxes
  <2> DEFINE b == CHOOSE b \in FreeBoxes : TRUE
  <2>1. /\ FreeBoxes # {}
        /\ Mutate(w, SetElem(View(w), k, b))
        /\ boxVal' = [boxVal EXCEPT ![b] = IF Has(View(w), k) THEN e ELSE Null]
        /\ bound' = [bound EXCEPT ![r] = b]
    BY <1>4 DEF BindRef
  <2>2. b \in Boxes
    BY <2>1 DEF FreeBoxes
  <2>3. b = CHOOSE c \in Promise!FreeBoxes : TRUE
    BY SameFreeBoxes
  <2> HIDE DEF b
  <2>4. boxVal' \in [Boxes -> Vals] /\ bound' \in [RVars -> Boxes \cup {NoBox}]
    BY <1>2, <1>4, <2>1, <2>2, ConstantsAssumption DEF IInv, TypeOK, Has, Elems
  <2>5. Good(SetElem(View(w), k, b))
    BY <1>1, <2>2, SetElemGood DEF Elems
  <2>6. IInv' /\ ArrOf' = [ArrOf EXCEPT ![w] = SetElem(View(w), k, b)]
    BY <2>1, <2>4, <2>5, MutateIsSet
  <2>7. Promise!FreeBoxes # {}
    BY <2>1, SameFreeBoxes
  <2>8. QED
    BY <1>1, <1>4, <2>1, <2>3, <2>6, <2>7, SameOperators
       DEF Promise!BindRef, Promise!Set
<1>5. QED
  BY <1>3, <1>4

(* A write through a reference touches no table.                            *)
LEMMA WriteRefStep ==
    ASSUME IInv, NEW r \in RVars, NEW x \in Vals, WriteRef(r, x)
    PROVE  IInv' /\ Promise!WriteRef(r, x)
<1>1. UNCHANGED <<tab, store, count, bound>>
  BY DEF WriteRef
<1>2. boxVal' \in [Boxes -> Vals]
  BY DEF WriteRef, IInv, TypeOK
<1>3. IInv'
  BY <1>1, <1>2 DEF IInv, TypeOK, StoreIffCell, CountsSharers, ViewsWellFormed,
                    Live, Sharers, View
<1>4. ArrOf' = ArrOf
  BY <1>1 DEF ArrOf, View
<1>5. QED
  BY <1>3, <1>4 DEF WriteRef, Promise!WriteRef

(* Each action of one variable is the specification's, or a stutter of it. *)
LEMMA PointerStep ==
    ASSUME IInv, NEW w \in Vars,
           Reset(w) \/ End(w) \/ Advance(w) \/ Prev(w)
    PROVE  /\ IInv'
           /\ \/ Promise!Reset(w) \/ Promise!End(w)
              \/ Promise!Advance(w) \/ Promise!Prev(w)
<1>1. ArrOf[w] = View(w) /\ Good(View(w))
  BY LiveView DEF Reset, End, Advance, Prev, Point
<1>2. View(w) = [View(w) EXCEPT !.cur = View(w).cur]
  BY DEF View
<1>3. ASSUME NEW a, Good(a), NEW c, a = [View(w) EXCEPT !.cur = c], Point(w, a)
      PROVE  IInv' /\ Promise!Update(w, a)
  <2>1. c \in Keys \cup {AtEnd}
    <3>1. a.cur = c
      BY <1>3 DEF View
    <3>2. QED
      BY <1>3, <3>1 DEF Good, ArrayValues
  <2>2. QED
    BY <1>3, <2>1, PointStep DEF Good
<1>4. CASE Reset(w)
  <2>1. Good(Reset1(View(w))) /\ Point(w, Reset1(View(w)))
    BY <1>1, <1>4, PointerGood DEF Reset
  <2>2. Reset1(View(w)) = [View(w) EXCEPT !.cur = Head1(View(w))]
    BY DEF Reset1
  <2>3. QED
    BY <1>1, <1>3, <2>1, <2>2, SameOperators DEF Promise!Reset
<1>5. CASE End(w)
  <2>1. Good(ToEnd(View(w))) /\ Point(w, ToEnd(View(w)))
    BY <1>1, <1>5, PointerGood DEF End
  <2>2. ToEnd(View(w)) = [View(w) EXCEPT !.cur = Tail1(View(w))]
    BY DEF ToEnd
  <2>3. QED
    BY <1>1, <1>3, <2>1, <2>2, SameOperators DEF Promise!End
<1>6. CASE Advance(w)
  <2>1. Good(Advance1(View(w))) /\ Point(w, Advance1(View(w)))
    BY <1>1, <1>6, PointerGood DEF Advance
  <2>2. PICK c : Advance1(View(w)) = [View(w) EXCEPT !.cur = c]
    BY <1>2 DEF Advance1
  <2>3. QED
    BY <1>1, <1>3, <2>1, <2>2, SameOperators DEF Promise!Advance
<1>7. CASE Prev(w)
  <2>1. Good(Prev1(View(w))) /\ Point(w, Prev1(View(w)))
    BY <1>1, <1>7, PointerGood DEF Prev
  <2>2. PICK c : Prev1(View(w)) = [View(w) EXCEPT !.cur = c]
    BY <1>2 DEF Prev1
  <2>3. QED
    BY <1>1, <1>3, <2>1, <2>2, SameOperators DEF Promise!Prev
<1>8. QED
  BY <1>4, <1>5, <1>6, <1>7

(* The sorts, by any permutation.                                           *)
LEMMA SortStep ==
    ASSUME IInv, NEW w \in Vars, Sort(w)
    PROVE  IInv' /\ Promise!Sort(w)
<1>1. ArrOf[w] = View(w) /\ ArrOf[w] # NoArray /\ Good(View(w))
  BY LiveView DEF Sort
<1>2. PICK p \in Permutations1(Len(View(w).order)) :
         \/ Update(w, SortSavingKeys(View(w), p))
         \/ Len(View(w).order) - 1 <= MaxInt
            /\ Update(w, SortTrashingKeys(View(w), p))
  BY DEF Sort
<1>3. p \in Promise!Permutations1(Len(ArrOf[w].order))
  BY <1>1, <1>2, SameOperators
<1>4. CASE Update(w, SortSavingKeys(View(w), p))
  <2>1. Good(SortSavingKeys(View(w), p))
    BY <1>1, SortSavingGood
  <2>2. IInv' /\ Promise!Update(w, SortSavingKeys(View(w), p))
    BY <1>4, <2>1, UpdateStep
  <2>3. Promise!Update(w, Promise!SortSavingKeys(ArrOf[w], p))
    BY <1>1, <2>2, SameOperators
  <2>4. QED
    BY <1>1, <1>3, <2>2, <2>3 DEF Promise!Sort
<1>5. CASE /\ Len(View(w).order) - 1 <= MaxInt
           /\ Update(w, SortTrashingKeys(View(w), p))
  <2>1. Good(SortTrashingKeys(View(w), p))
    BY <1>1, <1>5, SortTrashingGood
  <2>2. IInv' /\ Promise!Update(w, SortTrashingKeys(View(w), p))
    BY <1>5, <2>1, UpdateStep
  <2>3. Promise!Update(w, Promise!SortTrashingKeys(ArrOf[w], p))
    BY <1>1, <2>2, SameOperators
  <2>4. QED
    BY <1>1, <1>3, <1>5, <2>2, <2>3 DEF Promise!Sort
<1>6. QED
  BY <1>2, <1>4, <1>5

(* unset($v[k]), array_pop and clearing.                                    *)
LEMMA RemovalStep ==
    ASSUME IInv, NEW w \in Vars
    PROVE  /\ \A k \in Keys : Remove(w, k) => IInv' /\ Promise!Remove(w, k)
           /\ Pop(w) => IInv' /\ Promise!Pop(w)
           /\ Clear(w) => IInv' /\ Promise!Clear(w)
           /\ Touch(w) => IInv' /\ UNCHANGED Promise!vars
<1>1. ASSUME NEW a, Update(w, a)
      PROVE  ArrOf[w] = View(w) /\ ArrOf[w] # NoArray /\ Good(View(w))
  BY <1>1, LiveView DEF Update, Mutate
<1>2. ASSUME NEW k \in Keys, Remove(w, k) PROVE IInv' /\ Promise!Remove(w, k)
  <2>1. ArrOf[w] = View(w) /\ Good(RemoveKey(View(w), k))
    BY <1>1, <1>2, RemoveKeyGood DEF Remove
  <2>2. IInv' /\ Promise!Update(w, RemoveKey(View(w), k))
    BY <1>2, <2>1, UpdateStep DEF Remove
  <2>3. QED
    BY <2>1, <2>2, SameOperators DEF Promise!Remove
<1>3. ASSUME Pop(w) PROVE IInv' /\ Promise!Pop(w)
  <2>1. ArrOf[w] = View(w) /\ Good(PopTail(View(w)))
    BY <1>1, <1>3, PopTailGood DEF Pop
  <2>2. IInv' /\ Promise!Update(w, PopTail(View(w)))
    BY <1>3, <2>1, UpdateStep DEF Pop
  <2>3. QED
    BY <2>1, <2>2, SameOperators DEF Promise!Pop
<1>4. ASSUME Clear(w) PROVE IInv' /\ Promise!Clear(w)
  <2>1. IInv' /\ Promise!Update(w, EmptyArray)
    BY <1>4, EmptyGood, UpdateStep DEF Clear
  <2>2. QED
    BY <2>1, SameOperators DEF Promise!Clear
<1>5. ASSUME Touch(w) PROVE IInv' /\ UNCHANGED Promise!vars
  <2>1. ArrOf[w] = View(w) /\ Good(View(w)) /\ Update(w, View(w))
    BY <1>1, <1>5 DEF Touch
  <2>2. IInv' /\ Promise!Update(w, View(w))
    BY <2>1, UpdateStep
  <2>3. ArrOf' = ArrOf /\ UNCHANGED <<boxVal, bound>>
    BY <2>1, <2>2 DEF Promise!Update, Promise!Set, ArrOf
  <2>4. QED
    BY <2>2, <2>3 DEF Promise!vars
<1>6. QED
  BY <1>2, <1>3, <1>4, <1>5

-----------------------------------------------------------------------------
(* The steps of PhpArray, each of which says itself which variable has to   *)
(* hold an array.                                                           *)
PromiseStep ==
    \/ \E v \in Vars :
          \/ Promise!NewArray(v) \/ Promise!Unset(v)
          \/ Promise!Pop(v) \/ Promise!Clear(v) \/ Promise!Sort(v)
          \/ Promise!Reset(v) \/ Promise!End(v)
          \/ Promise!Advance(v) \/ Promise!Prev(v)
          \/ \E u \in Vars \ {v} : Promise!Assign(u, v)
          \/ \E x \in Vals : Promise!Push(v, x)
          \/ \E k \in Keys : \/ Promise!Remove(v, k)
                             \/ \E x \in Vals : Promise!Insert(v, k, x)
          \/ \E k \in Keys, r \in RVars :
                Promise!InsertRef(v, k, r) \/ Promise!BindRef(v, k, r)
    \/ \E r \in RVars, x \in Vals : Promise!WriteRef(r, x)

LEMMA PromiseSteps == PromiseStep => Promise!Next
<1> SUFFICES ASSUME PromiseStep PROVE Promise!Next
  OBVIOUS
<1>1. CASE \E r \in RVars, x \in Vals : Promise!WriteRef(r, x)
  BY <1>1 DEF Promise!Next
<1>2. ASSUME NEW v \in Vars, Promise!NewArray(v) PROVE Promise!Next
  BY <1>2 DEF Promise!Next
<1>3. ASSUME NEW v \in Vars,
             \/ Promise!Unset(v) \/ Promise!Pop(v) \/ Promise!Clear(v)
             \/ Promise!Reset(v) \/ Promise!End(v)
             \/ Promise!Advance(v) \/ Promise!Prev(v)
             \/ \E u \in Vars \ {v} : Promise!Assign(u, v)
             \/ \E x \in Vals : Promise!Push(v, x)
             \/ \E k \in Keys : \/ Promise!Remove(v, k)
                                \/ \E x \in Vals : Promise!Insert(v, k, x)
             \/ \E k \in Keys, r \in RVars :
                   Promise!InsertRef(v, k, r) \/ Promise!BindRef(v, k, r)
             \/ Promise!Sort(v)
      PROVE  Promise!Next
  <2>1. ArrOf[v] # NoArray
    BY <1>3 DEF Promise!Unset, Promise!Pop, Promise!Clear, Promise!Reset, Promise!End,
                Promise!Advance, Promise!Prev, Promise!Assign, Promise!Push,
                Promise!Remove, Promise!Insert, Promise!InsertRef, Promise!BindRef,
                Promise!Sort, Promise!Update
  <2>2. v \in Promise!Held
    BY <2>1 DEF Promise!Held
  <2> QED
    BY <1>3, <2>2, SameOperators DEF Promise!Next
<1> QED
  BY <1>1, <1>2, <1>3 DEF PromiseStep

(* Every step keeps the invariant and is a step of the specification. *)
LEMMA NextStep ==
    ASSUME IInv, Next
    PROVE  IInv' /\ (PromiseStep \/ UNCHANGED Promise!vars)
<1>1. CASE \E r \in RVars, x \in Vals : WriteRef(r, x)
  <2>1. PICK r \in RVars, x \in Vals : WriteRef(r, x)
    BY <1>1
  <2>2. QED
    BY <2>1, WriteRefStep DEF PromiseStep
<1>2. ASSUME NEW w \in Vars, NewArray(w) PROVE IInv' /\ PromiseStep
  <2>1. IInv' /\ Promise!NewArray(w)
    BY <1>2, NewArrayIsSet, SameOperators
       DEF NewArray, Promise!NewArray, Promise!Set
  <2>2. QED
    BY <2>1 DEF PromiseStep
<1>3. ASSUME NEW w \in Vars, Unset(w) PROVE IInv' /\ PromiseStep
  <2>1. IInv' /\ Promise!Unset(w)
    BY <1>3, UnsetIsSet DEF Unset, Promise!Unset, Promise!Set
  <2>2. QED
    BY <2>1 DEF PromiseStep
<1>4. ASSUME NEW v \in Vars, NEW u \in Vars \ {v}, Assign(u, v)
      PROVE  IInv' /\ PromiseStep
  <2>1. IInv' /\ Promise!Assign(u, v)
    BY <1>4, AssignIsSet DEF Assign, Promise!Assign, Promise!Set
  <2>2. QED
    BY <2>1 DEF PromiseStep
<1>5. ASSUME NEW w \in Vars, Touch(w)
      PROVE  IInv' /\ UNCHANGED Promise!vars
  BY <1>5, RemovalStep
<1>6. ASSUME NEW w \in Vars, Pop(w) \/ Clear(w) PROVE IInv' /\ PromiseStep
  <2>1. IInv' /\ (Promise!Pop(w) \/ Promise!Clear(w))
    BY <1>6, RemovalStep
  <2>2. QED
    BY <2>1 DEF PromiseStep
<1>7. ASSUME NEW w \in Vars, Sort(w) PROVE IInv' /\ PromiseStep
  BY <1>7, SortStep DEF PromiseStep
<1>8. ASSUME NEW w \in Vars, Reset(w) \/ End(w) \/ Advance(w) \/ Prev(w)
      PROVE  IInv' /\ PromiseStep
  <2>1. /\ IInv'
        /\ \/ Promise!Reset(w) \/ Promise!End(w)
           \/ Promise!Advance(w) \/ Promise!Prev(w)
    BY <1>8, PointerStep
  <2>2. QED
    BY <2>1 DEF PromiseStep
<1>9. ASSUME NEW w \in Vars, NEW x \in Vals, Push(w, x) PROVE IInv' /\ PromiseStep
  BY <1>9, PushStep DEF PromiseStep
<1>10. ASSUME NEW w \in Vars, NEW k \in Keys, Remove(w, k)
       PROVE  IInv' /\ PromiseStep
  <2>1. IInv' /\ Promise!Remove(w, k)
    BY <1>10, RemovalStep
  <2>2. QED
    BY <2>1, SameOperators DEF PromiseStep
<1>11. ASSUME NEW w \in Vars, NEW k \in Keys, NEW x \in Vals, Insert(w, k, x)
       PROVE  IInv' /\ PromiseStep
  <2>1. IInv' /\ Promise!Insert(w, k, x)
    BY <1>11, InsertStep
  <2>2. QED
    BY <2>1, SameOperators DEF PromiseStep
<1>12. ASSUME NEW w \in Vars, NEW k \in Keys, NEW r \in RVars,
              InsertRef(w, k, r) \/ BindRef(w, k, r)
       PROVE  IInv' /\ PromiseStep
  <2>1. IInv' /\ (Promise!InsertRef(w, k, r) \/ Promise!BindRef(w, k, r))
    BY <1>12, InsertRefStep, BindRefStep
  <2>2. QED
    BY <2>1, SameOperators DEF PromiseStep
<1>13. CASE ~(\E r \in RVars, x \in Vals : WriteRef(r, x))
  <2>1. PICK w \in Vars :
          \/ NewArray(w) \/ Unset(w) \/ Touch(w)
          \/ Pop(w) \/ Clear(w) \/ Sort(w)
          \/ Reset(w) \/ End(w) \/ Advance(w) \/ Prev(w)
          \/ \E u \in Vars \ {w} : Assign(u, w)
          \/ \E x \in Vals : Push(w, x)
          \/ \E k \in Keys : Remove(w, k) \/ \E x \in Vals : Insert(w, k, x)
          \/ \E k \in Keys, r \in RVars : InsertRef(w, k, r) \/ BindRef(w, k, r)
    BY <1>13 DEF Next
  <2>2. QED
    BY <2>1, <1>2, <1>3, <1>4, <1>5, <1>6, <1>7, <1>8, <1>9, <1>10, <1>11, <1>12
<1>14. QED
  BY <1>1, <1>13

(* A step that changes nothing changes nothing in the arrays either.         *)
LEMMA StutterStep ==
    ASSUME IInv, UNCHANGED vars
    PROVE  IInv' /\ UNCHANGED Promise!vars
BY DEF vars, IInv, TypeOK, StoreIffCell, CountsSharers, ViewsWellFormed,
       Live, Sharers, View, ArrOf, Promise!vars

(* With no tables at all there is nothing to share.                          *)
LEMMA InitInv == Init => IInv
<1> SUFFICES ASSUME Init PROVE IInv
  OBVIOUS
<1>1. Live = {}
  BY DEF Init, Live
<1>2. EmptyStore \in [order: Seq(Keys), elem: [Keys -> Elems \cup {Absent}]]
  BY DEF EmptyStore
<1>3. TypeOK
  BY <1>2, ConstantsAssumption DEF Init, TypeOK
<1>4. QED
  BY <1>1, <1>3 DEF IInv, StoreIffCell, CountsSharers, ViewsWellFormed

(* The inductive invariant: types, the sharing discipline of php-hash.scm   *)
(* (a counter is never below the number of other tables over the entries), *)
(* and well-formed views.                                                  *)
THEOREM SharingInvariant == Spec => []IInv
<1>1. Init => IInv
  BY InitInv
<1>2. IInv /\ [Next]_vars => IInv'
  BY NextStep, StutterStep
<1>3. QED
  BY <1>1, <1>2, PTL DEF Spec

(* Types. *)
THEOREM TypeCorrect == Spec => []TypeOK
<1>1. IInv => TypeOK
  BY DEF IInv
<1>2. QED
  BY <1>1, SharingInvariant, PTL

(* A table with a zero counter writes in place, and nobody else sees it.    *)
THEOREM ZeroIsSole == Spec => []ZeroMeansSole
BY SharingInvariant, SoleOwner, PTL

(* No variable is left with a broken entry list or a dangling pointer.      *)
THEOREM WellFormedViews == Spec => []ViewsWellFormed
<1>1. IInv => ViewsWellFormed
  BY DEF IInv
<1>2. QED
  BY <1>1, SharingInvariant, PTL

(* Copying on write implements assignment by value: every behaviour of the  *)
(* lazily copying tables is one of PhpArray.                               *)
THEOREM Refinement == Spec => ImplementsPhpArray
<1>1. Init => Promise!Init
  <2> SUFFICES ASSUME Init PROVE Promise!Init
    OBVIOUS
  <2>1. ArrOf = [v \in Vars |-> NoArray]
    BY DEF Init, ArrOf
  <2>2. QED
    BY <2>1 DEF Init, Promise!Init
<1>2. IInv /\ [Next]_vars => [Promise!Next]_(Promise!vars)
  BY NextStep, StutterStep, PromiseSteps
<1>3. QED
  BY <1>1, <1>2, SharingInvariant, PTL DEF Spec, ImplementsPhpArray, Promise!Spec
=============================================================================
