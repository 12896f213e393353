-------------------------- MODULE HashTableProofs ---------------------------
(***************************************************************************)
(* The structure of a table of php-hash.scm: the proofs that its chains,   *)
(* its list and its size agree, that a walk misses no entry and meets none *)
(* twice, and that each operation does to the array what ArrayValue says,  *)
(* for any keys, hash numbers, entries and sizes.                          *)
(***************************************************************************)
EXTENDS HashTable, Induction

(* What is at a place of a sequence of entries: before and behind them is   *)
(* the sentinel.                                                            *)
At(s, i) == IF i \in DOMAIN s THEN s[i] ELSE Nil

Distinct(s) == \A i, j \in DOMAIN s : s[i] = s[j] => i = j

(* From e along a pointer one meets the entries of s, one after the other.  *)
IsPath(pointer, e, s) ==
    /\ s \in Seq(Entries) /\ Distinct(s)
    /\ e = At(s, 1) /\ \A i \in DOMAIN s : pointer[s[i]] = At(s, i + 1)

LEMMA ConstantFacts ==
  /\ IsFiniteSet(Entries) /\ Entries \subseteq Nat /\ Nil \notin Entries /\ NoWalk \notin Links
  /\ Cardinality(Entries) \in Nat /\ HashNumber \in [Keys -> Nat] /\ DefaultSize \in Nat \ {0}
  /\ FirstThreshold \in Nat
  /\ MaxInt \in Nat /\ Null \in Vals /\ IntKeys = 0..MaxInt /\ Keys = IntKeys \cup StrKeys
  BY TableAssumption, ConstantsAssumption, FS_CardinalityType DEF IntKeys, Keys

LEMMA SeqFacts ==
  ASSUME NEW s \in Seq(Entries)
  PROVE  /\ DOMAIN s = 1..Len(s) /\ Len(s) \in Nat /\ ToSet(s) \subseteq Entries
         /\ \A i \in 1..Len(s) : s[i] \in Entries /\ s[i] \in ToSet(s) /\ At(s, i) = s[i]
         /\ \A e \in ToSet(s) : \E i \in 1..Len(s) : s[i] = e
         /\ \A i : i \notin 1..Len(s) => At(s, i) = Nil
  BY DEF ToSet, At

(* Distinct entries are no more than there are, and as many as their set.   *)
LEMMA DistinctIsShort ==
  ASSUME NEW s \in Seq(Entries), Distinct(s)
  PROVE  Len(s) <= Cardinality(Entries) /\ Cardinality(ToSet(s)) = Len(s) /\ IsFiniteSet(ToSet(s))
<1>1. s \in [1..Len(s) -> Entries] /\ Len(s) \in Nat /\ DOMAIN s = 1..Len(s)
  OBVIOUS
<1>2. IsFiniteSet(1..Len(s)) /\ Cardinality(1..Len(s)) = Len(s)
  <2> DEFINE l == Len(s)
  <2>1. l \in Nat
    BY <1>1
  <2> HIDE DEF l
  <2>2. IsFiniteSet(1..l) /\ Cardinality(1..l) = l
    BY <2>1, FS_Interval
  <2> QED
    BY <2>2 DEF l
<1>3. ExistsBijection(1..Len(s), ToSet(s))
  <2>1. s \in [1..Len(s) -> ToSet(s)] /\ \A x \in ToSet(s) : \E i \in 1..Len(s) : s[i] = x
    BY <1>1 DEF ToSet
  <2>2. \A i, j \in 1..Len(s) : s[i] = s[j] => i = j
    BY <1>1 DEF Distinct
  <2>3. s \in Injection(1..Len(s), ToSet(s))
    BY <2>1, <2>2 DEF Injection, IsInjective
  <2>4. s \in Surjection(1..Len(s), ToSet(s))
    BY <2>1 DEF Surjection
  <2> QED
    BY <2>3, <2>4 DEF ExistsBijection, Bijection
<1>4. IsFiniteSet(ToSet(s)) /\ Cardinality(ToSet(s)) = Len(s)
  BY <1>2, <1>3, FS_Bijection
<1>5. Cardinality(ToSet(s)) <= Cardinality(Entries)
  BY ConstantFacts, SeqFacts, FS_Subset
<1> QED
  BY <1>4, <1>5

-----------------------------------------------------------------------------
(* What Along finds is the path.                                            *)
FirstOf(s, n) == SubSeq(s, 1, IF n <= Len(s) THEN n ELSE Len(s))

LEMMA MeetOnPath ==
  ASSUME NEW pointer, NEW e, NEW s, IsPath(pointer, e, s), NEW n \in Nat, n # 0
  PROVE  MeetNext(pointer, e, FirstOf(s, n - 1), n) = FirstOf(s, n)
<1> DEFINE met == FirstOf(s, n - 1)
<1>1. s \in Seq(Entries) /\ Len(s) \in Nat /\ DOMAIN s = 1..Len(s) /\ n - 1 \in Nat
  BY DEF IsPath
<1>2. CASE n <= Len(s)
  <2>1. met = SubSeq(s, 1, n - 1) /\ FirstOf(s, n) = SubSeq(s, 1, n)
    BY <1>1, <1>2 DEF FirstOf
  <2>2. /\ met \in Seq(Entries) /\ Len(met) = n - 1 /\ (n # 1 => met[n - 1] = s[n - 1])
        /\ Append(met, s[n]) = SubSeq(s, 1, n)
    BY <1>1, <1>2, <2>1
  <2>3. (IF n = 1 THEN e ELSE pointer[s[n - 1]]) = s[n]
    <3>1. n # 1 => n - 1 \in DOMAIN s /\ (n - 1) + 1 = n
      BY <1>1, <1>2
    <3>2. n \in DOMAIN s
      BY <1>1, <1>2
    <3> QED
      BY <3>1, <3>2 DEF IsPath, At
  <2>4. s[n] \in Entries /\ s[n] # Nil
    BY <1>1, <1>2, ConstantFacts
  <2> HIDE DEF met
  <2> QED
    BY <2>1, <2>2, <2>3, <2>4 DEF MeetNext, met
<1>3. CASE ~(n <= Len(s))
  <2>1. met = SubSeq(s, 1, Len(s)) /\ FirstOf(s, n) = SubSeq(s, 1, Len(s)) /\ met = s
    BY <1>1, <1>3 DEF FirstOf
  <2>2. CASE Len(s) = n - 1
    <3>1. (IF n = 1 THEN e ELSE pointer[s[n - 1]]) = Nil
      <4>1. n # 1 => n - 1 \in DOMAIN s /\ (n - 1) + 1 = n
        BY <1>1, <2>2
      <4>2. n \notin DOMAIN s /\ (n = 1 => 1 \notin DOMAIN s)
        BY <1>1, <1>3
      <4> QED
        BY <4>1, <4>2 DEF IsPath, At
    <3> HIDE DEF met
    <3> QED
      BY <2>1, <2>2, <3>1 DEF MeetNext, met
  <2>3. CASE Len(s) # n - 1
    <3>1. n # 1
      BY <1>1, <1>3, <2>3
    <3> HIDE DEF met
    <3> QED
      BY <2>1, <2>3, <3>1 DEF MeetNext, met
  <2> QED
    BY <2>2, <2>3
<1> QED
  BY <1>2, <1>3

LEMMA AlongPath ==
  ASSUME NEW pointer, NEW e, NEW s, IsPath(pointer, e, s)
  PROVE  Along(pointer, e) = s
<1> DEFINE l == Cardinality(Entries)
           V == [n \in 0..l |-> {FirstOf(s, n)}]
           g == [p \in (1..l) \X Seq(Entries) |-> MeetNext(pointer, e, p[2], p[1])]
           Is(k) == k = [n \in 0..l |-> IF n = 0 THEN <<>> ELSE MeetNext(pointer, e, k[n - 1], n)]
<1>1. s \in Seq(Entries) /\ l \in Nat /\ Len(s) \in Nat /\ Len(s) <= l
  BY ConstantFacts, DistinctIsShort DEF IsPath
<1> HIDE DEF l
<1>2. FirstOf(s, 0) = <<>> /\ FirstOf(s, l) = s
  BY <1>1 DEF FirstOf
<1>3. ASSUME NEW n \in 1..l PROVE g[<<n, FirstOf(s, n - 1)>>] = FirstOf(s, n)
  <2>1. FirstOf(s, n - 1) \in Seq(Entries)
    BY <1>1 DEF FirstOf
  <2>2. g[<<n, FirstOf(s, n - 1)>>] = MeetNext(pointer, e, FirstOf(s, n - 1), n)
    BY <2>1
  <2> QED
    BY <2>2, MeetOnPath
<1>4. PICK f : Goes(f, <<>>, g, l) /\ \A n \in 0..l : f[n] \in V[n]
  <2>1. <<>> \in V[0]
    BY <1>1, <1>2
  <2>2. ASSUME NEW n \in 1..l, NEW x \in V[n - 1] PROVE g[<<n, x>>] \in V[n]
    <3>1. n \in 0..l /\ n - 1 \in 0..l
      BY <1>1
    <3> HIDE DEF g
    <3>2. x = FirstOf(s, n - 1)
      BY <3>1
    <3> QED
      BY <1>3, <3>1, <3>2
  <2> HIDE DEF V, g
  <2> QED
    BY <1>1, <2>1, <2>2, RecursionWithin
<1>5. \A n \in 0..l : f[n] = FirstOf(s, n)
  <2> HIDE DEF g
  <2> QED
    BY <1>4
<1>6. Is(f)
  <2>1. ASSUME NEW n \in 1..l PROVE f[n] = MeetNext(pointer, e, f[n - 1], n)
    <3>1. n \in 0..l /\ n - 1 \in 0..l /\ n # 0 /\ n \in Nat
      BY <1>1
    <3> QED
      BY <1>5, <3>1, MeetOnPath
  <2>2. \A n \in 0..l : n = 0 \/ n \in 1..l
    BY <1>1
  <2>3. f = [n \in 0..l |-> f[n]] /\ f[0] = <<>>
    BY <1>4 DEF Goes, UpTo
  <2> HIDE DEF V, g
  <2> QED
    BY <2>1, <2>2, <2>3
<1>7. \A k : Is(k) => k = f
  <2> SUFFICES ASSUME NEW k, Is(k) PROVE k = f
    OBVIOUS
  <2>1. UpTo(l, k) /\ UpTo(l, f)
    BY <1>6 DEF UpTo
  <2>2. k[0] = f[0]
    BY <1>1, <1>6
  <2>3. ASSUME NEW n \in 1..l, k[n - 1] = f[n - 1] PROVE k[n] = f[n]
    <3>1. n \in 0..l /\ n # 0
      BY <1>1
    <3>2. k[n] = MeetNext(pointer, e, k[n - 1], n) /\ f[n] = MeetNext(pointer, e, f[n - 1], n)
      BY <3>1, <1>6
    <3> QED
      BY <2>3, <3>2
  <2> HIDE DEF Is
  <2> QED
    BY <1>1, <2>1, <2>2, <2>3, SameRecursion
<1>8. (CHOOSE k : Is(k)) = f
  <2> HIDE DEF Is
  <2> QED
    BY <1>6, <1>7
<1>9. Along(pointer, e) = f[l]
  BY <1>8 DEF Along, l
<1> QED
  BY <1>1, <1>2, <1>5, <1>9

-----------------------------------------------------------------------------
(* The record of a table, and what it is to be one: a list of entries that  *)
(* next and prev go along, from head to tail and back, one for each key;    *)
(* and for every bucket a chain of those whose key belongs there.           *)
Buckets == UNION {[0..(n - 1) -> Links] : n \in Nat \ {0}}

TableRecords ==
    [size: Nat, buckets: Buckets, cur: Links, head: Links, tail: Links, max: -1..MaxInt,
     threshold: Nat, chain: [Entries -> Links], next: [Entries -> Links],
     prev: [Entries -> Links], key: [Entries -> Keys], val: [Entries -> Vals]]

Listing(h, L) ==
    /\ IsPath(h.next, h.head, L)
    /\ h.tail = At(L, Len(L)) /\ \A i \in DOMAIN L : h.prev[L[i]] = At(L, i - 1)

Among(h, S, b) == {e \in S : BucketOf(h, h.key[e]) = b}
IsChain(h, S, b, c) == IsPath(h.chain, h.buckets[b], c) /\ ToSet(c) = Among(h, S, b)
Chained(h, S) == \A b \in DOMAIN h.buckets : \E c : IsChain(h, S, b, c)

UniqueKeys(h, S) == \A e, f \in S : h.key[e] = h.key[f] => e = f

IsTable(h, L) ==
    /\ h \in TableRecords
    /\ Listing(h, L) /\ h.size = Len(L)
    /\ UniqueKeys(h, ToSet(L)) /\ Chained(h, ToSet(L))
    /\ h.cur \in ToSet(L) \cup {Nil}

LEMMA BucketFacts ==
  ASSUME NEW h \in TableRecords
  PROVE  /\ BucketCount(h) \in Nat \ {0} /\ DOMAIN h.buckets = 0..(BucketCount(h) - 1)
         /\ h.buckets \in [0..(BucketCount(h) - 1) -> Links]
         /\ \A k \in Keys : BucketOf(h, k) \in DOMAIN h.buckets
<1>1. h.buckets \in Buckets
  BY DEF TableRecords
<1>2. PICK n \in Nat \ {0} : h.buckets \in [0..(n - 1) -> Links]
  BY <1>1 DEF Buckets
<1>3. Cardinality(0..(n - 1)) = n
  <2>1. 0 \in Int /\ n - 1 \in Int /\ ~(0 > n - 1)
    OBVIOUS
  <2>2. Cardinality(0..(n - 1)) = (n - 1) - 0 + 1
    BY <2>1, FS_Interval
  <2> QED
    BY <2>2
<1>4. BucketCount(h) = n
  BY <1>2, <1>3 DEF BucketCount
<1>5. ASSUME NEW k \in Keys PROVE BucketOf(h, k) \in 0..(n - 1)
  <2>1. HashNumber[k] \in Nat
    BY ConstantFacts
  <2> QED
    BY <2>1, <1>4 DEF BucketOf
<1> QED
  BY <1>2, <1>4, <1>5

(* Which bucket depends on how many there are.                              *)
LEMMA SameBucket ==
  ASSUME NEW h, NEW g, DOMAIN g.buckets = DOMAIN h.buckets
  PROVE  BucketCount(g) = BucketCount(h) /\ \A k : BucketOf(g, k) = BucketOf(h, k)
  BY DEF BucketCount, BucketOf

LEMMA SameChains ==
  ASSUME NEW h, NEW g, NEW S, Chained(h, S), g.buckets = h.buckets,
         \A e \in S : g.chain[e] = h.chain[e] /\ g.key[e] = h.key[e]
  PROVE  Chained(g, S)
<1> SUFFICES ASSUME NEW b \in DOMAIN h.buckets PROVE \E c : IsChain(g, S, b, c)
  BY DEF Chained
<1>1. PICK c : IsChain(h, S, b, c)
  BY DEF Chained
<1>2. Among(g, S, b) = Among(h, S, b)
  BY SameBucket DEF Among
<1>3. ToSet(c) \subseteq S /\ c \in Seq(Entries)
  BY <1>1 DEF IsChain, Among, IsPath
<1>4. \A i \in DOMAIN c : c[i] \in S
  BY <1>3 DEF ToSet
<1>5. IsPath(g.chain, g.buckets[b], c)
  BY <1>1, <1>4 DEF IsChain, IsPath
<1> QED
  BY <1>1, <1>2, <1>5 DEF IsChain

(* %php-hash-lookup finds the entry of a key, and only that.                *)
LEMMA LookupFinds ==
  ASSUME NEW h \in TableRecords, NEW S, Chained(h, S), NEW k \in Keys
  PROVE  IF \E e \in S : h.key[e] = k
         THEN Lookup(h, k) \in S /\ h.key[Lookup(h, k)] = k
         ELSE Lookup(h, k) = Nil
<1> DEFINE b == BucketOf(h, k)
<1>1. PICK c : IsChain(h, S, b, c)
  BY BucketFacts DEF Chained
<1>2. ChainIn(h, b) = c
  BY <1>1, AlongPath DEF ChainIn, IsChain
<1> DEFINE found == {i \in DOMAIN c : h.key[c[i]] = k}
<1>3. Lookup(h, k) = IF found = {} THEN Nil ELSE c[CHOOSE i \in found : \A j \in found : i <= j]
  BY <1>2 DEF Lookup
<1>4. c \in Seq(Entries) /\ ToSet(c) = Among(h, S, b) /\ found \subseteq Nat
  BY <1>1 DEF IsChain, IsPath
<1>5. CASE \E e \in S : h.key[e] = k
  <2>1. PICK e \in S : h.key[e] = k
    BY <1>5
  <2>2. e \in ToSet(c)
    BY <1>4, <2>1 DEF Among
  <2>3. found # {}
    BY <2>1, <2>2 DEF ToSet
  <2>4. \E i \in found : \A j \in found : i <= j
    <3> HIDE DEF found
    <3> QED
      BY <1>4, <2>3, LeastNatural
  <2>5. PICK i \in found : Lookup(h, k) = c[i]
    <3> HIDE DEF found
    <3> QED
      BY <1>3, <2>3, <2>4
  <2>6. c[i] \in S /\ h.key[c[i]] = k
    BY <1>4 DEF Among, ToSet
  <2> QED
    BY <1>5, <2>5, <2>6
<1>6. CASE ~\E e \in S : h.key[e] = k
  <2>1. \A i \in DOMAIN c : c[i] \in S
    BY <1>4 DEF Among, ToSet
  <2> QED
    BY <1>3, <1>6, <2>1
<1> QED
  BY <1>5, <1>6

-----------------------------------------------------------------------------
(* Expansion.  A cell in front of its chain.                                *)
InFront(e, c) == <<e>> \o c

LEMMA FrontFacts ==
  ASSUME NEW c \in Seq(Entries), NEW e \in Entries
  PROVE  /\ InFront(e, c) \in Seq(Entries) /\ Len(InFront(e, c)) = Len(c) + 1
         /\ InFront(e, c)[1] = e /\ \A i \in 1..Len(c) : InFront(e, c)[i + 1] = c[i]
         /\ \A i \in 2..(Len(c) + 1) : InFront(e, c)[i] = c[i - 1] /\ i - 1 \in 1..Len(c)
         /\ ToSet(InFront(e, c)) = ToSet(c) \cup {e}
<1>1. /\ InFront(e, c) \in Seq(Entries) /\ Len(InFront(e, c)) = Len(c) + 1
      /\ InFront(e, c)[1] = e /\ \A i \in 2..(Len(c) + 1) : InFront(e, c)[i] = c[i - 1]
  BY DEF InFront
<1>2. Len(c) \in Nat
  OBVIOUS
<1>3. \A i \in 1..Len(c) : InFront(e, c)[i + 1] = c[i]
  <2> TAKE i \in 1..Len(c)
  <2>1. i + 1 \in 2..(Len(c) + 1) /\ (i + 1) - 1 = i
    BY <1>2
  <2> QED
    BY <1>1, <2>1
<1>4. \A i \in 1..(Len(c) + 1) : i = 1 \/ i \in 2..(Len(c) + 1)
  BY <1>2
<1>5. \A i \in 2..(Len(c) + 1) : i - 1 \in 1..Len(c)
  BY <1>2
<1>6. ToSet(InFront(e, c)) = ToSet(c) \cup {e}
  <2>1. DOMAIN c = 1..Len(c) /\ DOMAIN InFront(e, c) = 1..(Len(c) + 1)
    BY <1>1
  <2>2. ASSUME NEW x \in ToSet(InFront(e, c)) PROVE x \in ToSet(c) \cup {e}
    BY <1>1, <1>4, <1>5, <2>1 DEF ToSet
  <2>3. ASSUME NEW x \in ToSet(c) PROVE x \in ToSet(InFront(e, c))
    <3>1. PICK i \in 1..Len(c) : c[i] = x
      BY <2>1 DEF ToSet
    <3>2. i + 1 \in 1..(Len(c) + 1)
      BY <1>2
    <3> QED
      BY <1>3, <2>1, <3>1, <3>2 DEF ToSet
  <2>4. e \in ToSet(InFront(e, c))
    <3>1. 1 \in 1..(Len(c) + 1)
      BY <1>2
    <3> QED
      BY <1>1, <2>1, <3>1 DEF ToSet
  <2> QED
    BY <2>2, <2>3, <2>4
<1> QED
  BY <1>1, <1>3, <1>5, <1>6

LEMMA PathInFront ==
  ASSUME NEW p, NEW q, NEW f, NEW c, IsPath(p, f, c), NEW e \in Entries, e \notin ToSet(c),
         \A x \in ToSet(c) : q[x] = p[x], q[e] = f
  PROVE  IsPath(q, e, InFront(e, c))
<1> DEFINE d == InFront(e, c)
<1>1. c \in Seq(Entries) /\ Len(c) \in Nat /\ DOMAIN c = 1..Len(c)
  BY DEF IsPath
<1>2. /\ d \in Seq(Entries) /\ Len(d) = Len(c) + 1 /\ d[1] = e
      /\ \A i \in 1..Len(c) : d[i + 1] = c[i]
      /\ \A i \in 2..(Len(c) + 1) : d[i] = c[i - 1] /\ i - 1 \in 1..Len(c)
  BY <1>1, FrontFacts
<1> HIDE DEF d
<1>3. DOMAIN d = 1..(Len(c) + 1) /\ \A i \in 1..(Len(c) + 1) : i = 1 \/ i \in 2..(Len(c) + 1)
  BY <1>1, <1>2
<1>4. Distinct(d)
  <2> SUFFICES ASSUME NEW i \in 1..(Len(c) + 1), NEW j \in 1..(Len(c) + 1), d[i] = d[j] PROVE i = j
    BY <1>3 DEF Distinct
  <2>1. \A k \in 2..(Len(c) + 1) : d[k] # e
    BY <1>1, <1>2 DEF ToSet
  <2>2. CASE i = 1 \/ j = 1
    BY <1>2, <1>3, <2>1, <2>2
  <2>3. CASE i # 1 /\ j # 1
    <3>1. c[i - 1] = c[j - 1] /\ i - 1 \in DOMAIN c /\ j - 1 \in DOMAIN c
      BY <1>1, <1>2, <1>3, <2>3
    <3>2. i - 1 = j - 1
      BY <3>1 DEF IsPath, Distinct
    <3> QED
      BY <3>2
  <2> QED
    BY <2>2, <2>3
<1>5. \A i \in 1..(Len(c) + 1) : At(d, i + 1) = At(c, i)
  <2> TAKE i \in 1..(Len(c) + 1)
  <2>1. CASE i \in 1..Len(c)
    <3>1. i + 1 \in 1..(Len(c) + 1)
      BY <1>1, <2>1
    <3> QED
      BY <1>1, <1>2, <1>3, <2>1, <3>1 DEF At
  <2>2. CASE i \notin 1..Len(c)
    <3>1. i + 1 \notin 1..(Len(c) + 1)
      BY <1>1, <2>2
    <3> QED
      BY <1>1, <1>3, <2>2, <3>1 DEF At
  <2> QED
    BY <2>1, <2>2
<1>6. ASSUME NEW i \in 1..(Len(c) + 1) PROVE q[d[i]] = At(d, i + 1)
  <2>1. CASE i = 1
    <3>1. q[d[i]] = f /\ f = At(c, 1)
      BY <1>2, <2>1 DEF IsPath
    <3> QED
      BY <1>5, <2>1, <3>1
  <2>2. CASE i \in 2..(Len(c) + 1)
    <3>1. i - 1 \in DOMAIN c /\ (i - 1) + 1 = i /\ d[i] = c[i - 1]
      BY <1>1, <1>2, <2>2
    <3>2. c[i - 1] \in ToSet(c)
      BY <3>1 DEF ToSet
    <3>3. q[d[i]] = At(c, i)
      BY <3>1, <3>2 DEF IsPath
    <3> QED
      BY <1>5, <3>3
  <2> QED
    BY <1>3, <2>1, <2>2
<1>7. e = At(d, 1)
  BY <1>1, <1>2, <1>3 DEF At
<1> QED
  BY <1>2, <1>3, <1>4, <1>6, <1>7 DEF IsPath, d

(* A cell is pushed on its chain.                                           *)
SameList(g, h) ==
    /\ g.size = h.size /\ g.cur = h.cur /\ g.head = h.head /\ g.tail = h.tail /\ g.max = h.max
    /\ g.next = h.next /\ g.prev = h.prev /\ g.key = h.key /\ g.val = h.val

LEMMA OntoFields ==
  ASSUME NEW h \in TableRecords, NEW e \in Entries
  PROVE  /\ Onto(h, e) \in TableRecords /\ SameList(Onto(h, e), h)
         /\ Onto(h, e).threshold = h.threshold
         /\ Onto(h, e).chain = [h.chain EXCEPT ![e] = h.buckets[BucketOf(h, h.key[e])]]
         /\ Onto(h, e).buckets = [h.buckets EXCEPT ![BucketOf(h, h.key[e])] = e]
<1> DEFINE b == BucketOf(h, h.key[e])
<1>1. h.key[e] \in Keys /\ h.chain \in [Entries -> Links]
  BY DEF TableRecords
<1>2. b \in DOMAIN h.buckets /\ h.buckets[b] \in Links
  BY <1>1, BucketFacts
<1>3. e \in Links
  BY DEF Links
<1>4. [h.chain EXCEPT ![e] = h.buckets[b]] \in [Entries -> Links]
  <2> HIDE DEF b
  <2> QED
    BY <1>1, <1>2
<1>5. [h.buckets EXCEPT ![b] = e] \in Buckets
  <2>1. PICK n \in Nat \ {0} : h.buckets \in [0..(n - 1) -> Links]
    BY DEF TableRecords, Buckets
  <2> HIDE DEF b
  <2>2. [h.buckets EXCEPT ![b] = e] \in [0..(n - 1) -> Links]
    BY <1>3, <2>1
  <2> QED
    BY <2>2 DEF Buckets
<1>6. Onto(h, e) = [h EXCEPT !.chain[e] = h.buckets[b], !.buckets[b] = e]
  BY DEF Onto
<1> HIDE DEF b
<1> QED
  BY <1>4, <1>5, <1>6 DEF TableRecords, SameList, b

LEMMA OntoChains ==
  ASSUME NEW h \in TableRecords, NEW e \in Entries, NEW S \in SUBSET Entries, e \notin S,
         Chained(h, S)
  PROVE  Chained(Onto(h, e), S \cup {e})
<1> DEFINE g == Onto(h, e)
           b == BucketOf(h, h.key[e])
<1>0. h.key[e] \in Keys /\ h.chain \in [Entries -> Links]
  BY DEF TableRecords
<1>1. /\ g \in TableRecords /\ SameList(g, h) /\ b \in DOMAIN h.buckets
      /\ g.chain = [h.chain EXCEPT ![e] = h.buckets[b]] /\ g.buckets = [h.buckets EXCEPT ![b] = e]
      /\ h.chain \in [Entries -> Links]
  BY <1>0, OntoFields, BucketFacts
<1> HIDE DEF g
<1>2. /\ DOMAIN g.buckets = DOMAIN h.buckets
      /\ \A k : BucketOf(g, k) = BucketOf(h, k)
      /\ g.buckets[b] = e /\ \A a \in DOMAIN h.buckets : a # b => g.buckets[a] = h.buckets[a]
      /\ g.chain[e] = h.buckets[b] /\ \A x \in Entries : x # e => g.chain[x] = h.chain[x]
      /\ g.key = h.key
  BY <1>1, SameBucket DEF SameList
<1> SUFFICES ASSUME NEW a \in DOMAIN h.buckets PROVE \E c : IsChain(g, S \cup {e}, a, c)
  BY <1>2 DEF Chained, g
<1>3. PICK c : IsPath(h.chain, h.buckets[a], c) /\ ToSet(c) = Among(h, S, a)
  BY DEF Chained, IsChain
<1>4. Among(g, S \cup {e}, a) = Among(h, S, a) \cup (IF a = b THEN {e} ELSE {})
  BY <1>2 DEF Among, b
<1>5. ToSet(c) \subseteq Entries \ {e} /\ c \in Seq(Entries)
  BY <1>3 DEF Among, IsPath
<1> HIDE DEF b
<1>6. CASE a = b
  <2>1. \A x \in ToSet(c) : g.chain[x] = h.chain[x]
    BY <1>2, <1>5
  <2>2. IsPath(g.chain, e, InFront(e, c))
    BY <1>2, <1>3, <1>5, <1>6, <2>1, PathInFront
  <2>3. ToSet(InFront(e, c)) = ToSet(c) \cup {e}
    BY <1>5, FrontFacts
  <2> QED
    BY <1>2, <1>3, <1>4, <1>6, <2>2, <2>3 DEF IsChain
<1>7. CASE a # b
  <2>1. \A i \in DOMAIN c : c[i] # e /\ c[i] \in Entries
    BY <1>5 DEF ToSet
  <2>2. IsPath(g.chain, h.buckets[a], c)
    BY <1>2, <1>3, <2>1 DEF IsPath
  <2> QED
    BY <1>2, <1>3, <1>4, <1>7, <2>2 DEF IsChain
<1> QED
  BY <1>6, <1>7

(* One after the other, each once.                                          *)
LEMMA RechainKeeps ==
  ASSUME NEW h \in TableRecords, Chained(h, {}), NEW cells \in Seq(Entries), Distinct(cells)
  PROVE  /\ Rechain(h, cells) \in TableRecords /\ Chained(Rechain(h, cells), ToSet(cells))
         /\ SameList(Rechain(h, cells), h) /\ Rechain(h, cells).threshold = h.threshold
<1> DEFINE l == Len(cells)
           Before(n) == {cells[i] : i \in 1..n}
           Done(n) == {g \in TableRecords : Chained(g, Before(n)) /\ SameList(g, h) /\ g.threshold = h.threshold}
           V == [n \in 0..l |-> Done(n)]
           step == [p \in (1..l) \X TableRecords |-> Onto(p[2], cells[p[1]])]
           Is(k) == k = [n \in 0..l |-> IF n = 0 THEN h ELSE Onto(k[n - 1], cells[n])]
<1>1. l \in Nat /\ DOMAIN cells = 1..l /\ \A n \in 1..l : cells[n] \in Entries
  OBVIOUS
<1> HIDE DEF l
<1>2. Before(0) = {} /\ Before(l) = ToSet(cells)
  BY <1>1 DEF ToSet
<1>3. ASSUME NEW n \in 1..l
      PROVE  /\ Before(n) = Before(n - 1) \cup {cells[n]} /\ cells[n] \notin Before(n - 1)
             /\ Before(n - 1) \in SUBSET Entries
  <2>1. n - 1 \in Nat /\ 1..n = 1..(n - 1) \cup {n} /\ n \notin 1..(n - 1) /\ 1..(n - 1) \subseteq 1..l
    BY <1>1
  <2>2. \A i \in 1..(n - 1) : cells[i] # cells[n] /\ cells[i] \in Entries
    BY <1>1, <2>1 DEF Distinct
  <2> QED
    BY <2>1, <2>2
<1> HIDE DEF Before
<1>4. ASSUME NEW n \in 1..l, NEW g \in Done(n - 1)
      PROVE  Onto(g, cells[n]) \in Done(n) /\ step[<<n, g>>] = Onto(g, cells[n])
  <2>1. g \in TableRecords /\ cells[n] \in Entries
    BY <1>1
  <2>2. Onto(g, cells[n]) \in TableRecords /\ SameList(Onto(g, cells[n]), g) /\ Onto(g, cells[n]).threshold = g.threshold
    BY <2>1, OntoFields
  <2>3. Chained(Onto(g, cells[n]), Before(n))
    BY <1>3, <2>1, OntoChains
  <2> QED
    BY <2>1, <2>2, <2>3 DEF SameList
<1>5. h \in Done(0)
  BY <1>2 DEF SameList
<1> HIDE DEF step, Done
<1>6. PICK f : Goes(f, h, step, l) /\ \A n \in 0..l : f[n] \in V[n]
  <2>1. h \in V[0]
    BY <1>1, <1>5
  <2>2. ASSUME NEW n \in 1..l, NEW x \in V[n - 1] PROVE step[<<n, x>>] \in V[n]
    <3>1. n \in 0..l /\ n - 1 \in 0..l
      BY <1>1
    <3> QED
      BY <1>4, <3>1
  <2> HIDE DEF V
  <2> QED
    BY <1>1, <2>1, <2>2, RecursionWithin
<1>7. Is(f) /\ \A n \in 1..l : f[n - 1] \in Done(n - 1)
  <2>1. ASSUME NEW n \in 1..l PROVE f[n] = Onto(f[n - 1], cells[n]) /\ f[n - 1] \in Done(n - 1)
    <3>1. n \in 0..l /\ n - 1 \in 0..l
      BY <1>1
    <3>2. f[n - 1] \in Done(n - 1) /\ f[n] = step[<<n, f[n - 1]>>]
      BY <1>6, <3>1 DEF Goes
    <3> QED
      BY <1>4, <3>2
  <2>2. \A n \in 0..l : n = 0 \/ n \in 1..l
    BY <1>1
  <2>3. f = [n \in 0..l |-> f[n]] /\ f[0] = h
    BY <1>6 DEF Goes, UpTo
  <2> HIDE DEF V
  <2> QED
    BY <2>1, <2>2, <2>3
<1>8. \A k : Is(k) => k = f
  <2> SUFFICES ASSUME NEW k, Is(k) PROVE k = f
    OBVIOUS
  <2>1. UpTo(l, k) /\ UpTo(l, f)
    BY <1>7 DEF UpTo
  <2>2. k[0] = f[0]
    BY <1>1, <1>7
  <2>3. ASSUME NEW n \in 1..l, k[n - 1] = f[n - 1] PROVE k[n] = f[n]
    <3>1. n \in 0..l /\ n # 0
      BY <1>1
    <3>2. k[n] = Onto(k[n - 1], cells[n]) /\ f[n] = Onto(f[n - 1], cells[n])
      BY <3>1, <1>7
    <3> QED
      BY <2>3, <3>2
  <2> HIDE DEF Is
  <2> QED
    BY <1>1, <2>1, <2>2, <2>3, SameRecursion
<1>9. (CHOOSE k : Is(k)) = f
  <2> HIDE DEF Is
  <2> QED
    BY <1>7, <1>8
<1>10. Rechain(h, cells) = f[l]
  BY <1>9 DEF Rechain, l
<1>11. f[l] \in Done(l)
  BY <1>1, <1>6
<1> QED
  BY <1>2, <1>10, <1>11 DEF Done

(* Chains put end to end.                                                   *)
LEMMA JoinFacts ==
  ASSUME NEW s \in Seq(Entries), NEW c \in Seq(Entries)
  PROVE  /\ s \o c \in Seq(Entries) /\ Len(s \o c) = Len(s) + Len(c)
         /\ \A i \in 1..Len(s) : (s \o c)[i] = s[i]
         /\ \A i \in 1..Len(c) : (s \o c)[Len(s) + i] = c[i]
         /\ \A i \in 1..(Len(s) + Len(c)) : i \in 1..Len(s) \/ i - Len(s) \in 1..Len(c)
         /\ ToSet(s \o c) = ToSet(s) \cup ToSet(c)
         /\ Distinct(s) /\ Distinct(c) /\ ToSet(s) \cap ToSet(c) = {} => Distinct(s \o c)
<1> DEFINE d == s \o c
           l == Len(s)
           m == Len(c)
<1>1. /\ d \in Seq(Entries) /\ Len(d) = l + m /\ l \in Nat /\ m \in Nat
      /\ \A i \in 1..l : d[i] = s[i]
      /\ \A i \in 1..(l + m) : i \notin 1..l => d[i] = c[i - l]
      /\ DOMAIN s = 1..l /\ DOMAIN c = 1..m
  OBVIOUS
<1> HIDE DEF d, l, m
<1>2. \A i \in 1..m : d[l + i] = c[i]
  <2> TAKE i \in 1..m
  <2>1. l + i \in 1..(l + m) /\ l + i \notin 1..l /\ (l + i) - l = i
    BY <1>1
  <2> QED
    BY <1>1, <2>1
<1>3. \A i \in 1..(l + m) : i \in 1..l \/ i - l \in 1..m
  BY <1>1
<1>4. DOMAIN d = 1..(l + m)
  BY <1>1
<1>5. ToSet(d) = ToSet(s) \cup ToSet(c)
  <2>1. ASSUME NEW x \in ToSet(d) PROVE x \in ToSet(s) \cup ToSet(c)
    <3>1. PICK i \in 1..(l + m) : d[i] = x
      BY <1>4 DEF ToSet
    <3>2. CASE i \in 1..l
      BY <1>1, <3>1, <3>2 DEF ToSet
    <3>3. CASE i \notin 1..l
      BY <1>1, <1>3, <3>1, <3>3 DEF ToSet
    <3> QED
      BY <3>2, <3>3
  <2>2. ASSUME NEW x \in ToSet(s) PROVE x \in ToSet(d)
    <3>1. PICK i \in 1..l : s[i] = x
      BY <1>1 DEF ToSet
    <3>2. i \in 1..(l + m)
      BY <1>1
    <3> QED
      BY <1>1, <1>4, <3>1, <3>2 DEF ToSet
  <2>3. ASSUME NEW x \in ToSet(c) PROVE x \in ToSet(d)
    <3>1. PICK i \in 1..m : c[i] = x
      BY <1>1 DEF ToSet
    <3>2. l + i \in 1..(l + m)
      BY <1>1
    <3> QED
      BY <1>2, <1>4, <3>1, <3>2 DEF ToSet
  <2> QED
    BY <2>1, <2>2, <2>3
<1>6. ASSUME Distinct(s), Distinct(c), ToSet(s) \cap ToSet(c) = {} PROVE Distinct(d)
  <2> SUFFICES ASSUME NEW i \in 1..(l + m), NEW j \in 1..(l + m), d[i] = d[j] PROVE i = j
    BY <1>4 DEF Distinct
  <2>1. CASE i \in 1..l /\ j \in 1..l
    <3>1. s[i] = s[j]
      BY <1>1, <2>1
    <3> QED
      BY <1>1, <1>6, <2>1, <3>1 DEF Distinct
  <2>2. CASE i \notin 1..l /\ j \notin 1..l
    <3>1. c[i - l] = c[j - l] /\ i - l \in 1..m /\ j - l \in 1..m
      BY <1>1, <1>3, <2>2
    <3>2. i - l = j - l
      BY <1>1, <1>6, <3>1 DEF Distinct
    <3> QED
      BY <1>1, <3>2
  <2>3. \A a \in 1..l, b \in 1..(l + m) : b \notin 1..l => d[a] # d[b]
    <3> TAKE a \in 1..l, b \in 1..(l + m)
    <3> HAVE b \notin 1..l
    <3>1. d[a] = s[a] /\ d[b] = c[b - l] /\ b - l \in 1..m
      BY <1>1, <1>3
    <3>2. d[a] \in ToSet(s) /\ d[b] \in ToSet(c)
      BY <1>1, <3>1 DEF ToSet
    <3> QED
      BY <1>6, <3>2
  <2> QED
    BY <2>1, <2>2, <2>3
<1> QED
  BY <1>1, <1>2, <1>3, <1>5, <1>6 DEF d, l, m

(* All the cells of a table, each once.                                     *)
LEMMA CellsFacts ==
  ASSUME NEW h \in TableRecords, NEW S \in SUBSET Entries, Chained(h, S)
  PROVE  Cells(h) \in Seq(Entries) /\ Distinct(Cells(h)) /\ ToSet(Cells(h)) = S
<1> DEFINE l == BucketCount(h)
           Upto(n) == {e \in S : BucketOf(h, h.key[e]) < n}
           Done(n) == {s \in Seq(Entries) : Distinct(s) /\ ToSet(s) = Upto(n)}
           V == [n \in 0..l |-> Done(n)]
           step == [p \in (1..l) \X Seq(Entries) |-> p[2] \o ChainIn(h, p[1] - 1)]
           Is(k) == k = [n \in 0..l |-> IF n = 0 THEN <<>> ELSE k[n - 1] \o ChainIn(h, n - 1)]
<1>1. /\ l \in Nat /\ DOMAIN h.buckets = 0..(l - 1)
      /\ \A e \in S : BucketOf(h, h.key[e]) \in 0..(l - 1)
  <2>1. \A e \in S : h.key[e] \in Keys
    BY DEF TableRecords
  <2> QED
    BY <2>1, BucketFacts
<1> HIDE DEF l
<1>2. Upto(0) = {} /\ Upto(l) = S
  BY <1>1
<1>3. ASSUME NEW n \in 1..l
      PROVE  /\ n - 1 \in DOMAIN h.buckets /\ n - 1 \in 0..l /\ n \in 0..l /\ n # 0
             /\ Upto(n) = Upto(n - 1) \cup Among(h, S, n - 1)
             /\ Upto(n - 1) \cap Among(h, S, n - 1) = {}
  <2>1. n - 1 \in DOMAIN h.buckets /\ n - 1 \in 0..l /\ n \in 0..l
    BY <1>1
  <2>2. \A e \in S : /\ BucketOf(h, h.key[e]) < n <=>
                           BucketOf(h, h.key[e]) < n - 1 \/ BucketOf(h, h.key[e]) = n - 1
                     /\ ~(BucketOf(h, h.key[e]) < n - 1 /\ BucketOf(h, h.key[e]) = n - 1)
    BY <1>1
  <2> QED
    BY <2>1, <2>2 DEF Among
<1> HIDE DEF Upto
<1>4. ASSUME NEW n \in 1..l, NEW s \in Done(n - 1)
      PROVE  s \o ChainIn(h, n - 1) \in Done(n) /\ step[<<n, s>>] = s \o ChainIn(h, n - 1)
  <2>1. PICK c : IsChain(h, S, n - 1, c)
    BY <1>3 DEF Chained
  <2>2. ChainIn(h, n - 1) = c
    BY <2>1, AlongPath DEF ChainIn, IsChain
  <2>3. c \in Seq(Entries) /\ Distinct(c) /\ ToSet(c) = Among(h, S, n - 1)
    BY <2>1 DEF IsChain, IsPath
  <2>4. s \in Seq(Entries) /\ Distinct(s) /\ ToSet(s) = Upto(n - 1)
    OBVIOUS
  <2>5. s \o c \in Done(n)
    <3>1. ToSet(s) \cap ToSet(c) = {} /\ Upto(n) = ToSet(s) \cup ToSet(c)
      BY <1>3, <2>3, <2>4
    <3> QED
      BY <2>3, <2>4, <3>1, JoinFacts
  <2> QED
    BY <2>2, <2>4, <2>5
<1>5. <<>> \in Done(0)
  BY <1>2 DEF Distinct, ToSet
<1> HIDE DEF step, Done
<1>6. PICK f : Goes(f, <<>>, step, l) /\ \A n \in 0..l : f[n] \in V[n]
  <2>1. <<>> \in V[0]
    BY <1>1, <1>5
  <2>2. ASSUME NEW n \in 1..l, NEW x \in V[n - 1] PROVE step[<<n, x>>] \in V[n]
    BY <1>3, <1>4
  <2> HIDE DEF V
  <2> QED
    BY <1>1, <2>1, <2>2, RecursionWithin
<1>7. Is(f)
  <2>1. ASSUME NEW n \in 1..l PROVE f[n] = f[n - 1] \o ChainIn(h, n - 1)
    <3>1. f[n - 1] \in Done(n - 1) /\ f[n] = step[<<n, f[n - 1]>>]
      BY <1>3, <1>6 DEF Goes
    <3> QED
      BY <1>4, <3>1
  <2>2. \A n \in 0..l : n = 0 \/ n \in 1..l
    BY <1>1
  <2>3. f = [n \in 0..l |-> f[n]] /\ f[0] = <<>>
    BY <1>6 DEF Goes, UpTo
  <2> HIDE DEF V
  <2> QED
    BY <2>1, <2>2, <2>3
<1>8. \A k : Is(k) => k = f
  <2> SUFFICES ASSUME NEW k, Is(k) PROVE k = f
    OBVIOUS
  <2>1. UpTo(l, k) /\ UpTo(l, f)
    BY <1>7 DEF UpTo
  <2>2. k[0] = f[0]
    BY <1>1, <1>7
  <2>3. ASSUME NEW n \in 1..l, k[n - 1] = f[n - 1] PROVE k[n] = f[n]
    <3>1. k[n] = k[n - 1] \o ChainIn(h, n - 1) /\ f[n] = f[n - 1] \o ChainIn(h, n - 1)
      BY <1>3, <1>7
    <3> QED
      BY <2>3, <3>1
  <2> HIDE DEF Is
  <2> QED
    BY <1>1, <2>1, <2>2, <2>3, SameRecursion
<1>9. (CHOOSE k : Is(k)) = f
  <2> HIDE DEF Is
  <2> QED
    BY <1>7, <1>8
<1>10. Cells(h) = f[l]
  BY <1>9 DEF Cells, l
<1>11. f[l] \in Done(l)
  BY <1>1, <1>6
<1> QED
  BY <1>2, <1>10, <1>11 DEF Done

(* php-hash-expand! leaves the list, and chains all of it anew.             *)
LEMMA NoCells ==
  ASSUME NEW h \in TableRecords, NEW n \in Nat \ {0}, NEW th \in Nat
  PROVE  LET g == [h EXCEPT !.buckets = EmptyBuckets(n), !.threshold = th]
         IN  g \in TableRecords /\ Chained(g, {}) /\ SameList(g, h)
<1> DEFINE g == [h EXCEPT !.buckets = EmptyBuckets(n), !.threshold = th]
<1>1. EmptyBuckets(n) \in [0..(n - 1) -> Links] /\ \A b \in 0..(n - 1) : EmptyBuckets(n)[b] = Nil
  BY DEF EmptyBuckets, Links
<1>2. EmptyBuckets(n) \in Buckets
  BY <1>1 DEF Buckets
<1>3. g \in TableRecords /\ SameList(g, h) /\ g.buckets = EmptyBuckets(n)
  BY <1>2 DEF TableRecords, SameList
<1> HIDE DEF g
<1>4. ASSUME NEW b \in DOMAIN g.buckets PROVE IsChain(g, {}, b, <<>>)
  <2>1. g.buckets[b] = Nil
    BY <1>1, <1>3
  <2> QED
    BY <2>1 DEF IsChain, IsPath, Distinct, At, Among, ToSet
<1> QED
  BY <1>3, <1>4 DEF Chained, g

LEMMA ExpandKeeps ==
  ASSUME NEW h \in TableRecords, NEW S \in SUBSET Entries, Chained(h, S)
  PROVE  Expand(h) \in TableRecords /\ Chained(Expand(h), S) /\ SameList(Expand(h), h)
<1> DEFINE n == 2 * BucketCount(h)
           g == [h EXCEPT !.buckets = EmptyBuckets(n), !.threshold = ExpandThreshold(n)]
<1>1. n \in Nat \ {0}
  BY BucketFacts
<1> HIDE DEF n
<1>2. ExpandThreshold(n) \in Nat
  BY <1>1 DEF ExpandThreshold
<1>3. g \in TableRecords /\ Chained(g, {}) /\ SameList(g, h)
  BY <1>1, <1>2, NoCells
<1>4. Cells(h) \in Seq(Entries) /\ Distinct(Cells(h)) /\ ToSet(Cells(h)) = S
  BY CellsFacts
<1>5. Expand(h) = Rechain(g, Cells(h))
  BY DEF Expand, n
<1> HIDE DEF g
<1>6. Rechain(g, Cells(h)) \in TableRecords /\ Chained(Rechain(g, Cells(h)), S) /\ SameList(Rechain(g, Cells(h)), g)
  BY <1>3, <1>4, RechainKeeps
<1> QED
  BY <1>3, <1>5, <1>6 DEF SameList

-----------------------------------------------------------------------------
(* Insertion.                                                               *)
LEMMA SameTable ==
  ASSUME NEW h, NEW L, IsTable(h, L), NEW g \in TableRecords,
         g.size = h.size, g.head = h.head, g.tail = h.tail, g.next = h.next, g.prev = h.prev,
         g.key = h.key, g.cur \in ToSet(L) \cup {Nil}, Chained(g, ToSet(L))
  PROVE  IsTable(g, L)
  BY DEF IsTable, Listing, UniqueKeys

LEMMA AppendFacts ==
  ASSUME NEW L \in Seq(Entries), NEW e \in Entries
  PROVE  /\ Append(L, e) \in Seq(Entries) /\ Len(Append(L, e)) = Len(L) + 1
         /\ DOMAIN L = 1..Len(L) /\ DOMAIN Append(L, e) = 1..(Len(L) + 1) /\ Len(L) \in Nat
         /\ \A i \in 1..(Len(L) + 1) : i \in 1..Len(L) \/ i = Len(L) + 1
         /\ \A i \in 1..Len(L) : i \in 1..(Len(L) + 1) /\ Append(L, e)[i] = L[i]
         /\ Append(L, e)[Len(L) + 1] = e /\ Len(L) + 1 \in 1..(Len(L) + 1)
         /\ ToSet(Append(L, e)) = ToSet(L) \cup {e}
<1> DEFINE d == Append(L, e)
           l == Len(L)
<1>1. /\ d \in Seq(Entries) /\ Len(d) = l + 1 /\ DOMAIN L = 1..l /\ l \in Nat
      /\ \A i \in 1..l : d[i] = L[i]
      /\ d[l + 1] = e
  OBVIOUS
<1> HIDE DEF d, l
<1>2. /\ \A i \in 1..(l + 1) : i \in 1..l \/ i = l + 1
      /\ \A i \in 1..l : i \in 1..(l + 1)
      /\ l + 1 \in 1..(l + 1) /\ DOMAIN d = 1..(l + 1)
  BY <1>1
<1>3. ToSet(d) = ToSet(L) \cup {e}
  BY <1>1, <1>2 DEF ToSet
<1> QED
  BY <1>1, <1>2, <1>3 DEF d, l

LEMMA ListingAppend ==
  ASSUME NEW h, NEW L, Listing(h, L), NEW e \in Entries, e \notin ToSet(L), NEW g,
         h.next \in [Entries -> Links],
         g.head = IF h.head = Nil THEN e ELSE h.head, g.tail = e,
         g.prev[e] = h.tail, \A f \in Entries \ {e} : g.prev[f] = h.prev[f],
         g.next[e] = Nil, h.tail # Nil => g.next[h.tail] = e,
         \A f \in Entries \ {e, h.tail} : g.next[f] = h.next[f]
  PROVE  Listing(g, Append(L, e))
<1> DEFINE d == Append(L, e)
           l == Len(L)
<1>1. L \in Seq(Entries) /\ Distinct(L)
  BY DEF Listing, IsPath
<1>2. /\ d \in Seq(Entries) /\ Len(d) = l + 1 /\ DOMAIN L = 1..l /\ DOMAIN d = 1..(l + 1) /\ l \in Nat
      /\ \A i \in 1..(l + 1) : i \in 1..l \/ i = l + 1
      /\ \A i \in 1..l : i \in 1..(l + 1) /\ d[i] = L[i]
      /\ d[l + 1] = e /\ l + 1 \in 1..(l + 1)
  BY <1>1, AppendFacts
<1>3. \A i \in 1..l : L[i] \in Entries \ {e} /\ L[i] # Nil
  BY <1>1, ConstantFacts DEF ToSet
<1> HIDE DEF d, l
<1>4. Distinct(d)
  <2> SUFFICES ASSUME NEW i \in 1..(l + 1), NEW j \in 1..(l + 1), d[i] = d[j] PROVE i = j
    BY <1>2 DEF Distinct
  <2>1. CASE i \in 1..l /\ j \in 1..l
    BY <1>1, <1>2, <2>1 DEF Distinct
  <2> QED
    BY <1>2, <1>3, <2>1
<1>5. /\ h.head = (IF l = 0 THEN Nil ELSE L[1]) /\ h.tail = (IF l = 0 THEN Nil ELSE L[l])
      /\ \A i \in 1..l : h.next[L[i]] = (IF i = l THEN Nil ELSE L[i + 1])
      /\ \A i \in 1..l : h.prev[L[i]] = (IF i = 1 THEN Nil ELSE L[i - 1])
  <2>1. /\ l = 0 => 1 \notin 1..l /\ l \notin 1..l
        /\ l # 0 => 1 \in 1..l /\ l \in 1..l
        /\ \A i \in 1..l : (i + 1 \in 1..l <=> i # l) /\ (i - 1 \in 1..l <=> i # 1)
    BY <1>2
  <2> QED
    BY <1>2, <2>1 DEF Listing, IsPath, At, l
<1>6. /\ g.head = d[1]
      /\ \A i \in 1..(l + 1) : g.next[d[i]] = (IF i = l + 1 THEN Nil ELSE d[i + 1])
      /\ \A i \in 1..(l + 1) : g.prev[d[i]] = (IF i = 1 THEN Nil ELSE d[i - 1])
  <2>1. g.head = d[1]
    <3>1. l # 0 => 1 \in 1..l
      BY <1>2
    <3> QED
      BY <1>2, <1>3, <1>5, <3>1
  <2>2. ASSUME NEW i \in 1..(l + 1) PROVE g.next[d[i]] = (IF i = l + 1 THEN Nil ELSE d[i + 1])
    <3>1. CASE i = l + 1
      BY <1>2, <3>1
    <3>2. CASE i = l /\ i # l + 1
      <4>1. l # 0 /\ d[i] = h.tail /\ h.tail # Nil
        BY <1>2, <1>3, <1>5, <3>2
      <4> QED
        BY <1>2, <3>2, <4>1
    <3>3. CASE i # l /\ i # l + 1
      <4>1. i \in 1..l /\ l \in 1..l /\ i + 1 \in 1..l
        BY <1>2, <3>3
      <4>2. L[i] # h.tail
        <5>1. h.tail = L[l] /\ l \in DOMAIN L /\ i \in DOMAIN L
          BY <1>2, <1>5, <4>1
        <5> QED
          BY <1>1, <3>3, <5>1 DEF Distinct
      <4>3. g.next[L[i]] = L[i + 1]
        BY <1>3, <1>5, <3>3, <4>1, <4>2
      <4> QED
        BY <1>2, <3>3, <4>1, <4>3
    <3> QED
      BY <3>1, <3>2, <3>3
  <2>3. ASSUME NEW i \in 1..(l + 1) PROVE g.prev[d[i]] = (IF i = 1 THEN Nil ELSE d[i - 1])
    <3>1. CASE i = l + 1
      <4>1. i # 1 => i - 1 = l /\ l \in 1..l /\ l # 0
        BY <1>2, <3>1
      <4>2. i = 1 => l = 0
        BY <1>2, <3>1
      <4> QED
        BY <1>2, <1>5, <3>1, <4>1, <4>2
    <3>2. CASE i # l + 1
      <4>1. i \in 1..l /\ (i # 1 => i - 1 \in 1..l)
        BY <1>2, <3>2
      <4>2. g.prev[L[i]] = (IF i = 1 THEN Nil ELSE L[i - 1])
        BY <1>3, <1>5, <4>1
      <4> QED
        BY <1>2, <4>1, <4>2
    <3> QED
      BY <3>1, <3>2
  <2> QED
    BY <2>1, <2>2, <2>3
<1>7. /\ 1 \in 1..(l + 1)
      /\ \A i \in 1..(l + 1) : (i + 1 \in 1..(l + 1) <=> i # l + 1) /\ (i - 1 \in 1..(l + 1) <=> i # 1)
  BY <1>2
<1>8. IsPath(g.next, g.head, d)
  BY <1>2, <1>4, <1>6, <1>7 DEF IsPath, At
<1>9. g.tail = At(d, l + 1) /\ \A i \in 1..(l + 1) : g.prev[d[i]] = At(d, i - 1)
  BY <1>2, <1>6, <1>7 DEF At
<1> QED
  BY <1>2, <1>8, <1>9 DEF Listing, d

Linked(h, g, e, k, x) ==
    /\ g \in TableRecords
    /\ g.size = h.size + 1 /\ g.max = h.max /\ g.threshold = h.threshold /\ g.tail = e
    /\ g.head = (IF h.head = Nil THEN e ELSE h.head)
    /\ g.cur = (IF h.cur = Nil THEN e ELSE h.cur)
    /\ g.key = [h.key EXCEPT ![e] = k] /\ g.val = [h.val EXCEPT ![e] = x]
    /\ g.chain = [h.chain EXCEPT ![e] = h.buckets[BucketOf(h, k)]]
    /\ g.buckets = [h.buckets EXCEPT ![BucketOf(h, k)] = e]
    /\ g.prev = [h.prev EXCEPT ![e] = h.tail]
    /\ g.next = IF h.tail = Nil THEN [h.next EXCEPT ![e] = Nil]
                ELSE [[h.next EXCEPT ![e] = Nil] EXCEPT ![h.tail] = e]

LEMMA LinkFields ==
  ASSUME NEW h \in TableRecords, NEW e \in Entries, NEW k \in Keys, NEW x \in Vals
  PROVE  Linked(h, Link(h, e, k, x), e, k, x)
<1> DEFINE b == BucketOf(h, k)
           next1 == [h.next EXCEPT ![e] = Nil]
           next2 == IF h.tail = Nil THEN next1 ELSE [next1 EXCEPT ![h.tail] = e]
           chain1 == [h.chain EXCEPT ![e] = h.buckets[b]]
           buckets1 == [h.buckets EXCEPT ![b] = e]
           prev1 == [h.prev EXCEPT ![e] = h.tail]
           key1 == [h.key EXCEPT ![e] = k]
           val1 == [h.val EXCEPT ![e] = x]
           f == [h EXCEPT !.key[e] = k, !.val[e] = x,
                       !.chain[e] = h.buckets[b], !.buckets[b] = e,
                       !.prev[e] = h.tail, !.next[e] = Nil, !.tail = e,
                       !.head = IF @ = Nil THEN e ELSE @,
                       !.cur = IF @ = Nil THEN e ELSE @,
                       !.size = @ + 1]
           g == IF h.tail = Nil THEN f ELSE [f EXCEPT !.next[h.tail] = e]
<1>1. Link(h, e, k, x) = g
  BY DEF Link
<1>2. /\ h.chain \in [Entries -> Links] /\ h.next \in [Entries -> Links]
      /\ h.prev \in [Entries -> Links] /\ h.key \in [Entries -> Keys]
      /\ h.val \in [Entries -> Vals] /\ h.tail \in Links /\ h.head \in Links /\ h.cur \in Links
      /\ h.size \in Nat /\ e \in Links /\ Nil \in Links
  BY DEF TableRecords, Links
<1>3. h.buckets[b] \in Links /\ b \in DOMAIN h.buckets
  BY BucketFacts
<1>4. buckets1 \in Buckets
  <2>1. PICK n \in Nat \ {0} : h.buckets \in [0..(n - 1) -> Links]
    BY DEF TableRecords, Buckets
  <2> HIDE DEF b
  <2>2. buckets1 \in [0..(n - 1) -> Links]
    BY <1>2, <2>1
  <2> QED
    BY <2>2 DEF Buckets
<1> HIDE DEF b
<1>5. /\ chain1 \in [Entries -> Links] /\ next1 \in [Entries -> Links]
      /\ prev1 \in [Entries -> Links] /\ key1 \in [Entries -> Keys] /\ val1 \in [Entries -> Vals]
  BY <1>2, <1>3
<1>6. next2 \in [Entries -> Links]
  <2> HIDE DEF next1
  <2> QED
    BY <1>2, <1>5
<1>7. f = [h EXCEPT !.key = key1, !.val = val1, !.chain = chain1, !.buckets = buckets1,
                    !.prev = prev1, !.next = next1, !.tail = e,
                    !.head = IF @ = Nil THEN e ELSE @,
                    !.cur = IF @ = Nil THEN e ELSE @, !.size = @ + 1]
  BY DEF TableRecords
<1> HIDE DEF key1, val1, chain1, buckets1, prev1, next1
<1> DEFINE head1 == IF h.head = Nil THEN e ELSE h.head
           cur1 == IF h.cur = Nil THEN e ELSE h.cur
<1>8. g = [h EXCEPT !.key = key1, !.val = val1, !.chain = chain1, !.buckets = buckets1,
                    !.prev = prev1, !.next = next2, !.tail = e,
                    !.head = head1, !.cur = cur1, !.size = h.size + 1]
  <2> HIDE DEF f
  <2> QED
    BY <1>7 DEF TableRecords
<1> HIDE DEF g, next2, f
<1>9. head1 \in Links /\ cur1 \in Links /\ h.size + 1 \in Nat
  BY <1>2
<1> HIDE DEF head1, cur1
<1>10. /\ g.size = h.size + 1 /\ g.max = h.max /\ g.threshold = h.threshold /\ g.tail = e
       /\ g.head = head1 /\ g.cur = cur1
       /\ g.key = key1 /\ g.val = val1 /\ g.chain = chain1 /\ g.buckets = buckets1
       /\ g.prev = prev1 /\ g.next = next2
  BY <1>8 DEF TableRecords
<1>11. g \in TableRecords
  BY <1>2, <1>4, <1>5, <1>6, <1>8, <1>9 DEF TableRecords
<1> QED
  BY <1>1, <1>10, <1>11 DEF Linked, head1, cur1, key1, val1, chain1, buckets1, prev1, next1, next2, b

(* A new entry for a key that had none: behind the others, and current if   *)
(* none was.                                                                *)
Inserted(h, g, L, e, k, x) ==
    /\ IsTable(g, Append(L, e)) /\ g.max = h.max
    /\ g.key = [h.key EXCEPT ![e] = k] /\ g.val = [h.val EXCEPT ![e] = x]
    /\ g.cur = IF h.cur = Nil THEN e ELSE h.cur
    /\ \A f \in Entries \ {e, h.tail} : g.next[f] = h.next[f]

LEMMA LinkInserts ==
  ASSUME NEW h, NEW L, IsTable(h, L), NEW e \in Entries, e \notin ToSet(L),
         NEW k \in Keys, NEW x \in Vals, \A f \in ToSet(L) : h.key[f] # k
  PROVE  Inserted(h, Link(h, e, k, x), L, e, k, x)
<1> DEFINE g == Link(h, e, k, x)
           b == BucketOf(h, k)
           S == ToSet(L)
           y == [h EXCEPT !.key = [h.key EXCEPT ![e] = k]]
<1>1. /\ h \in TableRecords /\ Listing(h, L) /\ h.size = Len(L) /\ UniqueKeys(h, S)
      /\ Chained(h, S) /\ h.cur \in S \cup {Nil} /\ L \in Seq(Entries)
  BY DEF IsTable, Listing, IsPath
<1>2. /\ S \subseteq Entries /\ Append(L, e) \in Seq(Entries) /\ Len(Append(L, e)) = Len(L) + 1
      /\ ToSet(Append(L, e)) = S \cup {e}
  BY <1>1, SeqFacts, AppendFacts
<1>3. /\ g \in TableRecords
      /\ g.size = h.size + 1 /\ g.max = h.max /\ g.tail = e
      /\ g.head = (IF h.head = Nil THEN e ELSE h.head) /\ g.cur = (IF h.cur = Nil THEN e ELSE h.cur)
      /\ g.key = [h.key EXCEPT ![e] = k] /\ g.val = [h.val EXCEPT ![e] = x]
      /\ g.chain = [h.chain EXCEPT ![e] = h.buckets[b]] /\ g.buckets = [h.buckets EXCEPT ![b] = e]
      /\ g.prev = [h.prev EXCEPT ![e] = h.tail]
      /\ g.next = IF h.tail = Nil THEN [h.next EXCEPT ![e] = Nil]
                  ELSE [[h.next EXCEPT ![e] = Nil] EXCEPT ![h.tail] = e]
  <2>1. h \in TableRecords
    BY <1>1
  <2>2. Linked(h, g, e, k, x)
    BY <2>1, LinkFields
  <2> HIDE DEF S, y, g
  <2> QED
    BY <2>2 DEF Linked
<1>4. /\ h.next \in [Entries -> Links] /\ h.prev \in [Entries -> Links] /\ h.key \in [Entries -> Keys]
      /\ h.tail \in Links
  BY <1>1 DEF TableRecords
<1>5. h.tail # Nil => h.tail \in S /\ h.tail \in Entries /\ h.tail # e
  <2>1. h.tail # Nil => Len(L) \in DOMAIN L /\ h.tail = L[Len(L)]
    BY <1>1 DEF Listing, At
  <2> QED
    BY <1>2, <2>1 DEF ToSet
<1> HIDE DEF g, b
<1>6. Listing(g, Append(L, e))
  <2>1. /\ g.prev[e] = h.tail /\ \A f \in Entries \ {e} : g.prev[f] = h.prev[f]
        /\ g.next[e] = Nil /\ (h.tail # Nil => g.next[h.tail] = e)
        /\ \A f \in Entries \ {e, h.tail} : g.next[f] = h.next[f]
    BY <1>3, <1>4, <1>5
  <2> HIDE DEF S
  <2> QED
    BY <1>1, <1>3, <1>4, <2>1, ListingAppend DEF S
<1>7. /\ g.key[e] = k /\ \A f \in Entries \ {e} : g.key[f] = h.key[f]
  BY <1>3, <1>4
<1>8. UniqueKeys(g, S \cup {e})
  BY <1>1, <1>2, <1>7 DEF UniqueKeys
<1>9. Chained(g, S \cup {e})
  <2>1. /\ y \in TableRecords /\ y.key = g.key /\ y.chain = h.chain /\ y.buckets = h.buckets
    BY <1>1, <1>3, <1>4 DEF TableRecords
  <2> HIDE DEF y
  <2>2. Chained(y, S)
    <3>1. \A f \in S : y.chain[f] = h.chain[f] /\ y.key[f] = h.key[f]
      BY <1>2, <1>7, <2>1
    <3> QED
      BY <1>1, <2>1, <3>1, SameChains
  <2>3. Chained(Onto(y, e), S \cup {e})
    BY <1>2, <2>1, <2>2, OntoChains
  <2>4. BucketOf(y, y.key[e]) = b
    <3>1. BucketOf(y, k) = BucketOf(h, k)
      BY <2>1, SameBucket
    <3> QED
      BY <1>7, <2>1, <3>1 DEF b
  <2>5. Onto(y, e).chain = g.chain /\ Onto(y, e).buckets = g.buckets /\ Onto(y, e).key = g.key
    <3>1. /\ SameList(Onto(y, e), y)
          /\ Onto(y, e).chain = [y.chain EXCEPT ![e] = y.buckets[BucketOf(y, y.key[e])]]
          /\ Onto(y, e).buckets = [y.buckets EXCEPT ![BucketOf(y, y.key[e])] = e]
      BY <2>1, OntoFields
    <3> QED
      BY <1>3, <2>1, <2>4, <3>1 DEF SameList
  <2> QED
    BY <2>3, <2>5, SameChains
<1>10. IsTable(g, Append(L, e))
  BY <1>1, <1>2, <1>3, <1>6, <1>8, <1>9 DEF IsTable
<1>11. \A f \in Entries \ {e, h.tail} : g.next[f] = h.next[f]
  BY <1>3, <1>4
<1> QED
  BY <1>3, <1>10, <1>11 DEF Inserted, g

(* Growth first, if it is time.                                             *)
LEMMA GrownKeeps ==
  ASSUME NEW h, NEW L, IsTable(h, L)
  PROVE  LET g == IF h.size > h.threshold THEN Expand(h) ELSE h
         IN  IsTable(g, L) /\ SameList(g, h)
<1>1. h \in TableRecords /\ ToSet(L) \in SUBSET Entries /\ Chained(h, ToSet(L)) /\ h.cur \in ToSet(L) \cup {Nil}
  BY SeqFacts DEF IsTable, Listing, IsPath
<1>2. Expand(h) \in TableRecords /\ Chained(Expand(h), ToSet(L)) /\ SameList(Expand(h), h)
  BY <1>1, ExpandKeeps
<1>3. IsTable(Expand(h), L)
  BY <1>1, <1>2, SameTable DEF SameList
<1> QED
  BY <1>2, <1>3 DEF SameList

LEMMA PutInserts ==
  ASSUME NEW h, NEW L, IsTable(h, L), NEW e \in Entries, e \notin ToSet(L),
         NEW k \in Keys, NEW x \in Vals, \A f \in ToSet(L) : h.key[f] # k
  PROVE  Inserted(h, Put(h, e, k, x), L, e, k, x)
<1> DEFINE g == IF h.size > h.threshold THEN Expand(h) ELSE h
<1>1. IsTable(g, L) /\ SameList(g, h)
  BY GrownKeeps
<1>2. Put(h, e, k, x) = IF Lookup(g, k) = Nil THEN Link(g, e, k, x)
                        ELSE [g EXCEPT !.val[Lookup(g, k)] = x]
  BY DEF Put
<1> HIDE DEF g
<1>3. \A f \in ToSet(L) : g.key[f] # k
  BY <1>1 DEF SameList
<1>4. Lookup(g, k) = Nil
  BY <1>1, <1>3, LookupFinds DEF IsTable
<1>5. Inserted(g, Link(g, e, k, x), L, e, k, x)
  BY <1>1, <1>3, LinkInserts
<1> QED
  BY <1>1, <1>2, <1>4, <1>5 DEF Inserted, SameList

(* Under a key that is there, the value changes and nothing else does.      *)
Updated(h, g, L, f, x) ==
    /\ IsTable(g, L) /\ g.max = h.max /\ g.cur = h.cur
    /\ g.key = h.key /\ g.val = [h.val EXCEPT ![f] = x] /\ g.next = h.next

LEMMA PutUpdates ==
  ASSUME NEW h, NEW L, IsTable(h, L), NEW e,
         NEW k \in Keys, NEW x \in Vals, NEW f \in ToSet(L), h.key[f] = k
  PROVE  Updated(h, Put(h, e, k, x), L, f, x)
<1> DEFINE g == IF h.size > h.threshold THEN Expand(h) ELSE h
           p == [g EXCEPT !.val[f] = x]
<1>1. IsTable(g, L) /\ SameList(g, h)
  BY GrownKeeps
<1>2. Put(h, e, k, x) = IF Lookup(g, k) = Nil THEN Link(g, e, k, x)
                        ELSE [g EXCEPT !.val[Lookup(g, k)] = x]
  BY DEF Put
<1> HIDE DEF g
<1>3. g \in TableRecords /\ L \in Seq(Entries) /\ UniqueKeys(g, ToSet(L)) /\ Chained(g, ToSet(L))
      /\ g.cur \in ToSet(L) \cup {Nil}
  BY <1>1 DEF IsTable, Listing, IsPath
<1>4. Lookup(g, k) \in ToSet(L) /\ g.key[Lookup(g, k)] = k
  BY <1>1, <1>3, LookupFinds DEF SameList
<1>5. Lookup(g, k) = f /\ f \in Entries /\ f # Nil
  <2>1. g.key[f] = k
    BY <1>1 DEF SameList
  <2> QED
    BY <1>3, <1>4, <2>1, SeqFacts, ConstantFacts DEF UniqueKeys
<1>6. Put(h, e, k, x) = p
  BY <1>2, <1>5
<1>7. /\ p \in TableRecords /\ p.val = [g.val EXCEPT ![f] = x]
      /\ p.size = g.size /\ p.cur = g.cur /\ p.head = g.head /\ p.tail = g.tail /\ p.max = g.max
      /\ p.next = g.next /\ p.prev = g.prev /\ p.key = g.key /\ p.chain = g.chain
      /\ p.buckets = g.buckets
  BY <1>3, <1>5 DEF TableRecords
<1> HIDE DEF p
<1>8. Chained(p, ToSet(L))
  BY <1>3, <1>7, SameChains
<1>9. IsTable(p, L)
  BY <1>1, <1>3, <1>7, <1>8, SameTable
<1> QED
  BY <1>1, <1>6, <1>7, <1>9 DEF SameList, Updated

(* ->insert-key                                                             *)
LEMMA RaiseFields ==
  ASSUME NEW h, NEW L, IsTable(h, L), NEW k \in Keys
  PROVE  /\ IsTable(Raise(h, k), L)
         /\ Raise(h, k).max = IF k \in IntKeys /\ k > h.max THEN k ELSE h.max
         /\ Raise(h, k).key = h.key /\ Raise(h, k).val = h.val /\ Raise(h, k).cur = h.cur
         /\ Raise(h, k).next = h.next /\ Raise(h, k).tail = h.tail
<1> DEFINE g == Raise(h, k)
<1>1. h \in TableRecords /\ Chained(h, ToSet(L)) /\ h.cur \in ToSet(L) \cup {Nil}
  BY DEF IsTable
<1>2. k \in IntKeys => k \in -1..MaxInt
  BY ConstantFacts
<1>3. /\ g \in TableRecords
      /\ g.max = IF k \in IntKeys /\ k > h.max THEN k ELSE h.max
      /\ g.size = h.size /\ g.cur = h.cur /\ g.head = h.head /\ g.tail = h.tail
      /\ g.next = h.next /\ g.prev = h.prev /\ g.key = h.key /\ g.val = h.val /\ g.chain = h.chain
      /\ g.buckets = h.buckets
  BY <1>1, <1>2 DEF Raise, TableRecords
<1> HIDE DEF g
<1>4. Chained(g, ToSet(L))
  BY <1>1, <1>3, SameChains
<1>5. IsTable(g, L)
  BY <1>1, <1>3, <1>4, SameTable
<1> QED
  BY <1>3, <1>5 DEF g

-----------------------------------------------------------------------------
(* An emptied table, filled with items one after the other in entries of a  *)
(* pool: the entries outside it are left alone.                             *)
Emptied(h, n, m) ==
    [h EXCEPT !.size = 0, !.head = Nil, !.tail = Nil, !.cur = Nil,
              !.buckets = EmptyBuckets(n), !.max = m]

LEMMA EmptiedFacts ==
  ASSUME NEW h \in TableRecords, NEW n \in Nat \ {0}, NEW m \in -1..MaxInt
  PROVE  /\ IsTable(Emptied(h, n, m), <<>>)
         /\ Emptied(h, n, m).cur = Nil /\ Emptied(h, n, m).max = m
         /\ Emptied(h, n, m).next = h.next
         /\ Emptied(h, n, m).key = h.key /\ Emptied(h, n, m).val = h.val
<1> DEFINE g == Emptied(h, n, m)
           y == [h EXCEPT !.buckets = EmptyBuckets(n), !.threshold = h.threshold]
<1>1. h.threshold \in Nat /\ Nil \in Links
  BY DEF TableRecords, Links
<1>2. y \in TableRecords /\ Chained(y, {}) /\ SameList(y, h)
  BY <1>1, NoCells
<1>3. y.buckets = EmptyBuckets(n) /\ y.threshold = h.threshold /\ y.chain = h.chain
  BY DEF TableRecords
<1>4. /\ g.size = 0 /\ g.head = Nil /\ g.tail = Nil /\ g.cur = Nil /\ g.max = m
      /\ g.buckets = y.buckets /\ g.next = h.next /\ g.prev = h.prev /\ g.key = h.key
      /\ g.val = h.val /\ g.chain = y.chain
  BY <1>3 DEF TableRecords, Emptied
<1>5. y.buckets \in Buckets
  BY <1>2 DEF TableRecords
<1>6. g \in TableRecords
  BY <1>1, <1>3, <1>5 DEF TableRecords, Emptied
<1> HIDE DEF y, g
<1>7. Chained(g, {})
  <2>1. \A b : Among(y, {}, b) = {} /\ Among(g, {}, b) = {}
    BY DEF Among
  <2>2. ASSUME NEW b \in DOMAIN y.buckets, NEW c, IsChain(y, {}, b, c) PROVE IsChain(g, {}, b, c)
    BY <1>4, <2>1, <2>2 DEF IsChain
  <2> QED
    BY <1>2, <1>4, <2>2 DEF Chained
<1>8. Listing(g, <<>>)
  BY <1>4 DEF Listing, IsPath, Distinct, At
<1>9. ToSet(<<>>) = {} /\ Len(<<>>) = 0
  BY DEF ToSet
<1> QED
  BY <1>4, <1>6, <1>7, <1>8, <1>9 DEF IsTable, UniqueKeys, g

Fills(pool, items) ==
    /\ pool \subseteq Entries /\ items \in Seq(Keys \X Vals) /\ Cardinality(pool) >= Len(items)
    /\ \A i, j \in 1..Len(items) : items[i][1] = items[j][1] => i = j

Filled(h, pool, items, n, g, L) ==
    /\ IsTable(g, L) /\ Len(L) = n /\ ToSet(L) \subseteq pool
    /\ \A i \in 1..n : g.key[L[i]] = items[i][1] /\ g.val[L[i]] = items[i][2]
    /\ \A f \in Entries \ pool :
          g.next[f] = h.next[f] /\ g.key[f] = h.key[f] /\ g.val[f] = h.val[f]
    /\ g.cur = At(L, 1)
    /\ h.max <= g.max /\ \A i \in 1..n : items[i][1] \in IntKeys => items[i][1] <= g.max
    /\ g.max # h.max => \E i \in 1..n : items[i][1] = g.max

FillsOn(h, pool, items, n, s, L) ==
    \E e : /\ Filled(h, pool, items, n, s.table, Append(L, e))
           /\ s.pool = pool \ ToSet(Append(L, e))

LEMMA LeastFacts ==
  ASSUME NEW S \in SUBSET Entries, S # {}
  PROVE  LeastOf(S) \in S
<1>1. \E e \in S : \A f \in S : e <= f
  BY ConstantFacts, LeastNatural
<1> QED
  BY <1>1 DEF LeastOf

LEMMA FilledStep ==
  ASSUME NEW h, h.max \in -1..MaxInt, NEW pool, NEW items, Fills(pool, items),
         NEW n \in 1..Len(items), NEW g, NEW L, Filled(h, pool, items, n - 1, g, L),
         NEW s, s = InsertNew([table |-> g, pool |-> pool \ ToSet(L)], items[n])
  PROVE  FillsOn(h, pool, items, n, s, L)
<1> DEFINE k == items[n][1]
           x == items[n][2]
           free == pool \ ToSet(L)
           e == LeastOf(free)
           y == Raise(g, k)
           p == Put(y, e, k, x)
           d == Append(L, e)
<1>0. /\ pool \in SUBSET Entries /\ items \in Seq(Keys \X Vals) /\ Cardinality(pool) >= Len(items)
      /\ \A i, j \in 1..Len(items) : items[i][1] = items[j][1] => i = j
  BY DEF Fills
<1>1. n \in Nat /\ n - 1 \in Nat /\ Len(items) \in Nat /\ n <= Len(items) /\ 1..(n - 1) \subseteq 1..Len(items)
  BY <1>0
<1>2. items[n] \in Keys \X Vals /\ \A i \in 1..Len(items) : items[i] \in Keys \X Vals
  BY <1>0
<1>3. k \in Keys /\ x \in Vals /\ \A i \in 1..Len(items) : items[i][1] \in Keys
  BY <1>2
<1>4. /\ IsTable(g, L) /\ Len(L) = n - 1 /\ ToSet(L) \subseteq pool
      /\ \A i \in 1..(n - 1) : g.key[L[i]] = items[i][1] /\ g.val[L[i]] = items[i][2]
      /\ L \in Seq(Entries) /\ Distinct(L) /\ g \in TableRecords
  BY DEF Filled, IsTable, Listing, IsPath
<1>5. e \in free
  <2>1. Cardinality(ToSet(L)) = n - 1
    BY <1>4, DistinctIsShort
  <2>2. free # {}
    <3> SUFFICES ASSUME pool = ToSet(L) PROVE FALSE
      BY <1>4
    <3>1. Cardinality(pool) = n - 1
      BY <2>1
    <3> QED
      BY <1>0, <1>1, <3>1
  <2> QED
    BY <1>0, <2>2, LeastFacts
<1>6. s.table = p /\ s.pool = free \ {e}
  BY DEF InsertNew
<1> HIDE DEF k, x
<1>7. /\ IsTable(y, L) /\ y.max = (IF k \in IntKeys /\ k > g.max THEN k ELSE g.max)
      /\ y.key = g.key /\ y.val = g.val /\ y.cur = g.cur /\ y.next = g.next /\ y.tail = g.tail
  BY <1>3, <1>4, RaiseFields
<1> HIDE DEF y
<1>8. \A f \in ToSet(L) : y.key[f] # k
  <2> SUFFICES ASSUME NEW i \in 1..(n - 1), items[i][1] = k PROVE FALSE
    BY <1>4, <1>7 DEF ToSet
  <2>1. i = n
    BY <1>0, <1>1 DEF k
  <2> QED
    BY <1>1, <2>1
<1> HIDE DEF free, e
<1>9. e \in Entries /\ e \notin ToSet(L) /\ e \in pool
  BY <1>0, <1>5 DEF free
<1>10. Inserted(y, p, L, e, k, x)
  BY <1>3, <1>7, <1>8, <1>9, PutInserts
<1> HIDE DEF p
<1>11. /\ IsTable(p, d) /\ p.max = y.max
       /\ p.key = [g.key EXCEPT ![e] = k] /\ p.val = [g.val EXCEPT ![e] = x]
       /\ p.cur = (IF g.cur = Nil THEN e ELSE g.cur)
       /\ \A f \in Entries \ {e, g.tail} : p.next[f] = g.next[f]
  BY <1>7, <1>10 DEF Inserted
<1>12. /\ Len(d) = n /\ ToSet(d) = ToSet(L) \cup {e} /\ d \in Seq(Entries) /\ DOMAIN d = 1..n
       /\ DOMAIN L = 1..(n - 1)
       /\ \A i \in 1..(n - 1) : d[i] = L[i] /\ L[i] \in Entries /\ L[i] \in ToSet(L)
       /\ d[n] = e
       /\ \A i \in 1..n : i \in 1..(n - 1) \/ i = n
  <2> HIDE DEF d
  <2>1. (n - 1) + 1 = n
    BY <1>1
  <2> QED
    BY <1>4, <1>9, <2>1, AppendFacts, SeqFacts DEF d
<1> HIDE DEF d
<1>13. g.key \in [Entries -> Keys] /\ g.val \in [Entries -> Vals] /\ g.max \in -1..MaxInt /\ g.tail \in ToSet(L) \cup {Nil}
  <2>1. g.tail = At(L, n - 1)
    BY <1>4 DEF IsTable, Listing
  <2> QED
    BY <1>4, <1>12, <2>1 DEF TableRecords, At
<1>14. \A i \in 1..n : p.key[d[i]] = items[i][1] /\ p.val[d[i]] = items[i][2]
  <2> TAKE i \in 1..n
  <2>1. CASE i = n
    BY <1>9, <1>11, <1>12, <1>13, <2>1 DEF k, x
  <2>2. CASE i \in 1..(n - 1)
    <3>1. d[i] # e /\ d[i] \in Entries /\ d[i] = L[i]
      BY <1>9, <1>12, <2>2
    <3> QED
      BY <1>4, <1>11, <1>13, <2>2, <3>1
  <2> QED
    BY <1>12, <2>1, <2>2
<1>15. \A f \in Entries \ pool : p.next[f] = h.next[f] /\ p.key[f] = h.key[f] /\ p.val[f] = h.val[f]
  <2> TAKE f \in Entries \ pool
  <2>1. f # e /\ f # g.tail
    BY <1>4, <1>9, <1>13, ConstantFacts
  <2>2. g.next[f] = h.next[f] /\ g.key[f] = h.key[f] /\ g.val[f] = h.val[f]
    BY DEF Filled
  <2> QED
    BY <1>11, <1>13, <2>1, <2>2
<1>16. p.cur = At(d, 1)
  <2>1. g.cur = At(L, 1)
    BY DEF Filled
  <2>2. CASE n = 1
    BY <1>11, <1>12, <2>1, <2>2 DEF At
  <2>3. CASE n # 1
    <3>1. 1 \in 1..(n - 1) /\ 1 \in 1..n
      BY <1>1, <2>3
    <3>2. g.cur = L[1] /\ g.cur # Nil
      BY <1>12, <2>1, <3>1, ConstantFacts DEF At
    <3> QED
      BY <1>11, <1>12, <3>1, <3>2 DEF At
  <2> QED
    BY <2>2, <2>3
<1>17. /\ h.max <= p.max /\ \A i \in 1..n : items[i][1] \in IntKeys => items[i][1] <= p.max
       /\ p.max # h.max => \E i \in 1..n : items[i][1] = p.max
  <2>1. /\ h.max <= g.max /\ \A i \in 1..(n - 1) : items[i][1] \in IntKeys => items[i][1] <= g.max
        /\ g.max # h.max => \E i \in 1..(n - 1) : items[i][1] = g.max
    BY DEF Filled
  <2>2. p.max = IF k \in IntKeys /\ k > g.max THEN k ELSE g.max
    BY <1>7, <1>11
  <2>3. \A i \in IntKeys : i \in Int
    BY ConstantFacts
  <2>4. h.max \in Int /\ g.max \in Int /\ n \in 1..n /\ items[n][1] = k /\ 1..(n - 1) \subseteq 1..n
    BY <1>1, <1>13 DEF k
  <2>5. h.max <= p.max /\ g.max <= p.max
    BY <2>1, <2>2, <2>3, <2>4
  <2>6. ASSUME NEW i \in 1..n, items[i][1] \in IntKeys PROVE items[i][1] <= p.max
    <3>1. CASE i = n
      BY <2>2, <2>3, <2>4, <2>6, <3>1
    <3>2. CASE i \in 1..(n - 1)
      <4>1. items[i][1] <= g.max /\ items[i][1] \in Int /\ p.max \in Int
        BY <2>1, <2>2, <2>3, <2>4, <2>6, <3>2
      <4> QED
        BY <2>4, <2>5, <4>1
    <3> QED
      BY <1>12, <3>1, <3>2
  <2>7. ASSUME p.max # h.max PROVE \E i \in 1..n : items[i][1] = p.max
    BY <2>1, <2>2, <2>4, <2>7
  <2> QED
    BY <2>5, <2>6, <2>7
<1>18. Filled(h, pool, items, n, p, d)
  BY <1>4, <1>9, <1>11, <1>12, <1>14, <1>15, <1>16, <1>17 DEF Filled
<1>19. s.pool = pool \ ToSet(d)
  BY <1>6, <1>12 DEF free
<1> QED
  BY <1>6, <1>18, <1>19 DEF d, FillsOn

LEMMA ReinsertFills ==
  ASSUME NEW h, IsTable(h, <<>>), h.cur = Nil, NEW pool, NEW items, Fills(pool, items)
  PROVE  \E L : Filled(h, pool, items, Len(items), Reinsert(h, items, pool), L)
<1> DEFINE l == Len(items)
           first == [table |-> h, pool |-> pool]
           Fits(s, n) == \E L : /\ Filled(h, pool, items, n, s.table, L)
                                /\ s = [table |-> s.table, pool |-> pool \ ToSet(L)]
           States == [table: TableRecords, pool: SUBSET Entries]
           V == [n \in 0..l |-> {s \in States : Fits(s, n)}]
           step == [p \in (1..l) \X States |-> InsertNew(p[2], items[p[1]])]
           Is(k) == k = [n \in 0..l |-> IF n = 0 THEN first ELSE InsertNew(k[n - 1], items[n])]
<1>1. l \in Nat /\ h \in TableRecords /\ h.max \in -1..MaxInt /\ pool \subseteq Entries
  BY DEF IsTable, TableRecords, Fills
<1> HIDE DEF l, States
<1>2. ASSUME NEW n \in 1..l, NEW s \in V[n - 1]
      PROVE  InsertNew(s, items[n]) \in V[n] /\ step[<<n, s>>] = InsertNew(s, items[n])
  <2> DEFINE r == InsertNew(s, items[n])
  <2>1. n - 1 \in 0..l /\ n \in 0..l
    BY <1>1
  <2>2. s \in States /\ Fits(s, n - 1)
    BY <2>1
  <2>3. PICK g, L : /\ Filled(h, pool, items, n - 1, g, L)
                    /\ s = [table |-> g, pool |-> pool \ ToSet(L)]
    BY <2>2
  <2>4. r = InsertNew([table |-> g, pool |-> pool \ ToSet(L)], items[n]) /\ n \in 1..Len(items)
    BY <2>3 DEF l
  <2> HIDE DEF r, V, step, Fits
  <2>5. FillsOn(h, pool, items, n, r, L)
    BY <1>1, <2>3, <2>4, FilledStep
  <2>6. PICK e : /\ Filled(h, pool, items, n, r.table, Append(L, e))
                 /\ r.pool = pool \ ToSet(Append(L, e))
    BY <2>5 DEF FillsOn
  <2>7. r = [table |-> r.table, pool |-> r.pool]
    BY DEF r, InsertNew
  <2>8. r.table \in TableRecords /\ r.pool \in SUBSET Entries
    BY <1>1, <2>6 DEF Filled, IsTable
  <2>9. r \in States /\ Fits(r, n)
    BY <2>7, <2>8, <2>6 DEF States, Fits
  <2> QED
    BY <2>1, <2>2, <2>9 DEF V, r, step
<1>3. first \in V[0]
  <2>1. first.table = h /\ first.pool = pool /\ pool \ ToSet(<<>>) = pool /\ 0 \in 0..l
    BY <1>1 DEF ToSet
  <2>2. Filled(h, pool, items, 0, h, <<>>)
    BY <1>1 DEF Filled, At, ToSet
  <2>3. first \in States
    BY <1>1 DEF States
  <2> QED
    BY <2>1, <2>2, <2>3
<1> HIDE DEF step, first
<1>4. PICK f : Goes(f, first, step, l) /\ \A n \in 0..l : f[n] \in V[n]
  <2>1. \A n \in 1..l : \A x \in V[n - 1] : step[<<n, x>>] \in V[n]
    BY <1>2
  <2> HIDE DEF V
  <2> QED
    BY <1>1, <1>3, <2>1, RecursionWithin
<1>5. Is(f)
  <2>1. ASSUME NEW n \in 1..l PROVE f[n] = InsertNew(f[n - 1], items[n])
    <3>1. n - 1 \in 0..l
      BY <1>1
    <3>2. f[n - 1] \in V[n - 1] /\ f[n] = step[<<n, f[n - 1]>>]
      BY <1>4, <3>1 DEF Goes
    <3> HIDE DEF V
    <3> QED
      BY <1>2, <3>2
  <2>2. \A n \in 0..l : n = 0 \/ n \in 1..l
    BY <1>1
  <2>3. f = [n \in 0..l |-> f[n]] /\ f[0] = first
    BY <1>4 DEF Goes, UpTo
  <2> HIDE DEF V
  <2> QED
    BY <2>1, <2>2, <2>3
<1>6. \A k : Is(k) => k = f
  <2> SUFFICES ASSUME NEW k, Is(k) PROVE k = f
    OBVIOUS
  <2>1. UpTo(l, k) /\ UpTo(l, f)
    BY <1>5 DEF UpTo
  <2>2. k[0] = f[0]
    BY <1>1, <1>5
  <2>3. ASSUME NEW n \in 1..l, k[n - 1] = f[n - 1] PROVE k[n] = f[n]
    <3>1. n \in 0..l /\ n # 0
      BY <1>1
    <3>2. k[n] = InsertNew(k[n - 1], items[n]) /\ f[n] = InsertNew(f[n - 1], items[n])
      BY <3>1, <1>5
    <3> QED
      BY <2>3, <3>2
  <2> HIDE DEF Is
  <2> QED
    BY <1>1, <2>1, <2>2, <2>3, SameRecursion
<1>7. (CHOOSE k : Is(k)) = f
  <2> HIDE DEF Is
  <2> QED
    BY <1>5, <1>6
<1>8. Reinsert(h, items, pool) = f[l].table
  BY <1>7 DEF Reinsert, l, first
<1>9. Fits(f[l], l)
  <2>1. l \in 0..l
    BY <1>1
  <2>2. V[l] \subseteq {s \in States : Fits(s, l)}
    BY <2>1
  <2> HIDE DEF V, Fits
  <2> QED
    BY <1>4, <2>1, <2>2
<1> QED
  BY <1>8, <1>9 DEF l

-----------------------------------------------------------------------------
(* Removal: the i-th of a sequence goes.                                    *)
Dropped(s, i) == [j \in 1..(Len(s) - 1) |-> IF j < i THEN s[j] ELSE s[j + 1]]

LEMMA DroppedFacts ==
  ASSUME NEW s \in Seq(Entries), Distinct(s), NEW i \in DOMAIN s
  PROVE  /\ Dropped(s, i) \in Seq(Entries) /\ Distinct(Dropped(s, i))
         /\ Len(s) \in Nat \ {0} /\ i \in 1..Len(s) /\ DOMAIN s = 1..Len(s)
         /\ Len(Dropped(s, i)) = Len(s) - 1 /\ DOMAIN Dropped(s, i) = 1..(Len(s) - 1)
         /\ \A j \in 1..(Len(s) - 1) : j < i => Dropped(s, i)[j] = s[j] /\ j \in 1..Len(s)
         /\ \A j \in 1..(Len(s) - 1) : ~(j < i) => Dropped(s, i)[j] = s[j + 1] /\ j + 1 \in 1..Len(s)
         /\ ToSet(Dropped(s, i)) = ToSet(s) \ {s[i]}
<1> DEFINE d == Dropped(s, i)
           l == Len(s)
<1>1. l \in Nat \ {0} /\ i \in 1..l /\ DOMAIN s = 1..l /\ l - 1 \in Nat /\ \A j \in 1..l : s[j] \in Entries
  OBVIOUS
<1>2. d = [j \in 1..(l - 1) |-> IF j < i THEN s[j] ELSE s[j + 1]]
  BY DEF Dropped
<1> HIDE DEF d, l
<1>3. \A j \in 1..(l - 1) : /\ j \in 1..l /\ j + 1 \in 1..l
                            /\ j < i => d[j] = s[j]
                            /\ ~(j < i) => d[j] = s[j + 1]
  BY <1>1, <1>2
<1>4. d \in Seq(Entries) /\ Len(d) = l - 1 /\ DOMAIN d = 1..(l - 1)
  <2>1. d \in [1..(l - 1) -> Entries]
    BY <1>1, <1>2, <1>3
  <2> QED
    BY <1>1, <2>1
<1>5. Distinct(d)
  <2> SUFFICES ASSUME NEW a \in 1..(l - 1), NEW b \in 1..(l - 1), d[a] = d[b] PROVE a = b
    BY <1>4 DEF Distinct
  <2> DEFINE x == IF a < i THEN a ELSE a + 1
             y == IF b < i THEN b ELSE b + 1
  <2>1. x \in 1..l /\ y \in 1..l /\ s[x] = s[y]
    BY <1>3
  <2>2. x = y
    BY <1>1, <2>1 DEF Distinct
  <2> QED
    BY <1>1, <2>2
<1>6. ToSet(d) = ToSet(s) \ {s[i]}
  <2>1. ASSUME NEW e \in ToSet(d) PROVE e \in ToSet(s) \ {s[i]}
    <3>1. PICK a \in 1..(l - 1) : d[a] = e
      BY <1>4 DEF ToSet
    <3>2. PICK x \in 1..l : s[x] = e /\ x # i
      <4>1. CASE a < i
        BY <1>3, <3>1, <4>1
      <4>2. CASE ~(a < i)
        <5>1. a + 1 \in 1..l /\ a + 1 # i
          BY <1>1, <1>3, <4>2
        <5> QED
          BY <1>3, <3>1, <4>2, <5>1
      <4> QED
        BY <4>1, <4>2
    <3>3. e # s[i] /\ e \in ToSet(s)
      BY <1>1, <3>2 DEF Distinct, ToSet
    <3> QED
      BY <3>3
  <2>2. ASSUME NEW e \in ToSet(s), e # s[i] PROVE e \in ToSet(d)
    <3>1. PICK x \in 1..l : s[x] = e /\ x # i
      BY <1>1, <2>2 DEF ToSet
    <3>2. CASE x < i
      <4>1. x \in 1..(l - 1)
        BY <1>1, <3>2
      <4> QED
        BY <1>3, <1>4, <3>1, <3>2, <4>1 DEF ToSet
    <3>3. CASE ~(x < i)
      <4>1. x - 1 \in 1..(l - 1) /\ ~(x - 1 < i) /\ (x - 1) + 1 = x
        BY <1>1, <3>1, <3>3
      <4> QED
        BY <1>3, <1>4, <3>1, <4>1 DEF ToSet
    <3> QED
      BY <3>2, <3>3
  <2> QED
    BY <2>1, <2>2
<1> QED
  BY <1>1, <1>3, <1>4, <1>5, <1>6 DEF d, l

(* The entry before it, or the beginning, goes on with the one behind it.   *)
LEMMA PathWithout ==
  ASSUME NEW p, NEW q, NEW e, NEW s, IsPath(p, e, s), NEW i \in DOMAIN s, NEW f,
         f = (IF i = 1 THEN p[s[i]] ELSE e),
         i # 1 => q[s[i - 1]] = p[s[i]],
         \A j \in DOMAIN s : j # i - 1 => q[s[j]] = p[s[j]]
  PROVE  IsPath(q, f, Dropped(s, i))
<1> DEFINE d == Dropped(s, i)
           l == Len(s)
<1>1. s \in Seq(Entries) /\ Distinct(s) /\ e = At(s, 1) /\ \A j \in DOMAIN s : p[s[j]] = At(s, j + 1)
  BY DEF IsPath
<1>2. /\ d \in Seq(Entries) /\ Distinct(d) /\ l \in Nat \ {0} /\ i \in 1..l /\ DOMAIN s = 1..l
      /\ DOMAIN d = 1..(l - 1)
      /\ \A j \in 1..(l - 1) : j < i => d[j] = s[j] /\ j \in 1..l
      /\ \A j \in 1..(l - 1) : ~(j < i) => d[j] = s[j + 1] /\ j + 1 \in 1..l
  BY <1>1, DroppedFacts
<1> HIDE DEF d, l
<1>3. \A j \in 1..l : At(d, j) = At(s, IF j < i THEN j ELSE j + 1)
  <2> TAKE j \in 1..l
  <2>1. CASE j < i
    <3>1. j \in 1..(l - 1)
      BY <1>2, <2>1
    <3> QED
      BY <1>2, <2>1, <3>1 DEF At
  <2>2. CASE ~(j < i) /\ j # l
    <3>1. j \in 1..(l - 1)
      BY <1>2, <2>2
    <3> QED
      BY <1>2, <2>2, <3>1 DEF At
  <2>3. CASE ~(j < i) /\ j = l
    <3>1. j \notin 1..(l - 1) /\ j + 1 \notin 1..l
      BY <1>2, <2>3
    <3> QED
      BY <1>2, <2>3, <3>1 DEF At
  <2> QED
    BY <2>1, <2>2, <2>3
<1>4. f = At(d, 1)
  <2>1. 1 \in 1..l /\ (i # 1 => 1 < i)
    BY <1>2
  <2>2. i = 1 => f = At(s, 2)
    BY <1>1
  <2> QED
    BY <1>1, <1>3, <2>1, <2>2
<1>5. ASSUME NEW j \in 1..(l - 1) PROVE q[d[j]] = At(d, j + 1)
  <2>0. j \in 1..l /\ j + 1 \in 1..l
    BY <1>2
  <2>1. CASE j < i - 1
    <3>1. j < i /\ j # i - 1 /\ j + 1 < i
      BY <1>2, <2>1
    <3> QED
      BY <1>1, <1>2, <1>3, <2>0, <3>1
  <2>2. CASE j = i - 1
    <3>1. i # 1 /\ j < i /\ ~(j + 1 < i) /\ j + 1 = i
      BY <1>2, <2>2
    <3>2. d[j] = s[i - 1]
      BY <1>2, <2>2, <3>1
    <3> QED
      BY <1>1, <1>2, <1>3, <2>0, <3>1, <3>2
  <2>3. CASE ~(j < i)
    <3>1. j + 1 # i - 1 /\ ~(j + 1 < i)
      BY <1>2, <2>3
    <3>2. q[d[j]] = p[s[j + 1]]
      BY <1>2, <2>0, <2>3, <3>1
    <3> QED
      BY <1>1, <1>2, <1>3, <2>0, <3>1, <3>2
  <2> QED
    BY <1>2, <2>1, <2>2, <2>3
<1> QED
  BY <1>2, <1>4, <1>5 DEF IsPath, d

(* The entry behind it, or the end, goes back to the one before it.         *)
LEMMA ListingWithout ==
  ASSUME NEW h, NEW L, Listing(h, L), NEW i \in DOMAIN L, NEW g,
         g.head = (IF i = 1 THEN h.next[L[i]] ELSE h.head),
         g.tail = (IF i = Len(L) THEN h.prev[L[i]] ELSE h.tail),
         i # 1 => g.next[L[i - 1]] = h.next[L[i]],
         \A j \in DOMAIN L : j # i - 1 => g.next[L[j]] = h.next[L[j]],
         i # Len(L) => g.prev[L[i + 1]] = h.prev[L[i]],
         \A j \in DOMAIN L : j # i + 1 => g.prev[L[j]] = h.prev[L[j]]
  PROVE  Listing(g, Dropped(L, i))
<1> DEFINE d == Dropped(L, i)
           l == Len(L)
<1>1. /\ L \in Seq(Entries) /\ Distinct(L) /\ IsPath(h.next, h.head, L)
      /\ h.tail = At(L, l) /\ \A j \in DOMAIN L : h.prev[L[j]] = At(L, j - 1)
  BY DEF Listing, IsPath
<1>2. IsPath(g.next, g.head, d)
  <2>1. i # 1 => i - 1 \in DOMAIN L
    BY <1>1
  <2> QED
    BY <1>1, <2>1, PathWithout
<1>3. /\ l \in Nat \ {0} /\ i \in 1..l /\ DOMAIN L = 1..l /\ Len(d) = l - 1 /\ DOMAIN d = 1..(l - 1)
      /\ \A j \in 1..(l - 1) : j < i => d[j] = L[j] /\ j \in 1..l
      /\ \A j \in 1..(l - 1) : ~(j < i) => d[j] = L[j + 1] /\ j + 1 \in 1..l
  BY <1>1, DroppedFacts
<1> HIDE DEF d
<1>4. \A j \in 0..(l - 1) : At(d, j) = At(L, IF j < i THEN j ELSE j + 1)
  <2> TAKE j \in 0..(l - 1)
  <2>1. CASE j = 0
    <3>1. j \notin 1..(l - 1) /\ j \notin 1..l /\ j < i
      BY <1>3, <2>1
    <3> QED
      BY <1>3, <3>1 DEF At
  <2>2. CASE j # 0
    <3>1. j \in 1..(l - 1)
      BY <1>3, <2>2
    <3> QED
      BY <1>3, <3>1 DEF At
  <2> QED
    BY <2>1, <2>2
<1>5. g.tail = At(d, Len(d))
  <2>1. l - 1 \in 0..(l - 1) /\ (i = l => l - 1 < i) /\ (i # l => ~(l - 1 < i) /\ (l - 1) + 1 = l)
    BY <1>3
  <2>2. i = l => g.tail = At(L, l - 1)
    BY <1>1
  <2> QED
    BY <1>1, <1>3, <1>4, <2>1, <2>2
<1>6. ASSUME NEW j \in 1..(l - 1) PROVE g.prev[d[j]] = At(d, j - 1)
  <2>0. j \in 1..l /\ j + 1 \in 1..l /\ j - 1 \in 0..(l - 1)
    BY <1>3
  <2>1. CASE j < i
    <3>1. j # i + 1 /\ j - 1 < i
      BY <1>3, <2>1
    <3> QED
      BY <1>1, <1>3, <1>4, <2>0, <2>1, <3>1
  <2>2. CASE j = i
    <3>1. ~(j < i) /\ i # l /\ j - 1 < i
      BY <1>3, <2>2
    <3>2. d[j] = L[i + 1] /\ h.prev[L[i]] = At(L, i - 1)
      BY <1>1, <1>3, <2>2, <3>1
    <3> QED
      BY <1>3, <1>4, <2>0, <2>2, <3>1, <3>2
  <2>3. CASE ~(j < i) /\ j # i
    <3>1. j + 1 # i + 1 /\ ~(j - 1 < i) /\ (j - 1) + 1 = j /\ (j + 1) - 1 = j
      BY <1>3, <2>3
    <3>2. g.prev[d[j]] = h.prev[L[j + 1]]
      BY <1>3, <2>0, <2>3, <3>1
    <3>3. g.prev[d[j]] = At(L, j)
      BY <1>1, <1>3, <2>0, <3>1, <3>2
    <3> QED
      BY <1>4, <2>0, <3>1, <3>3
  <2> QED
    BY <2>1, <2>2, <2>3
<1> QED
  BY <1>2, <1>3, <1>5, <1>6 DEF Listing, d

(* %internal-remove                                                         *)
Left(h, g, e) ==
    /\ g \in TableRecords
    /\ g.size = h.size /\ g.max = h.max /\ g.threshold = h.threshold /\ g.chain = h.chain
    /\ g.buckets = h.buckets /\ g.key = h.key /\ g.val = h.val
    /\ g.cur = (IF h.cur = e THEN h.next[e] ELSE h.cur)
    /\ g.head = (IF h.prev[e] = Nil THEN h.next[e] ELSE h.head)
    /\ g.tail = (IF h.next[e] = Nil THEN h.prev[e] ELSE h.tail)
    /\ g.next = (IF h.prev[e] = Nil THEN h.next ELSE [h.next EXCEPT ![h.prev[e]] = h.next[e]])
    /\ g.prev = (IF h.next[e] = Nil THEN h.prev ELSE [h.prev EXCEPT ![h.next[e]] = h.prev[e]])

LEMMA LeaveFields ==
  ASSUME NEW h \in TableRecords, NEW e \in Entries
  PROVE  Left(h, LeaveList(h, e), e)
<1> DEFINE p == h.prev[e]
           n == h.next[e]
           next1 == IF p = Nil THEN h.next ELSE [h.next EXCEPT ![p] = n]
           prev1 == IF n = Nil THEN h.prev ELSE [h.prev EXCEPT ![n] = p]
           head1 == IF p = Nil THEN n ELSE h.head
           tail1 == IF n = Nil THEN p ELSE h.tail
           cur1 == IF h.cur = e THEN n ELSE h.cur
           y == IF p = Nil THEN [h EXCEPT !.head = n] ELSE [h EXCEPT !.next[p] = n]
           f == IF n = Nil THEN [y EXCEPT !.tail = p] ELSE [y EXCEPT !.prev[n] = p]
           g == IF f.cur = e THEN [f EXCEPT !.cur = n] ELSE f
<1>1. LeaveList(h, e) = g
  BY DEF LeaveList
<1>2. /\ h.next \in [Entries -> Links] /\ h.prev \in [Entries -> Links]
      /\ h.head \in Links /\ h.tail \in Links /\ h.cur \in Links
      /\ p \in Links /\ n \in Links
  BY DEF TableRecords
<1>3. next1 \in [Entries -> Links] /\ prev1 \in [Entries -> Links] /\ head1 \in Links /\ tail1 \in Links
      /\ cur1 \in Links
  <2> HIDE DEF p, n
  <2> QED
    BY <1>2
<1>4. y = [h EXCEPT !.head = head1, !.next = next1]
  <2> HIDE DEF p, n
  <2> QED
    BY DEF TableRecords
<1> HIDE DEF y, head1, next1
<1>5. f = [h EXCEPT !.head = head1, !.next = next1, !.tail = tail1, !.prev = prev1]
  <2> HIDE DEF p, n
  <2> QED
    BY <1>4 DEF TableRecords
<1> HIDE DEF f, prev1, tail1
<1>6. f.cur = h.cur
  BY <1>5 DEF TableRecords
<1>7. g = [h EXCEPT !.head = head1, !.next = next1, !.tail = tail1, !.prev = prev1, !.cur = cur1]
  <2> HIDE DEF p, n
  <2> QED
    BY <1>5, <1>6 DEF TableRecords
<1> HIDE DEF g, cur1
<1>8. /\ g.size = h.size /\ g.max = h.max /\ g.threshold = h.threshold /\ g.chain = h.chain
      /\ g.buckets = h.buckets /\ g.key = h.key /\ g.val = h.val
      /\ g.cur = cur1 /\ g.head = head1 /\ g.tail = tail1 /\ g.next = next1 /\ g.prev = prev1
  BY <1>7 DEF TableRecords
<1>9. g \in TableRecords
  BY <1>3, <1>7 DEF TableRecords
<1> QED
  BY <1>1, <1>8, <1>9 DEF Left, cur1, head1, tail1, next1, prev1

LEMMA LeaveListing ==
  ASSUME NEW h \in TableRecords, NEW L, Listing(h, L), NEW i \in DOMAIN L
  PROVE  Listing(LeaveList(h, L[i]), Dropped(L, i))
<1> DEFINE e == L[i]
           g == LeaveList(h, e)
           l == Len(L)
<1>1. /\ L \in Seq(Entries) /\ Distinct(L) /\ h.head = At(L, 1) /\ h.tail = At(L, l)
      /\ \A j \in DOMAIN L : h.next[L[j]] = At(L, j + 1)
      /\ \A j \in DOMAIN L : h.prev[L[j]] = At(L, j - 1)
  BY DEF Listing, IsPath
<1>2. DOMAIN L = 1..l /\ l \in Nat /\ i \in 1..l /\ e \in Entries /\ \A j \in 1..l : L[j] \in Entries /\ L[j] # Nil
  BY <1>1, ConstantFacts
<1>3. Left(h, g, e)
  BY <1>2, LeaveFields
<1>4. h.next \in [Entries -> Links] /\ h.prev \in [Entries -> Links]
  BY DEF TableRecords
<1> HIDE DEF g
<1>5. h.prev[e] = IF i = 1 THEN Nil ELSE L[i - 1]
  <2>1. i - 1 \in 1..l <=> i # 1
    BY <1>2
  <2> QED
    BY <1>1, <1>2, <2>1 DEF At
<1>6. h.next[e] = IF i = l THEN Nil ELSE L[i + 1]
  <2>1. i + 1 \in 1..l <=> i # l
    BY <1>2
  <2> QED
    BY <1>1, <1>2, <2>1 DEF At
<1>7. (i # 1 => i - 1 \in 1..l) /\ (i # l => i + 1 \in 1..l)
  BY <1>2
<1> HIDE DEF e
<1>8. /\ g.head = (IF i = 1 THEN h.next[e] ELSE h.head)
      /\ g.tail = (IF i = l THEN h.prev[e] ELSE h.tail)
  BY <1>2, <1>3, <1>5, <1>6, <1>7 DEF Left
<1>9. /\ i # 1 => g.next[L[i - 1]] = h.next[e]
      /\ \A j \in 1..l : j # i - 1 => g.next[L[j]] = h.next[L[j]]
  <2>1. g.next = IF i = 1 THEN h.next ELSE [h.next EXCEPT ![L[i - 1]] = h.next[e]]
    BY <1>2, <1>3, <1>5, <1>7 DEF Left
  <2>2. \A j \in 1..l : j # i - 1 /\ i # 1 => L[j] # L[i - 1]
    BY <1>1, <1>2, <1>7 DEF Distinct
  <2> QED
    BY <1>2, <1>4, <1>7, <2>1, <2>2
<1>10. /\ i # l => g.prev[L[i + 1]] = h.prev[e]
       /\ \A j \in 1..l : j # i + 1 => g.prev[L[j]] = h.prev[L[j]]
  <2>1. g.prev = IF i = l THEN h.prev ELSE [h.prev EXCEPT ![L[i + 1]] = h.prev[e]]
    BY <1>2, <1>3, <1>6, <1>7 DEF Left
  <2>2. \A j \in 1..l : j # i + 1 /\ i # l => L[j] # L[i + 1]
    BY <1>1, <1>2, <1>7 DEF Distinct
  <2> QED
    BY <1>2, <1>4, <1>7, <2>1, <2>2
<1>11. Listing(g, Dropped(L, i))
  <2>1. /\ g.head = (IF i = 1 THEN h.next[L[i]] ELSE h.head)
        /\ g.tail = (IF i = Len(L) THEN h.prev[L[i]] ELSE h.tail)
        /\ i # 1 => g.next[L[i - 1]] = h.next[L[i]]
        /\ \A j \in DOMAIN L : j # i - 1 => g.next[L[j]] = h.next[L[j]]
        /\ i # Len(L) => g.prev[L[i + 1]] = h.prev[L[i]]
        /\ \A j \in DOMAIN L : j # i + 1 => g.prev[L[j]] = h.prev[L[j]]
    BY <1>2, <1>8, <1>9, <1>10 DEF e
  <2> QED
    BY <2>1, ListingWithout
<1> QED
  BY <1>11 DEF g, e

(* Out of its chain.                                                        *)
Unchained(h, e) ==
    LET b == BucketOf(h, h.key[e])
        c == ChainIn(h, b)
        i == CHOOSE j \in DOMAIN c : c[j] = e
    IN  IF i = 1 THEN [h EXCEPT !.buckets[b] = h.chain[e]]
        ELSE [h EXCEPT !.chain[c[i - 1]] = h.chain[e]]

LEMMA UnchainedKeeps ==
  ASSUME NEW h \in TableRecords, NEW S \in SUBSET Entries, Chained(h, S), NEW e \in S
  PROVE  /\ Unchained(h, e) \in TableRecords /\ SameList(Unchained(h, e), h)
         /\ Chained(Unchained(h, e), S \ {e})
<1> DEFINE b == BucketOf(h, h.key[e])
           c == ChainIn(h, b)
           i == CHOOSE j \in DOMAIN c : c[j] = e
           g == Unchained(h, e)
<1>1. h.key[e] \in Keys /\ h.chain \in [Entries -> Links] /\ h.chain[e] \in Links
  BY DEF TableRecords
<1>2. b \in DOMAIN h.buckets
  BY <1>1, BucketFacts
<1>3. IsChain(h, S, b, c)
  <2>1. PICK s : IsChain(h, S, b, s)
    BY <1>2 DEF Chained
  <2> QED
    BY <2>1, AlongPath DEF ChainIn, IsChain
<1>4. /\ c \in Seq(Entries) /\ Distinct(c) /\ IsPath(h.chain, h.buckets[b], c)
      /\ ToSet(c) = Among(h, S, b)
  BY <1>3 DEF IsChain, IsPath
<1> HIDE DEF c
<1>5. i \in DOMAIN c /\ c[i] = e
  <2>1. e \in ToSet(c)
    BY <1>4 DEF Among
  <2> QED
    BY <2>1 DEF ToSet
<1>6. g = IF i = 1 THEN [h EXCEPT !.buckets[b] = h.chain[e]]
          ELSE [h EXCEPT !.chain[c[i - 1]] = h.chain[e]]
  BY DEF Unchained, c
<1> DEFINE buckets1 == IF i = 1 THEN [h.buckets EXCEPT ![b] = h.chain[e]] ELSE h.buckets
           chain1 == IF i = 1 THEN h.chain ELSE [h.chain EXCEPT ![c[i - 1]] = h.chain[e]]
<1> HIDE DEF i, b
<1>7. buckets1 \in Buckets
  <2>1. PICK n \in Nat \ {0} : h.buckets \in [0..(n - 1) -> Links]
    BY DEF TableRecords, Buckets
  <2>2. buckets1 \in [0..(n - 1) -> Links]
    BY <1>1, <2>1
  <2> QED
    BY <2>2 DEF Buckets
<1>8. chain1 \in [Entries -> Links]
  BY <1>1
<1>9. g = [h EXCEPT !.buckets = buckets1, !.chain = chain1]
  BY <1>6 DEF TableRecords
<1> HIDE DEF g, buckets1, chain1
<1>10. g \in TableRecords /\ SameList(g, h) /\ g.buckets = buckets1 /\ g.chain = chain1
  BY <1>7, <1>8, <1>9 DEF TableRecords, SameList
<1>11. g.key = h.key /\ DOMAIN g.buckets = DOMAIN h.buckets
  BY <1>10 DEF SameList, buckets1
<1>12. \A k : BucketOf(g, k) = BucketOf(h, k)
  BY <1>11, SameBucket
<1>13. ASSUME NEW a \in DOMAIN h.buckets PROVE \E s : IsChain(g, S \ {e}, a, s)
  <2>0. Among(g, S \ {e}, a) = Among(h, S, a) \ {e}
    BY <1>11, <1>12 DEF Among
  <2>1. CASE a = b
    <3>1. ToSet(Dropped(c, i)) = ToSet(c) \ {e}
      BY <1>4, <1>5, DroppedFacts
    <3>2. IsPath(g.chain, g.buckets[b], Dropped(c, i))
      <4>1. g.buckets[b] = IF i = 1 THEN h.chain[c[i]] ELSE h.buckets[b]
        BY <1>2, <1>5, <1>10 DEF buckets1
      <4>2. i # 1 => i - 1 \in DOMAIN c
        BY <1>4, <1>5
      <4>3. \A j \in DOMAIN c : c[j] \in Entries
        BY <1>4
      <4>4. i # 1 => g.chain[c[i - 1]] = h.chain[c[i]]
        BY <1>1, <1>5, <1>10, <4>2, <4>3 DEF chain1
      <4>5. \A j \in DOMAIN c : j # i - 1 => g.chain[c[j]] = h.chain[c[j]]
        <5> TAKE j \in DOMAIN c
        <5> HAVE j # i - 1
        <5>1. i # 1 => c[j] # c[i - 1]
          BY <1>4, <4>2 DEF Distinct
        <5> QED
          BY <1>1, <1>10, <4>2, <4>3, <5>1 DEF chain1
      <4> QED
        BY <1>4, <1>5, <4>1, <4>4, <4>5, PathWithout
    <3> QED
      BY <1>4, <2>0, <2>1, <3>1, <3>2 DEF IsChain
  <2>2. CASE a # b
    <3>1. PICK s : IsChain(h, S, a, s)
      BY DEF Chained
    <3>2. g.buckets[a] = h.buckets[a]
      BY <1>2, <1>10, <2>2 DEF buckets1
    <3>3. e \notin Among(h, S, a)
      BY <2>2 DEF Among, b
    <3>4. \A x \in ToSet(s) : g.chain[x] = h.chain[x]
      <4> TAKE x \in ToSet(s)
      <4>1. x \in Entries /\ BucketOf(h, h.key[x]) = a
        BY <3>1 DEF IsChain, Among
      <4>2. i # 1 => c[i - 1] \in ToSet(c)
        <5>1. i # 1 => i - 1 \in DOMAIN c
          BY <1>4, <1>5
        <5> QED
          BY <5>1 DEF ToSet
      <4>3. i # 1 => x # c[i - 1]
        BY <1>4, <2>2, <4>1, <4>2 DEF Among
      <4> QED
        BY <1>1, <1>10, <4>1, <4>3 DEF chain1
    <3>5. IsPath(g.chain, g.buckets[a], s)
      BY <3>1, <3>2, <3>4 DEF IsChain, IsPath, ToSet
    <3> QED
      BY <2>0, <3>1, <3>3, <3>5 DEF IsChain
  <2> QED
    BY <2>1, <2>2
<1> QED
  BY <1>10, <1>11, <1>13 DEF Chained, g

(* php-hash-remove!                                                         *)
Removed(h, g, L, i) ==
    /\ IsTable(g, Dropped(L, i)) /\ g.max = h.max /\ g.key = h.key /\ g.val = h.val
    /\ g.cur = (IF h.cur = L[i] THEN At(L, i + 1) ELSE h.cur)
    /\ i # 1 => g.next[L[i - 1]] = At(L, i + 1)
    /\ \A f \in Entries : (i # 1 => f # L[i - 1]) => g.next[f] = h.next[f]

LEMMA TakeRemoves ==
  ASSUME NEW h, NEW L, IsTable(h, L), NEW k \in Keys, NEW i \in DOMAIN L, h.key[L[i]] = k
  PROVE  Removed(h, Take(h, k), L, i)
<1> DEFINE e == L[i]
           l == Len(L)
           S == ToSet(L)
           y == Unchained(h, e)
           z == LeaveList(y, e)
           g == [z EXCEPT !.size = @ - 1]
           d == Dropped(L, i)
<1>1. /\ h \in TableRecords /\ Listing(h, L) /\ L \in Seq(Entries) /\ Distinct(L) /\ h.size = l
      /\ UniqueKeys(h, S) /\ Chained(h, S) /\ h.cur \in S \cup {Nil}
      /\ \A j \in DOMAIN L : h.next[L[j]] = At(L, j + 1) /\ h.prev[L[j]] = At(L, j - 1)
  BY DEF IsTable, Listing, IsPath
<1>2. /\ DOMAIN L = 1..l /\ l \in Nat \ {0} /\ i \in 1..l /\ S \subseteq Entries /\ e \in S /\ e # Nil
      /\ d \in Seq(Entries) /\ Len(d) = l - 1 /\ ToSet(d) = S \ {e}
  BY <1>1, SeqFacts, DroppedFacts, ConstantFacts
<1>3. Lookup(h, k) = e
  <2>1. Lookup(h, k) \in S /\ h.key[Lookup(h, k)] = k
    BY <1>1, <1>2, LookupFinds
  <2> QED
    BY <1>1, <1>2, <2>1 DEF UniqueKeys
<1>4. Take(h, k) = g
  BY <1>2, <1>3 DEF Take, Unchained
<1>5. y \in TableRecords /\ SameList(y, h) /\ Chained(y, S \ {e})
  BY <1>1, <1>2, UnchainedKeeps
<1> HIDE DEF y
<1>6. Listing(y, L)
  BY <1>1, <1>5 DEF SameList, Listing
<1>7. Listing(z, d)
  BY <1>5, <1>6, LeaveListing
<1>8. Left(y, z, e)
  BY <1>2, <1>5, LeaveFields
<1> HIDE DEF z, d
<1>9. /\ z \in TableRecords /\ z.chain = y.chain /\ z.buckets = y.buckets /\ z.key = h.key
      /\ z.size = l /\ z.max = h.max /\ z.val = h.val
      /\ z.cur = (IF h.cur = e THEN h.next[e] ELSE h.cur)
      /\ z.next = (IF h.prev[e] = Nil THEN h.next ELSE [h.next EXCEPT ![h.prev[e]] = h.next[e]])
  BY <1>1, <1>5, <1>8 DEF Left, SameList
<1>10. l - 1 \in Nat
  BY <1>2
<1>11. /\ g \in TableRecords /\ g.size = l - 1 /\ g.cur = z.cur /\ g.head = z.head /\ g.tail = z.tail
       /\ g.next = z.next /\ g.prev = z.prev /\ g.key = z.key /\ g.val = z.val /\ g.max = z.max
       /\ g.chain = z.chain /\ g.buckets = z.buckets
  BY <1>9, <1>10 DEF TableRecords
<1> HIDE DEF g
<1>12. Listing(g, d)
  BY <1>7, <1>11 DEF Listing
<1>13. Chained(g, S \ {e})
  <2>1. /\ g.buckets = y.buckets /\ g.chain = y.chain /\ g.key = y.key
    BY <1>5, <1>9, <1>11 DEF SameList
  <2> QED
    BY <1>5, <2>1, SameChains
<1>14. UniqueKeys(g, S \ {e})
  BY <1>1, <1>9, <1>11 DEF UniqueKeys
<1>15. g.cur = (IF h.cur = e THEN At(L, i + 1) ELSE h.cur)
  BY <1>1, <1>9, <1>11
<1>16. g.cur \in (S \ {e}) \cup {Nil}
  <2>1. i + 1 \in 1..l => L[i + 1] \in S /\ L[i + 1] # L[i]
    <3>1. i + 1 # i
      BY <1>2
    <3> QED
      BY <1>1, <1>2, <3>1 DEF Distinct, ToSet
  <2> QED
    BY <1>1, <1>2, <1>15, <2>1 DEF At
<1>17. IsTable(g, d)
  BY <1>2, <1>11, <1>12, <1>13, <1>14, <1>16 DEF IsTable
<1>18. h.prev[e] = IF i = 1 THEN Nil ELSE L[i - 1]
  <2>1. i - 1 \in 1..l <=> i # 1
    BY <1>2
  <2> QED
    BY <1>1, <1>2, <2>1 DEF At
<1>19. i # 1 => L[i - 1] \in Entries /\ L[i - 1] # Nil
  <2>1. i # 1 => i - 1 \in 1..l
    BY <1>2
  <2> QED
    BY <1>1, <1>2, <2>1, ConstantFacts
<1>20. /\ i # 1 => g.next[L[i - 1]] = At(L, i + 1)
       /\ \A f \in Entries : (i # 1 => f # L[i - 1]) => g.next[f] = h.next[f]
  <2>1. h.next \in [Entries -> Links]
    BY <1>1 DEF TableRecords
  <2>2. g.next = (IF i = 1 THEN h.next ELSE [h.next EXCEPT ![L[i - 1]] = At(L, i + 1)])
    BY <1>1, <1>2, <1>9, <1>11, <1>18, <1>19
  <2> QED
    BY <1>19, <2>1, <2>2
<1> QED
  BY <1>4, <1>9, <1>11, <1>15, <1>17, <1>20 DEF Removed, d, e

LEMMA TakeNothing ==
  ASSUME NEW h, NEW L, IsTable(h, L), NEW k \in Keys, \A f \in ToSet(L) : h.key[f] # k
  PROVE  Take(h, k) = h
<1>1. Lookup(h, k) = Nil
  BY LookupFinds DEF IsTable
<1> QED
  BY <1>1 DEF Take

-----------------------------------------------------------------------------
(* Walks.  Ahead of the walk lies a path that meets nothing it has called   *)
(* out for but the entry it holds, and all that stayed and was not called   *)
(* out for.  The entry held, and some behind it, may be out of the table.   *)
WalkPath(next, s, q, P) ==
    /\ IsPath(next, walk, P)
    /\ s \cap ToSet(P) \subseteq {walk}
    /\ q \subseteq s \cup (ToSet(P) \ {walk})

TableInv ==
    /\ \E L : IsTable(t, L)
    /\ stay \subseteq Listed(t) /\ seen \subseteq Entries /\ walk \in Links \cup {NoWalk}
    /\ walk = NoWalk => seen = {} /\ stay = {}
    /\ walk # NoWalk => \E P : WalkPath(t.next, seen, stay, P)

LEMMA ListFacts ==
  ASSUME NEW h, NEW L, IsTable(h, L)
  PROVE  /\ EntryList(h) = L /\ Listed(h) = ToSet(L) /\ ToSet(L) \subseteq Entries
         /\ L \in Seq(Entries) /\ Distinct(L) /\ h \in TableRecords
<1>1. IsPath(h.next, h.head, L) /\ h \in TableRecords
  BY DEF IsTable, Listing
<1>2. EntryList(h) = L
  BY <1>1, AlongPath DEF EntryList
<1> QED
  BY <1>1, <1>2, SeqFacts DEF Listed, IsPath

LEMMA GarbageFacts ==
  ASSUME NEW L, IsTable(t, L)
  PROVE  /\ Garbage \subseteq Entries /\ Garbage \cap ToSet(L) = {} /\ Garbage \cap seen = {}
         /\ \A P : walk # NoWalk /\ WalkPath(t.next, seen, stay, P) => Garbage \cap ToSet(P) = {}
<1>1. Garbage = Entries \ (ToSet(L) \cup Ahead(t) \cup seen)
  BY ListFacts DEF Garbage
<1>2. ASSUME NEW P, walk # NoWalk, WalkPath(t.next, seen, stay, P) PROVE Garbage \cap ToSet(P) = {}
  <2>1. IsPath(t.next, walk, P)
    BY <1>2 DEF WalkPath
  <2>2. CASE walk = Nil
    <3>1. ToSet(P) = {}
      <4>1. \A i \in DOMAIN P : P[i] \in Entries /\ 1 \in DOMAIN P
        BY <2>1 DEF IsPath
      <4>2. DOMAIN P = {}
        BY <2>1, <2>2, <4>1, ConstantFacts DEF IsPath, At
      <4> QED
        BY <4>2 DEF ToSet
    <3> QED
      BY <3>1
  <2>3. CASE walk # Nil
    <3>1. Ahead(t) = ToSet(P)
      BY <1>2, <2>1, <2>3, AlongPath DEF Ahead
    <3> QED
      BY <1>1, <3>1
  <2> QED
    BY <2>2, <2>3
<1> QED
  BY <1>1, <1>2

LEMMA BecomesKeeps ==
  ASSUME TableInv, NEW h, NEW L, IsTable(h, L), Becomes(h),
         walk # NoWalk => \E P : WalkPath(h.next, seen, stay \cap ToSet(L), P)
  PROVE  TableInv'
<1>1. t' = h /\ stay' = stay \cap ToSet(L) /\ walk' = walk /\ seen' = seen
  BY ListFacts DEF Becomes
<1>2. Listed(t') = ToSet(L)
  BY <1>1, ListFacts
<1>3. walk' = NoWalk => seen' = {} /\ stay' = {}
  BY <1>1 DEF TableInv
<1>4. walk' # NoWalk => \E P : WalkPath(t.next, seen, stay, P)'
  BY <1>1 DEF WalkPath
<1>5. seen' \subseteq Entries /\ walk' \in Links \cup {NoWalk} /\ stay' \subseteq Listed(t')
  BY <1>1, <1>2 DEF TableInv
<1>6. \E M : IsTable(t', M)
  BY <1>1
<1> QED
  BY <1>3, <1>4, <1>5, <1>6 DEF TableInv

(* What only writes to entries nobody can reach leaves the walk its path.   *)
LEMMA BesideKeeps ==
  ASSUME TableInv, NEW h, NEW L, IsTable(h, L), Becomes(h),
         \A f \in Entries \ Garbage : h.next[f] = t.next[f]
  PROVE  TableInv'
<1>1. PICK M : IsTable(t, M)
  BY DEF TableInv
<1>2. ASSUME walk # NoWalk PROVE \E P : WalkPath(h.next, seen, stay \cap ToSet(L), P)
  <2>1. PICK P : WalkPath(t.next, seen, stay, P)
    BY <1>2 DEF TableInv
  <2>2. Garbage \cap ToSet(P) = {} /\ P \in Seq(Entries)
    BY <1>1, <1>2, <2>1, GarbageFacts DEF WalkPath, IsPath
  <2>3. \A i \in DOMAIN P : P[i] \in Entries \ Garbage
    BY <2>2 DEF ToSet
  <2>4. IsPath(h.next, walk, P)
    BY <2>1, <2>3 DEF WalkPath, IsPath
  <2> QED
    BY <2>1, <2>4 DEF WalkPath
<1> QED
  BY <1>2, BecomesKeeps

(* An entry linked behind the last of a path lengthens it.                  *)
LEMMA PathAppended ==
  ASSUME NEW p, NEW q, NEW f, NEW s, IsPath(p, f, s), s # <<>>, NEW e \in Entries, e \notin ToSet(s),
         q[s[Len(s)]] = e, q[e] = Nil, \A x \in ToSet(s) : x # s[Len(s)] => q[x] = p[x]
  PROVE  IsPath(q, f, Append(s, e))
<1> DEFINE d == Append(s, e)
           l == Len(s)
<1>1. s \in Seq(Entries) /\ Distinct(s) /\ f = At(s, 1) /\ \A i \in DOMAIN s : p[s[i]] = At(s, i + 1)
  BY DEF IsPath
<1>2. /\ d \in Seq(Entries) /\ DOMAIN s = 1..l /\ DOMAIN d = 1..(l + 1) /\ l \in Nat /\ l # 0
      /\ \A i \in 1..(l + 1) : i \in 1..l \/ i = l + 1
      /\ \A i \in 1..l : i \in 1..(l + 1) /\ d[i] = s[i] /\ s[i] \in ToSet(s)
      /\ d[l + 1] = e /\ l + 1 \in 1..(l + 1)
  BY <1>1, AppendFacts, SeqFacts
<1> HIDE DEF d, l
<1>3. Distinct(d)
  <2> SUFFICES ASSUME NEW i \in 1..(l + 1), NEW j \in 1..(l + 1), d[i] = d[j] PROVE i = j
    BY <1>2 DEF Distinct
  <2>1. CASE i \in 1..l /\ j \in 1..l
    BY <1>1, <1>2, <2>1 DEF Distinct
  <2> QED
    BY <1>2, <2>1
<1>4. f = At(d, 1)
  <2>1. 1 \in 1..l
    BY <1>2
  <2> QED
    BY <1>1, <1>2, <2>1 DEF At
<1>5. ASSUME NEW i \in 1..(l + 1) PROVE q[d[i]] = At(d, i + 1)
  <2>1. CASE i = l + 1
    <3>1. i + 1 \notin 1..(l + 1)
      BY <1>2, <2>1
    <3> QED
      BY <1>2, <2>1, <3>1 DEF At
  <2>2. CASE i = l
    BY <1>2, <2>2 DEF At, l
  <2>3. CASE i \in 1..l /\ i # l
    <3>1. l \in 1..l /\ i + 1 \in 1..l
      BY <1>2, <2>3
    <3>2. s[i] # s[l]
      BY <1>1, <1>2, <2>3, <3>1 DEF Distinct
    <3>3. q[s[i]] = p[s[i]]
      BY <1>2, <2>3, <3>2 DEF l
    <3> QED
      BY <1>1, <1>2, <2>3, <3>1, <3>3 DEF At
  <2> QED
    BY <1>2, <2>1, <2>2, <2>3
<1> QED
  BY <1>2, <1>3, <1>4, <1>5 DEF IsPath, d

LEMMA InsertedKeeps ==
  ASSUME TableInv, NEW h, NEW g, NEW L, IsTable(t, L), NEW e \in Garbage, NEW k, NEW x,
         Inserted(h, g, L, e, k, x), h.next = t.next, h.tail = t.tail, Becomes(g)
  PROVE  TableInv'
<1> DEFINE l == Len(L)
           d == Append(L, e)
<1>1. L \in Seq(Entries) /\ t.tail = At(L, l) /\ t \in TableRecords /\ e \in Entries /\ e \notin ToSet(L)
  BY GarbageFacts DEF IsTable, Listing, IsPath
<1>2. /\ IsTable(g, d) /\ \A f \in Entries \ {e, t.tail} : g.next[f] = t.next[f]
      /\ \A i \in DOMAIN d : g.next[d[i]] = At(d, i + 1)
  BY DEF Inserted, IsTable, Listing, IsPath
<1>3. /\ l \in Nat /\ DOMAIN L = 1..l /\ DOMAIN d = 1..(l + 1) /\ d[l + 1] = e
      /\ \A i \in 1..l : d[i] = L[i] /\ L[i] \in ToSet(L)
      /\ ToSet(d) = ToSet(L) \cup {e}
  BY <1>1, AppendFacts, SeqFacts
<1>4. \A i \in DOMAIN L : t.next[L[i]] = At(L, i + 1)
  BY DEF IsTable, Listing, IsPath
<1> HIDE DEF d, l
<1>5. g.next[e] = Nil /\ (t.tail # Nil => g.next[t.tail] = e /\ t.next[t.tail] = Nil /\ t.tail \in ToSet(L))
  <2>1. l + 1 \in 1..(l + 1) /\ l + 2 \notin 1..(l + 1) /\ l + 1 \notin 1..l /\ (l + 1) + 1 = l + 2
    BY <1>3
  <2>2. g.next[e] = Nil
    BY <1>2, <1>3, <2>1 DEF At
  <2>3. ASSUME t.tail # Nil PROVE g.next[t.tail] = e /\ t.next[t.tail] = Nil /\ t.tail \in ToSet(L)
    <3>1. l \in 1..l /\ l \in 1..(l + 1) /\ t.tail = L[l] /\ L[l] \in ToSet(L)
      BY <1>1, <1>3, <2>3 DEF At
    <3>2. g.next[L[l]] = d[l + 1]
      BY <1>2, <1>3, <2>1, <3>1 DEF At
    <3>3. t.next[L[l]] = Nil
      BY <1>3, <1>4, <2>1, <3>1 DEF At
    <3> QED
      BY <1>3, <3>1, <3>2, <3>3
  <2> QED
    BY <2>2, <2>3
<1>6. ASSUME walk # NoWalk PROVE \E P : WalkPath(g.next, seen, stay \cap ToSet(d), P)
  <2>1. PICK P : WalkPath(t.next, seen, stay, P)
    BY <1>6 DEF TableInv
  <2>2. e \notin ToSet(P) /\ P \in Seq(Entries) /\ IsPath(t.next, walk, P) /\ e \notin seen
    BY <1>6, <2>1, GarbageFacts DEF WalkPath, IsPath
  <2>3. CASE t.tail \in ToSet(P)
    <3>1. t.tail # Nil /\ t.tail \in Entries
      BY <2>2, <2>3, SeqFacts, ConstantFacts
    <3>2. PICK i \in DOMAIN P : P[i] = t.tail
      BY <2>3 DEF ToSet
    <3>3. i = Len(P) /\ P # <<>>
      <4>1. At(P, i + 1) = Nil
        BY <1>5, <2>2, <3>1, <3>2 DEF IsPath
      <4>2. i \in 1..Len(P) /\ DOMAIN P = 1..Len(P) /\ Len(P) \in Nat
        BY <2>2, <3>2
      <4>3. i + 1 \notin 1..Len(P)
        <5> SUFFICES ASSUME i + 1 \in 1..Len(P) PROVE FALSE
          OBVIOUS
        <5>1. P[i + 1] = Nil /\ P[i + 1] \in Entries
          BY <2>2, <4>1, <4>2 DEF At
        <5> QED
          BY <5>1, ConstantFacts
      <4> QED
        BY <4>2, <4>3
    <3>4. IsPath(g.next, walk, Append(P, e))
      <4>1. g.next[P[Len(P)]] = e
        BY <1>5, <3>1, <3>2, <3>3
      <4>2. \A f \in ToSet(P) : f # P[Len(P)] => g.next[f] = t.next[f]
        BY <1>2, <2>2, <3>2, <3>3, SeqFacts
      <4> QED
        BY <1>1, <1>5, <2>2, <3>3, <4>1, <4>2, PathAppended
    <3>5. ToSet(Append(P, e)) = ToSet(P) \cup {e}
      BY <1>1, <2>2, AppendFacts
    <3>6. WalkPath(g.next, seen, stay \cap ToSet(d), Append(P, e))
      BY <2>1, <2>2, <3>4, <3>5 DEF WalkPath
    <3> QED
      BY <3>6
  <2>4. CASE t.tail \notin ToSet(P)
    <3>1. \A i \in DOMAIN P : P[i] \in Entries /\ P[i] # e /\ P[i] # t.tail
      BY <2>2, <2>4 DEF ToSet
    <3>2. IsPath(g.next, walk, P)
      BY <1>2, <2>2, <3>1 DEF IsPath
    <3> QED
      BY <2>1, <3>2 DEF WalkPath
  <2> QED
    BY <2>3, <2>4
<1> QED
  BY <1>2, <1>6, BecomesKeeps

LEMMA RemovedKeeps ==
  ASSUME TableInv, NEW g, NEW L, IsTable(t, L), NEW i \in DOMAIN L, NEW h,
         Removed(t, g, L, i), IsTable(h, Dropped(L, i)), h.next = g.next, Becomes(h)
  PROVE  TableInv'
<1> DEFINE d == Dropped(L, i)
<1>1. /\ L \in Seq(Entries) /\ Distinct(L) /\ i \in 1..Len(L) /\ DOMAIN L = 1..Len(L) /\ Len(L) \in Nat
      /\ \A j \in DOMAIN L : t.next[L[j]] = At(L, j + 1)
  BY DEF IsTable, Listing, IsPath
<1>2. ToSet(d) = ToSet(L) \ {L[i]}
  BY <1>1, DroppedFacts
<1>3. /\ i # 1 => g.next[L[i - 1]] = At(L, i + 1)
      /\ \A f \in Entries : (i # 1 => f # L[i - 1]) => g.next[f] = t.next[f]
  BY DEF Removed
<1>4. t.next[L[i]] = At(L, i + 1) /\ (i # 1 => i - 1 \in DOMAIN L /\ t.next[L[i - 1]] = L[i])
  <2>1. i # 1 => i - 1 \in DOMAIN L /\ (i - 1) + 1 = i
    BY <1>1
  <2> QED
    BY <1>1, <2>1 DEF At
<1> HIDE DEF d
<1>5. ASSUME walk # NoWalk PROVE \E P : WalkPath(g.next, seen, stay \cap ToSet(d), P)
  <2>1. PICK P : WalkPath(t.next, seen, stay, P)
    BY <1>5 DEF TableInv
  <2>2. /\ P \in Seq(Entries) /\ IsPath(t.next, walk, P) /\ Distinct(P)
        /\ DOMAIN P = 1..Len(P) /\ Len(P) \in Nat /\ walk = At(P, 1)
        /\ \A j \in DOMAIN P : t.next[P[j]] = At(P, j + 1) /\ P[j] \in Entries
    BY <2>1 DEF WalkPath, IsPath
  <2>3. CASE i # 1 /\ L[i - 1] \in ToSet(P)
    <3>1. PICK m \in DOMAIN P : P[m] = L[i - 1]
      BY <2>3 DEF ToSet
    <3>2. L[i] # Nil
      BY <1>1, ConstantFacts
    <3>3. m + 1 \in DOMAIN P /\ P[m + 1] = L[i]
      BY <1>4, <2>2, <2>3, <3>1, <3>2 DEF At
    <3>4. (m + 1) - 1 = m /\ m + 1 # 1
      BY <2>2, <3>1
    <3> DEFINE n == m + 1
               r == Dropped(P, n)
    <3> HIDE DEF n
    <3>5. n \in DOMAIN P /\ P[n] = L[i] /\ n - 1 = m /\ n # 1
      BY <3>3, <3>4 DEF n
    <3>6. g.next[P[n - 1]] = t.next[P[n]]
      BY <1>3, <1>4, <2>3, <3>1, <3>5
    <3>7. \A j \in DOMAIN P : j # n - 1 => g.next[P[j]] = t.next[P[j]]
      BY <1>3, <2>2, <3>1, <3>5 DEF Distinct
    <3>8. IsPath(g.next, walk, r)
      BY <2>2, <3>5, <3>6, <3>7, PathWithout
    <3>9. ToSet(r) = ToSet(P) \ {L[i]}
      BY <2>2, <3>5, DroppedFacts
    <3>10. WalkPath(g.next, seen, stay \cap ToSet(d), r)
      BY <1>2, <2>1, <3>8, <3>9 DEF WalkPath
    <3> QED
      BY <3>10
  <2>4. CASE i # 1 => L[i - 1] \notin ToSet(P)
    <3>1. \A j \in DOMAIN P : g.next[P[j]] = t.next[P[j]]
      BY <1>3, <2>2, <2>4 DEF ToSet
    <3>2. IsPath(g.next, walk, P)
      BY <2>2, <3>1 DEF IsPath
    <3> QED
      BY <2>1, <3>2 DEF WalkPath
  <2> QED
    BY <2>3, <2>4
<1> QED
  BY <1>5, BecomesKeeps DEF d

-----------------------------------------------------------------------------
(* The operations that build the table anew.                                *)
LEMMA ItemsFacts ==
  ASSUME NEW h, NEW L, IsTable(h, L)
  PROVE  /\ Items(h, L) \in Seq(Keys \X Vals) /\ Len(Items(h, L)) = Len(L) /\ Len(L) \in Nat
         /\ \A i \in 1..Len(L) : /\ Items(h, L)[i][1] = h.key[L[i]] /\ Items(h, L)[i][2] = h.val[L[i]]
                                 /\ h.key[L[i]] \in Keys /\ h.val[L[i]] \in Vals
         /\ \A i, j \in 1..Len(L) : h.key[L[i]] = h.key[L[j]] => i = j
<1>1. /\ L \in Seq(Entries) /\ Distinct(L) /\ h \in TableRecords /\ UniqueKeys(h, ToSet(L))
  BY DEF IsTable, Listing, IsPath
<1> DEFINE l == Len(L)
<1>2. DOMAIN L = 1..l /\ l \in Nat /\ \A i \in 1..l : L[i] \in Entries /\ L[i] \in ToSet(L)
  BY <1>1, SeqFacts
<1> HIDE DEF l
<1>3. \A i \in 1..l : h.key[L[i]] \in Keys /\ h.val[L[i]] \in Vals
  BY <1>1, <1>2 DEF TableRecords
<1>4. Items(h, L) = [i \in 1..l |-> <<h.key[L[i]], h.val[L[i]]>>]
  BY <1>2 DEF Items
<1>5. Items(h, L) \in [1..l -> Keys \X Vals]
  BY <1>3, <1>4
<1>6. Items(h, L) \in Seq(Keys \X Vals) /\ Len(Items(h, L)) = l
  BY <1>2, <1>5
<1>7. \A i, j \in 1..l : h.key[L[i]] = h.key[L[j]] => i = j
  BY <1>1, <1>2 DEF UniqueKeys, Distinct
<1> QED
  BY <1>2, <1>3, <1>4, <1>6, <1>7 DEF l

(* %separate-internal-hash-structure                                        *)
Copied(h, g, L, M) ==
    /\ IsTable(g, M) /\ Len(M) = Len(L) /\ g.max = h.max
    /\ \A i \in 1..Len(L) : g.key[M[i]] = h.key[L[i]] /\ g.val[M[i]] = h.val[L[i]]
    /\ h.cur = Nil => g.cur = Nil
    /\ \A i \in 1..Len(L) : h.cur = L[i] => g.cur = M[i]

LEMMA SeparatedCopies ==
  ASSUME TableInv, NEW L, IsTable(t, L), Room
  PROVE  \E M : /\ Copied(t, Separated(t), L, M)
                /\ \A f \in Entries \ Garbage : Separated(t).next[f] = t.next[f]
<1> DEFINE l == Len(L)
           items == Items(t, L)
           n == BucketCount(t)
           y == [t EXCEPT !.size = 0, !.head = Nil, !.tail = Nil, !.cur = Nil,
                          !.buckets = EmptyBuckets(n)]
           g == Reinsert(y, items, Garbage)
           cur1 == IF t.cur = Nil THEN Nil ELSE Lookup(g, t.key[t.cur])
           h == [g EXCEPT !.max = t.max, !.cur = cur1]
<1>1. /\ t \in TableRecords /\ EntryList(t) = L /\ t.size = l /\ t.max \in -1..MaxInt
      /\ t.cur \in ToSet(L) \cup {Nil} /\ L \in Seq(Entries) /\ Distinct(L) /\ ToSet(L) \subseteq Entries
      /\ DOMAIN L = 1..l /\ l \in Nat
  BY ListFacts DEF IsTable, TableRecords
<1>2. Separated(t) = h
  BY <1>1 DEF Separated
<1>3. n \in Nat \ {0}
  BY <1>1, BucketFacts
<1>4. y = Emptied(t, n, t.max)
  BY <1>1 DEF TableRecords, Emptied
<1> HIDE DEF y, n
<1>5. IsTable(y, <<>>) /\ y.cur = Nil /\ y.max = t.max /\ y.next = t.next
  BY <1>1, <1>3, <1>4, EmptiedFacts
<1>6. /\ items \in Seq(Keys \X Vals) /\ Len(items) = l
      /\ \A i \in 1..l : /\ items[i][1] = t.key[L[i]] /\ items[i][2] = t.val[L[i]]
      /\ \A i, j \in 1..l : t.key[L[i]] = t.key[L[j]] => i = j
  BY ItemsFacts
<1> HIDE DEF items
<1>7. Fills(Garbage, items)
  <2>1. Garbage \subseteq Entries
    BY GarbageFacts
  <2>2. Cardinality(Garbage) >= Len(items)
    BY <1>1, <1>6 DEF Room
  <2>3. ASSUME NEW i \in 1..Len(items), NEW j \in 1..Len(items), items[i][1] = items[j][1]
        PROVE  i = j
    <3>1. i \in 1..l /\ j \in 1..l
      BY <1>6
    <3>2. items[i][1] = t.key[L[i]] /\ items[j][1] = t.key[L[j]]
      BY <3>1, <1>6
    <3>3. \A a, b \in 1..l : t.key[L[a]] = t.key[L[b]] => a = b
      BY <1>6
    <3> QED
      BY <2>3, <3>1, <3>2, <3>3
  <2>4. items \in Seq(Keys \X Vals)
    BY <1>6
  <2> QED
    BY <2>1, <2>2, <2>3, <2>4 DEF Fills
<1>8. PICK M : Filled(y, Garbage, items, Len(items), g, M)
  BY <1>5, <1>7, ReinsertFills
<1> HIDE DEF g
<1>9. /\ IsTable(g, M) /\ Len(M) = l
      /\ \A i \in 1..l : g.key[M[i]] = t.key[L[i]] /\ g.val[M[i]] = t.val[L[i]]
      /\ \A f \in Entries \ Garbage : g.next[f] = t.next[f]
  BY <1>5, <1>6, <1>8 DEF Filled
<1>10. /\ g \in TableRecords /\ Chained(g, ToSet(M)) /\ UniqueKeys(g, ToSet(M))
       /\ M \in Seq(Entries) /\ ToSet(M) \subseteq Entries
  BY <1>9, ListFacts DEF IsTable
<1>11. DOMAIN M = 1..l /\ \A i \in 1..l : M[i] \in ToSet(M)
  BY <1>9, <1>10, SeqFacts
<1>12. ASSUME NEW i \in 1..l, t.cur = L[i] PROVE cur1 = M[i]
  <2>1. t.cur # Nil /\ t.cur \in Entries
    BY <1>1, <1>12, ConstantFacts
  <2>2. t.key[t.cur] \in Keys /\ g.key[M[i]] = t.key[t.cur]
    BY <1>1, <1>9, <1>12, <2>1 DEF TableRecords
  <2>3. /\ Lookup(g, t.key[t.cur]) \in ToSet(M)
        /\ g.key[Lookup(g, t.key[t.cur])] = t.key[t.cur]
    BY <1>10, <1>11, <2>2, LookupFinds
  <2>4. Lookup(g, t.key[t.cur]) = M[i]
    BY <1>10, <1>11, <2>2, <2>3 DEF UniqueKeys
  <2> QED
    BY <2>1, <2>4
<1>13. t.cur = Nil => cur1 = Nil
  OBVIOUS
<1> HIDE DEF cur1
<1>14. cur1 \in ToSet(M) \cup {Nil}
  <2>1. t.cur # Nil => \E i \in 1..l : t.cur = L[i]
    BY <1>1 DEF ToSet
  <2> QED
    BY <1>11, <1>12, <1>13, <2>1
<1>15. /\ h \in TableRecords /\ h.max = t.max /\ h.cur = cur1 /\ h.size = g.size
       /\ h.head = g.head /\ h.tail = g.tail /\ h.next = g.next /\ h.prev = g.prev /\ h.key = g.key
       /\ h.val = g.val /\ h.chain = g.chain /\ h.buckets = g.buckets
  <2>1. cur1 \in Links
    BY <1>10, <1>14 DEF Links
  <2> QED
    BY <1>1, <1>10, <2>1 DEF TableRecords
<1> HIDE DEF h
<1>16. Chained(h, ToSet(M))
  BY <1>10, <1>15, SameChains
<1>17. IsTable(h, M)
  BY <1>9, <1>14, <1>15, <1>16, SameTable
<1>18. Copied(t, h, L, M)
  BY <1>9, <1>12, <1>13, <1>15, <1>17 DEF Copied
<1> QED
  BY <1>2, <1>9, <1>15, <1>18

(* clear-php-hash                                                           *)
LEMMA ClearedEmpty ==
  ASSUME NEW h \in TableRecords
  PROVE  /\ IsTable(Cleared(h), <<>>) /\ Cleared(h).cur = Nil /\ Cleared(h).max = -1
         /\ Cleared(h).next = h.next
<1>1. Cleared(h) = Emptied(h, DefaultSize, -1)
  BY DEF Cleared, TableRecords, Emptied
<1>2. DefaultSize \in Nat \ {0} /\ -1 \in -1..MaxInt
  BY ConstantFacts
<1> QED
  BY <1>1, <1>2, EmptiedFacts

(* The sorts.                                                               *)
SortedKey(h, L, p, keep, i) == IF keep THEN h.key[L[p[i]]] ELSE i - 1

Rebuilt(h, g, L, M, p, keep) ==
    /\ IsTable(g, M) /\ Len(M) = Len(L) /\ g.cur = At(M, 1)
    /\ g.max = MaxIntIn({g.key[M[i]] : i \in 1..Len(M)})
    /\ \A i \in 1..Len(L) : g.key[M[i]] = SortedKey(h, L, p, keep, i) /\ g.val[M[i]] = h.val[L[p[i]]]

LEMMA LargestKey ==
  ASSUME NEW m \in -1..MaxInt, NEW K \in SUBSET Keys,
         \A k \in K : k \in IntKeys => k <= m, m # -1 => m \in K
  PROVE  m = MaxIntIn(K)
<1>1. IntKeys = 0..MaxInt /\ MaxInt \in Nat
  BY ConstantFacts
<1>2. CASE K \cap IntKeys = {}
  <2>1. m # -1 => m \in IntKeys
    BY <1>1
  <2> QED
    BY <1>2, <2>1 DEF MaxIntIn
<1>3. CASE K \cap IntKeys # {}
  <2>1. m \in K \cap IntKeys
    <3>1. PICK k \in K : k \in IntKeys
      BY <1>3
    <3>2. m # -1
      BY <1>1, <3>1
    <3> QED
      BY <1>1, <3>2
  <2>2. \A k \in K \cap IntKeys : (\A j \in K \cap IntKeys : j <= k) => k = m
    <3> SUFFICES ASSUME NEW k \in K \cap IntKeys, m <= k PROVE k = m
      BY <2>1
    <3>1. k <= m /\ k \in Int /\ m \in Int
      BY <1>1
    <3> QED
      BY <3>1
  <2>3. \A j \in K \cap IntKeys : j <= m
    OBVIOUS
  <2> QED
    BY <1>3, <2>1, <2>2, <2>3 DEF MaxIntIn
<1> QED
  BY <1>2, <1>3

LEMMA ResortedRebuilds ==
  ASSUME TableInv, NEW L, IsTable(t, L), Room,
         NEW p \in Permutations1(Len(L)), NEW keep \in BOOLEAN, keep \/ Len(L) - 1 <= MaxInt
  PROVE  \E M : /\ Rebuilt(t, Resorted(t, p, keep), L, M, p, keep)
                /\ \A f \in Entries \ Garbage : Resorted(t, p, keep).next[f] = t.next[f]
<1> DEFINE l == Len(L)
           perm == [i \in DOMAIN L |-> L[p[i]]]
           sorted == Items(t, perm)
           items == [i \in DOMAIN L |-> IF keep THEN sorted[i] ELSE <<i - 1, sorted[i][2]>>]
           y == Cleared(t)
           g == Reinsert(y, items, Garbage)
<1>1. /\ t \in TableRecords /\ EntryList(t) = L /\ t.size = l
      /\ L \in Seq(Entries) /\ ToSet(L) \subseteq Entries
      /\ DOMAIN L = 1..l /\ l \in Nat
  BY ListFacts DEF IsTable
<1>2. Resorted(t, p, keep) = g
  BY <1>1 DEF Resorted
<1>3. IsTable(y, <<>>) /\ y.cur = Nil /\ y.max = -1 /\ y.next = t.next
  BY <1>1, ClearedEmpty
<1> HIDE DEF y
<1>4. /\ p \in [1..l -> 1..l] /\ \A i, j \in 1..l : p[i] = p[j] => i = j
  BY DEF Permutations1
<1>5. \A i \in 1..l : t.key[L[i]] \in Keys /\ t.val[L[i]] \in Vals
  BY ItemsFacts
<1>6. \A i, j \in 1..l : t.key[L[i]] = t.key[L[j]] => i = j
  BY ItemsFacts
<1>7. sorted = [i \in 1..l |-> <<t.key[L[p[i]]], t.val[L[p[i]]]>>]
  BY <1>1 DEF Items
<1> HIDE DEF perm, sorted, l
<1>8. \A i \in 1..l : /\ sorted[i] = <<t.key[L[p[i]]], t.val[L[p[i]]]>> /\ p[i] \in 1..l
                      /\ i - 1 \in 0..(l - 1)
  BY <1>1, <1>4, <1>7
<1>9. \A i \in 1..l : /\ items[i][1] = SortedKey(t, L, p, keep, i)
                      /\ items[i][2] = t.val[L[p[i]]]
                      /\ items[i] \in Keys \X Vals
  <2> TAKE i \in 1..l
  <2>1. CASE keep
    <3>1. items[i] = <<t.key[L[p[i]]], t.val[L[p[i]]]>>
      BY <1>1, <1>8, <2>1
    <3> HIDE DEF items
    <3> QED
      BY <1>5, <1>8, <2>1, <3>1 DEF SortedKey
  <2>2. CASE ~keep
    <3>1. items[i] = <<i - 1, t.val[L[p[i]]]>>
      BY <1>1, <1>8, <2>2
    <3>2. i - 1 \in Keys
      BY <1>1, <1>8, <2>2, ConstantFacts DEF l
    <3> HIDE DEF items
    <3> QED
      BY <1>5, <1>8, <2>2, <3>1, <3>2 DEF SortedKey
  <2> QED
    BY <2>1, <2>2
<1>10. items \in Seq(Keys \X Vals) /\ Len(items) = l
  <2>1. items = [i \in 1..l |-> items[i]] /\ l \in Nat
    BY <1>1
  <2> HIDE DEF items
  <2>2. items \in [1..l -> Keys \X Vals]
    BY <1>9, <2>1
  <2> QED
    BY <1>1, <2>2
<1>11. ASSUME NEW i \in 1..l, NEW j \in 1..l, items[i][1] = items[j][1] PROVE i = j
  <2> HIDE DEF items
  <2>1. CASE keep
    <3>1. t.key[L[p[i]]] = t.key[L[p[j]]]
      BY <1>9, <1>11, <2>1 DEF SortedKey
    <3>2. p[i] = p[j]
      BY <1>6, <1>8, <3>1
    <3> QED
      BY <1>4, <3>2
  <2>2. CASE ~keep
    <3>1. i - 1 = j - 1
      BY <1>9, <1>11, <2>2 DEF SortedKey
    <3> QED
      BY <1>1, <3>1
  <2> QED
    BY <2>1, <2>2
<1> HIDE DEF items
<1>12. Fills(Garbage, items)
  <2>1. Garbage \subseteq Entries
    BY GarbageFacts
  <2> QED
    BY <1>1, <1>10, <1>11, <2>1 DEF Room, Fills
<1>13. PICK M : Filled(y, Garbage, items, Len(items), g, M)
  BY <1>3, <1>12, ReinsertFills
<1> HIDE DEF g
<1>14. /\ IsTable(g, M) /\ Len(M) = l /\ g.cur = At(M, 1)
       /\ \A i \in 1..l : g.key[M[i]] = items[i][1] /\ g.val[M[i]] = items[i][2]
       /\ \A f \in Entries \ Garbage : g.next[f] = t.next[f]
       /\ \A i \in 1..l : items[i][1] \in IntKeys => items[i][1] <= g.max
       /\ g.max # -1 => \E i \in 1..l : items[i][1] = g.max
  BY <1>3, <1>10, <1>13 DEF Filled
<1>15. g.max = MaxIntIn({g.key[M[i]] : i \in 1..Len(M)})
  <2> DEFINE K == {g.key[M[i]] : i \in 1..Len(M)}
  <2>1. g.max \in -1..MaxInt
    BY <1>14 DEF IsTable, TableRecords
  <2>2. K \in SUBSET Keys
    BY <1>14, ItemsFacts
  <2>3. \A k \in K : k \in IntKeys => k <= g.max
    BY <1>14
  <2>4. g.max # -1 => g.max \in K
    BY <1>14
  <2> HIDE DEF K
  <2>5. g.max = MaxIntIn(K)
    BY <2>1, <2>2, <2>3, <2>4, LargestKey
  <2> QED
    BY <2>5 DEF K
<1>16. Rebuilt(t, g, L, M, p, keep)
  BY <1>9, <1>14, <1>15 DEF Rebuilt, l
<1> QED
  BY <1>2, <1>14, <1>16

-----------------------------------------------------------------------------
(* The invariant is inductive.                                              *)
Alike(y, L) == IsTable(y, L) /\ y.next = t.next /\ y.tail = t.tail /\ y.key = t.key

LEMMA PutKeeps ==
  ASSUME TableInv, NEW L, IsTable(t, L), NEW y, Alike(y, L), Garbage # {},
         NEW k \in Keys, NEW x \in Vals, Becomes(Put(y, NewEntry, k, x))
  PROVE  TableInv'
<1> DEFINE e == NewEntry
           g == Put(y, e, k, x)
<1>1. e \in Garbage /\ e \in Entries /\ e \notin ToSet(L)
  BY GarbageFacts, LeastFacts DEF NewEntry
<1>2. IsTable(y, L) /\ y.next = t.next /\ y.tail = t.tail
  BY DEF Alike
<1> HIDE DEF e
<1>3. CASE \E f \in ToSet(L) : y.key[f] = k
  <2>1. PICK f \in ToSet(L) : y.key[f] = k
    BY <1>3
  <2>2. Updated(y, g, L, f, x)
    BY <1>2, <2>1, PutUpdates
  <2>3. IsTable(g, L) /\ \A c \in Entries \ Garbage : g.next[c] = t.next[c]
    BY <1>2, <2>2 DEF Updated
  <2> QED
    BY <2>3, BesideKeeps DEF e
<1>4. CASE \A f \in ToSet(L) : y.key[f] # k
  <2>1. Inserted(y, g, L, e, k, x)
    BY <1>1, <1>2, <1>4, PutInserts
  <2>2. Becomes(g)
    BY DEF e
  <2> HIDE DEF g
  <2> QED
    BY <1>1, <1>2, <2>1, <2>2, InsertedKeeps
<1> QED
  BY <1>3, <1>4

LEMMA RaisedAlike ==
  ASSUME NEW L, IsTable(t, L), NEW k \in Keys
  PROVE  Alike(Raise(t, k), L) /\ Alike(t, L)
  BY RaiseFields DEF Alike

LEMMA TakeKeeps ==
  ASSUME TableInv, NEW L, IsTable(t, L), NEW k \in Keys, Becomes(Take(t, k))
  PROVE  TableInv'
<1>1. CASE \E f \in ToSet(L) : t.key[f] = k
  <2>1. PICK i \in DOMAIN L : t.key[L[i]] = k
    BY <1>1 DEF ToSet
  <2>2. Removed(t, Take(t, k), L, i)
    BY <2>1, TakeRemoves
  <2>3. IsTable(Take(t, k), Dropped(L, i))
    BY <2>2 DEF Removed
  <2> QED
    BY <2>2, <2>3, RemovedKeeps
<1>2. CASE \A f \in ToSet(L) : t.key[f] # k
  <2>1. Take(t, k) = t
    BY <1>2, TakeNothing
  <2> QED
    BY <2>1, BesideKeeps
<1> QED
  BY <1>1, <1>2

(* The last entry goes, and the maximum drops if it was the maximum.        *)
Lowered(h, k) == IF k = h.max THEN [h EXCEPT !.max = @ - 1] ELSE h

LEMMA LoweredFields ==
  ASSUME NEW h, NEW L, IsTable(h, L), NEW k \in Keys
  PROVE  /\ IsTable(Lowered(h, k), L)
         /\ Lowered(h, k).max = (IF k = h.max THEN h.max - 1 ELSE h.max)
         /\ Lowered(h, k).next = h.next /\ Lowered(h, k).key = h.key /\ Lowered(h, k).val = h.val
         /\ Lowered(h, k).cur = h.cur
<1> DEFINE g == Lowered(h, k)
<1>1. h \in TableRecords /\ Chained(h, ToSet(L)) /\ h.cur \in ToSet(L) \cup {Nil}
  BY DEF IsTable
<1>2. h.max \in -1..MaxInt /\ MaxInt \in Nat
  BY <1>1, ConstantFacts DEF TableRecords
<1>3. k = h.max => h.max - 1 \in -1..MaxInt
  <2>1. k \in StrKeys => k \notin Int
    BY ConstantsAssumption
  <2>2. k = h.max => k \in 0..MaxInt
    BY <1>2, <2>1 DEF Keys, IntKeys
  <2> QED
    BY <1>2, <2>2
<1>4. /\ g \in TableRecords
      /\ g.max = (IF k = h.max THEN h.max - 1 ELSE h.max)
      /\ g.size = h.size /\ g.cur = h.cur /\ g.head = h.head /\ g.tail = h.tail
      /\ g.next = h.next /\ g.prev = h.prev /\ g.key = h.key /\ g.val = h.val /\ g.chain = h.chain
      /\ g.buckets = h.buckets
  BY <1>1, <1>3 DEF Lowered, TableRecords
<1> HIDE DEF g
<1>5. Chained(g, ToSet(L))
  BY <1>1, <1>4, SameChains
<1>6. IsTable(g, L)
  BY <1>1, <1>4, <1>5, SameTable
<1> QED
  BY <1>4, <1>6 DEF g

LEMMA TailFacts ==
  ASSUME NEW L, IsTable(t, L), t.tail # Nil
  PROVE  /\ Len(L) \in DOMAIN L /\ t.tail = L[Len(L)] /\ t.key[t.tail] \in Keys
         /\ Removed(t, Take(t, t.key[t.tail]), L, Len(L))
<1>1. L \in Seq(Entries) /\ t.tail = At(L, Len(L)) /\ t \in TableRecords
  BY DEF IsTable, Listing, IsPath
<1>2. Len(L) \in DOMAIN L /\ t.tail = L[Len(L)] /\ t.tail \in Entries
  BY <1>1 DEF At
<1>3. t.key[t.tail] \in Keys
  BY <1>1, <1>2 DEF TableRecords
<1> QED
  BY <1>2, <1>3, TakeRemoves

LEMMA PopKeeps ==
  ASSUME TableInv, NEW L, IsTable(t, L), Pop
  PROVE  TableInv'
<1> DEFINE i == Len(L)
           k == t.key[t.tail]
           g == Take(t, k)
           h == Lowered(g, k)
<1>1. i \in DOMAIN L /\ k \in Keys /\ Removed(t, g, L, i)
  BY TailFacts DEF Pop
<1>2. Becomes(h)
  BY DEF Pop, Lowered
<1> HIDE DEF i, g
<1>3. IsTable(g, Dropped(L, i))
  BY <1>1 DEF Removed
<1>4. IsTable(h, Dropped(L, i)) /\ h.next = g.next
  BY <1>1, <1>3, LoweredFields
<1> HIDE DEF h
<1> QED
  BY <1>1, <1>2, <1>4, RemovedKeeps

(* The array pointer moves within the list, or off it.                      *)
LEMMA PointedFields ==
  ASSUME NEW L, IsTable(t, L), NEW c \in ToSet(L) \cup {Nil}, NEW g, g = [t EXCEPT !.cur = c]
  PROVE  /\ IsTable(g, L) /\ g.cur = c /\ g.next = t.next /\ g.max = t.max
         /\ g.key = t.key /\ g.val = t.val
<1>1. t \in TableRecords /\ Chained(t, ToSet(L)) /\ ToSet(L) \subseteq Entries
  BY ListFacts DEF IsTable
<1>2. c \in Links
  BY <1>1 DEF Links
<1>3. /\ g \in TableRecords /\ g.max = t.max
      /\ g.size = t.size /\ g.cur = c /\ g.head = t.head /\ g.tail = t.tail
      /\ g.next = t.next /\ g.prev = t.prev /\ g.key = t.key /\ g.val = t.val /\ g.chain = t.chain
      /\ g.buckets = t.buckets
  BY <1>1, <1>2 DEF TableRecords
<1>4. Chained(g, ToSet(L))
  <2>1. \A e \in ToSet(L) : g.chain[e] = t.chain[e] /\ g.key[e] = t.key[e]
    BY <1>3
  <2> QED
    BY <1>1, <1>3, <2>1, SameChains
<1>5. IsTable(g, L)
  BY <1>1, <1>3, <1>4, SameTable
<1> QED
  BY <1>3, <1>5

LEMMA PointerKeeps ==
  ASSUME TableInv, NEW L, IsTable(t, L), NEW c \in ToSet(L) \cup {Nil},
         Becomes([t EXCEPT !.cur = c])
  PROVE  TableInv'
<1> DEFINE h == [t EXCEPT !.cur = c]
<1>1. IsTable(h, L) /\ h.next = t.next
  BY PointedFields
<1> HIDE DEF h
<1> QED
  BY <1>1, BesideKeeps DEF h

LEMMA PlacesFacts ==
  ASSUME NEW L, IsTable(t, L)
  PROVE  /\ t.head \in ToSet(L) \cup {Nil} /\ t.tail \in ToSet(L) \cup {Nil}
         /\ t.cur \in ToSet(L) \cup {Nil}
         /\ t.cur # Nil => t.next[t.cur] \in ToSet(L) \cup {Nil} /\ t.prev[t.cur] \in ToSet(L) \cup {Nil}
<1>1. /\ t.head = At(L, 1) /\ t.tail = At(L, Len(L)) /\ t.cur \in ToSet(L) \cup {Nil}
      /\ \A i \in DOMAIN L : t.next[L[i]] = At(L, i + 1) /\ t.prev[L[i]] = At(L, i - 1)
  BY DEF IsTable, Listing, IsPath
<1>2. \A i : At(L, i) \in ToSet(L) \cup {Nil}
  BY DEF At, ToSet
<1>3. t.cur # Nil => \E i \in DOMAIN L : t.cur = L[i]
  BY <1>1 DEF ToSet
<1> QED
  BY <1>1, <1>2, <1>3

LEMMA InitKeeps ==
  TableInit => TableInv /\ IsTable(t, <<>>) /\ t.max = -1 /\ t.cur = Nil
<1> SUFFICES ASSUME TableInit PROVE TableInv /\ IsTable(t, <<>>) /\ t.max = -1 /\ t.cur = Nil
  OBVIOUS
<1>1. /\ t = [size |-> 0, buckets |-> EmptyBuckets(DefaultSize), cur |-> Nil,
              head |-> Nil, tail |-> Nil, max |-> -1, threshold |-> FirstThreshold,
              chain |-> NoEntries, next |-> NoEntries, prev |-> NoEntries,
              key |-> [e \in Entries |-> AnyKey], val |-> [e \in Entries |-> Null]]
      /\ walk = NoWalk /\ seen = {} /\ stay = {}
  BY DEF TableInit
<1>2. DefaultSize \in Nat \ {0} /\ FirstThreshold \in Nat /\ MaxInt \in Nat /\ -1 \in -1..MaxInt
  BY ConstantFacts
<1>3. EmptyBuckets(DefaultSize) \in Buckets
  <2>1. EmptyBuckets(DefaultSize) \in [0..(DefaultSize - 1) -> Links]
    BY DEF EmptyBuckets, Links
  <2> QED
    BY <1>2, <2>1 DEF Buckets
<1>4. /\ NoEntries \in [Entries -> Links]
      /\ [e \in Entries |-> AnyKey] \in [Entries -> Keys] /\ [e \in Entries |-> Null] \in [Entries -> Vals]
  <2>1. 0 \in Keys
    BY ConstantFacts
  <2>2. AnyKey \in Keys
    BY <2>1 DEF AnyKey
  <2> QED
    BY <2>2, ConstantFacts DEF NoEntries, Links
<1>5. t \in TableRecords
  BY <1>1, <1>2, <1>3, <1>4 DEF TableRecords, Links
<1>6. t = Emptied(t, DefaultSize, -1)
  <2>1. /\ t.size = 0 /\ t.head = Nil /\ t.tail = Nil /\ t.cur = Nil /\ t.max = -1
        /\ t.buckets = EmptyBuckets(DefaultSize)
    BY <1>1
  <2> QED
    BY <1>5, <2>1 DEF Emptied, TableRecords
<1>7. IsTable(t, <<>>) /\ t.cur = Nil /\ t.max = -1
  BY <1>1, <1>2, <1>5, <1>6, EmptiedFacts
<1> QED
  BY <1>1, <1>7 DEF TableInv

LEMMA StartKeeps ==
  ASSUME TableInv, NEW L, IsTable(t, L), StartWalk
  PROVE  TableInv'
<1>1. /\ walk' = t.head /\ seen' = {t.head} \ {Nil} /\ stay' = ToSet(L) /\ t' = t
      /\ IsPath(t.next, t.head, L) /\ ToSet(L) \subseteq Entries /\ t \in TableRecords
  BY ListFacts DEF StartWalk, IsTable, Listing
<1>2. t.head \in Links /\ t.head # NoWalk
  BY <1>1, ConstantFacts DEF TableRecords
<1>3. WalkPath(t.next, seen, stay, L)'
  BY <1>1, ConstantFacts DEF WalkPath
<1>4. \E M : IsTable(t', M)
  BY <1>1
<1>5. seen' \subseteq Entries /\ stay' \subseteq Listed(t')
  BY <1>1, <1>2, ListFacts DEF Links
<1> QED
  BY <1>1, <1>2, <1>3, <1>4, <1>5 DEF TableInv

(* One step further along a path.                                           *)
LEMMA PathOn ==
  ASSUME NEW p, NEW e \in Entries, NEW s, IsPath(p, e, s)
  PROVE  /\ IsPath(p, p[e], Dropped(s, 1)) /\ e \in ToSet(s) /\ ToSet(Dropped(s, 1)) = ToSet(s) \ {e}
         /\ ToSet(s) \subseteq Entries
<1>1. s \in Seq(Entries) /\ Distinct(s) /\ e = At(s, 1)
  BY DEF IsPath
<1>2. 1 \in DOMAIN s /\ s[1] = e
  BY <1>1, ConstantFacts DEF At
<1>3. IsPath(p, p[e], Dropped(s, 1))
  BY <1>2, PathWithout
<1> QED
  BY <1>1, <1>2, <1>3, DroppedFacts, SeqFacts

LEMMA OnKeeps ==
  ASSUME TableInv, NEW L, IsTable(t, L), WalkOn
  PROVE  TableInv' /\ (walk' # Nil => walk' \notin seen)
<1>1. /\ walk \in Entries /\ walk' = t.next[walk] /\ seen' = seen \cup ({t.next[walk]} \ {Nil})
      /\ t' = t /\ stay' = stay
  BY DEF WalkOn
<1>2. t \in TableRecords /\ walk # NoWalk
  BY <1>1, ConstantFacts, ListFacts DEF Links
<1>3. walk' \in Links /\ walk' # NoWalk
  BY <1>1, <1>2, ConstantFacts DEF TableRecords
<1>4. PICK P : WalkPath(t.next, seen, stay, P)
  BY <1>2 DEF TableInv
<1> DEFINE Q == Dropped(P, 1)
<1>5. /\ IsPath(t.next, walk', Q) /\ walk \in ToSet(P) /\ ToSet(Q) = ToSet(P) \ {walk}
      /\ ToSet(P) \subseteq Entries
  BY <1>1, <1>4, PathOn DEF WalkPath
<1> HIDE DEF Q
<1>6. walk' # Nil => walk' \in ToSet(Q)
  <2> SUFFICES ASSUME walk' # Nil PROVE walk' \in ToSet(Q)
    OBVIOUS
  <2>1. walk' = Q[1] /\ 1 \in DOMAIN Q
    BY <1>5 DEF IsPath, At
  <2> QED
    BY <2>1 DEF ToSet
<1>7. WalkPath(t.next, seen, stay, Q)'
  BY <1>1, <1>4, <1>5, <1>6, ConstantFacts DEF WalkPath
<1>8. walk' # Nil => walk' \notin seen
  BY <1>4, <1>5, <1>6 DEF WalkPath
<1>9. seen' \subseteq Entries /\ stay' \subseteq Listed(t')
  BY <1>1, <1>3 DEF TableInv, Links
<1>10. \E M : IsTable(t', M)
  BY <1>1
<1> QED
  BY <1>3, <1>7, <1>8, <1>9, <1>10 DEF TableInv

LEMMA EndKeeps ==
  ASSUME TableInv, NEW L, IsTable(t, L), EndWalk
  PROVE  TableInv'
<1>1. walk' = NoWalk /\ seen' = {} /\ stay' = {} /\ t' = t
  BY DEF EndWalk
<1>2. \E M : IsTable(t', M)
  BY <1>1
<1> QED
  BY <1>1, <1>2 DEF TableInv

LEMMA PushedKey ==
  ASSUME NEW L, IsTable(t, L), t.max < MaxInt
  PROVE  t.max + 1 \in Keys /\ t.max + 1 \in IntKeys /\ t.max + 1 > t.max
<1>1. t.max \in -1..MaxInt
  BY DEF IsTable, TableRecords
<1> QED
  BY <1>1, ConstantFacts

LEMMA SortKeeps ==
  ASSUME TableInv, NEW L, IsTable(t, L), Sort
  PROVE  TableInv'
<1>1. t.size = Len(L) /\ Room
  BY DEF IsTable, Sort
<1>2. PICK p \in Permutations1(Len(L)), keep \in BOOLEAN :
         (keep \/ Len(L) - 1 <= MaxInt) /\ Becomes(Resorted(t, p, keep))
  BY <1>1 DEF Sort
<1>3. PICK M : /\ Rebuilt(t, Resorted(t, p, keep), L, M, p, keep)
               /\ \A f \in Entries \ Garbage : Resorted(t, p, keep).next[f] = t.next[f]
  BY <1>1, <1>2, ResortedRebuilds
<1>4. IsTable(Resorted(t, p, keep), M)
  BY <1>3 DEF Rebuilt
<1> QED
  BY <1>2, <1>3, <1>4, BesideKeeps

LEMMA SeparateKeeps ==
  ASSUME TableInv, NEW L, IsTable(t, L), Separate
  PROVE  TableInv'
<1>1. Room /\ Becomes(Separated(t))
  BY DEF Separate
<1>2. PICK M : /\ Copied(t, Separated(t), L, M)
               /\ \A f \in Entries \ Garbage : Separated(t).next[f] = t.next[f]
  BY <1>1, SeparatedCopies
<1>3. IsTable(Separated(t), M)
  BY <1>2 DEF Copied
<1> QED
  BY <1>1, <1>2, <1>3, BesideKeeps

LEMMA ClearKeeps ==
  ASSUME TableInv, NEW L, IsTable(t, L), Clear
  PROVE  TableInv'
<1>1. Becomes(Cleared(t)) /\ t \in TableRecords
  BY ListFacts DEF Clear
<1>2. IsTable(Cleared(t), <<>>) /\ Cleared(t).next = t.next
  BY <1>1, ClearedEmpty
<1> QED
  BY <1>1, <1>2, BesideKeeps

LEMMA TableStep ==
  ASSUME TableInv, [TableNext]_table
  PROVE  TableInv'
<1>1. PICK L : IsTable(t, L)
  BY DEF TableInv
<1>2. ASSUME NEW k \in Keys, HashRemove(k) PROVE TableInv'
  BY <1>1, <1>2, TakeKeeps DEF HashRemove
<1>3. ASSUME NEW k \in Keys, CreateLocation(k) PROVE TableInv'
  BY <1>1, <1>3, RaisedAlike, PutKeeps, ConstantFacts DEF CreateLocation
<1>4. ASSUME NEW k \in Keys, NEW x \in Vals, Insert(k, x) PROVE TableInv'
  BY <1>1, <1>4, RaisedAlike, PutKeeps DEF Insert
<1>5. ASSUME NEW x \in Vals, Push(x) PROVE TableInv'
  <2>1. t.max + 1 \in Keys
    BY <1>1, <1>5, PushedKey DEF Push
  <2> QED
    BY <1>1, <1>5, <2>1, RaisedAlike, PutKeeps DEF Push
<1>6. CASE Pop
  BY <1>1, <1>6, PopKeeps
<1>7. CASE Clear
  BY <1>1, <1>7, ClearKeeps
<1>8. CASE Separate
  BY <1>1, <1>8, SeparateKeeps
<1>9. CASE Sort
  BY <1>1, <1>9, SortKeeps
<1>10. CASE Reset
  BY <1>1, <1>10, PlacesFacts, PointerKeeps DEF Reset
<1>11. CASE End
  BY <1>1, <1>11, PlacesFacts, PointerKeeps DEF End
<1>12. CASE Advance
  BY <1>1, <1>12, PlacesFacts, PointerKeeps DEF Advance
<1>13. CASE Prev
  BY <1>1, <1>13, PlacesFacts, PointerKeeps DEF Prev
<1>14. CASE StartWalk
  BY <1>1, <1>14, StartKeeps
<1>15. CASE WalkOn
  BY <1>1, <1>15, OnKeeps
<1>16. CASE EndWalk
  BY <1>1, <1>16, EndKeeps
<1>17. CASE UNCHANGED table
  <2>1. t' = t /\ walk' = walk /\ seen' = seen /\ stay' = stay
    BY <1>17 DEF table
  <2>2. (\E M : IsTable(t', M)) /\ stay' \subseteq Listed(t')
    BY <1>1, <2>1 DEF TableInv
  <2>3. walk' # NoWalk => \E P : WalkPath(t.next, seen, stay, P)'
    BY <2>1 DEF TableInv, WalkPath
  <2> QED
    BY <2>1, <2>2, <2>3 DEF TableInv
<1> QED
  BY <1>2, <1>3, <1>4, <1>5, <1>6, <1>7, <1>8, <1>9, <1>10, <1>11, <1>12, <1>13, <1>14, <1>15,
     <1>16, <1>17 DEF TableNext

LEMMA TableInvariant == TableSpec => []TableInv
<1>1. TableInit => TableInv
  BY InitKeeps
<1>2. TableInv /\ [TableNext]_table => TableInv'
  BY TableStep
<1> QED
  BY <1>1, <1>2, PTL DEF TableSpec

-----------------------------------------------------------------------------
(* What the runs check, from the invariant.                                 *)
LEMMA TypesHold == TableInv => TableTypeOK
<1> SUFFICES ASSUME TableInv PROVE TableTypeOK
  OBVIOUS
<1>1. PICK L : IsTable(t, L)
  BY DEF TableInv
<1>2. t \in TableRecords /\ t.size = Len(L) /\ L \in Seq(Entries) /\ Distinct(L)
  BY <1>1, ListFacts DEF IsTable
<1>3. t.size \in 0..Cardinality(Entries)
  BY <1>2, DistinctIsShort, ConstantFacts
<1>4. t.buckets \in [0..(BucketCount(t) - 1) -> Links]
  BY <1>2, BucketFacts
<1>5. t \in [size: 0 .. Cardinality(Entries), buckets: [0 .. BucketCount(t) - 1 -> Links],
             cur: Links, head: Links, tail: Links, max: -1 .. MaxInt, threshold: Nat,
             chain: [Entries -> Links], next: [Entries -> Links], prev: [Entries -> Links],
             key: [Entries -> Keys], val: [Entries -> Vals]]
  BY <1>2, <1>3, <1>4 DEF TableRecords
<1>6. stay \subseteq Entries
  BY <1>1, ListFacts DEF TableInv
<1> QED
  BY <1>5, <1>6 DEF TableTypeOK, TableInv

(* Read backwards, the list is the list reversed.                           *)
LEMMA BackwardsPath ==
  ASSUME NEW h, NEW L, Listing(h, L)
  PROVE  IsPath(h.prev, h.tail, Reverse(L))
<1> DEFINE l == Len(L)
           r == Reverse(L)
<1>1. /\ L \in Seq(Entries) /\ Distinct(L) /\ h.tail = At(L, l)
      /\ \A i \in DOMAIN L : h.prev[L[i]] = At(L, i - 1)
  BY DEF Listing, IsPath
<1>2. DOMAIN L = 1..l /\ l \in Nat /\ \A i \in 1..l : L[i] \in Entries
  BY <1>1
<1>3. r = [i \in 1..l |-> L[(l - i) + 1]]
  BY DEF Reverse
<1> HIDE DEF l, r
<1>4. \A i \in 1..l : (l - i) + 1 \in 1..l /\ r[i] = L[(l - i) + 1]
  BY <1>2, <1>3
<1>5. r \in Seq(Entries) /\ DOMAIN r = 1..l
  <2>1. r \in [1..l -> Entries]
    BY <1>2, <1>3, <1>4
  <2> QED
    BY <1>2, <2>1
<1>6. Distinct(r)
  <2> SUFFICES ASSUME NEW i \in 1..l, NEW j \in 1..l, r[i] = r[j] PROVE i = j
    BY <1>5 DEF Distinct
  <2>1. (l - i) + 1 = (l - j) + 1
    BY <1>1, <1>2, <1>4 DEF Distinct
  <2> QED
    BY <1>2, <2>1
<1>7. h.tail = At(r, 1)
  <2>1. CASE l = 0
    <3>1. l \notin 1..l /\ 1 \notin 1..l
      BY <2>1
    <3> QED
      BY <1>1, <1>2, <1>5, <3>1 DEF At
  <2>2. CASE l # 0
    <3>1. l \in 1..l /\ 1 \in 1..l /\ (l - 1) + 1 = l
      BY <1>2, <2>2
    <3> QED
      BY <1>1, <1>2, <1>4, <1>5, <3>1 DEF At
  <2> QED
    BY <2>1, <2>2
<1>8. ASSUME NEW i \in 1..l PROVE h.prev[r[i]] = At(r, i + 1)
  <2>1. h.prev[r[i]] = At(L, (l - i) + 1 - 1)
    BY <1>1, <1>2, <1>4
  <2>2. (l - i) + 1 - 1 = l - i
    BY <1>2
  <2>3. CASE i = l
    <3>1. l - i \notin 1..l /\ i + 1 \notin 1..l
      BY <1>2, <2>3
    <3> QED
      BY <1>2, <1>5, <2>1, <2>2, <3>1 DEF At
  <2>4. CASE i # l
    <3>1. i + 1 \in 1..l /\ (l - (i + 1)) + 1 = l - i
      BY <1>2, <2>4
    <3> QED
      BY <1>2, <1>4, <1>5, <2>1, <2>2, <3>1 DEF At
  <2> QED
    BY <2>3, <2>4
<1> QED
  BY <1>5, <1>6, <1>7, <1>8 DEF IsPath, r

LEMMA AgreesHolds == TableInv => TableAgrees
<1> SUFFICES ASSUME TableInv PROVE TableAgrees
  OBVIOUS
<1>1. PICK L : IsTable(t, L)
  BY DEF TableInv
<1>2. /\ t \in TableRecords /\ t.size = Len(L) /\ L \in Seq(Entries) /\ Distinct(L)
      /\ EntryList(t) = L /\ Listed(t) = ToSet(L) /\ ToSet(L) \in SUBSET Entries
      /\ Listing(t, L) /\ UniqueKeys(t, ToSet(L)) /\ Chained(t, ToSet(L))
  BY <1>1, ListFacts DEF IsTable
<1>3. Cells(t) \in Seq(Entries) /\ Distinct(Cells(t)) /\ ToSet(Cells(t)) = ToSet(L)
  BY <1>2, CellsFacts
<1>4. Len(Cells(t)) = Cardinality(ToSet(L)) /\ Len(L) = Cardinality(ToSet(L))
  BY <1>2, <1>3, DistinctIsShort
<1>5. ASSUME NEW b \in DOMAIN t.buckets, NEW e \in ToSet(ChainIn(t, b)) PROVE BucketOf(t, t.key[e]) = b
  <2>1. PICK c : IsChain(t, ToSet(L), b, c)
    BY <1>2 DEF Chained
  <2>2. ChainIn(t, b) = c
    BY <2>1, AlongPath DEF ChainIn, IsChain
  <2> QED
    BY <2>1, <2>2 DEF IsChain, Among
<1>6. Along(t.prev, t.tail) = Reverse(L)
  BY <1>2, BackwardsPath, AlongPath
<1> QED
  BY <1>2, <1>3, <1>4, <1>5, <1>6 DEF TableAgrees, UniqueKeys

LEMMA MissesHolds == TableInv => WalkMissesNone
<1> SUFFICES ASSUME TableInv, walk # NoWalk PROVE
       stay \ seen \subseteq (IF walk = Nil THEN {} ELSE ToSet(Along(t.next, t.next[walk])))
  BY DEF WalkMissesNone
<1>1. PICK P : WalkPath(t.next, seen, stay, P)
  BY DEF TableInv
<1>2. IsPath(t.next, walk, P) /\ stay \subseteq seen \cup (ToSet(P) \ {walk})
  BY <1>1 DEF WalkPath
<1>3. CASE walk = Nil
  <2>1. ToSet(P) \subseteq {}
    <3>1. P \in Seq(Entries) /\ 1 \notin DOMAIN P
      BY <1>2, <1>3, ConstantFacts DEF IsPath, At
    <3> QED
      BY <3>1 DEF ToSet
  <2> QED
    BY <1>2, <1>3, <2>1
<1>4. CASE walk # Nil
  <2>1. walk \in Entries
    BY <1>4 DEF TableInv, Links
  <2>2. Along(t.next, t.next[walk]) = Dropped(P, 1) /\ ToSet(Dropped(P, 1)) = ToSet(P) \ {walk}
    BY <1>2, <2>1, PathOn, AlongPath
  <2> QED
    BY <1>2, <1>4, <2>2
<1> QED
  BY <1>3, <1>4

LEMMA OnceHolds ==
  TableInv /\ [TableNext]_table => [walk' # walk /\ walk' \in Entries => walk' \notin seen]_table
<1> SUFFICES ASSUME TableInv, TableNext, walk' # walk, walk' \in Entries PROVE walk' \notin seen
  BY DEF table
<1>1. PICK L : IsTable(t, L)
  BY DEF TableInv
<1>2. walk' # Nil /\ walk' # NoWalk
  BY ConstantFacts DEF Links
<1>3. \A h : Becomes(h) => walk' = walk
  BY DEF Becomes
<1>4. StartWalk \/ WalkOn \/ EndWalk
  <2>1. ~(Reset \/ End \/ Advance \/ Prev)
    BY <1>3 DEF Reset, End, Advance, Prev
  <2>2. ~(Pop \/ Clear \/ Separate \/ Sort)
    BY <1>3 DEF Pop, Clear, Separate, Sort
  <2>3. \A k \in Keys, x \in Vals : ~(HashRemove(k) \/ CreateLocation(k) \/ Insert(k, x) \/ Push(x))
    BY <1>3 DEF HashRemove, CreateLocation, Insert, Push
  <2>4. \A k \in Keys : ~(HashRemove(k) \/ CreateLocation(k))
    BY <1>3 DEF HashRemove, CreateLocation
  <2>5. \A x \in Vals : ~Push(x)
    BY <1>3 DEF Push
  <2> QED
    BY <2>1, <2>2, <2>3, <2>4, <2>5 DEF TableNext
<1>5. CASE StartWalk
  BY <1>5 DEF StartWalk, TableInv
<1>6. CASE WalkOn
  BY <1>1, <1>2, <1>6, OnKeeps
<1>7. CASE EndWalk
  BY <1>2, <1>7 DEF EndWalk
<1> QED
  BY <1>4, <1>5, <1>6, <1>7

(* A table of php-hash.scm always has the type that is expected of it: every *)
(* pointer leads to an entry or to the sentinel, and no table is larger than *)
(* the number of entries.                                                    *)
THEOREM TableTypes == TableSpec => []TableTypeOK
  BY TypesHold, TableInvariant, PTL

(* After any operations, expansion, removal and sorts included, the chains, *)
(* the list read forwards, the list read backwards and the size of a table  *)
(* agree, and no key is in it twice.                                        *)
THEOREM TableAgreement == TableSpec => []TableAgrees
  BY AgreesHolds, TableInvariant, PTL

(* A loop over a table reaches every entry that is there from beginning to  *)
(* end, whatever its body removes and inserts, the entry it holds included. *)
THEOREM WalkReachesAll == TableSpec => []WalkMissesNone
  BY MissesHolds, TableInvariant, PTL

(* And it calls out for no entry twice.                                     *)
THEOREM WalkNeverTwice == TableSpec => WalkOnce
<1>1. TableInv /\ [TableNext]_table => [walk' # walk /\ walk' \in Entries => walk' \notin seen]_table
  BY OnceHolds
<1> QED
  BY <1>1, TableInvariant, PTL DEF TableSpec, WalkOnce

-----------------------------------------------------------------------------
(* The refinement: the array value a table stands for.                      *)
Stands(h, L, a) ==
    /\ a = [order |-> a.order, elem |-> a.elem, cur |-> a.cur, max |-> a.max]
    /\ a.order = [i \in 1..Len(L) |-> h.key[L[i]]]
    /\ a.elem = [k \in Keys |-> a.elem[k]]
    /\ \A i \in 1..Len(L) : a.elem[h.key[L[i]]] = h.val[L[i]]
    /\ \A k \in Keys : (\A i \in 1..Len(L) : h.key[L[i]] # k) => a.elem[k] = Absent
    /\ a.cur = (IF h.cur = Nil THEN AtEnd ELSE h.key[h.cur])
    /\ a.max = h.max

LEMMA ValueFacts ==
  ASSUME NEW h, NEW L, IsTable(h, L)
  PROVE  Stands(h, L, ValueOf(h)) /\ \A a : Stands(h, L, a) => a = ValueOf(h)
<1> DEFINE l == Len(L)
           S == ToSet(L)
           elem == [k \in Keys |-> IF \E e \in S : h.key[e] = k
                                   THEN h.val[CHOOSE e \in S : h.key[e] = k] ELSE Absent]
           order == [i \in 1..l |-> h.key[L[i]]]
           cur == IF h.cur = Nil THEN AtEnd ELSE h.key[h.cur]
           v == [order |-> order, elem |-> elem, cur |-> cur, max |-> h.max]
<1>1. /\ EntryList(h) = L /\ Listed(h) = S /\ S \subseteq Entries /\ L \in Seq(Entries)
      /\ h \in TableRecords /\ UniqueKeys(h, S)
  BY ListFacts DEF IsTable
<1>2. DOMAIN L = 1..l /\ l \in Nat /\ \A i \in 1..l : L[i] \in S
  BY <1>1, SeqFacts
<1>3. ValueOf(h) = v
  BY <1>1, <1>2 DEF ValueOf
<1>4. \A e \in S : h.key[e] \in Keys /\ elem[h.key[e]] = h.val[e]
  <2> SUFFICES ASSUME NEW e \in S PROVE h.key[e] \in Keys /\ elem[h.key[e]] = h.val[e]
    OBVIOUS
  <2>1. h.key[e] \in Keys
    BY <1>1 DEF TableRecords
  <2>2. (CHOOSE f \in S : h.key[f] = h.key[e]) = e
    BY <1>1 DEF UniqueKeys
  <2>3. \E f \in S : h.key[f] = h.key[e]
    OBVIOUS
  <2> QED
    BY <2>1, <2>2, <2>3
<1>5. \A k \in Keys : (\A i \in 1..l : h.key[L[i]] # k) => elem[k] = Absent
  <2> SUFFICES ASSUME NEW k \in Keys, \A i \in 1..l : h.key[L[i]] # k PROVE elem[k] = Absent
    OBVIOUS
  <2>1. ~\E e \in S : h.key[e] = k
    BY <1>2 DEF ToSet
  <2> QED
    BY <2>1
<1>6. elem = [k \in Keys |-> elem[k]]
  OBVIOUS
<1>10. \A i \in 1..l : elem[h.key[L[i]]] = h.val[L[i]]
  BY <1>2, <1>4
<1> HIDE DEF elem, order, cur, S
<1>7. v.order = order /\ v.elem = elem /\ v.cur = cur /\ v.max = h.max
  OBVIOUS
<1> HIDE DEF v
<1>8. Stands(h, L, v)
  <2>1. v = [order |-> v.order, elem |-> v.elem, cur |-> v.cur, max |-> v.max]
    BY <1>7 DEF v
  <2> QED
    BY <1>5, <1>6, <1>7, <1>10, <2>1 DEF Stands, order, cur
<1>9. ASSUME NEW a, Stands(h, L, a) PROVE a = v
  <2>1. \A k \in Keys : a.elem[k] = elem[k]
    <3> TAKE k \in Keys
    <3>1. CASE \E i \in 1..l : h.key[L[i]] = k
      BY <1>9, <1>10, <3>1 DEF Stands
    <3>2. CASE \A i \in 1..l : h.key[L[i]] # k
      BY <1>5, <1>9, <3>2 DEF Stands
    <3> QED
      BY <3>1, <3>2
  <2>2. a.elem = elem
    <3>1. a.elem = [k \in Keys |-> a.elem[k]]
      BY <1>9 DEF Stands
    <3> QED
      BY <1>6, <2>1, <3>1
  <2>3. a.order = order /\ a.cur = cur /\ a.max = h.max
    BY <1>9 DEF Stands, order, cur
  <2>4. a = [order |-> a.order, elem |-> a.elem, cur |-> a.cur, max |-> a.max]
    BY <1>9 DEF Stands
  <2> QED
    BY <2>2, <2>3, <2>4 DEF v
<1> QED
  BY <1>3, <1>8, <1>9

(* What such a value says of the table.                                     *)
LEMMA StandsFacts ==
  ASSUME NEW h, NEW L, IsTable(h, L), NEW a, Stands(h, L, a)
  PROVE  /\ L \in Seq(Entries) /\ Distinct(L) /\ Len(L) \in Nat /\ DOMAIN L = 1..Len(L)
         /\ \A i \in 1..Len(L) : /\ L[i] \in Entries /\ L[i] # Nil
                                 /\ h.key[L[i]] \in Keys /\ h.val[L[i]] \in Vals
         /\ \A i, j \in 1..Len(L) : h.key[L[i]] = h.key[L[j]] => i = j
         /\ a.order \in Seq(Keys) /\ Len(a.order) = Len(L) /\ DOMAIN a.order = 1..Len(L)
         /\ \A i \in 1..Len(L) : a.order[i] = h.key[L[i]] /\ Place(a, h.key[L[i]]) = i
         /\ \A k \in Keys : Has(a, k) <=> \E i \in 1..Len(L) : h.key[L[i]] = k
         /\ a.cur = AtEnd <=> h.cur = Nil
         /\ h.cur = Nil \/ \E i \in 1..Len(L) : h.cur = L[i]
<1> DEFINE l == Len(L)
<1>1. L \in Seq(Entries) /\ Distinct(L) /\ h \in TableRecords /\ h.cur \in ToSet(L) \cup {Nil}
  BY ListFacts DEF IsTable
<1>2. l \in Nat /\ DOMAIN L = 1..l /\ \A i \in 1..l : L[i] \in Entries /\ L[i] # Nil
  BY <1>1, ConstantFacts
<1>3. /\ \A i \in 1..l : h.key[L[i]] \in Keys /\ h.val[L[i]] \in Vals
  BY ItemsFacts
<1>4. \A i, j \in 1..l : h.key[L[i]] = h.key[L[j]] => i = j
  BY ItemsFacts
<1> HIDE DEF l
<1>5. /\ a.order = [i \in 1..l |-> h.key[L[i]]]
      /\ \A i \in 1..l : a.elem[h.key[L[i]]] = h.val[L[i]]
      /\ \A k \in Keys : (\A i \in 1..l : h.key[L[i]] # k) => a.elem[k] = Absent
      /\ a.cur = (IF h.cur = Nil THEN AtEnd ELSE h.key[h.cur])
  BY DEF Stands, l
<1>6. a.order \in Seq(Keys) /\ Len(a.order) = l /\ DOMAIN a.order = 1..l
  <2>1. a.order \in [1..l -> Keys]
    BY <1>3, <1>5
  <2> QED
    BY <1>2, <2>1
<1>7. \A i \in 1..l : a.order[i] = h.key[L[i]]
  BY <1>5
<1>8. ASSUME NEW i \in 1..l PROVE Place(a, h.key[L[i]]) = i
  <2>1. \A j \in 1..l : a.order[j] = h.key[L[i]] <=> j = i
    BY <1>4, <1>7
  <2> QED
    BY <1>6, <2>1 DEF Place
<1>9. ASSUME NEW k \in Keys PROVE Has(a, k) <=> \E i \in 1..l : h.key[L[i]] = k
  BY <1>3, <1>5, ConstantsAssumption DEF Has, Elems
<1>10. h.cur = Nil \/ \E i \in 1..l : h.cur = L[i]
  BY <1>1, <1>2 DEF ToSet
<1>11. a.cur = AtEnd <=> h.cur = Nil
  BY <1>3, <1>5, <1>10, ConstantsAssumption
<1> QED
  BY <1>1, <1>2, <1>3, <1>4, <1>6, <1>7, <1>8, <1>9, <1>10, <1>11 DEF l

(* Each operation does to that value what ArrayValue says.                  *)
LEMMA UpdatedStands ==
  ASSUME NEW h, NEW L, IsTable(h, L), NEW a, Stands(h, L, a), NEW i \in 1..Len(L), NEW x \in Vals,
         NEW g, Updated(h, g, L, L[i], x)
  PROVE  Stands(g, L, SetElem(a, h.key[L[i]], x))
<1> DEFINE k == h.key[L[i]]
           l == Len(L)
           b == SetElem(a, k, x)
           elem == [a.elem EXCEPT ![k] = x]
<1>1. /\ k \in Keys /\ Has(a, k) /\ \A j \in 1..l : L[j] \in Entries
      /\ \A j \in 1..l : h.key[L[j]] = k => j = i
      /\ L \in Seq(Entries) /\ Distinct(L) /\ DOMAIN L = 1..l
  BY StandsFacts
<1>2. /\ a = [order |-> a.order, elem |-> a.elem, cur |-> a.cur, max |-> a.max]
      /\ a.order = [j \in 1..l |-> h.key[L[j]]]
      /\ a.elem = [j \in Keys |-> a.elem[j]]
      /\ \A j \in 1..l : a.elem[h.key[L[j]]] = h.val[L[j]]
      /\ \A j \in Keys : (\A m \in 1..l : h.key[L[m]] # j) => a.elem[j] = Absent
      /\ a.cur = (IF h.cur = Nil THEN AtEnd ELSE h.key[h.cur]) /\ a.max = h.max
  BY DEF Stands
<1>3. g.max = h.max /\ g.cur = h.cur /\ g.key = h.key /\ g.val = [h.val EXCEPT ![L[i]] = x]
  BY DEF Updated
<1>4. h.val \in [Entries -> Vals]
  BY ListFacts DEF TableRecords
<1> HIDE DEF k, l
<1>5. b = [order |-> a.order, elem |-> elem, cur |-> a.cur, max |-> a.max]
  BY <1>1, <1>2 DEF SetElem
<1>6. /\ elem = [j \in Keys |-> elem[j]]
      /\ elem[k] = x /\ \A j \in Keys : j # k => elem[j] = a.elem[j]
  BY <1>1, <1>2
<1> HIDE DEF elem
<1>7. b.order = a.order /\ b.elem = elem /\ b.cur = a.cur /\ b.max = a.max
  BY <1>5
<1> HIDE DEF b
<1>8. ASSUME NEW j \in 1..l PROVE elem[h.key[L[j]]] = g.val[L[j]]
  <2>1. CASE j = i
    BY <1>1, <1>3, <1>4, <1>6, <2>1 DEF k
  <2>2. CASE j # i
    <3>1. h.key[L[j]] # k /\ h.key[L[j]] \in Keys
      BY <1>1, <2>2, StandsFacts DEF l
    <3>2. L[j] # L[i] /\ i \in 1..l
      BY <1>1, <2>2 DEF Distinct, l
    <3> QED
      BY <1>1, <1>2, <1>3, <1>4, <1>6, <3>1, <3>2
  <2> QED
    BY <2>1, <2>2
<1>9. ASSUME NEW j \in Keys, \A m \in 1..l : h.key[L[m]] # j PROVE elem[j] = Absent
  <2>1. j # k
    BY <1>9 DEF k, l
  <2> QED
    BY <1>2, <1>6, <1>9, <2>1
<1>10. b = [order |-> b.order, elem |-> b.elem, cur |-> b.cur, max |-> b.max]
  BY <1>5, <1>7
<1>11. Stands(g, L, b)
  BY <1>2, <1>3, <1>6, <1>7, <1>8, <1>9, <1>10 DEF Stands, l
<1> QED
  BY <1>11 DEF b, k

LEMMA InsertedStands ==
  ASSUME NEW h, NEW L, IsTable(h, L), NEW a, Stands(h, L, a),
         NEW e \in Entries, e \notin ToSet(L), NEW k \in Keys, NEW x \in Vals,
         \A f \in ToSet(L) : h.key[f] # k, NEW g, Inserted(h, g, L, e, k, x)
  PROVE  Stands(g, Append(L, e), SetElem(a, k, x))
<1> DEFINE l == Len(L)
           d == Append(L, e)
           b == SetElem(a, k, x)
           elem == [a.elem EXCEPT ![k] = x]
           cur == IF a.cur = AtEnd THEN k ELSE a.cur
           order == Append(a.order, k)
<1>1. /\ \A j \in 1..l : L[j] \in Entries /\ h.key[L[j]] \in Keys
      /\ L \in Seq(Entries) /\ Distinct(L) /\ DOMAIN L = 1..l /\ l \in Nat
      /\ a.order \in Seq(Keys) /\ Len(a.order) = l /\ \A j \in 1..l : a.order[j] = h.key[L[j]]
      /\ (a.cur = AtEnd <=> h.cur = Nil) /\ (h.cur = Nil \/ \E j \in 1..l : h.cur = L[j])
  BY StandsFacts
<1>2. /\ a = [order |-> a.order, elem |-> a.elem, cur |-> a.cur, max |-> a.max]
      /\ a.elem = [j \in Keys |-> a.elem[j]]
      /\ \A j \in 1..l : a.elem[h.key[L[j]]] = h.val[L[j]]
      /\ \A j \in Keys : (\A m \in 1..l : h.key[L[m]] # j) => a.elem[j] = Absent
      /\ a.cur = (IF h.cur = Nil THEN AtEnd ELSE h.key[h.cur]) /\ a.max = h.max
  BY DEF Stands
<1>3. /\ g.max = h.max /\ g.cur = (IF h.cur = Nil THEN e ELSE h.cur)
      /\ g.key = [h.key EXCEPT ![e] = k] /\ g.val = [h.val EXCEPT ![e] = x]
  BY DEF Inserted
<1>4. h.val \in [Entries -> Vals] /\ h.key \in [Entries -> Keys]
  BY ListFacts DEF TableRecords
<1>5. \A j \in 1..l : L[j] # e /\ h.key[L[j]] # k
  BY <1>1 DEF ToSet
<1>6. /\ DOMAIN d = 1..(l + 1) /\ Len(d) = l + 1 /\ d[l + 1] = e
      /\ \A j \in 1..l : d[j] = L[j] /\ j \in 1..(l + 1)
      /\ \A j \in 1..(l + 1) : j \in 1..l \/ j = l + 1
      /\ l + 1 \in 1..(l + 1)
  BY <1>1, AppendFacts
<1>7. ~Has(a, k)
  BY <1>5, StandsFacts
<1>8. b = [order |-> order, elem |-> elem, cur |-> cur, max |-> a.max]
  BY <1>7 DEF SetElem
<1> HIDE DEF l, d
<1>9. /\ g.key[e] = k /\ g.val[e] = x
      /\ \A j \in 1..l : g.key[L[j]] = h.key[L[j]] /\ g.val[L[j]] = h.val[L[j]]
  BY <1>1, <1>3, <1>4, <1>5
<1>10. order = [j \in 1..(l + 1) |-> g.key[d[j]]]
  <2>1. order = [j \in 1..(l + 1) |-> IF j = l + 1 THEN k ELSE a.order[j]]
    BY <1>1
  <2>2. \A j \in 1..(l + 1) : g.key[d[j]] = IF j = l + 1 THEN k ELSE a.order[j]
    BY <1>1, <1>6, <1>9
  <2> HIDE DEF order
  <2> QED
    BY <2>1, <2>2
<1>11. /\ elem = [j \in Keys |-> elem[j]]
       /\ elem[k] = x /\ \A j \in Keys : j # k => elem[j] = a.elem[j]
  BY <1>2
<1>12. cur = IF g.cur = Nil THEN AtEnd ELSE g.key[g.cur]
  <2>1. CASE h.cur = Nil
    BY <1>1, <1>3, <1>9, <2>1, ConstantFacts
  <2>2. CASE h.cur # Nil
    BY <1>1, <1>2, <1>3, <1>9, <2>2
  <2> QED
    BY <2>1, <2>2
<1> HIDE DEF order, elem, cur
<1>13. b.order = order /\ b.elem = elem /\ b.cur = cur /\ b.max = a.max
  BY <1>8
<1> HIDE DEF b
<1>14. ASSUME NEW j \in 1..(l + 1) PROVE elem[g.key[d[j]]] = g.val[d[j]]
  <2>1. CASE j = l + 1
    BY <1>6, <1>9, <1>11, <2>1
  <2>2. CASE j \in 1..l
    BY <1>1, <1>2, <1>5, <1>6, <1>9, <1>11, <2>2
  <2> QED
    BY <1>6, <2>1, <2>2
<1>15. ASSUME NEW j \in Keys, \A m \in 1..(l + 1) : g.key[d[m]] # j PROVE elem[j] = Absent
  <2>1. j # k
    BY <1>6, <1>9, <1>15
  <2>2. \A m \in 1..l : h.key[L[m]] # j
    BY <1>6, <1>9, <1>15
  <2> QED
    BY <1>2, <1>11, <2>1, <2>2
<1>16. b = [order |-> b.order, elem |-> b.elem, cur |-> b.cur, max |-> b.max]
  BY <1>8, <1>13
<1>17. Stands(g, d, b)
  BY <1>2, <1>3, <1>6, <1>10, <1>11, <1>12, <1>13, <1>14, <1>15, <1>16 DEF Stands
<1> QED
  BY <1>17 DEF b, d

LEMMA RaisedStands ==
  ASSUME NEW h, NEW L, IsTable(h, L), NEW a, Stands(h, L, a), NEW k \in Keys
  PROVE  Stands(Raise(h, k), L, RaiseMax(a, k))
<1> DEFINE g == Raise(h, k)
           b == RaiseMax(a, k)
<1>1. /\ g.max = (IF k \in IntKeys /\ k > h.max THEN k ELSE h.max)
      /\ g.key = h.key /\ g.val = h.val /\ g.cur = h.cur
  BY RaiseFields
<1>2. /\ a = [order |-> a.order, elem |-> a.elem, cur |-> a.cur, max |-> a.max] /\ a.max = h.max
  BY DEF Stands
<1>3. b = [order |-> a.order, elem |-> a.elem, cur |-> a.cur,
           max |-> IF k \in IntKeys /\ k > h.max THEN k ELSE h.max]
  BY <1>2 DEF RaiseMax
<1> HIDE DEF g, b
<1>4. Stands(g, L, b)
  BY <1>1, <1>3 DEF Stands
<1> QED
  BY <1>4 DEF g, b

LEMMA RemovedStands ==
  ASSUME NEW h, NEW L, IsTable(h, L), NEW a, Stands(h, L, a), NEW i \in 1..Len(L),
         NEW g, Removed(h, g, L, i)
  PROVE  Stands(g, Dropped(L, i), RemoveKey(a, h.key[L[i]]))
<1> DEFINE k == h.key[L[i]]
           l == Len(L)
           d == Dropped(L, i)
           b == RemoveKey(a, k)
           elem == [a.elem EXCEPT ![k] = Absent]
           cur == IF a.cur = k THEN NextKey(a, k) ELSE a.cur
           order == Without(a, k)
<1>1. /\ \A j \in 1..l : L[j] \in Entries /\ L[j] # Nil /\ h.key[L[j]] \in Keys
      /\ \A j, m \in 1..l : h.key[L[j]] = h.key[L[m]] => j = m
      /\ L \in Seq(Entries) /\ Distinct(L) /\ DOMAIN L = 1..l /\ l \in Nat
      /\ Len(a.order) = l /\ \A j \in 1..l : a.order[j] = h.key[L[j]]
      /\ (a.cur = AtEnd <=> h.cur = Nil) /\ (h.cur = Nil \/ \E j \in 1..l : h.cur = L[j])
      /\ Place(a, k) = i /\ Has(a, k) /\ k \in Keys
  BY StandsFacts
<1>2. /\ a = [order |-> a.order, elem |-> a.elem, cur |-> a.cur, max |-> a.max]
      /\ a.elem = [j \in Keys |-> a.elem[j]]
      /\ \A j \in 1..l : a.elem[h.key[L[j]]] = h.val[L[j]]
      /\ \A j \in Keys : (\A m \in 1..l : h.key[L[m]] # j) => a.elem[j] = Absent
      /\ a.cur = (IF h.cur = Nil THEN AtEnd ELSE h.key[h.cur]) /\ a.max = h.max
  BY DEF Stands
<1>3. /\ g.max = h.max /\ g.key = h.key /\ g.val = h.val
      /\ g.cur = (IF h.cur = L[i] THEN At(L, i + 1) ELSE h.cur)
  BY DEF Removed
<1>4. /\ Len(d) = l - 1 /\ l \in Nat \ {0} /\ i \in 1..l
      /\ \A j \in 1..(l - 1) : j < i => d[j] = L[j] /\ j \in 1..l
      /\ \A j \in 1..(l - 1) : ~(j < i) => d[j] = L[j + 1] /\ j + 1 \in 1..l
  BY <1>1, DroppedFacts
<1>5. b = [order |-> order, elem |-> elem, cur |-> cur, max |-> a.max]
  BY <1>1 DEF RemoveKey
<1>6. order = [j \in 1..(l - 1) |-> h.key[d[j]]]
  <2>1. order = [j \in 1..(l - 1) |-> IF j < i THEN a.order[j] ELSE a.order[j + 1]]
    BY <1>1 DEF Without
  <2> HIDE DEF order, d, k, l
  <2>2. \A j \in 1..(l - 1) : h.key[d[j]] = IF j < i THEN a.order[j] ELSE a.order[j + 1]
    BY <1>1, <1>4
  <2> QED
    BY <2>1, <2>2
<1>7. cur = IF g.cur = Nil THEN AtEnd ELSE g.key[g.cur]
  <2>1. CASE h.cur = L[i]
    <3>1. a.cur = k
      BY <1>1, <1>2, <2>1
    <3>2. cur = IF i = l THEN AtEnd ELSE a.order[i + 1]
      BY <1>1, <3>1 DEF NextKey
    <3>3. i + 1 \in 1..l <=> i # l
      BY <1>4
    <3>4. g.cur = IF i = l THEN Nil ELSE L[i + 1]
      BY <1>1, <1>3, <2>1, <3>3 DEF At
    <3> HIDE DEF cur
    <3> QED
      BY <1>1, <1>3, <3>2, <3>3, <3>4
  <2>2. CASE h.cur # L[i]
    <3>1. a.cur # k
      <4>1. CASE h.cur = Nil
        <5>1. a.cur = AtEnd
          BY <1>2, <4>1
        <5> QED
          BY <1>1, <5>1, ConstantsAssumption
      <4>2. CASE h.cur # Nil
        <5>1. PICK j \in 1..l : h.cur = L[j]
          BY <1>1, <4>2
        <5>2. j # i
          BY <2>2, <5>1
        <5> QED
          BY <1>1, <1>2, <4>2, <5>1, <5>2
      <4> QED
        BY <4>1, <4>2
    <3> QED
      BY <1>2, <1>3, <2>2, <3>1
  <2> QED
    BY <2>1, <2>2
<1>8. /\ elem = [j \in Keys |-> elem[j]]
      /\ elem[k] = Absent /\ \A j \in Keys : j # k => elem[j] = a.elem[j]
  BY <1>1, <1>2
<1> HIDE DEF order, elem, cur, d
<1>9. b.order = order /\ b.elem = elem /\ b.cur = cur /\ b.max = a.max
  BY <1>5
<1> HIDE DEF b, l
<1>10. ASSUME NEW j \in 1..(l - 1) PROVE elem[g.key[d[j]]] = g.val[d[j]]
  <2>1. PICK m \in 1..l : d[j] = L[m] /\ m # i
    <3>1. CASE j < i
      BY <1>4, <3>1
    <3>2. CASE ~(j < i)
      <4>1. j + 1 # i
        BY <1>4, <3>2
      <4> QED
        BY <1>4, <3>2, <4>1
    <3> QED
      BY <3>1, <3>2
  <2>2. h.key[L[m]] # k /\ h.key[L[m]] \in Keys
    BY <1>1, <1>4, <2>1
  <2> QED
    BY <1>2, <1>3, <1>8, <2>1, <2>2
<1>11. ASSUME NEW j \in Keys, \A m \in 1..(l - 1) : g.key[d[m]] # j PROVE elem[j] = Absent
  <2>1. CASE j = k
    BY <1>8, <2>1
  <2>2. CASE j # k
    <3>1. ASSUME NEW m \in 1..l PROVE h.key[L[m]] # j
      <4>1. CASE m < i
        <5>1. m \in 1..(l - 1)
          BY <1>4, <4>1
        <5> QED
          BY <1>3, <1>4, <1>11, <4>1, <5>1
      <4>2. CASE m > i
        <5>1. m - 1 \in 1..(l - 1) /\ ~(m - 1 < i) /\ (m - 1) + 1 = m
          BY <1>4, <4>2
        <5>2. d[m - 1] = L[m]
          BY <1>4, <5>1
        <5> QED
          BY <1>3, <1>11, <5>1, <5>2
      <4>3. CASE m = i
        BY <2>2, <4>3
      <4> QED
        BY <1>4, <4>1, <4>2, <4>3
    <3> QED
      BY <1>2, <1>8, <2>2, <3>1
  <2> QED
    BY <2>1, <2>2
<1>12. b = [order |-> b.order, elem |-> b.elem, cur |-> b.cur, max |-> b.max]
  BY <1>5, <1>9
<1>13. Stands(g, d, b)
  BY <1>2, <1>3, <1>4, <1>6, <1>7, <1>8, <1>9, <1>10, <1>11, <1>12 DEF Stands
<1> QED
  BY <1>13 DEF b, d, k

(* array_pop                                                                *)
LEMMA PoppedStands ==
  ASSUME NEW L, IsTable(t, L), NEW a, Stands(t, L, a), t.tail # Nil
  PROVE  /\ Stands(Lowered(Take(t, t.key[t.tail]), t.key[t.tail]), Dropped(L, Len(L)), PopTail(a))
         /\ IsTable(Lowered(Take(t, t.key[t.tail]), t.key[t.tail]), Dropped(L, Len(L)))
<1> DEFINE k == t.key[t.tail]
           g == Take(t, k)
           h == Lowered(g, k)
           d == Dropped(L, Len(L))
           r == RemoveKey(a, k)
           b == PopTail(a)
<1>1. /\ Len(L) \in 1..Len(L) /\ t.tail = L[Len(L)] /\ k \in Keys /\ Removed(t, g, L, Len(L))
  BY TailFacts, StandsFacts
<1>2. Stands(g, d, r) /\ IsTable(g, d) /\ g.max = t.max
  <2>1. k = t.key[L[Len(L)]]
    BY <1>1
  <2> HIDE DEF k, g, d
  <2> QED
    BY <1>1, <2>1, RemovedStands DEF Removed, d
<1>3. /\ Tail1(a) = k /\ a.order # <<>> /\ a.max = t.max
  <2>1. Len(a.order) = Len(L) /\ a.order[Len(L)] = t.key[L[Len(L)]] /\ Len(L) # 0
    BY <1>1, StandsFacts
  <2>2. a.order # <<>>
    BY <2>1
  <2> QED
    BY <1>1, <2>1, <2>2 DEF Tail1, Stands
<1>4. b = IF k = a.max THEN [r EXCEPT !.max = @ - 1] ELSE r
  BY <1>3 DEF PopTail
<1> HIDE DEF k, g, d, r
<1>5. /\ IsTable(h, d) /\ h.max = (IF k = g.max THEN g.max - 1 ELSE g.max)
      /\ h.key = g.key /\ h.val = g.val /\ h.cur = g.cur
  BY <1>1, <1>2, LoweredFields
<1>6. /\ r = [order |-> r.order, elem |-> r.elem, cur |-> r.cur, max |-> r.max] /\ r.max = g.max
  BY <1>2 DEF Stands
<1>7. b = [order |-> r.order, elem |-> r.elem, cur |-> r.cur,
           max |-> IF k = g.max THEN g.max - 1 ELSE g.max]
  BY <1>2, <1>3, <1>4, <1>6
<1> HIDE DEF h, b
<1>8. Stands(h, d, b)
  BY <1>2, <1>5, <1>7 DEF Stands
<1> QED
  BY <1>5, <1>8 DEF h, b, d, g, k

(* The array pointer.                                                       *)
LEMMA PointedStands ==
  ASSUME NEW L, IsTable(t, L), NEW a, Stands(t, L, a), NEW c \in ToSet(L) \cup {Nil},
         NEW g, g = [t EXCEPT !.cur = c]
  PROVE  Stands(g, L, [a EXCEPT !.cur = IF c = Nil THEN AtEnd ELSE t.key[c]])
<1>1. g.cur = c /\ g.max = t.max /\ g.key = t.key /\ g.val = t.val
  BY PointedFields
<1> DEFINE b == [a EXCEPT !.cur = IF c = Nil THEN AtEnd ELSE t.key[c]]
<1>2. a = [order |-> a.order, elem |-> a.elem, cur |-> a.cur, max |-> a.max]
  BY DEF Stands
<1>3. b = [order |-> a.order, elem |-> a.elem,
           cur |-> IF c = Nil THEN AtEnd ELSE t.key[c], max |-> a.max]
  BY <1>2
<1> HIDE DEF b
<1>4. Stands(g, L, b)
  BY <1>1, <1>3 DEF Stands
<1> QED
  BY <1>4 DEF b

PointerMoves(a) ==
    /\ Reset1(a) = [a EXCEPT !.cur = IF t.head = Nil THEN AtEnd ELSE t.key[t.head]]
    /\ ToEnd(a) = [a EXCEPT !.cur = IF t.tail = Nil THEN AtEnd ELSE t.key[t.tail]]
    /\ t.cur # Nil =>
         /\ Advance1(a) = [a EXCEPT !.cur = IF t.next[t.cur] = Nil THEN AtEnd ELSE t.key[t.next[t.cur]]]
         /\ Prev1(a) = [a EXCEPT !.cur = IF t.prev[t.cur] = Nil THEN AtEnd ELSE t.key[t.prev[t.cur]]]

LEMMA PointersStand ==
  ASSUME NEW L, IsTable(t, L), NEW a, Stands(t, L, a)
  PROVE  PointerMoves(a)
<1> DEFINE l == Len(L)
<1>1. /\ \A j \in 1..l : L[j] \in Entries /\ L[j] # Nil /\ t.key[L[j]] \in Keys
      /\ DOMAIN L = 1..l /\ l \in Nat
      /\ a.order \in Seq(Keys) /\ Len(a.order) = l
      /\ \A j \in 1..l : a.order[j] = t.key[L[j]] /\ Place(a, t.key[L[j]]) = j
      /\ (a.cur = AtEnd <=> t.cur = Nil) /\ (t.cur = Nil \/ \E j \in 1..l : t.cur = L[j])
  BY StandsFacts
<1>2. /\ t.head = At(L, 1) /\ t.tail = At(L, l)
      /\ \A j \in DOMAIN L : t.next[L[j]] = At(L, j + 1) /\ t.prev[L[j]] = At(L, j - 1)
  BY DEF IsTable, Listing, IsPath
<1>3. a.cur = IF t.cur = Nil THEN AtEnd ELSE t.key[t.cur]
  BY DEF Stands
<1>4. /\ a.order = <<>> <=> l = 0
      /\ l # 0 => 1 \in 1..l /\ l \in 1..l
      /\ l = 0 => 1 \notin 1..l /\ l \notin 1..l
  BY <1>1
<1> HIDE DEF l
<1>5. Head1(a) = IF t.head = Nil THEN AtEnd ELSE t.key[t.head]
  BY <1>1, <1>2, <1>4 DEF Head1, At
<1>6. Tail1(a) = IF t.tail = Nil THEN AtEnd ELSE t.key[t.tail]
  BY <1>1, <1>2, <1>4 DEF Tail1, At
<1>7. ASSUME t.cur # Nil
      PROVE  /\ a.cur # AtEnd
             /\ NextKey(a, a.cur) = (IF t.next[t.cur] = Nil THEN AtEnd ELSE t.key[t.next[t.cur]])
             /\ PrevKey(a, a.cur) = (IF t.prev[t.cur] = Nil THEN AtEnd ELSE t.key[t.prev[t.cur]])
  <2>1. PICK j \in 1..l : t.cur = L[j]
    BY <1>1, <1>7
  <2>2. a.cur # AtEnd /\ a.cur = t.key[L[j]] /\ Place(a, a.cur) = j
    BY <1>1, <1>3, <1>7, <2>1
  <2>3. (j + 1 \in 1..l <=> j # l) /\ (j - 1 \in 1..l <=> j # 1)
    BY <1>1
  <2>4. t.next[t.cur] = (IF j = l THEN Nil ELSE L[j + 1]) /\ t.prev[t.cur] = (IF j = 1 THEN Nil ELSE L[j - 1])
    BY <1>1, <1>2, <2>1, <2>3 DEF At
  <2>5. NextKey(a, a.cur) = IF j = l THEN AtEnd ELSE a.order[j + 1]
    BY <1>1, <2>2 DEF NextKey
  <2>6. PrevKey(a, a.cur) = IF j = 1 THEN AtEnd ELSE a.order[j - 1]
    BY <1>1, <2>2 DEF PrevKey
  <2>7. j # l => L[j + 1] # Nil /\ a.order[j + 1] = t.key[L[j + 1]]
    BY <1>1, <2>3
  <2>8. j # 1 => L[j - 1] # Nil /\ a.order[j - 1] = t.key[L[j - 1]]
    BY <1>1, <2>3
  <2> QED
    BY <2>2, <2>4, <2>5, <2>6, <2>7, <2>8
<1>8. a = [order |-> a.order, elem |-> a.elem, cur |-> a.cur, max |-> a.max]
  BY DEF Stands
<1>9. Reset1(a) = [a EXCEPT !.cur = Head1(a)] /\ ToEnd(a) = [a EXCEPT !.cur = Tail1(a)]
  BY DEF Reset1, ToEnd
<1>10. t.cur # Nil => /\ Advance1(a) = [a EXCEPT !.cur = NextKey(a, a.cur)]
                      /\ Prev1(a) = [a EXCEPT !.cur = PrevKey(a, a.cur)]
  BY <1>7, <1>8 DEF Advance1, Prev1
<1> QED
  BY <1>5, <1>6, <1>7, <1>9, <1>10 DEF PointerMoves

(* A copy of the structure stands for the same array.                       *)
LEMMA CopiedStands ==
  ASSUME NEW h, NEW L, IsTable(h, L), NEW a, Stands(h, L, a), NEW g, NEW M, Copied(h, g, L, M)
  PROVE  Stands(g, M, a)
<1> DEFINE l == Len(L)
<1>1. /\ Len(M) = l /\ g.max = h.max /\ IsTable(g, M)
      /\ \A i \in 1..l : g.key[M[i]] = h.key[L[i]] /\ g.val[M[i]] = h.val[L[i]]
      /\ h.cur = Nil => g.cur = Nil
      /\ \A i \in 1..l : h.cur = L[i] => g.cur = M[i]
  BY DEF Copied
<1>2. h.cur = Nil \/ \E i \in 1..l : h.cur = L[i]
  BY StandsFacts
<1>3. M \in Seq(Entries) /\ \A i \in 1..l : M[i] # Nil
  BY <1>1, ListFacts, ConstantFacts
<1> HIDE DEF l
<1>4. (IF g.cur = Nil THEN AtEnd ELSE g.key[g.cur]) = (IF h.cur = Nil THEN AtEnd ELSE h.key[h.cur])
  BY <1>1, <1>2, <1>3
<1>5. [i \in 1..l |-> g.key[M[i]]] = [i \in 1..l |-> h.key[L[i]]]
  BY <1>1
<1> QED
  BY <1>1, <1>4, <1>5 DEF Stands, l

LEMMA EmptyStands ==
  ASSUME NEW h, h.cur = Nil, h.max = -1
  PROVE  Stands(h, <<>>, EmptyArray)
<1>1. 1..Len(<<>>) = {}
  OBVIOUS
<1>2. \A k \in Keys : EmptyArray.elem[k] = Absent
  BY DEF EmptyArray
<1>3. EmptyArray.order = <<>> /\ [i \in 1..Len(<<>>) |-> h.key[<<>>[i]]] = <<>>
  BY <1>1 DEF EmptyArray
<1>4. /\ EmptyArray.elem = [k \in Keys |-> EmptyArray.elem[k]]
      /\ EmptyArray.cur = AtEnd /\ EmptyArray.max = -1
      /\ EmptyArray = [order |-> EmptyArray.order, elem |-> EmptyArray.elem,
                       cur |-> EmptyArray.cur, max |-> EmptyArray.max]
  BY DEF EmptyArray
<1> QED
  BY <1>1, <1>2, <1>3, <1>4 DEF Stands

(* A table that is sorted stands for the array that is.                     *)
LEMMA RebuiltStands ==
  ASSUME NEW h, NEW L, IsTable(h, L), NEW a, Stands(h, L, a), NEW p \in Permutations1(Len(L)),
         NEW keep \in BOOLEAN, NEW g, NEW M, Rebuilt(h, g, L, M, p, keep)
  PROVE  Stands(g, M, IF keep THEN SortSavingKeys(a, p) ELSE SortTrashingKeys(a, p))
<1> DEFINE l == Len(L)
           order == [i \in 1..l |-> SortedKey(h, L, p, keep, i)]
           elem == IF keep THEN a.elem
                   ELSE [k \in Keys |-> IF k \in 0..(l - 1) THEN a.elem[a.order[p[k + 1]]] ELSE Absent]
           b == IF keep THEN SortSavingKeys(a, p) ELSE SortTrashingKeys(a, p)
<1>1. /\ Len(M) = l /\ g.cur = At(M, 1) /\ IsTable(g, M)
      /\ g.max = MaxIntIn({g.key[M[i]] : i \in 1..Len(M)})
      /\ \A i \in 1..l : g.key[M[i]] = SortedKey(h, L, p, keep, i) /\ g.val[M[i]] = h.val[L[p[i]]]
  BY DEF Rebuilt
<1>2. /\ p \in [1..l -> 1..l] /\ \A j \in 1..l : \E i \in 1..l : p[i] = j
      /\ \A i \in 1..l : p[i] \in 1..l
  BY DEF Permutations1
<1>3. /\ l \in Nat /\ Len(a.order) = l
      /\ \A i \in 1..l : a.order[i] = h.key[L[i]] /\ h.key[L[i]] \in Keys
  BY StandsFacts
<1>4. /\ a.elem = [j \in Keys |-> a.elem[j]]
      /\ \A j \in 1..l : a.elem[h.key[L[j]]] = h.val[L[j]]
      /\ \A j \in Keys : (\A m \in 1..l : h.key[L[m]] # j) => a.elem[j] = Absent
  BY DEF Stands
<1>5. M \in Seq(Entries) /\ DOMAIN M = 1..l /\ \A i \in 1..l : M[i] # Nil /\ g.key[M[i]] \in Keys
  BY <1>1, ListFacts, ItemsFacts, ConstantFacts
<1>6. b = Reinserted(order, elem)
  <2>1. CASE keep
    <3>1. order = [i \in 1..l |-> a.order[p[i]]]
      BY <1>2, <1>3, <2>1 DEF SortedKey
    <3>2. SortSavingKeys(a, p) = Reinserted([i \in 1..l |-> a.order[p[i]]], a.elem)
      BY <1>3 DEF SortSavingKeys
    <3> HIDE DEF order, l
    <3> QED
      BY <2>1, <3>1, <3>2
  <2>2. CASE ~keep
    <3>1. order = [i \in 1..l |-> i - 1]
      BY <2>2 DEF SortedKey
    <3>2. SortTrashingKeys(a, p) = Reinserted([i \in 1..l |-> i - 1],
             [k \in Keys |-> IF k \in 0..(l - 1) THEN a.elem[a.order[p[k + 1]]] ELSE Absent])
      BY <1>3 DEF SortTrashingKeys
    <3> HIDE DEF order, l
    <3> QED
      BY <2>2, <3>1, <3>2
  <2> QED
    BY <2>1, <2>2
<1> HIDE DEF l
<1>7. /\ order = [i \in 1..l |-> g.key[M[i]]] /\ Len(order) = l /\ (order = <<>> <=> l = 0)
      /\ \A i \in 1..l : order[i] = g.key[M[i]]
  <2>1. order = [i \in 1..l |-> g.key[M[i]]]
    BY <1>1
  <2> HIDE DEF order
  <2>2. order \in [1..l -> Keys]
    BY <1>5, <2>1
  <2>3. order \in Seq(Keys) /\ Len(order) = l
    BY <1>3, <2>2
  <2> QED
    BY <1>3, <2>1, <2>3
<1>8. elem = [k \in Keys |-> elem[k]]
  BY <1>4
<1>9. ASSUME NEW i \in 1..l PROVE elem[g.key[M[i]]] = g.val[M[i]]
  <2>1. CASE keep
    <3>1. elem = a.elem /\ g.key[M[i]] = h.key[L[p[i]]] /\ p[i] \in 1..l
      BY <1>1, <1>2, <2>1 DEF SortedKey
    <3> HIDE DEF elem
    <3> QED
      BY <1>1, <1>4, <3>1
  <2>2. CASE ~keep
    <3>1. g.key[M[i]] = i - 1 /\ i - 1 \in Keys
      BY <1>1, <1>5, <2>2 DEF SortedKey
    <3>2. i - 1 \in 0..(l - 1) /\ (i - 1) + 1 = i
      BY <1>3
    <3>3. elem[i - 1] = a.elem[a.order[p[i]]]
      BY <2>2, <3>1, <3>2
    <3> HIDE DEF elem
    <3> QED
      BY <1>1, <1>2, <1>3, <1>4, <3>1, <3>3
  <2> QED
    BY <2>1, <2>2
<1>10. ASSUME NEW k \in Keys, \A i \in 1..l : g.key[M[i]] # k PROVE elem[k] = Absent
  <2>1. CASE keep
    <3>1. ASSUME NEW m \in 1..l PROVE h.key[L[m]] # k
      <4>1. PICK i \in 1..l : p[i] = m
        BY <1>2
      <4> QED
        BY <1>1, <1>10, <2>1, <4>1 DEF SortedKey
    <3> QED
      BY <1>4, <2>1, <3>1
  <2>2. CASE ~keep
    <3>1. k \notin 0..(l - 1)
      <4> SUFFICES ASSUME k \in 0..(l - 1) PROVE FALSE
        OBVIOUS
      <4>1. k + 1 \in 1..l /\ (k + 1) - 1 = k
        BY <1>3
      <4> QED
        BY <1>1, <1>10, <2>2, <4>1 DEF SortedKey
    <3> QED
      BY <2>2, <3>1
  <2> QED
    BY <2>1, <2>2
<1> HIDE DEF order, elem, b
<1>11. /\ b.order = order /\ b.elem = elem
       /\ b.cur = (IF order = <<>> THEN AtEnd ELSE order[1])
       /\ b.max = MaxIntIn({order[i] : i \in 1..Len(order)})
       /\ b = [order |-> b.order, elem |-> b.elem, cur |-> b.cur, max |-> b.max]
  BY <1>6 DEF Reinserted
<1>12. b.max = g.max
  <2>1. {order[i] : i \in 1..l} = {g.key[M[i]] : i \in 1..l}
    BY <1>7
  <2> QED
    BY <1>1, <1>7, <1>11, <2>1
<1>13. b.cur = IF g.cur = Nil THEN AtEnd ELSE g.key[g.cur]
  <2>1. (l # 0 => 1 \in 1..l) /\ (l = 0 => 1 \notin 1..l)
    BY <1>3
  <2> QED
    BY <1>1, <1>5, <1>7, <1>11, <2>1 DEF At
<1>14. Stands(g, M, b)
  BY <1>1, <1>7, <1>8, <1>9, <1>10, <1>11, <1>12, <1>13 DEF Stands
<1> QED
  BY <1>14 DEF b

-----------------------------------------------------------------------------
(* Every step does to the array of a table what some operation does.        *)
Allowed(a, b) ==
    \/ b \in {a, PopTail(a), EmptyArray, Reset1(a), ToEnd(a), Advance1(a), Prev1(a)}
    \/ \E k \in Keys :
          \/ b = RemoveKey(a, k)
          \/ ~Has(a, k) /\ b = SetElem(a, k, Null)
          \/ \E x \in Vals : b = SetElem(RaiseMax(a, k), k, x)
    \/ \E p \in Permutations1(Len(a.order)) :
          b = SortSavingKeys(a, p) \/ b = SortTrashingKeys(a, p)

LEMMA PutStands ==
  ASSUME NEW L, IsTable(t, L), NEW y, IsTable(y, L), NEW a, Stands(y, L, a), Garbage # {},
         NEW k \in Keys, NEW x \in Vals
  PROVE  ValueOf(Put(y, NewEntry, k, x)) = SetElem(a, k, x)
<1> DEFINE e == NewEntry
           g == Put(y, e, k, x)
<1>1. e \in Entries /\ e \notin ToSet(L)
  BY GarbageFacts, LeastFacts DEF NewEntry
<1> HIDE DEF e
<1>2. CASE \E f \in ToSet(L) : y.key[f] = k
  <2>1. PICK f \in ToSet(L) : y.key[f] = k
    BY <1>2
  <2>2. PICK i \in 1..Len(L) : L[i] = f
    BY ListFacts, SeqFacts
  <2>3. Updated(y, g, L, L[i], x)
    BY <2>1, <2>2, PutUpdates
  <2>4. Stands(g, L, SetElem(a, y.key[L[i]], x)) /\ IsTable(g, L)
    BY <2>3, UpdatedStands DEF Updated
  <2> QED
    BY <2>1, <2>2, <2>4, ValueFacts DEF e
<1>3. CASE \A f \in ToSet(L) : y.key[f] # k
  <2>1. Inserted(y, g, L, e, k, x)
    BY <1>1, <1>3, PutInserts
  <2>2. Stands(g, Append(L, e), SetElem(a, k, x)) /\ IsTable(g, Append(L, e))
    BY <1>1, <1>3, <2>1, InsertedStands DEF Inserted
  <2> QED
    BY <2>2, ValueFacts DEF e
<1> QED
  BY <1>2, <1>3

LEMMA TakeStands ==
  ASSUME NEW L, IsTable(t, L), NEW a, Stands(t, L, a), NEW k \in Keys
  PROVE  ValueOf(Take(t, k)) = RemoveKey(a, k)
<1>1. CASE \E f \in ToSet(L) : t.key[f] = k
  <2>1. PICK i \in 1..Len(L) : t.key[L[i]] = k
    BY <1>1, ListFacts, SeqFacts
  <2>2. Removed(t, Take(t, k), L, i)
    BY <2>1, StandsFacts, TakeRemoves
  <2>3. Stands(Take(t, k), Dropped(L, i), RemoveKey(a, k)) /\ IsTable(Take(t, k), Dropped(L, i))
    BY <2>1, <2>2, RemovedStands DEF Removed
  <2> QED
    BY <2>3, ValueFacts
<1>2. CASE \A f \in ToSet(L) : t.key[f] # k
  <2>1. Take(t, k) = t
    BY <1>2, TakeNothing
  <2>2. ~\E i \in 1..Len(L) : t.key[L[i]] = k
    BY <1>2, ListFacts, SeqFacts
  <2>3. ~Has(a, k)
    BY <2>2, StandsFacts
  <2> QED
    BY <2>1, <2>3, ValueFacts DEF RemoveKey
<1> QED
  BY <1>1, <1>2

LEMMA StepRefines ==
  ASSUME TableInv, [TableNext]_table
  PROVE  [Allowed(ValueOf(t), ValueOf(t'))]_table
<1> DEFINE a == ValueOf(t)
           b == ValueOf(t')
<1> SUFFICES ASSUME TableNext PROVE Allowed(a, b)
  OBVIOUS
<1>1. PICK L : IsTable(t, L)
  BY DEF TableInv
<1>2. Stands(t, L, a)
  BY <1>1, ValueFacts
<1>3. \A h : Becomes(h) => t' = h
  BY DEF Becomes
<1>4. \A h, M, c : IsTable(h, M) /\ Stands(h, M, c) => ValueOf(h) = c
  BY ValueFacts
<1> HIDE DEF a
<1>5. ASSUME NEW k \in Keys, HashRemove(k) PROVE Allowed(a, b)
  BY <1>1, <1>2, <1>3, <1>5, TakeStands DEF HashRemove, Allowed
<1>6. ASSUME NEW k \in Keys, CreateLocation(k) PROVE Allowed(a, b)
  <2>1. Garbage # {} /\ Lookup(t, k) = Nil /\ t' = Put(t, NewEntry, k, Null)
    BY <1>3, <1>6 DEF CreateLocation
  <2>2. b = SetElem(a, k, Null)
    BY <1>1, <1>2, <2>1, PutStands, ConstantFacts
  <2>3. ~Has(a, k)
    <3>1. \A i \in 1..Len(L) : L[i] \in ToSet(L) /\ L[i] # Nil
      BY <1>1, ListFacts, SeqFacts, ConstantFacts
    <3>2. t \in TableRecords /\ Chained(t, ToSet(L)) /\ ToSet(L) \subseteq Entries
      BY <1>1, ListFacts DEF IsTable
    <3>3. ~\E e \in ToSet(L) : t.key[e] = k
      BY <2>1, <3>2, LookupFinds, ConstantFacts
    <3>4. ~\E i \in 1..Len(L) : t.key[L[i]] = k
      BY <3>1, <3>3
    <3> QED
      BY <1>1, <1>2, <3>4, StandsFacts
  <2> QED
    BY <2>2, <2>3 DEF Allowed
<1>7. ASSUME NEW k \in Keys, NEW x \in Vals, Garbage # {},
             Becomes(Put(Raise(t, k), NewEntry, k, x))
      PROVE  Allowed(a, b)
  <2>1. IsTable(Raise(t, k), L) /\ Stands(Raise(t, k), L, RaiseMax(a, k))
    BY <1>1, <1>2, RaiseFields, RaisedStands
  <2>2. b = SetElem(RaiseMax(a, k), k, x)
    BY <1>1, <1>3, <1>7, <2>1, PutStands
  <2> QED
    BY <2>2 DEF Allowed
<1>8. ASSUME NEW k \in Keys, NEW x \in Vals, Insert(k, x) PROVE Allowed(a, b)
  BY <1>7, <1>8 DEF Insert
<1>9. ASSUME NEW x \in Vals, Push(x) PROVE Allowed(a, b)
  <2>1. t.max + 1 \in Keys
    BY <1>1, <1>9, PushedKey DEF Push
  <2> QED
    BY <1>7, <1>9, <2>1 DEF Push
<1>10. CASE Pop
  <2>1. t.tail # Nil /\ t' = Lowered(Take(t, t.key[t.tail]), t.key[t.tail])
    BY <1>3, <1>10 DEF Pop, Lowered
  <2>2. b = PopTail(a)
    BY <1>1, <1>2, <1>4, <2>1, PoppedStands
  <2> QED
    BY <2>2 DEF Allowed
<1>11. CASE Clear
  <2>1. t' = Cleared(t) /\ t \in TableRecords
    BY <1>1, <1>3, <1>11, ListFacts DEF Clear
  <2>2. IsTable(Cleared(t), <<>>) /\ Stands(Cleared(t), <<>>, EmptyArray)
    BY <2>1, ClearedEmpty, EmptyStands
  <2>3. b = EmptyArray
    BY <1>4, <2>1, <2>2
  <2> QED
    BY <2>3 DEF Allowed
<1>12. CASE Separate
  <2>1. Room /\ t' = Separated(t)
    BY <1>3, <1>12 DEF Separate
  <2>2. PICK M : Copied(t, Separated(t), L, M)
    BY <1>1, <2>1, SeparatedCopies
  <2>3. IsTable(t', M) /\ Stands(t', M, a)
    BY <1>1, <1>2, <2>1, <2>2, CopiedStands DEF Copied
  <2>4. b = a
    BY <1>4, <2>3
  <2> QED
    BY <2>4 DEF Allowed
<1>13. CASE Sort
  <2>1. t.size = Len(L) /\ Room /\ Len(a.order) = Len(L)
    BY <1>1, <1>2, <1>13, StandsFacts DEF IsTable, Sort
  <2>2. PICK p \in Permutations1(Len(L)), keep \in BOOLEAN :
           (keep \/ Len(L) - 1 <= MaxInt) /\ t' = Resorted(t, p, keep)
    BY <1>3, <1>13, <2>1 DEF Sort
  <2>3. PICK M : Rebuilt(t, Resorted(t, p, keep), L, M, p, keep)
    BY <1>1, <2>1, <2>2, ResortedRebuilds
  <2>4. IsTable(t', M) /\ Stands(t', M, IF keep THEN SortSavingKeys(a, p) ELSE SortTrashingKeys(a, p))
    BY <1>1, <1>2, <2>2, <2>3, RebuiltStands DEF Rebuilt
  <2>5. b = IF keep THEN SortSavingKeys(a, p) ELSE SortTrashingKeys(a, p)
    BY <1>4, <2>4
  <2> QED
    BY <2>1, <2>2, <2>5 DEF Allowed
<1>14. ASSUME NEW c \in ToSet(L) \cup {Nil}, t' = [t EXCEPT !.cur = c]
       PROVE  b = [a EXCEPT !.cur = IF c = Nil THEN AtEnd ELSE t.key[c]]
  BY <1>1, <1>2, <1>4, <1>14, PointedFields, PointedStands
<1>15. PointerMoves(a)
  BY <1>1, <1>2, PointersStand
<1>16. CASE Reset
  <2>1. b = Reset1(a)
    BY <1>1, <1>3, <1>14, <1>15, <1>16, PlacesFacts DEF Reset, PointerMoves
  <2> QED
    BY <2>1 DEF Allowed
<1>17. CASE End
  <2>1. b = ToEnd(a)
    BY <1>1, <1>3, <1>14, <1>15, <1>17, PlacesFacts DEF End, PointerMoves
  <2> QED
    BY <2>1 DEF Allowed
<1>18. CASE Advance
  <2>1. t.cur # Nil /\ t' = [t EXCEPT !.cur = t.next[t.cur]]
    BY <1>3, <1>18 DEF Advance
  <2>2. b = Advance1(a)
    BY <1>1, <1>14, <1>15, <2>1, PlacesFacts DEF PointerMoves
  <2> QED
    BY <2>2 DEF Allowed
<1>19. CASE Prev
  <2>1. t.cur # Nil /\ t' = [t EXCEPT !.cur = t.prev[t.cur]]
    BY <1>3, <1>19 DEF Prev
  <2>2. b = Prev1(a)
    BY <1>1, <1>14, <1>15, <2>1, PlacesFacts DEF PointerMoves
  <2> QED
    BY <2>2 DEF Allowed
<1>20. CASE StartWalk \/ WalkOn \/ EndWalk
  <2>1. b = a
    BY <1>20 DEF StartWalk, WalkOn, EndWalk, a
  <2> QED
    BY <2>1 DEF Allowed
<1> QED
  BY <1>5, <1>6, <1>8, <1>9, <1>10, <1>11, <1>12, <1>13, <1>16, <1>17, <1>18, <1>19, <1>20
     DEF TableNext

(* The structure implements the array value of ArrayValue: whatever order   *)
(* the operations come in, each does to the array the table stands for what *)
(* ArrayValue says it does, for any keys and any hash numbers.              *)
THEOREM TableRefinement == TableSpec => ImplementsArray
<1>1. TableInit => ValueOf(t) = EmptyArray
  BY InitKeeps, EmptyStands, ValueFacts
<1>2. TableInv /\ [TableNext]_table => [t' = t \/ Allowed(ValueOf(t), ValueOf(t'))]_table
  BY StepRefines
<1>3. TableSpec => [][t' = t \/ Allowed(ValueOf(t), ValueOf(t'))]_table
  BY <1>2, TableInvariant, PTL DEF TableSpec
<1> QED
  BY <1>1, <1>3, PTL DEF TableSpec, ImplementsArray, Allowed
=============================================================================
