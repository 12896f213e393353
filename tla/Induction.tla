----------------------------- MODULE Induction ------------------------------
(***************************************************************************)
(* Induction over the naturals, for proofs about recursive functions and   *)
(* sequences.  The induction theorems of the library have an operator as   *)
(* parameter; here a predicate is the set of the numbers that satisfy it.  *)
(* It comes down to the library's theorem that strict inclusion of finite  *)
(* sets is well-founded.                                                   *)
(***************************************************************************)
EXTENDS Integers, Sequences, WellFoundedInduction, FiniteSetTheorems, TLAPS

(* n is below m when 0..n is strictly included in 0..m.                     *)
LEMMA LeastNatural ==
  ASSUME NEW T \in SUBSET Nat, T # {}
  PROVE  \E x \in T : \A y \in T : x <= y
<1> DEFINE U == {0..n : n \in T}
<1>1. U # {} /\ U \subseteq FiniteSubsetsOf(Nat)
  <2>1. \A n \in T : 0..n \subseteq Nat /\ IsFiniteSet(0..n)
    BY FS_Interval
  <2> QED
    BY <2>1 DEF FiniteSubsetsOf
<1>2. IsWellFoundedOn(StrictSubsetOrdering(Nat), FiniteSubsetsOf(Nat))
  BY FS_StrictSubsetOrderingWellFounded
<1>3. \E X \in U : \A Y \in U : ~(<<Y, X>> \in StrictSubsetOrdering(Nat))
  <2> HIDE DEF U
  <2> QED
    BY <1>1, <1>2, WFMin
<1>4. PICK x \in T : \A y \in T : ~(<<0..y, 0..x>> \in StrictSubsetOrdering(Nat))
  BY <1>3
<1>5. ASSUME NEW y \in T, ~(x <= y) PROVE FALSE
  <2>1. 0..y \in SUBSET Nat /\ 0..x \in SUBSET Nat /\ 0..y \subseteq 0..x
        /\ x \in 0..x /\ x \notin 0..y
    BY <1>5
  <2>2. <<0..y, 0..x>> \in StrictSubsetOrdering(Nat)
    BY <2>1 DEF StrictSubsetOrdering
  <2> QED
    BY <2>2, <1>4
<1> QED
  BY <1>5

LEMMA NaturalInduction ==
  ASSUME NEW S \in SUBSET Nat, 0 \in S, \A n \in S : n + 1 \in S
  PROVE  S = Nat
<1> SUFFICES ASSUME Nat \ S # {} PROVE FALSE
  OBVIOUS
<1>1. PICK x \in Nat \ S : \A y \in Nat \ S : x <= y
  BY LeastNatural
<1>2. x # 0 /\ x - 1 \in Nat
  BY <1>1
<1>3. x - 1 \in S
  BY <1>1, <1>2
<1> QED
  BY <1>3, <1>1, <1>2

(* A function that is defined by what it is at 0 and how it goes on from    *)
(* one number to the next exists; and what each step keeps, all of it has.  *)
UpTo(l, f) == f = [n \in 0..l |-> f[n]]

Goes(f, v, g, l) == UpTo(l, f) /\ f[0] = v /\ \A n \in 1..l : f[n] = g[<<n, f[n - 1]>>]

LEMMA RecursionWithin ==
  ASSUME NEW l \in Nat, NEW V, NEW v \in V[0], NEW g,
         \A n \in 1..l : \A x \in V[n - 1] : g[<<n, x>>] \in V[n]
  PROVE  \E f : Goes(f, v, g, l) /\ \A n \in 0..l : f[n] \in V[n]
<1> DEFINE
      Within(f, m) == \A n \in 0..m : f[n] \in V[n]
      S == {m \in Nat : m <= l => \E f : Goes(f, v, g, m) /\ Within(f, m)}
<1>1. 0 \in S
  <2>1. UpTo(0, [i \in 0..0 |-> v])
    BY DEF UpTo
  <2>2. [i \in 0..0 |-> v][0] = v /\ \A n \in 0..0 : n = 0
    OBVIOUS
  <2>3. Goes([i \in 0..0 |-> v], v, g, 0) /\ Within([i \in 0..0 |-> v], 0)
    BY <2>1, <2>2 DEF Goes
  <2> QED
    BY <2>3
<1>2. ASSUME NEW m \in S PROVE m + 1 \in S
  <2> SUFFICES ASSUME m + 1 <= l PROVE \E f : Goes(f, v, g, m + 1) /\ Within(f, m + 1)
    OBVIOUS
  <2>0. m \in Nat /\ m + 1 \in 1..l /\ (m + 1) - 1 = m
    OBVIOUS
  <2>1. PICK f : Goes(f, v, g, m) /\ Within(f, m)
    BY <2>0
  <2> DEFINE h == [i \in 0..(m + 1) |-> IF i = m + 1 THEN g[<<m + 1, f[m]>>] ELSE f[i]]
  <2>2. f[m] \in V[m] /\ g[<<m + 1, f[m]>>] \in V[m + 1]
    BY <2>0, <2>1
  <2>4. h[m + 1] = g[<<m + 1, f[m]>>] /\ \A i \in 0..m : h[i] = f[i]
    BY <2>0
  <2>5. ASSUME NEW n \in 1..(m + 1) PROVE h[n] = g[<<n, h[n - 1]>>]
    <3>1. n - 1 \in 0..m
      BY <2>0
    <3>2. CASE n = m + 1
      <4>1. n - 1 = m /\ m \in 0..m
        BY <3>2, <2>0
      <4> HIDE DEF h
      <4> QED
        BY <4>1, <3>2, <2>4
    <3>3. CASE n # m + 1
      <4>1. n \in 1..m
        BY <3>3, <2>0
      <4>2. n \in 0..m /\ f[n] = g[<<n, f[n - 1]>>]
        BY <4>1, <2>1 DEF Goes
      <4> HIDE DEF h
      <4> QED
        BY <4>2, <3>1, <2>4
    <3> QED
      BY <3>2, <3>3
  <2>6. 0 \in 0..m /\ h[0] = v /\ UpTo(m + 1, h)
    BY <2>0, <2>1 DEF Goes, UpTo
  <2>7. ASSUME NEW n \in 0..(m + 1) PROVE h[n] \in V[n]
    <3>1. n = m + 1 \/ n \in 0..m
      BY <2>0
    <3> HIDE DEF h
    <3> QED
      BY <3>1, <2>1, <2>2, <2>4
  <2>8. Goes(h, v, g, m + 1)
    <3> HIDE DEF h
    <3> QED
      BY <2>5, <2>6 DEF Goes
  <2> HIDE DEF h
  <2> QED
    BY <2>7, <2>8
<1>3. S = Nat
  <2> HIDE DEF S
  <2>1. S \in SUBSET Nat
    BY DEF S
  <2> QED
    BY <1>1, <1>2, <2>1, NaturalInduction
<1> QED
  BY <1>3

(* When every step keeps to one set.                                        *)
Recursion(V, v, g, l) ==
    \E f \in [0..l -> V] : f[0] = v /\ \A n \in 1..l : f[n] = g[<<n, f[n - 1]>>]

LEMMA RecursiveFunction ==
  ASSUME NEW V, NEW v \in V, NEW g \in [Nat \X V -> V], NEW l \in Nat
  PROVE  Recursion(V, v, g, l)
<1> DEFINE W == [n \in 0..l |-> V]
<1>1. v \in W[0] /\ \A n \in 1..l : \A x \in W[n - 1] : g[<<n, x>>] \in W[n]
  <2>1. 0 \in 0..l /\ \A n \in 1..l : n \in Nat /\ n \in 0..l /\ n - 1 \in 0..l
    OBVIOUS
  <2> QED
    BY <2>1
<1>2. PICK f : Goes(f, v, g, l) /\ \A n \in 0..l : f[n] \in W[n]
  <2> HIDE DEF W
  <2> QED
    BY <1>1, RecursionWithin
<1>3. f \in [0..l -> V]
  BY <1>2 DEF Goes, UpTo
<1> QED
  BY <1>2, <1>3 DEF Recursion, Goes

(* And two functions that begin alike and go on alike are the same.         *)
LEMMA SameRecursion ==
  ASSUME NEW l \in Nat, NEW f, NEW k, UpTo(l, f), UpTo(l, k), f[0] = k[0], \A n \in 1..l : f[n - 1] = k[n - 1] => f[n] = k[n]
  PROVE  f = k
<1> DEFINE S == {n \in Nat : n <= l => k[n] = f[n]}
<1>1. 0 \in S
  OBVIOUS
<1>2. ASSUME NEW n \in Nat, n <= l => k[n] = f[n], n + 1 <= l PROVE k[n + 1] = f[n + 1]
  <2>1. n + 1 \in 1..l /\ (n + 1) - 1 = n /\ k[n] = f[n]
    BY <1>2
  <2> QED
    BY <2>1
<1>3. S = Nat
  <2>1. S \in SUBSET Nat
    OBVIOUS
  <2>2. ASSUME NEW n \in S PROVE n + 1 \in S
    BY <1>2
  <2> HIDE DEF S
  <2> QED
    BY <1>1, <2>1, <2>2, NaturalInduction
<1>4. ASSUME NEW n \in 0..l PROVE k[n] = f[n]
  <2>1. n \in S /\ n <= l
    BY <1>3
  <2> QED
    BY <2>1
<1> QED
  BY <1>4 DEF UpTo

(* The functions for all l are parts of one on all numbers.                 *)
Recursive(V, v, g, f) == f \in [Nat -> V] /\ f[0] = v /\ \A n \in Nat \ {0} : f[n] = g[<<n, f[n - 1]>>]

LEMMA RecursionOnNat ==
  ASSUME NEW V, NEW v \in V, NEW g \in [Nat \X V -> V]
  PROVE  \E f : Recursive(V, v, g, f)
<1> DEFINE
      Part(l, f) == f \in [0..l -> V] /\ f[0] = v /\ \A n \in 1..l : f[n] = g[<<n, f[n - 1]>>]
      part(l) == CHOOSE f : Part(l, f)
      F == [n \in Nat |-> part(n)[n]]
<1>1. ASSUME NEW l \in Nat PROVE Part(l, part(l))
  <2>1. Recursion(V, v, g, l)
    BY RecursiveFunction
  <2>2. \E f : Part(l, f)
    BY <2>1 DEF Recursion
  <2> HIDE DEF Part
  <2> QED
    BY <2>2
<1>2. ASSUME NEW n \in Nat \ {0} PROVE part(n)[n - 1] = part(n - 1)[n - 1]
  <2> DEFINE
        k == part(n - 1)
        h == [i \in 0..(n - 1) |-> part(n)[i]]
  <2>1. n - 1 \in Nat /\ 1..(n - 1) \subseteq 1..n /\ 0..(n - 1) \subseteq 0..n /\ 0 \in 0..(n - 1)
        /\ n - 1 \in 0..(n - 1)
    OBVIOUS
  <2>2. Part(n - 1, k) /\ Part(n, part(n))
    BY <1>1, <2>1
  <2>3. UpTo(n - 1, k) /\ UpTo(n - 1, h) /\ h[0] = k[0]
    BY <2>1, <2>2 DEF UpTo
  <2>4. ASSUME NEW m \in 1..(n - 1), h[m - 1] = k[m - 1] PROVE h[m] = k[m]
    <3>1. m - 1 \in 0..(n - 1) /\ m \in 0..(n - 1) /\ m \in 1..n
      OBVIOUS
    <3>2. h[m] = part(n)[m] /\ h[m - 1] = part(n)[m - 1]
      BY <3>1
    <3>3. part(n)[m] = g[<<m, part(n)[m - 1]>>] /\ k[m] = g[<<m, k[m - 1]>>]
      BY <3>1, <2>2
    <3> HIDE DEF h, k, part
    <3> QED
      BY <3>2, <3>3, <2>4
  <2>5. h = k
    <3> HIDE DEF h, k
    <3> QED
      BY <2>1, <2>3, <2>4, SameRecursion
  <2>6. h[n - 1] = part(n)[n - 1]
    BY <2>1
  <2> HIDE DEF h, part
  <2> QED
    BY <2>5, <2>6
<1>3. ASSUME NEW n \in Nat PROVE F[n] = part(n)[n] /\ F[n] \in V
  <2>1. n \in 0..n
    OBVIOUS
  <2> HIDE DEF part
  <2> QED
    BY <1>1, <2>1
<1>4. F[0] = v
  BY <1>1, <1>3
<1>5. ASSUME NEW n \in Nat \ {0} PROVE F[n] = g[<<n, F[n - 1]>>]
  <2>1. n - 1 \in Nat /\ n \in 1..n
    OBVIOUS
  <2>2. part(n)[n] = g[<<n, part(n)[n - 1]>>]
    BY <1>1, <2>1
  <2> HIDE DEF part, F
  <2> QED
    BY <1>2, <1>3, <2>1, <2>2
<1>6. F \in [Nat -> V]
  <2> HIDE DEF part
  <2> QED
    BY <1>3
<1> HIDE DEF F
<1> QED
  BY <1>4, <1>5, <1>6 DEF Recursive

(* Each value may come from all those before it.                            *)
AlikeBefore(n, f, k) == \A m \in 0..(n - 1) : f[m] = k[m]

LooksBack(V, g) ==
    /\ V # {} /\ g \in [Nat \X [Nat -> V] -> V]
    /\ \A n \in Nat, f \in [Nat -> V], k \in [Nat -> V] :
           AlikeBefore(n, f, k) => g[<<n, f>>] = g[<<n, k>>]

Course(V, g, f) == f \in [Nat -> V] /\ \A n \in Nat : f[n] = g[<<n, f>>]

LEMMA CourseOfValues == ASSUME NEW V, NEW g, LooksBack(V, g) PROVE \E f : Course(V, g, f)
<1> USE DEF LooksBack
<1> PICK d \in V : TRUE
  OBVIOUS
<1> DEFINE
      W == [Nat -> V]
      none == [m \in Nat |-> d]
      more(n, f) == [f EXCEPT ![n - 1] = g[<<n - 1, f>>]]
      step == [p \in Nat \X W |-> IF p[1] = 0 THEN p[2] ELSE more(p[1], p[2])]
<1>1. none \in W
  OBVIOUS
<1>2. \A n \in Nat \ {0}, f \in W :
          /\ more(n, f) \in W
          /\ more(n, f)[n - 1] = g[<<n - 1, f>>]
          /\ \A m \in Nat : m # n - 1 => more(n, f)[m] = f[m]
  <2> TAKE n \in Nat \ {0}, f \in W
  <2>1. n - 1 \in Nat
    OBVIOUS
  <2>2. g[<<n - 1, f>>] \in V
    BY <2>1
  <2> QED
    BY <2>1, <2>2
<1>3. \A n \in Nat \ {0}, f \in W : step[<<n, f>>] = more(n, f)
  <2> HIDE DEF more, W
  <2> QED
    OBVIOUS
<1>4. step \in [Nat \X W -> W]
  <2> HIDE DEF more, W
  <2> QED
    BY <1>2
<1>5. PICK F : Recursive(W, none, step, F)
  <2> HIDE DEF W, none, step
  <2> QED
    BY <1>1, <1>4, RecursionOnNat
<1>6. F \in [Nat -> W] /\ \A n \in Nat \ {0} : F[n] = more(n, F[n - 1])
  <2>1. F \in [Nat -> W] /\ \A n \in Nat \ {0} : F[n] = step[<<n, F[n - 1]>>]
    BY <1>5 DEF Recursive
  <2>2. \A n \in Nat \ {0} : n - 1 \in Nat /\ F[n - 1] \in W
    BY <2>1
  <2> HIDE DEF W, step, more
  <2> QED
    BY <1>3, <2>1, <2>2
<1> DEFINE f == [n \in Nat |-> F[n + 1][n]]
<1>7. f \in W
  BY <1>6
<1> HIDE DEF W, step, more
<1>8. ASSUME NEW k \in Nat PROVE \A n \in Nat : n > k => F[n][k] = f[k]
  <2> DEFINE S == {n \in Nat : n > k => F[n][k] = f[k]}
  <2>1. 0 \in S
    BY <1>8
  <2>2. ASSUME NEW n \in S PROVE n + 1 \in S
    <3>1. n + 1 \in Nat \ {0} /\ (n + 1) - 1 = n
      OBVIOUS
    <3>2. F[n + 1] = more(n + 1, F[n]) /\ F[n] \in W
      BY <3>1, <1>6
    <3>3. CASE n = k
      BY <3>3
    <3>4. CASE n # k
      <4>0. k \in Nat /\ k # (n + 1) - 1
        BY <3>1, <3>4
      <4>1. F[n + 1][k] = F[n][k]
        <5> HIDE DEF S, f
        <5> DEFINE l == n + 1
        <5>1. l \in Nat \ {0} /\ F[l] = more(l, F[n]) /\ k # l - 1
          BY <3>1, <3>2, <4>0
        <5> HIDE DEF l
        <5>2. F[l][k] = F[n][k]
          BY <1>2, <3>2, <4>0, <5>1
        <5> QED
          BY <5>2 DEF l
      <4> HIDE DEF f
      <4> QED
        BY <3>4, <4>1
    <3> QED
      BY <3>3, <3>4
  <2>3. S = Nat
    <3>1. S \in SUBSET Nat
      OBVIOUS
    <3> HIDE DEF S
    <3> QED
      BY <2>1, <2>2, <3>1, NaturalInduction
  <2> QED
    BY <2>3
<1>9. ASSUME NEW n \in Nat PROVE f[n] = g[<<n, f>>]
  <2>1. n + 1 \in Nat \ {0} /\ (n + 1) - 1 = n
    OBVIOUS
  <2>2. f[n] = F[n + 1][n] /\ F[n] \in W
    BY <1>6
  <2>3. F[n + 1] = more(n + 1, F[n])
    BY <1>6, <2>1
  <2>4. more(n + 1, F[n])[(n + 1) - 1] = g[<<(n + 1) - 1, F[n]>>]
    BY <1>2, <2>1, <2>2
  <2>5. f[n] = g[<<n, F[n]>>]
    BY <2>1, <2>2, <2>3, <2>4
  <2>6. AlikeBefore(n, F[n], f)
    BY <1>8 DEF AlikeBefore
  <2> HIDE DEF f
  <2>7. F[n] \in [Nat -> V] /\ f \in [Nat -> V]
    BY <1>7, <2>2 DEF W
  <2> QED
    BY <2>5, <2>6, <2>7
<1> HIDE DEF f
<1> QED
  BY <1>7, <1>9 DEF W, Course
=============================================================================
