------------------------------- MODULE MtRand -------------------------------
(***************************************************************************)
(* The numbers of mt_rand (ext/standard/mt_rand.c, php-math.scm): a        *)
(* Mersenne twister that makes its words a batch at a time and in place.   *)
(* The first number of a batch comes from the reload itself, the others    *)
(* from where their words lie; the loops that write the words still have   *)
(* to see old ones in some places and new ones in others.                  *)
(***************************************************************************)
EXTENDS Integers, Sequences

CONSTANTS
    Batch, Middle,  \* N and M: 624 and 397
    Top,            \* the first bit of a word: 2^31
    Magic,          \* K: 0x9908B0DF
    Multiplier,     \* of the words a seed makes: 69069
    Shifts,         \* of the tempering: 2^11, 2^7, 2^15 and 2^18
    Masks,          \* of its two shifts to the left
    BitXor(_, _), BitAnd(_, _), BitOr(_, _),     \* bit by bit
    Seeds, Ranges,  \* what scripts ask for
    MaxDraws        \* bound: numbers drawn from one seed

Words == 0..(2 * Top - 1)

ASSUME RandAssumption ==
    /\ Batch \in Nat /\ Middle \in 2..(Batch - 1) /\ Top \in Nat /\ Top > 1
    /\ Magic \in Words /\ Multiplier \in Nat /\ Seeds \subseteq Words
    /\ Shifts \in [1..4 -> Nat \ {0}] /\ Masks \in [1..2 -> Words]
    /\ \A r \in Ranges : r.min \in Int /\ r.max \in Int /\ r.min <= r.max

ASSUME WordAssumption ==
    \A x, y \in Words : BitXor(x, y) \in Words /\ BitAnd(x, y) \in Words /\ BitOr(x, y) \in Words

VARIABLES
    twister,    \* state, next and left, and whether php-math.scm seeded it
    drawn       \* since the seed: how many, and of the last one the number,
                \* the range that was asked for and what was returned

random == <<twister, drawn>>

FirstRange == CHOOSE r \in Ranges : TRUE
Undrawn(seed) == [seed |-> seed, count |-> 0, number |-> 0, range |-> FirstRange, value |-> 0]

RandInit ==
    /\ twister = [state |-> [i \in 0..(Batch - 1) |-> 0], next |-> 0, left |-> -1,
                  seeded |-> FALSE]
    /\ drawn = Undrawn(0)

-----------------------------------------------------------------------------
Twist(u, v) == BitXor(BitOr(BitAnd(u, Top), BitAnd(v, Top - 1)) \div 2, IF v % 2 = 1 THEN Magic ELSE 0)

Left(y, by) == (y * by) % (2 * Top)
Tempered(y) ==
    LET a == BitXor(y, y \div Shifts[1])
        b == BitXor(a, BitAnd(Left(a, Shifts[2]), Masks[1]))
        c == BitXor(b, BitAnd(Left(b, Shifts[3]), Masks[2]))
    IN BitXor(c, c \div Shifts[4])

(* The words of a seed, which is made odd.                                  *)
SeedWords(seed) ==
    LET s[i \in 0..(Batch - 1)] ==
            IF i = 0 THEN BitOr(seed, 1) ELSE (s[i - 1] * Multiplier) % (2 * Top)
    IN s

seedMT(seed) == [state |-> SeedWords(seed), next |-> twister.next, left |-> 0, seeded |-> TRUE]

(* Where the middle has run over the end the words of this batch are used,  *)
(* and the last word goes with the new first one.                           *)
(* Mutant: the last word goes with the old one.                             *)
ReloadedFromOld(old) ==
    LET new[i \in 0..(Batch - 1)] ==
            BitXor(IF i < Batch - Middle THEN old[i + Middle] ELSE new[i - (Batch - Middle)],
                Twist(old[i], old[(i + 1) % Batch]))
    IN new

Reloaded(old) ==
    LET new[i \in 0..(Batch - 1)] ==
            BitXor(IF i < Batch - Middle THEN old[i + Middle] ELSE new[i - (Batch - Middle)],
                Twist(old[i], IF i = Batch - 1 THEN new[0] ELSE old[i + 1]))
    IN new

reloadMT(t) == [t EXCEPT !.state = Reloaded(@), !.next = 1, !.left = Batch - 1]

(* The twister after a number, and the number: a word less its last bit,    *)
(* which only the one that the reload returns keeps.                        *)
randomMT(t) ==
    IF t.left = 0
    THEN LET r == reloadMT(t) IN [after |-> r, number |-> Tempered(r.state[0])]
    ELSE [after |-> [t EXCEPT !.left = @ - 1, !.next = @ + 1],
          number |-> Tempered(t.state[t.next]) \div 2]

(* RAND_RANGE of the number, less its last bit.                             *)
InRange(number, range) ==
    range.min + ((range.max - range.min + 1) * (number \div 2)) \div Top

-----------------------------------------------------------------------------
mt_srand(seed) ==
    /\ twister' = seedMT(seed)
    /\ drawn' = Undrawn(seed)

(* A script that did not seed gets a seed of the clock.                     *)
mt_rand(range) ==
    /\ drawn.count < MaxDraws
    /\ \E seed \in IF twister.seeded THEN {drawn.seed} ELSE Seeds :
          LET got == randomMT(IF twister.seeded THEN twister ELSE seedMT(seed))
          IN /\ twister' = got.after
             /\ drawn' = [seed |-> seed, count |-> drawn.count + 1, number |-> got.number,
                          range |-> range, value |-> InRange(got.number, range)]

RandNext == (\E seed \in Seeds : mt_srand(seed)) \/ (\E range \in Ranges : mt_rand(range))

RandSpec == RandInit /\ [][RandNext]_random

-----------------------------------------------------------------------------
(* The recurrence of the generator, without batches.                        *)
Sequence(seed) ==
    LET x[i \in Nat] ==
            IF i < Batch THEN SeedWords(seed)[i]
            ELSE BitXor(x[i - (Batch - Middle)], Twist(x[i - Batch], x[i - (Batch - 1)]))
    IN x

WordDrawn == Tempered(Sequence(drawn.seed)[Batch + (drawn.count - 1)])

(* The numbers that are drawn after a seed come from the words of the       *)
(* recurrence, one after the other and across the batches: each is its word *)
(* or, the last bit less, half of it.  What is returned is in the range.    *)
FollowsSeed ==
    drawn.count > 0 =>
       /\ drawn.number \in {WordDrawn, WordDrawn \div 2}
       /\ drawn.value \in drawn.range.min..drawn.range.max

(* mt_rand.c:1 says of the generator that it "generates pseudorandom        *)
(* integers uniformly distributed in 0..(2^32 - 1)", as the recurrence      *)
(* does: so each number is a whole word of it.                              *)
DrawsWholeWords == drawn.count > 0 => drawn.number = WordDrawn
=============================================================================
