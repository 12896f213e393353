----------------------------- MODULE MCRuntime ------------------------------
(***************************************************************************)
(* Components that share no state with one another, checked side by side:  *)
(* a behaviour picks one of them and the others stay where they are.       *)
(***************************************************************************)
EXTENDS MCLazyHash, FcgiPool, OutputBuffer, TryStack, Includes, OpaqueMath,
        NaturalOrder, SqliteBinary, FloatText, MCMtRand, Sha1

MCIsA == [e \in Exceptions |-> {"Base", e}]
AllLongs == -Half..(Half - 1)

(* Codes of the space, 0, 1, 2, A and a.                                    *)
MCStrings ==
    UNION {[1..n -> {32, 48, 49, 50, 65, 97}] : n \in 0..2} \cup [1..3 -> {48, 49, 50}]

(* Halves up to 128ths, and a few that are smaller than 1/1000.             *)
Over(ns, bits) == {[num |-> n, bits |-> bits] : n \in ns}
MCNumbers ==
    Over(0..20 \cup 95..105 \cup 995..1005 \cup {9995, 12345, 99994, 99995, 99999}, 0)
    \cup Over({100000, 120000, 123456, 999994, 999995}, 0)
    \cup Over(-20..20 \cup 795..800 \cup {7999, 79999, 799999}, 3)
    \cup Over(1..16 \cup 120..130, 7) \cup Over(1..20, 14)

VARIABLE focus

texts == <<compared, stored, printed, random, hashing>>

RView == <<StateView, pool, buffering, trying, including, math, texts, focus>>

(* What does not move starts in one of its initial states.                  *)
RInit ==
    /\ focus \in {"arrays", "pool", "buffers", "tries", "includes", "math",
                  "order", "sqlite", "floats", "random", "sha1"}
    /\ OrderInit
    /\ focus = "order" \/ compared.a = <<>>
    /\ TextInit
    /\ focus = "floats" \/ printed.x = CHOOSE x \in Numbers : TRUE
    /\ IF focus = "math" THEN TRUE ELSE acc = Long(0)
    /\ IF focus = "includes" THEN TRUE
       ELSE fileText = [f \in Files |-> Missing] /\ cwd = CHOOSE d \in Dirs : TRUE
    /\ Init /\ PoolInit /\ BufferInit /\ TryInit /\ IncludesInit /\ MathInit
    /\ SqliteInit /\ RandInit /\ Sha1Init

RNext ==
    /\ UNCHANGED focus
    /\ \/ focus = "arrays" /\ Next
          /\ UNCHANGED <<pool, buffering, trying, including, math, texts>>
       \/ focus = "pool" /\ PoolNext
          /\ UNCHANGED <<vars, buffering, trying, including, math, texts>>
       \/ focus = "buffers" /\ BufferNext
          /\ UNCHANGED <<vars, pool, trying, including, math, texts>>
       \/ focus = "tries" /\ TryNext
          /\ UNCHANGED <<vars, pool, buffering, including, math, texts>>
       \/ focus = "includes" /\ IncludesNext
          /\ UNCHANGED <<vars, pool, buffering, trying, math, texts>>
       \/ focus = "math" /\ MathNext
          /\ UNCHANGED <<vars, pool, buffering, trying, including, texts>>
       \/ /\ UNCHANGED <<vars, pool, buffering, trying, including, math>>
          /\ \/ focus = "order" /\ OrderNext
                /\ UNCHANGED <<stored, printed, random, hashing>>
             \/ focus = "sqlite" /\ SqliteNext
                /\ UNCHANGED <<compared, printed, random, hashing>>
             \/ focus = "floats" /\ TextNext
                /\ UNCHANGED <<compared, stored, random, hashing>>
             \/ focus = "random" /\ RandNext
                /\ UNCHANGED <<compared, stored, printed, hashing>>
             \/ focus = "sha1" /\ Sha1Next
                /\ UNCHANGED <<compared, stored, printed, random>>

RSpec ==
    RInit /\ [][RNext]_<<vars, pool, buffering, trying, including, math, texts, focus>>
=============================================================================
