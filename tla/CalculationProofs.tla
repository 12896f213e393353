-------------------------- MODULE CalculationProofs --------------------------
(***************************************************************************)
(* What TLAPS proves of the runtime's calculations, for any widths, sizes, *)
(* seeds, strings and messages: sums and differences of longs, the natural *)
(* order of strings, binary strings in SQLite's columns, the numbers of    *)
(* mt_rand, the padding of sha1's messages and the text of floats.         *)
(***************************************************************************)
EXTENDS OpaqueMath, NaturalOrder, SqliteBinary, MtRand, Sha1, FloatText, Induction,
        SequenceTheorems

-----------------------------------------------------------------------------
(* Sums and differences of longs: phpadd and phpsub look at three sign      *)
(* bits, and these tell an overflow from a result that fits.                *)

(* What the machine stores is a long, and is x if x is one.                 *)
LEMMA WrapIsLong == \A x \in Int : Wrap(x) \in Longs
<1> SUFFICES ASSUME NEW x \in Int PROVE Wrap(x) \in Longs
    OBVIOUS
<1> DEFINE m == 2 * Half
           y == x + Half
<1>1. m \in Nat /\ m > 0 /\ y \in Int /\ m = Half + Half /\ Half \in Nat
    BY MathAssumption
<1>2. y % m \in 0..(m - 1)
    <2> HIDE DEF m, y
    <2> QED BY <1>1
<1>3. Wrap(x) = (y % m) - Half
    BY DEF Wrap
<1> HIDE DEF m, y
<1> QED BY <1>1, <1>2, <1>3 DEF Longs, LongMin, LongMax

LEMMA WrapOfLong == \A x \in Longs : Wrap(x) = x
<1> SUFFICES ASSUME NEW x \in Longs PROVE Wrap(x) = x
    OBVIOUS
<1> DEFINE m == 2 * Half
           y == x + Half
<1>1. m \in Nat /\ m > 0 /\ y \in 0..(m - 1) /\ x \in Int /\ Half \in Nat /\ x = y - Half
    BY MathAssumption DEF Longs, LongMin, LongMax
<1>2. y % m = y
    <2> HIDE DEF m, y
    <2> QED BY <1>1
<1>3. Wrap(x) = (y % m) - Half
    BY DEF Wrap
<1> HIDE DEF m, y
<1> QED BY <1>1, <1>2, <1>3

(* What is at most one range too big comes back one range away.             *)
LEMMA WrapBeyond ==
    \A x \in Int :
        /\ x > LongMax /\ x <= LongMax + Half => Wrap(x) = x - 2 * Half
        /\ x < LongMin /\ x >= 2 * LongMin => Wrap(x) = x + 2 * Half
<1> SUFFICES ASSUME NEW x \in Int
             PROVE  /\ x > LongMax /\ x <= LongMax + Half => Wrap(x) = x - 2 * Half
                    /\ x < LongMin /\ x >= 2 * LongMin => Wrap(x) = x + 2 * Half
    OBVIOUS
<1> DEFINE m == 2 * Half
           y == x + Half
<1>1. m \in Nat /\ m > 0 /\ y \in Int /\ m = Half + Half /\ Half \in Nat
    BY MathAssumption
<1>2. Wrap(x) = (y % m) - Half
    BY DEF Wrap
<1>3. CASE x > LongMax /\ x <= LongMax + Half
    <2>1. y - m \in 0..(m - 1)
        BY <1>1, <1>3 DEF LongMax
    <2>2. y % m = y - m
        <3> HIDE DEF m, y
        <3> QED BY <1>1, <2>1, Z3
    <2> QED BY <1>1, <1>2, <1>3, <2>2 DEF LongMax, LongMin
<1>4. CASE x < LongMin /\ x >= 2 * LongMin
    <2>1. y + m \in 0..(m - 1)
        BY <1>1, <1>4 DEF LongMin
    <2>2. y % m = y + m
        <3> HIDE DEF m, y
        <3> QED BY <1>1, <2>1, Z3
    <2> QED BY <1>1, <1>2, <1>4, <2>2 DEF LongMax, LongMin
<1> QED BY <1>3, <1>4

(***************************************************************************)
(* The division of C, whose results are longs but in one case.             *)
(***************************************************************************)
LEMMA DivisionOfNats ==
    \A a \in Nat, b \in Nat \ {0} :
        a \div b \in Nat /\ a \div b <= a /\ (b > 1 /\ a > 0 => a \div b < a)
<1> SUFFICES ASSUME NEW a \in Nat, NEW b \in Nat \ {0}
             PROVE  /\ a \div b \in Nat /\ a \div b <= a
                    /\ (b > 1 /\ a > 0 => a \div b < a)
    OBVIOUS
<1> DEFINE q == a \div b
<1>1. q \in Int /\ b * q <= a /\ a < b * q + b
    BY Z3
<1> HIDE DEF q
<1>2. q >= 0
    BY <1>1, Z3
<1>3. q <= b * q
    BY <1>1, <1>2, Z3
<1>4. b > 1 /\ q > 0 => q < b * q
    BY <1>1, <1>2, Z3
<1> QED BY <1>1, <1>2, <1>3, <1>4 DEF q

LEMMA QuotientIsLong ==
    \A x, y \in Longs : y # 0 /\ ~Traps(x, y) => Quotient(x, y) \in Longs
<1> SUFFICES ASSUME NEW x \in Longs, NEW y \in Longs, y # 0, ~Traps(x, y)
             PROVE  Quotient(x, y) \in Longs
    OBVIOUS
<1> DEFINE a == Abs(x)
           b == Abs(y)
           q == a \div b
<1>1. a \in 0..Half /\ b \in Nat \ {0} /\ Half \in Nat \ {0, 1}
    BY MathAssumption DEF Abs, Longs, LongMin, LongMax
<1>2. q \in Nat /\ q <= a /\ (b > 1 /\ a > 0 => q < a)
    BY <1>1, DivisionOfNats
<1>3. Quotient(x, y) = IF (x < 0) = (y < 0) THEN q ELSE -q
    BY DEF Quotient
<1>4. CASE (x < 0) # (y < 0)
    <2> HIDE DEF a, b, q
    <2> QED BY <1>1, <1>2, <1>3, <1>4 DEF Longs, LongMin, LongMax
<1>5. CASE (x < 0) = (y < 0)
    <2>1. q # Half
        <3> SUFFICES ASSUME q = Half PROVE FALSE
            OBVIOUS
        <3>1. a = Half /\ b = 1
            <4> HIDE DEF a, b, q
            <4> QED BY <1>1, <1>2
        <3> QED BY <3>1, <1>5, MathAssumption DEF Abs, Longs, LongMin, LongMax, Traps
    <2> HIDE DEF a, b, q
    <2> QED BY <1>1, <1>2, <1>3, <1>5, <2>1 DEF Longs, LongMin, LongMax
<1> QED BY <1>4, <1>5

LEMMA MultipleHasNoRemainder == \A b \in Nat \ {0}, q \in Int : (b * q) % b = 0
<1> SUFFICES ASSUME NEW b \in Nat \ {0}, NEW q \in Int PROVE (b * q) % b = 0
    OBVIOUS
<1> DEFINE p == b * q
           r == p % b
           c == p \div b
<1>1. p \in Int
    BY Z3
<1>2. r \in Int /\ 0 <= r /\ r < b /\ c \in Int /\ p = b * c + r
    <2> HIDE DEF p
    <2> QED BY <1>1, Z3
<1> HIDE DEF r, c
<1>3. b * (q - c) = r
    BY <1>2, Z3 DEF p
<1>4. q - c = 0
    <2>1. q - c < 0 => b * (q - c) < 0
        BY <1>2, Z3
    <2>2. q - c > 0 => b * (q - c) >= b
        BY <1>2, Z3
    <2> QED BY <1>2, <1>3, <2>1, <2>2
<1>5. r = 0
    BY <1>2, <1>3, <1>4, Z3
<1> QED BY <1>5 DEF r

LEMMA RemainderRight ==
    \A x, y \in Longs :
        y # 0 => /\ Remainder(x, y) \in Longs
                 /\ Abs(Remainder(x, y)) < Abs(y)
                 /\ Remainder(x, y) # 0 => Signed(Remainder(x, y)) = Signed(x)
                 /\ (x - Remainder(x, y)) % Abs(y) = 0
<1> SUFFICES ASSUME NEW x \in Longs, NEW y \in Longs, y # 0
             PROVE  /\ Remainder(x, y) \in Longs
                    /\ Abs(Remainder(x, y)) < Abs(y)
                    /\ Remainder(x, y) # 0 => Signed(Remainder(x, y)) = Signed(x)
                    /\ (x - Remainder(x, y)) % Abs(y) = 0
    OBVIOUS
<1> DEFINE a == Abs(x)
           b == Abs(y)
           q == a \div b
           r == a - b * q
<1>1. a \in Nat /\ b \in Nat \ {0} /\ x \in Int /\ y \in Int
    BY MathAssumption DEF Abs, Longs, LongMin, LongMax
<1>2. q \in Int /\ b * q <= a /\ a < b * q + b
    <2> HIDE DEF a, b
    <2> QED BY <1>1, Z3
<1>3. r \in Int /\ 0 <= r /\ r < b
    <2> HIDE DEF a, b, q
    <2> QED BY <1>1, <1>2
<1>4. Remainder(x, y) = IF x < 0 THEN -r ELSE r
    <2>1. Quotient(x, y) = IF (x < 0) = (y < 0) THEN q ELSE -q
        BY DEF Quotient
    <2>2. a = (IF x < 0 THEN -x ELSE x) /\ b = (IF y < 0 THEN -y ELSE y)
        BY DEF Abs
    <2> HIDE DEF a, b, q
    <2>3. y * q \in Int /\ y * (-q) = -(y * q) /\ (-y) * q = -(y * q)
        BY <1>1, <1>2, Z3
    <2> QED BY <1>1, <1>2, <2>1, <2>2, <2>3 DEF Remainder
<1>5. b <= Half /\ Half \in Nat
    BY MathAssumption DEF Abs, Longs, LongMin, LongMax
<1>6. a = (IF x < 0 THEN -x ELSE x) /\ Abs(y) = b
    BY DEF Abs
<1>7. (x - Remainder(x, y)) = (IF x < 0 THEN b * (-q) ELSE b * q)
    <2>1. a = b * q + r
        <3> HIDE DEF a, b, q
        <3> QED BY <1>1, <1>2
    <2> HIDE DEF a, b, q, r
    <2>2. b * (-q) = -(b * q) /\ b * q \in Int
        BY <1>1, <1>2, Z3
    <2> QED BY <1>1, <1>2, <1>3, <1>4, <1>6, <2>1, <2>2
<1>8. (x - Remainder(x, y)) % Abs(y) = 0
    <2> HIDE DEF a, b, q, r
    <2>1. (b * q) % b = 0 /\ (b * (-q)) % b = 0
        BY <1>1, <1>2, MultipleHasNoRemainder
    <2> QED BY <1>6, <1>7, <2>1
<1>9. Abs(Remainder(x, y)) = r
    <2> HIDE DEF a, b, q, r
    <2> QED BY <1>1, <1>3, <1>4 DEF Abs
<1> HIDE DEF a, b, q, r
<1> QED BY <1>1, <1>3, <1>4, <1>5, <1>6, <1>8, <1>9 DEF Longs, LongMin, LongMax, Signed

(***************************************************************************)
(* One lemma per operation.                                                *)
(***************************************************************************)
Number(v) == v.is \in {"long", "float", "trap"} /\ (IsLong(v) => v.n \in Longs)

LEMMA AddRight ==
    \A a, b : Number(a) /\ Number(b) =>
        LET r == PhpAdd(a, b)
        IN /\ Number(r) /\ r.is # "trap"
           /\ BothLong(a, b) => IF IsLong(r) THEN r.n = a.n + b.n ELSE a.n + b.n \notin Longs
<1> SUFFICES ASSUME NEW a, NEW b, Number(a), Number(b)
             PROVE  LET r == PhpAdd(a, b)
                    IN /\ Number(r) /\ r.is # "trap"
                       /\ BothLong(a, b) =>
                            IF IsLong(r) THEN r.n = a.n + b.n ELSE a.n + b.n \notin Longs
    OBVIOUS
<1> DEFINE t == a.n + b.n
<1>1. CASE ~BothLong(a, b)
    BY <1>1 DEF PhpAdd, Float, Number, IsLong
<1>2. CASE BothLong(a, b)
    <2>1. a.n \in Longs /\ b.n \in Longs /\ Half \in Nat \ {0, 1}
        BY <1>2, MathAssumption DEF Number, BothLong
    <2>2. t \in Int /\ t <= LongMax + Half /\ t >= 2 * LongMin
        BY <2>1 DEF Longs, LongMin, LongMax
    <2>3. t \in Longs => Wrap(t) = t
        BY WrapOfLong
    <2>4. /\ t > LongMax => Wrap(t) = t - 2 * Half
          /\ t < LongMin => Wrap(t) = t + 2 * Half
        BY <2>2, WrapBeyond
    <2>5. Wrap(t) \in Longs
        BY <2>2, WrapIsLong
    <2>6. (Signed(a.n) = Signed(b.n) /\ Signed(a.n) # Signed(Wrap(t))) <=> t \notin Longs
        BY <2>1, <2>2, <2>3, <2>4 DEF Longs, LongMin, LongMax, Signed
    <2>7. PhpAdd(a, b) = IF t \notin Longs THEN Float(AsFloat(a) + AsFloat(b)) ELSE Long(Wrap(t))
        BY <1>2, <2>6 DEF PhpAdd
    <2> QED BY <2>3, <2>5, <2>7 DEF Float, Long, Number, IsLong
<1> QED BY <1>1, <1>2

LEMMA SubRight ==
    \A a, b : Number(a) /\ Number(b) =>
        LET r == PhpSub(a, b)
        IN /\ Number(r) /\ r.is # "trap"
           /\ BothLong(a, b) => IF IsLong(r) THEN r.n = a.n - b.n ELSE a.n - b.n \notin Longs
<1> SUFFICES ASSUME NEW a, NEW b, Number(a), Number(b)
             PROVE  LET r == PhpSub(a, b)
                    IN /\ Number(r) /\ r.is # "trap"
                       /\ BothLong(a, b) =>
                            IF IsLong(r) THEN r.n = a.n - b.n ELSE a.n - b.n \notin Longs
    OBVIOUS
<1> DEFINE t == a.n - b.n
<1>1. CASE ~BothLong(a, b)
    BY <1>1 DEF PhpSub, Float, Number, IsLong
<1>2. CASE BothLong(a, b)
    <2>1. a.n \in Longs /\ b.n \in Longs /\ Half \in Nat \ {0, 1}
        BY <1>2, MathAssumption DEF Number, BothLong
    <2>2. t \in Int /\ t <= LongMax + Half /\ t >= 2 * LongMin
        BY <2>1 DEF Longs, LongMin, LongMax
    <2>3. t \in Longs => Wrap(t) = t
        BY WrapOfLong
    <2>4. /\ t > LongMax => Wrap(t) = t - 2 * Half
          /\ t < LongMin => Wrap(t) = t + 2 * Half
        BY <2>2, WrapBeyond
    <2>5. Wrap(t) \in Longs
        BY <2>2, WrapIsLong
    <2>6. (Signed(a.n) # Signed(b.n) /\ Signed(a.n) # Signed(Wrap(t))) <=> t \notin Longs
        BY <2>1, <2>2, <2>3, <2>4 DEF Longs, LongMin, LongMax, Signed
    <2>7. PhpSub(a, b) = IF t \notin Longs THEN Float(AsFloat(a) - AsFloat(b)) ELSE Long(Wrap(t))
        BY <1>2, <2>6 DEF PhpSub
    <2> QED BY <2>3, <2>5, <2>7 DEF Float, Long, Number, IsLong
<1> QED BY <1>1, <1>2

(* With the flag of the processor a product is a long just when it fits.    *)
LEMMA MulRight ==
    \A a, b : Number(a) /\ Number(b) =>
        LET r == PhpMul(a, b)
        IN /\ Number(r) /\ r.is # "trap"
           /\ OverflowFlag /\ BothLong(a, b) =>
                IF IsLong(r) THEN r.n = a.n * b.n ELSE Abs(a.n * b.n) >= LongMax
<1> SUFFICES ASSUME NEW a, NEW b, Number(a), Number(b)
             PROVE  LET r == PhpMul(a, b)
                    IN /\ Number(r) /\ r.is # "trap"
                       /\ OverflowFlag /\ BothLong(a, b) =>
                            IF IsLong(r) THEN r.n = a.n * b.n ELSE Abs(a.n * b.n) >= LongMax
    OBVIOUS
<1> DEFINE t == a.n * b.n
           product == Nearest(AsFloat(a) * AsFloat(b))
           tooBig == IF OverflowFlag THEN t \notin Longs
                     ELSE product >= Nearest(LongMax) \/ product <= Nearest(LongMin)
<1>1. PhpMul(a, b) = IF ~BothLong(a, b) \/ tooBig THEN Float(AsFloat(a) * AsFloat(b))
                     ELSE Long(Wrap(t))
    BY DEF PhpMul
<1>2. CASE ~BothLong(a, b) \/ tooBig
    <2>1. PhpMul(a, b).is = "float" /\ PhpMul(a, b).is # "trap" /\ Number(PhpMul(a, b))
        BY <1>1, <1>2 DEF Float, Number, IsLong
    <2>2. ASSUME OverflowFlag, BothLong(a, b) PROVE Abs(t) >= LongMax
        <3>1. t \in Int /\ t \notin Longs
            BY <1>2, <2>2, MathAssumption DEF BothLong, Number, Longs, LongMin, LongMax
        <3> HIDE DEF t
        <3> QED BY <3>1, MathAssumption DEF Abs, Longs, LongMin, LongMax
    <2> HIDE DEF t
    <2> QED BY <2>1, <2>2 DEF IsLong, t
<1>3. CASE BothLong(a, b) /\ ~tooBig
    <2>1. t \in Int
        BY <1>3, MathAssumption DEF BothLong, Number, Longs, LongMin, LongMax
    <2>2. PhpMul(a, b) = Long(Wrap(t))
        BY <1>1, <1>3
    <2>3. Wrap(t) \in Longs
        BY <2>1, WrapIsLong
    <2>4. OverflowFlag => Wrap(t) = t
        BY <1>3, WrapOfLong
    <2> HIDE DEF t
    <2>5. PhpMul(a, b).is = "long" /\ PhpMul(a, b).n = Wrap(t)
        BY <2>2 DEF Long
    <2> QED BY <2>3, <2>4, <2>5 DEF Number, IsLong, t
<1> QED BY <1>2, <1>3

LEMMA DivRight ==
    \A a, b : Number(a) /\ Number(b) /\ b.n # 0 =>
        LET r == PhpDiv(a, b)
        IN /\ Number(r)
           /\ BothLong(a, b) /\ IsLong(r) => b.n * r.n = a.n
           /\ BothLong(a, b) /\ r.is = "float" => Remainder(a.n, b.n) # 0
           /\ r.is = "trap" => BothLong(a, b) /\ Traps(a.n, b.n)
<1> SUFFICES ASSUME NEW a, NEW b, Number(a), Number(b), b.n # 0
             PROVE  LET r == PhpDiv(a, b)
                    IN /\ Number(r)
                       /\ BothLong(a, b) /\ IsLong(r) => b.n * r.n = a.n
                       /\ BothLong(a, b) /\ r.is = "float" => Remainder(a.n, b.n) # 0
                       /\ r.is = "trap" => BothLong(a, b) /\ Traps(a.n, b.n)
    OBVIOUS
<1>1. CASE BothLong(a, b) /\ Traps(a.n, b.n)
    BY <1>1 DEF PhpDiv, Trap, Number, IsLong
<1>2. CASE BothLong(a, b) /\ ~Traps(a.n, b.n) /\ Remainder(a.n, b.n) = 0
    <2> DEFINE q == Quotient(a.n, b.n)
    <2>1. a.n \in Longs /\ b.n \in Longs
        BY <1>2 DEF BothLong, Number
    <2>2. q \in Longs
        BY <1>2, <2>1, QuotientIsLong
    <2>3. b.n * q = a.n
        <3>1. a.n - b.n * q = 0
            BY <1>2 DEF Remainder
        <3>2. a.n \in Int /\ b.n * q \in Int
            BY <2>1, <2>2, MathAssumption DEF Longs, LongMin, LongMax
        <3> HIDE DEF q
        <3> QED BY <3>1, <3>2
    <2>4. PhpDiv(a, b) = Long(q)
        BY <1>2 DEF PhpDiv
    <2> HIDE DEF q
    <2> QED BY <2>2, <2>3, <2>4 DEF Long, Number, IsLong
<1>3. CASE ~BothLong(a, b) \/ (~Traps(a.n, b.n) /\ Remainder(a.n, b.n) # 0)
    <2>1. PhpDiv(a, b).is = "float"
        BY <1>3 DEF PhpDiv, Float, Fraction
    <2> QED BY <1>3, <2>1 DEF Number, IsLong
<1> QED BY <1>1, <1>2, <1>3

LEMMA ToLongIsLong == \A v : Number(v) => ToLong(v) \subseteq Longs
BY DEF ToLong, Number

LEMMA ModRight ==
    \A a, b : Number(a) /\ Number(b) /\ b.n # 0 =>
        \A r \in PhpMod(a, b) :
            /\ Number(r)
            /\ BothLong(a, b) /\ IsLong(r) =>
                  /\ (a.n - r.n) % Abs(b.n) = 0 /\ Abs(r.n) < Abs(b.n)
                  /\ r.n # 0 => Signed(r.n) = Signed(a.n)
            /\ BothLong(a, b) /\ r.is = "trap" => Traps(a.n, b.n)
<1> SUFFICES ASSUME NEW a, NEW b, Number(a), Number(b), b.n # 0, NEW r \in PhpMod(a, b)
             PROVE  /\ Number(r)
                    /\ BothLong(a, b) /\ IsLong(r) =>
                          /\ (a.n - r.n) % Abs(b.n) = 0 /\ Abs(r.n) < Abs(b.n)
                          /\ r.n # 0 => Signed(r.n) = Signed(a.n)
                    /\ BothLong(a, b) /\ r.is = "trap" => Traps(a.n, b.n)
    OBVIOUS
<1>1. PICK x \in ToLong(a), y \in ToLong(b) \ {0} :
         r = IF Traps(x, y) THEN Trap ELSE Long(Remainder(x, y))
    BY DEF PhpMod
<1>2. x \in Longs /\ y \in Longs /\ y # 0
    BY ToLongIsLong
<1>a. BothLong(a, b) => x = a.n /\ y = b.n
    BY DEF BothLong, ToLong
<1>3. CASE Traps(x, y)
    BY <1>1, <1>3, <1>a DEF Trap, Number, IsLong
<1>4. CASE ~Traps(x, y)
    <2>1. r.is = "long" /\ r.n = Remainder(x, y)
        BY <1>1, <1>4 DEF Long
    <2> QED BY <1>2, <1>a, <2>1, RemainderRight DEF Number, IsLong
<1> QED BY <1>3, <1>4

LEMMA CompareRight ==
    \A a, b : Number(a) /\ Number(b) =>
        LET r == PhpCompare(a, b)
        IN /\ Number(r) /\ IsLong(r)
           /\ BothLong(a, b) /\ Abs(a.n) <= Mant /\ Abs(b.n) <= Mant =>
                (r.n > 0) = (a.n > b.n) /\ (r.n < 0) = (a.n < b.n)
<1> SUFFICES ASSUME NEW a, NEW b, Number(a), Number(b)
             PROVE  LET r == PhpCompare(a, b)
                    IN /\ Number(r) /\ IsLong(r)
                       /\ BothLong(a, b) /\ Abs(a.n) <= Mant /\ Abs(b.n) <= Mant =>
                            (r.n > 0) = (a.n > b.n) /\ (r.n < 0) = (a.n < b.n)
    OBVIOUS
<1> DEFINE x == AsFloat(a)
           y == AsFloat(b)
           s == IF x = y THEN 0 ELSE IF x > y THEN 1 ELSE -1
<1>1. PhpCompare(a, b) = Long(s)
    BY DEF PhpCompare
<1>2. s \in Longs
    BY MathAssumption DEF Longs, LongMin, LongMax
<1>3. ASSUME BothLong(a, b), Abs(a.n) <= Mant, Abs(b.n) <= Mant
      PROVE  (s > 0) = (a.n > b.n) /\ (s < 0) = (a.n < b.n)
    <2>1. x = a.n /\ y = b.n
        BY <1>3 DEF AsFloat, Nearest
    <2>2. x \in Int /\ y \in Int
        BY <1>3, <2>1, MathAssumption DEF BothLong, Number, Longs, LongMin, LongMax
    <2> HIDE DEF x, y
    <2> QED BY <2>1, <2>2
<1> HIDE DEF s
<1>4. PhpCompare(a, b).is = "long" /\ PhpCompare(a, b).n = s
    BY <1>1 DEF Long
<1> QED BY <1>2, <1>3, <1>4 DEF Number, IsLong

(***************************************************************************)
(* The invariant: longs are longs, and the results are right.              *)
(***************************************************************************)
MathInvariant ==
    /\ Number(acc) /\ Number(last.a) /\ Number(last.b)
    /\ SumsRight /\ DivisionsRight
    /\ OverflowFlag => ProductsRight

LEMMA InvariantHolds == MathSpec => []MathInvariant
<1>1. MathInit => MathInvariant
    <2> SUFFICES ASSUME MathInit PROVE MathInvariant
        OBVIOUS
    <2>1. PICK x \in Operands : acc = Long(x)
        BY DEF MathInit
    <2>2. acc.is = "long" /\ acc.n \in Longs
        BY <2>1, MathAssumption DEF Long, Longs, LongMin, LongMax
    <2>3. last.op = "none" /\ last.a = acc /\ last.b = acc
        BY DEF MathInit
    <2> QED BY <2>2, <2>3 DEF MathInvariant, Number, IsLong, Of, SumsRight, DivisionsRight,
                              ProductsRight, ProductsExact
<1>2. MathInvariant /\ [MathNext]_math => MathInvariant'
    <2> SUFFICES ASSUME MathInvariant, [MathNext]_math PROVE MathInvariant'
        OBVIOUS
    <2>1. CASE UNCHANGED math
        BY <2>1 DEF math, MathInvariant, Number, IsLong, BothLong, Of, SumsRight,
                    DivisionsRight, ProductsRight, ProductsExact
    <2>2. CASE MathNext
        <3>1. PICK op \in {"add", "sub", "mul", "div", "mod", "compare"}, z \in Operands :
                 Calculate(op, Long(z))
            BY <2>2 DEF MathNext
        <3> DEFINE b == Long(z)
        <3>2. Number(acc) /\ Number(b) /\ b.n = z
            BY MathAssumption DEF MathInvariant, Number, Long, Longs, LongMin, LongMax
        <3>3. last' = [op |-> op, a |-> acc, b |-> b] /\ acc' \in Results(op, acc, b)
            BY <3>1 DEF Calculate
        <3> HIDE DEF b
        <3>4. last'.op = op /\ last'.a = acc /\ last'.b = b
            BY <3>3
        <3>5. CASE op = "add"
            <4>1. acc' = PhpAdd(acc, b)
                BY <3>3, <3>5 DEF Results
            <4>2. /\ Number(acc') /\ acc'.is # "trap"
                  /\ BothLong(acc, b) =>
                       IF IsLong(acc') THEN acc'.n = acc.n + b.n ELSE acc.n + b.n \notin Longs
                BY <3>2, <4>1, AddRight
            <4> QED BY <3>2, <3>4, <3>5, <4>2
                    DEF MathInvariant, Number, IsLong, BothLong, Of, SumsRight,
                        DivisionsRight, ProductsRight, ProductsExact
        <3>6. CASE op = "sub"
            <4>1. acc' = PhpSub(acc, b)
                BY <3>3, <3>6 DEF Results
            <4>2. /\ Number(acc') /\ acc'.is # "trap"
                  /\ BothLong(acc, b) =>
                       IF IsLong(acc') THEN acc'.n = acc.n - b.n ELSE acc.n - b.n \notin Longs
                BY <3>2, <4>1, SubRight
            <4> QED BY <3>2, <3>4, <3>6, <4>2
                    DEF MathInvariant, Number, IsLong, BothLong, Of, SumsRight,
                        DivisionsRight, ProductsRight, ProductsExact
        <3>7. CASE op = "mul"
            <4>1. acc' = PhpMul(acc, b)
                BY <3>3, <3>7 DEF Results
            <4>2. /\ Number(acc') /\ acc'.is # "trap"
                  /\ OverflowFlag /\ BothLong(acc, b) =>
                       IF IsLong(acc') THEN acc'.n = acc.n * b.n
                                       ELSE Abs(acc.n * b.n) >= LongMax
                BY <3>2, <4>1, MulRight
            <4> QED BY <3>2, <3>4, <3>7, <4>2
                    DEF MathInvariant, Number, IsLong, BothLong, Of, SumsRight,
                        DivisionsRight, ProductsRight, ProductsExact
        <3>8. CASE op = "div"
            <4>1. b.n # 0 /\ acc' = PhpDiv(acc, b)
                BY <3>3, <3>8 DEF Results
            <4>2. /\ Number(acc')
                  /\ BothLong(acc, b) /\ IsLong(acc') => b.n * acc'.n = acc.n
                  /\ BothLong(acc, b) /\ acc'.is = "float" => Remainder(acc.n, b.n) # 0
                  /\ acc'.is = "trap" => BothLong(acc, b) /\ Traps(acc.n, b.n)
                BY <3>2, <4>1, DivRight
            <4> QED BY <3>2, <3>4, <3>8, <4>2
                    DEF MathInvariant, Number, IsLong, BothLong, Of, SumsRight,
                        DivisionsRight, ProductsRight, ProductsExact
        <3>9. CASE op = "mod"
            <4>1. b.n # 0 /\ acc' \in PhpMod(acc, b)
                BY <3>3, <3>9 DEF Results
            <4>2. /\ Number(acc')
                  /\ BothLong(acc, b) /\ IsLong(acc') =>
                        /\ (acc.n - acc'.n) % Abs(b.n) = 0 /\ Abs(acc'.n) < Abs(b.n)
                        /\ acc'.n # 0 => Signed(acc'.n) = Signed(acc.n)
                  /\ BothLong(acc, b) /\ acc'.is = "trap" => Traps(acc.n, b.n)
                BY <3>2, <4>1, ModRight
            <4> QED BY <3>2, <3>4, <3>9, <4>2
                    DEF MathInvariant, Number, IsLong, BothLong, Of, SumsRight,
                        DivisionsRight, ProductsRight, ProductsExact
        <3>10. CASE op = "compare"
            <4>1. acc' = PhpCompare(acc, b)
                BY <3>3, <3>10 DEF Results
            <4>2. /\ Number(acc') /\ IsLong(acc')
                  /\ BothLong(acc, b) /\ Abs(acc.n) <= Mant /\ Abs(b.n) <= Mant =>
                       (acc'.n > 0) = (acc.n > b.n) /\ (acc'.n < 0) = (acc.n < b.n)
                BY <3>2, <4>1, CompareRight
            <4> QED BY <3>2, <3>4, <3>10, <4>2
                    DEF MathInvariant, Number, IsLong, BothLong, Of, SumsRight,
                        DivisionsRight, ProductsRight, ProductsExact
        <3> QED BY <3>1, <3>5, <3>6, <3>7, <3>8, <3>9, <3>10
    <2> QED BY <2>1, <2>2
<1> QED BY <1>1, <1>2, PTL DEF MathSpec

(* For every width of longs and of floats: a sum or difference of longs     *)
(* that comes out as a long is exact and as a float did not fit, divisions  *)
(* and remainders agree, and only divisions trap, of two longs only the     *)
(* least by -1 (phpadd, phpsub, phpdiv, phpmod).                            *)
THEOREM SumsAndDivisions == MathSpec => [](SumsRight /\ DivisionsRight)
BY InvariantHolds, PTL DEF MathInvariant

(* Where multiplication looks at the flag of the processor, products are    *)
(* right too (FAST_LONG_MULTIPLY of i386).                                  *)
THEOREM AllRightWithFlag == ASSUME OverflowFlag = TRUE PROVE MathSpec => []ResultsRight
<1>1. MathInvariant => ResultsRight
    BY DEF MathInvariant, ResultsRight
<1> QED BY <1>1, InvariantHolds, PTL

-----------------------------------------------------------------------------
(* The natural order of strings.  Every comparison in it ends with the      *)
(* first of a row of signs that is not 0, so what has to be seen is that    *)
(* such a sign tells two strings apart as each of the row does.             *)

Signs == {-1, 0, 1}

(* p, q and r are those of x and y, of y and z, and of x and z.             *)
Composes(p, q, r) ==
    /\ p = 0 => r = q
    /\ q = 0 => r = p
    /\ p = q => r = p

Leads(f, l) ==
    \/ l = 0 /\ \A n \in Nat : f[n] = 0
    \/ l # 0 /\ \E n \in Nat : f[n] = l /\ \A m \in 0..(n - 1) : f[m] = 0

LEMMA LeadOfSame ==
  ASSUME NEW f, NEW g, NEW p, NEW q, Leads(f, p), Leads(g, q), \A n \in Nat : f[n] = g[n]
  PROVE  p = q
<1>1. CASE p = 0 \/ q = 0
  BY <1>1 DEF Leads
<1>2. CASE p # 0 /\ q # 0
  <2>1. PICK i \in Nat : f[i] = p /\ \A m \in 0..(i - 1) : f[m] = 0
    BY <1>2 DEF Leads
  <2>2. PICK j \in Nat : g[j] = q /\ \A m \in 0..(j - 1) : g[m] = 0
    BY <1>2 DEF Leads
  <2>3. ~(i < j) /\ ~(j < i)
    BY <1>2, <2>1, <2>2
  <2> QED
    BY <2>1, <2>2, <2>3
<1> QED
  BY <1>1, <1>2

LEMMA LeadOpposite ==
  ASSUME NEW f, NEW g, NEW p \in Signs, NEW q \in Signs, Leads(f, p), Leads(g, q),
         \A n \in Nat : f[n] \in Signs /\ g[n] = -f[n]
  PROVE  q = -p
<1> DEFINE h == [n \in Nat |-> -g[n]]
<1>1. \A n \in Nat : h[n] = f[n] /\ (g[n] = 0 => h[n] = 0)
  BY DEF Signs
<1>2. Leads(h, -q)
  <2>1. CASE q = 0
    BY <2>1, <1>1 DEF Leads
  <2>2. CASE q # 0
    <3>1. PICK j \in Nat : g[j] = q /\ \A m \in 0..(j - 1) : g[m] = 0
      BY <2>2 DEF Leads
    <3>2. h[j] = -q /\ \A m \in 0..(j - 1) : h[m] = 0
      BY <3>1
    <3>3. -q # 0
      BY <2>2 DEF Signs
    <3> HIDE DEF h
    <3> QED
      BY <3>2, <3>3 DEF Leads
  <2> QED
    BY <2>1, <2>2
<1>3. p = -q
  <2> HIDE DEF h
  <2> QED
    BY <1>1, <1>2, LeadOfSame
<1> QED
  BY <1>3 DEF Signs

LEMMA LeadComposes ==
  ASSUME NEW f, NEW g, NEW h, NEW p \in Signs, NEW q \in Signs, NEW r \in Signs,
         Leads(f, p), Leads(g, q), Leads(h, r),
         \A n \in Nat : Composes(f[n], g[n], h[n])
  PROVE  Composes(p, q, r)
<1>1. CASE p = 0
  <2>1. \A n \in Nat : g[n] = h[n]
    BY <1>1 DEF Leads, Composes
  <2>2. q = r
    BY <2>1, LeadOfSame
  <2> QED
    BY <1>1, <2>2 DEF Composes
<1>2. CASE q = 0
  <2>1. \A n \in Nat : f[n] = h[n]
    BY <1>2 DEF Leads, Composes
  <2>2. p = r
    BY <2>1, LeadOfSame
  <2> QED
    BY <1>2, <2>2 DEF Composes
<1>3. CASE p # 0 /\ q # 0 /\ p = q
  <2>1. PICK i \in Nat : f[i] = p /\ \A m \in 0..(i - 1) : f[m] = 0
    BY <1>3 DEF Leads
  <2>2. PICK j \in Nat : g[j] = p /\ \A m \in 0..(j - 1) : g[m] = 0
    BY <1>3 DEF Leads
  <2> DEFINE k == IF i < j THEN i ELSE j
  <2>3. k \in Nat /\ h[k] = p
    BY <2>1, <2>2 DEF Composes
  <2>4. \A m \in 0..(k - 1) : h[m] = 0
    BY <2>1, <2>2 DEF Composes
  <2>5. Leads(h, p)
    BY <1>3, <2>3, <2>4 DEF Leads
  <2>6. p = r
    BY <2>5, LeadOfSame
  <2> QED
    BY <1>3, <2>6 DEF Composes
<1> QED
  BY <1>1, <1>2, <1>3 DEF Composes

-----------------------------------------------------------------------------
(* What is left of strings, and the digits they begin with.                 *)
Text == Seq(Int \ {0})
Numeral == Seq(Zero..57)

LEMMA LeastOrIs ==
  ASSUME NEW P \in SUBSET Nat, NEW none
  PROVE  /\ P = {} => LeastOr(P, none) = none
         /\ P # {} => LeastOr(P, none) \in P /\ \A j \in P : LeastOr(P, none) <= j
<1>1. P # {} => \E i \in P : \A j \in P : i <= j
  BY LeastNatural
<1> QED
  BY <1>1 DEF LeastOr

LEMMA FromIs ==
  ASSUME NEW s \in Text, NEW i \in Nat \ {0}
  PROVE  From(s, i) \in Text /\ Len(From(s, i)) = IF i <= Len(s) THEN Len(s) - i + 1 ELSE 0
<1>1. \A j \in i..Len(s) : s[j] \in Int \ {0}
  BY DEF Text
<1>2. i \in Int /\ Len(s) \in Int
  BY DEF Text
<1> QED
  BY <1>1, <1>2, SubSeqProperties DEF From, Text

LEMMA SkipSpacesIs ==
  ASSUME NEW s \in Text
  PROVE  SkipSpaces(s) \in Text /\ Len(SkipSpaces(s)) <= Len(s)
<1> DEFINE
      P == {i \in DOMAIN s : s[i] # Space}
      k == LeastOr(P, Len(s) + 1)
<1>1. Len(s) \in Nat /\ P \in SUBSET Nat /\ \A i \in P : i >= 1
  BY DEF Text
<1>2. k \in Nat \ {0}
  <2>1. CASE P = {}
    BY <2>1, <1>1 DEF LeastOr
  <2>2. CASE P # {}
    <3>1. k \in P
      <4> HIDE DEF P
      <4> QED
        BY <2>2, <1>1, LeastOrIs
    <3> HIDE DEF k, P
    <3> QED
      BY <3>1, <1>1
  <2> QED
    BY <2>1, <2>2
<1>3. SkipSpaces(s) = From(s, k)
  BY DEF SkipSpaces
<1> HIDE DEF k
<1> QED
  BY <1>1, <1>2, <1>3, FromIs

LEMMA DigitsIs ==
  ASSUME NEW a \in Text
  PROVE  /\ Digits(a) \in Numeral
         /\ IsDigit(First(a)) => Len(Digits(a)) > 0 /\ Digits(a)[1] = First(a)
<1> DEFINE
      P == {i \in DOMAIN a : ~IsDigit(a[i])}
      k == LeastOr(P, Len(a) + 1)
<1>1. Len(a) \in Nat /\ P \in SUBSET Nat /\ (\A i \in P : i \in 1..Len(a)) /\ DOMAIN a = 1..Len(a)
  BY DEF Text
<1>2. k \in 1..(Len(a) + 1) /\ \A i \in 1..(k - 1) : i \in DOMAIN a /\ IsDigit(a[i])
  <2>1. CASE P = {}
    <3>1. k = Len(a) + 1
      BY <2>1 DEF LeastOr
    <3>2. \A i \in DOMAIN a : IsDigit(a[i])
      BY <2>1
    <3> HIDE DEF k, P
    <3> QED
      BY <3>1, <3>2, <1>1
  <2>2. CASE P # {}
    <3>1. k \in P /\ \A j \in P : k <= j
      <4> HIDE DEF P
      <4> QED
        BY <2>2, <1>1, LeastOrIs
    <3> HIDE DEF k
    <3> QED
      BY <3>1, <1>1
  <2> QED
    BY <2>1, <2>2
<1>3. Digits(a) = SubSeq(a, 1, k - 1)
  BY DEF Digits
<1>4. IsDigit(First(a)) => k > 1
  <2> SUFFICES ASSUME IsDigit(First(a)), k = 1 PROVE FALSE
    BY <1>2
  <2>1. a # <<>> /\ First(a) = a[1]
    BY DEF First, IsDigit, Zero
  <2>2. 1 \notin P /\ 1 \in 1..Len(a)
    BY <1>1, <2>1 DEF Text
  <2>3. P # {}
    <3> SUFFICES ASSUME P = {} PROVE FALSE
      OBVIOUS
    <3>1. k = Len(a) + 1
      BY DEF LeastOr
    <3> HIDE DEF k, P
    <3> QED
      BY <3>1, <2>2, <1>1
  <2>4. k \in P
    <3> HIDE DEF P
    <3> QED
      BY <2>3, <1>1, LeastOrIs
  <2> HIDE DEF k, P
  <2> QED
    BY <2>2, <2>4
<1> HIDE DEF k, P
<1>5. \A i \in 1..(k - 1) : a[i] \in Zero..57
  BY <1>2 DEF IsDigit
<1>6. 1 \in Int /\ k - 1 \in Int
  BY <1>2
<1>7. /\ Digits(a) \in Numeral
      /\ Len(Digits(a)) = IF 1 <= k - 1 THEN (k - 1) - 1 + 1 ELSE 0
      /\ \A i \in 1..((k - 1) - 1 + 1) : Digits(a)[i] = a[1 + i - 1]
  BY <1>3, <1>5, <1>6, SubSeqProperties DEF Numeral
<1>8. ASSUME IsDigit(First(a)) PROVE Len(Digits(a)) > 0 /\ Digits(a)[1] = First(a)
  <2>1. 1 \in 1..((k - 1) - 1 + 1) /\ a # <<>>
    BY <1>2, <1>4, <1>8 DEF First, IsDigit, Zero
  <2> QED
    BY <1>2, <1>4, <1>7, <1>8, <2>1 DEF First
<1> QED
  BY <1>7, <1>8

-----------------------------------------------------------------------------
(* Fractions: digit against digit, the end of a run being less than any.    *)
Mark(x, n) == IF n < Len(x) THEN x[n + 1] ELSE 0
Marks(x, y) == [n \in Nat |-> Sign(Mark(x, n), Mark(y, n))]

LEMMA SignIs ==
  ASSUME NEW x \in Int, NEW y \in Int, NEW z \in Int
  PROVE  /\ Sign(x, y) \in Signs /\ Sign(y, x) = -Sign(x, y) /\ (Sign(x, y) = 0 <=> x = y)
         /\ Composes(Sign(x, y), Sign(y, z), Sign(x, z))
  BY DEF Sign, Signs, Composes

LEMMA MarkIs == \A x \in Numeral, n \in Nat : Mark(x, n) \in Int
  BY DEF Mark, Numeral, Zero

LEMMA LeftLeads ==
  ASSUME NEW a \in Text, NEW b \in Text
  PROVE  /\ compare_left(a, b) \in Signs
         /\ Leads(Marks(Digits(a), Digits(b)), compare_left(a, b))
<1> DEFINE
      x == Digits(a)
      y == Digits(b)
      P == {i \in DOMAIN x \cap DOMAIN y : x[i] # y[i]}
      i == LeastOr(P, 0)
      c == IF i = 0 THEN Sign(Len(x), Len(y)) ELSE Sign(x[i], y[i])
<1>0. compare_left(a, b) = c
  BY DEF compare_left
<1>1. x \in Numeral /\ y \in Numeral
  BY DigitsIs
<1> HIDE DEF x, y
<1>2. /\ Len(x) \in Nat /\ Len(y) \in Nat /\ P \in SUBSET Nat /\ 0 \notin P
      /\ DOMAIN x = 1..Len(x) /\ DOMAIN y = 1..Len(y)
      /\ (\A n \in 1..Len(x) : x[n] \in Zero..57) /\ (\A n \in 1..Len(y) : y[n] \in Zero..57)
  <2>1. /\ Len(x) \in Nat /\ Len(y) \in Nat /\ DOMAIN x = 1..Len(x) /\ DOMAIN y = 1..Len(y)
        /\ (\A n \in 1..Len(x) : x[n] \in Zero..57)
        /\ (\A n \in 1..Len(y) : y[n] \in Zero..57)
    BY <1>1 DEF Numeral, Zero
  <2>2. P \in SUBSET (1..Len(x))
    BY <2>1
  <2> HIDE DEF P
  <2> QED
    BY <2>1, <2>2
<1>9. Len(x) \in Nat /\ Len(y) \in Nat
  BY <1>2
<1>10. Len(x) = Len(y) \/ Len(x) < Len(y) \/ Len(y) < Len(x)
  BY <1>9
<1>3. CASE P = {}
  <2>1. c = Sign(Len(x), Len(y))
    BY <1>3 DEF LeastOr
  <2>0. (\A n \in 1..Len(x) : x[n] > 0 /\ x[n] \in Int)
        /\ (\A n \in 1..Len(y) : y[n] > 0 /\ y[n] \in Int)
    BY <1>2 DEF Zero
  <2>2. \A n \in 1..Len(x) : n <= Len(y) => x[n] = y[n]
    BY <1>2, <1>3
  <2> DEFINE l == IF Len(x) < Len(y) THEN Len(x) ELSE Len(y)
  <2>3. l \in Nat /\ \A m \in 0..(l - 1) : Marks(x, y)[m] = 0
    BY <1>2, <2>2 DEF Marks, Mark, Sign, Zero
  <2> HIDE DEF P, c
  <2>4. CASE Len(x) = Len(y)
    <3>1. c = 0
      BY <2>1, <2>4, <1>2 DEF Sign
    <3>2. \A n \in Nat : Mark(x, n) = Mark(y, n) /\ Mark(x, n) \in Int
      BY <1>2, <2>2, <2>4 DEF Mark, Zero
    <3>3. \A n \in Nat : Marks(x, y)[n] = 0
      BY <3>2 DEF Marks, Sign
    <3> QED
      BY <3>1, <3>3, <1>0 DEF Leads, Signs, x, y
  <2>5. CASE Len(x) # Len(y)
    <3>1. c \in Signs /\ c # 0
      BY <2>1, <2>5, <1>9, <1>10 DEF Sign, Signs
    <3>2. Mark(x, l) = (IF Len(x) < Len(y) THEN 0 ELSE x[l + 1])
          /\ Mark(y, l) = (IF Len(x) < Len(y) THEN y[l + 1] ELSE 0)
      <4>1. Len(x) < Len(y) \/ Len(y) < Len(x)
        BY <1>10, <2>5
      <4> QED
        BY <4>1, <1>2 DEF Mark
    <3>3. (Len(x) < Len(y) => y[l + 1] > 0 /\ y[l + 1] \in Int)
          /\ (Len(y) < Len(x) => x[l + 1] > 0 /\ x[l + 1] \in Int)
      <4>1. Len(x) < Len(y) => l + 1 \in 1..Len(y)
        BY <1>2
      <4>2. Len(y) < Len(x) => l + 1 \in 1..Len(x)
        BY <1>2
      <4> HIDE DEF l
      <4> QED
        BY <4>1, <4>2, <2>0
    <3>4. Marks(x, y)[l] = c
      <4>1. Marks(x, y)[l] = Sign(Mark(x, l), Mark(y, l))
        BY <2>3 DEF Marks
      <4>2. Len(x) < Len(y) \/ Len(y) < Len(x)
        BY <1>10, <2>5
      <4> HIDE DEF l
      <4> QED
        BY <2>1, <4>1, <4>2, <3>2, <3>3, <1>2 DEF Sign
    <3> HIDE DEF l
    <3> QED
      BY <2>3, <3>1, <3>4, <1>0 DEF Leads, x, y
  <2> QED
    BY <2>4, <2>5
<1>4. CASE P # {}
  <2>1. i \in P /\ \A j \in P : i <= j
    <3> HIDE DEF P
    <3> QED
      BY <1>4, <1>2, LeastOrIs
  <2>2. i # 0
    <3> HIDE DEF P, i
    <3> QED
      BY <2>1, <1>2
  <2>3. i \in 1..Len(x) /\ i \in 1..Len(y) /\ x[i] # y[i]
    <3>1. \A j \in P : j \in DOMAIN x /\ j \in DOMAIN y /\ x[j] # y[j]
      OBVIOUS
    <3> HIDE DEF P, i
    <3> QED
      BY <2>1, <3>1, <1>2
  <2>4. \A m \in 1..(i - 1) : x[m] = y[m]
    <3>1. \A m \in DOMAIN x \cap DOMAIN y : x[m] = y[m] \/ m \in P
      OBVIOUS
    <3> HIDE DEF P, i
    <3> QED
      BY <2>1, <2>3, <3>1, <1>2
  <2>5. c = Sign(x[i], y[i])
    BY <2>2
  <2> HIDE DEF P, i, c
  <2>6. i - 1 \in Nat /\ Marks(x, y)[i - 1] = c
    BY <2>3, <2>5 DEF Marks, Mark
  <2>7. c \in Signs /\ c # 0
    BY <2>3, <2>5, <1>2 DEF Sign, Signs, Zero
  <2>8. \A m \in 0..(i - 1 - 1) : Marks(x, y)[m] = 0
    <3> TAKE m \in 0..(i - 1 - 1)
    <3>1. m \in Nat /\ m + 1 \in 1..(i - 1) /\ m < Len(x) /\ m < Len(y)
      BY <2>3
    <3>2. Mark(x, m) = x[m + 1] /\ Mark(y, m) = y[m + 1] /\ x[m + 1] = y[m + 1] /\ x[m + 1] \in Int
      BY <3>1, <2>4, <1>2 DEF Mark, Zero
    <3> QED
      BY <3>1, <3>2 DEF Marks, Sign
  <2> QED
    BY <2>6, <2>7, <2>8, <1>0 DEF Leads, x, y
<1> QED
  BY <1>3, <1>4

LEMMA LeftIs ==
  ASSUME NEW a \in Text, NEW b \in Text, NEW c \in Text
  PROVE  /\ compare_left(a, b) \in Signs
         /\ compare_left(b, a) = -compare_left(a, b)
         /\ Composes(compare_left(a, b), compare_left(b, c), compare_left(a, c))
<1> DEFINE
      x == Digits(a)
      y == Digits(b)
      z == Digits(c)
<1>1. x \in Numeral /\ y \in Numeral /\ z \in Numeral
  BY DigitsIs
<1>2. Leads(Marks(x, y), compare_left(a, b)) /\ compare_left(a, b) \in Signs
  BY LeftLeads
<1>3. Leads(Marks(y, x), compare_left(b, a)) /\ compare_left(b, a) \in Signs
  BY LeftLeads
<1>4. Leads(Marks(y, z), compare_left(b, c)) /\ compare_left(b, c) \in Signs
  BY LeftLeads
<1>5. Leads(Marks(x, z), compare_left(a, c)) /\ compare_left(a, c) \in Signs
  BY LeftLeads
<1> HIDE DEF x, y, z
<1>6. ASSUME NEW n \in Nat
      PROVE  /\ Marks(x, y)[n] \in Signs /\ Marks(y, x)[n] = -Marks(x, y)[n]
             /\ Composes(Marks(x, y)[n], Marks(y, z)[n], Marks(x, z)[n])
  <2>1. Mark(x, n) \in Int /\ Mark(y, n) \in Int /\ Mark(z, n) \in Int
    BY <1>1, MarkIs
  <2> QED
    BY <2>1, SignIs DEF Marks
<1>7. compare_left(b, a) = -compare_left(a, b)
  BY <1>2, <1>3, <1>6, LeadOpposite
<1>8. Composes(compare_left(a, b), compare_left(b, c), compare_left(a, c))
  BY <1>2, <1>4, <1>5, <1>6, LeadComposes
<1> QED
  BY <1>2, <1>7, <1>8

(* Whole numbers: the length first.                                         *)
LEMMA RightIs ==
  ASSUME NEW a \in Text, NEW b \in Text, NEW c \in Text
  PROVE  /\ compare_right(a, b) \in Signs
         /\ compare_right(b, a) = -compare_right(a, b)
         /\ Composes(compare_right(a, b), compare_right(b, c), compare_right(a, c))
<1>1. Len(Digits(a)) \in Nat /\ Len(Digits(b)) \in Nat /\ Len(Digits(c)) \in Nat
  BY DigitsIs DEF Numeral
<1>2. /\ compare_left(a, b) \in Signs /\ compare_left(b, a) = -compare_left(a, b)
      /\ Composes(compare_left(a, b), compare_left(b, c), compare_left(a, c))
  BY LeftIs
<1> QED
  BY <1>1, <1>2 DEF compare_right, Sign, Signs, Composes

-----------------------------------------------------------------------------
(* Numbers: where one of two that differ in their first digit begins with   *)
(* a zero, that digit tells; and what begins alike has the same digit.      *)
Numbered(a) == IsDigit(First(a))

Run(a, b) == IF IsFractional(a, b) THEN compare_left(a, b) ELSE compare_right(a, b)

LEMMA LeftByFirst ==
  ASSUME NEW a \in Text, NEW b \in Text, Numbered(a), Numbered(b), First(a) # First(b)
  PROVE  compare_left(a, b) = Sign(First(a), First(b))
<1> DEFINE
      x == Digits(a)
      y == Digits(b)
      p == Sign(First(a), First(b))
<1>1. First(a) \in Int /\ First(b) \in Int
  BY DEF Numbered, IsDigit, Zero
<1>2. Len(x) > 0 /\ Len(y) > 0 /\ x[1] = First(a) /\ y[1] = First(b)
  BY DigitsIs DEF Numbered
<1>3. Marks(x, y)[0] = p
  BY <1>2 DEF Marks, Mark
<1>4. p \in Signs /\ p # 0
  BY <1>1, SignIs
<1>5. Leads(Marks(x, y), compare_left(a, b))
  BY LeftLeads
<1> HIDE DEF x, y, p
<1>6. Leads(Marks(x, y), p)
  <2>1. \A m \in 0..(0 - 1) : Marks(x, y)[m] = 0
    OBVIOUS
  <2> QED
    BY <1>3, <1>4, <2>1 DEF Leads
<1>7. compare_left(a, b) = p
  BY <1>5, <1>6, LeadOfSame
<1> QED
  BY <1>7 DEF p

LEMMA RunIs ==
  ASSUME NEW a \in Text, NEW b \in Text, NEW c \in Text, Numbered(a), Numbered(b), Numbered(c)
  PROVE  /\ Run(a, b) \in Signs /\ Run(b, a) = -Run(a, b)
         /\ Composes(Run(a, b), Run(b, c), Run(a, c))
         /\ Run(a, b) = 0 => First(a) = First(b)
<1>1. /\ compare_left(a, b) \in Signs /\ compare_left(b, a) = -compare_left(a, b)
      /\ Composes(compare_left(a, b), compare_left(b, c), compare_left(a, c))
  BY LeftIs
<1>2. /\ compare_right(a, b) \in Signs /\ compare_right(b, a) = -compare_right(a, b)
      /\ Composes(compare_right(a, b), compare_right(b, c), compare_right(a, c))
  BY RightIs
<1>3. /\ First(a) # First(b) => compare_left(a, b) = Sign(First(a), First(b))
      /\ First(b) # First(c) => compare_left(b, c) = Sign(First(b), First(c))
      /\ First(a) # First(c) => compare_left(a, c) = Sign(First(a), First(c))
  BY LeftByFirst
<1>4. First(a) \in Zero..57 /\ First(b) \in Zero..57 /\ First(c) \in Zero..57
  BY DEF Numbered, IsDigit
<1>5. Run(a, b) = 0 => First(a) = First(b)
  <2> SUFFICES ASSUME Run(a, b) = 0, First(a) # First(b) PROVE FALSE
    OBVIOUS
  <2>1. compare_left(a, b) # 0
    BY <1>3, <1>4 DEF Sign, Zero
  <2> QED
    BY <2>1 DEF Run, compare_right, Sign
<1>6. Run(a, b) \in Signs /\ Run(b, a) = -Run(a, b)
  BY <1>1, <1>2 DEF Run, IsFractional
<1>7. Composes(Run(a, b), Run(b, c), Run(a, c))
  <2>1. CASE \/ First(a) = Zero /\ First(b) = Zero
             \/ First(b) = Zero /\ First(c) = Zero
             \/ First(a) = Zero /\ First(c) = Zero
    BY <2>1, <1>1, <1>3, <1>4 DEF Run, IsFractional, Sign, Composes, Zero
  <2>2. CASE First(a) # Zero /\ First(b) # Zero /\ First(c) # Zero
    BY <2>2, <1>2 DEF Run, IsFractional
  <2>3. CASE First(a) = Zero /\ First(b) # Zero /\ First(c) # Zero
    BY <2>3, <1>2, <1>3, <1>4 DEF Run, IsFractional, Sign, Composes, Zero, Signs
  <2>4. CASE First(a) # Zero /\ First(b) = Zero /\ First(c) # Zero
    BY <2>4, <1>2, <1>3, <1>4 DEF Run, IsFractional, Sign, Composes, Zero, Signs
  <2>5. CASE First(a) # Zero /\ First(b) # Zero /\ First(c) = Zero
    BY <2>5, <1>2, <1>3, <1>4 DEF Run, IsFractional, Sign, Composes, Zero, Signs
  <2> QED
    BY <2>1, <2>2, <2>3, <2>4, <2>5
<1> QED
  BY <1>5, <1>6, <1>7

(* A letter stays a letter, so a digit is on one side of all the others.    *)
LEMMA RoundIs ==
  ASSUME NEW a \in Text, NEW b \in Text, NEW c \in Text
  PROVE  /\ Round(a, b) \in Signs /\ Round(b, a) = -Round(a, b)
         /\ Composes(Round(a, b), Round(b, c), Round(a, c))
<1> DEFINE
      u(t) == ToUpper(First(t))
      between(s, t) == Sign(u(s), u(t))
<1>1. ASSUME NEW t \in Text
      PROVE  /\ u(t) \in Int
             /\ Numbered(t) => u(t) \in Zero..57
             /\ ~Numbered(t) => u(t) < Zero \/ u(t) > 57
  <2>1. First(t) \in Int
    BY <1>1 DEF First, Text
  <2> QED
    BY <2>1 DEF ToUpper, Numbered, IsDigit, Zero
<1>2. ASSUME NEW s \in Text, NEW t \in Text
      PROVE  Round(s, t) = IF Numbered(s) /\ Numbered(t) THEN Run(s, t) ELSE between(s, t)
  <2>1. CASE Numbered(s) /\ Numbered(t)
    <3>1. Run(s, t) = 0 => First(s) = First(t)
      BY <2>1, RunIs
    <3>2. Run(s, t) = 0 => between(s, t) = 0
      BY <3>1, <1>1, SignIs
    <3>3. Round(s, t) = IF Run(s, t) # 0 THEN Run(s, t) ELSE between(s, t)
      BY <2>1 DEF Round, Run, Numbered
    <3> HIDE DEF between
    <3> QED
      BY <2>1, <3>2, <3>3
  <2>2. CASE ~(Numbered(s) /\ Numbered(t))
    BY <2>2 DEF Round, Numbered
  <2> QED
    BY <2>1, <2>2
<1>3. ASSUME NEW s \in Text, NEW t \in Text
      PROVE  Round(s, t) \in Signs /\ Round(t, s) = -Round(s, t)
  <2>1. CASE Numbered(s) /\ Numbered(t)
    BY <2>1, <1>2, RunIs
  <2>2. CASE ~(Numbered(s) /\ Numbered(t))
    <3>1. between(s, t) \in Signs /\ between(t, s) = -between(s, t)
      BY <1>1, SignIs
    <3> HIDE DEF between
    <3> QED
      BY <2>2, <3>1, <1>2
  <2> QED
    BY <2>1, <2>2
<1>4. /\ u(a) \in Int /\ u(b) \in Int /\ u(c) \in Int
      /\ Numbered(a) => u(a) \in Zero..57
      /\ ~Numbered(a) => u(a) < Zero \/ u(a) > 57
      /\ Numbered(b) => u(b) \in Zero..57
      /\ ~Numbered(b) => u(b) < Zero \/ u(b) > 57
      /\ Numbered(c) => u(c) \in Zero..57
      /\ ~Numbered(c) => u(c) < Zero \/ u(c) > 57
  BY <1>1
<1>5. Composes(Round(a, b), Round(b, c), Round(a, c))
  <2>1. CASE Numbered(a) /\ Numbered(b) /\ Numbered(c)
    <3>1. Composes(Run(a, b), Run(b, c), Run(a, c))
      BY <2>1, RunIs
    <3> QED
      BY <2>1, <3>1, <1>2
  <2> DEFINE
        p == Round(a, b)
        q == Round(b, c)
        r == Round(a, c)
  <2>2. p \in Signs /\ q \in Signs /\ r \in Signs
    BY <1>3
  <2>a. ~Numbered(a) => p = between(a, b) /\ r = between(a, c)
    BY <1>2
  <2>b. ~Numbered(b) => p = between(a, b) /\ q = between(b, c)
    BY <1>2
  <2>c. ~Numbered(c) => q = between(b, c) /\ r = between(a, c)
    BY <1>2
  <2> HIDE DEF u, p, q, r
  <2>3. CASE ~Numbered(a) /\ Numbered(b) /\ Numbered(c)
    BY <2>2, <2>3, <2>a, <1>4 DEF Sign, Signs, Composes, Zero, p, q, r
  <2>4. CASE Numbered(a) /\ ~Numbered(b) /\ Numbered(c)
    BY <2>2, <2>4, <2>b, <1>4 DEF Sign, Signs, Composes, Zero, p, q, r
  <2>5. CASE Numbered(a) /\ Numbered(b) /\ ~Numbered(c)
    BY <2>2, <2>5, <2>c, <1>4 DEF Sign, Signs, Composes, Zero, p, q, r
  <2>6. CASE ~(Numbered(a) /\ Numbered(b)) /\ ~(Numbered(b) /\ Numbered(c))
             /\ ~(Numbered(a) /\ Numbered(c))
    <3>1. p = between(a, b) /\ q = between(b, c) /\ r = between(a, c)
      BY <2>6, <1>2 DEF p, q, r
    <3> QED
      BY <3>1, <1>4 DEF Sign, Composes, p, q, r
  <2> QED
    BY <2>1, <2>3, <2>4, <2>5, <2>6
<1> QED
  BY <1>3, <1>5

-----------------------------------------------------------------------------
(* Every round takes a character off what is left.                          *)
LEMMA RoundsAre ==
  ASSUME NEW s \in Text, NEW n \in Nat
  PROVE  /\ Rounds(s)[n] \in Text
         /\ n >= Len(s) => Rounds(s)[n] = <<>>
         /\ Rounds(s)[n] = <<>> => Rounds(s)[n + 1] = <<>>
<1> DEFINE
      v == SkipSpaces(s)
      g == [p \in Nat \X Text |-> SkipSpaces(From(p[2], 2))]
      body(f) == [i \in Nat |-> SkipSpaces(IF i = 0 THEN s ELSE From(f[i - 1], 2))]
      L == CHOOSE f : f = body(f)
<1>1. v \in Text /\ Len(v) <= Len(s)
  BY SkipSpacesIs
<1>2. \A t \in Text : /\ SkipSpaces(From(t, 2)) \in Text
                      /\ Len(SkipSpaces(From(t, 2))) <= IF 2 <= Len(t) THEN Len(t) - 1 ELSE 0
  <2> TAKE t \in Text
  <2>1. From(t, 2) \in Text /\ Len(From(t, 2)) = IF 2 <= Len(t) THEN Len(t) - 2 + 1 ELSE 0
    <3>1. 2 \in Nat \ {0}
      OBVIOUS
    <3> QED
      BY <3>1, FromIs
  <2>2. SkipSpaces(From(t, 2)) \in Text /\ Len(SkipSpaces(From(t, 2))) <= Len(From(t, 2))
    BY <2>1, SkipSpacesIs
  <2>3. Len(t) \in Nat /\ Len(From(t, 2)) \in Nat /\ Len(SkipSpaces(From(t, 2))) \in Nat
    BY <2>1, <2>2 DEF Text
  <2> QED
    BY <2>1, <2>2, <2>3
<1>3. g \in [Nat \X Text -> Text]
  BY <1>2
<1>4. PICK f : Recursive(Text, v, g, f)
  <2> HIDE DEF v, g
  <2> QED
    BY <1>1, <1>3, RecursionOnNat
<1>5. f = body(f)
  <2>1. f \in [Nat -> Text] /\ f[0] = v
    BY <1>4 DEF Recursive
  <2>2. ASSUME NEW i \in Nat \ {0} PROVE f[i] = SkipSpaces(From(f[i - 1], 2))
    <3>1. i - 1 \in Nat /\ f[i - 1] \in Text
      BY <2>1
    <3>2. f[i] = g[<<i, f[i - 1]>>]
      BY <1>4 DEF Recursive
    <3> QED
      BY <3>1, <3>2
  <2>3. \A i \in Nat : f[i] = SkipSpaces(IF i = 0 THEN s ELSE From(f[i - 1], 2))
    BY <2>1, <2>2
  <2> QED
    BY <2>1, <2>3
<1>6. L = body(L)
  <2> HIDE DEF body
  <2> QED
    BY <1>5
<1>7. Rounds(s) = L
  BY DEF Rounds
<1>8. L[0] = v /\ \A i \in Nat : L[i + 1] = SkipSpaces(From(L[i], 2))
  <2>1. \A i \in Nat : L[i] = SkipSpaces(IF i = 0 THEN s ELSE From(L[i - 1], 2))
    <3> HIDE DEF L
    <3> QED
      BY <1>6
  <2>2. L[0] = v
    BY <2>1
  <2>3. ASSUME NEW i \in Nat PROVE L[i + 1] = SkipSpaces(From(L[i], 2))
    <3>1. i + 1 \in Nat /\ i + 1 # 0 /\ (i + 1) - 1 = i
      OBVIOUS
    <3> HIDE DEF L
    <3> QED
      BY <2>1, <3>1
  <2> QED
    BY <2>2, <2>3
<1> HIDE DEF L, v, body
<1> DEFINE S == {i \in Nat : L[i] \in Text /\ Len(L[i]) <= IF i <= Len(s) THEN Len(s) - i ELSE 0}
<1>9. S = Nat
  <2>0. Len(s) \in Nat
    BY DEF Text
  <2>1. 0 \in S
    <3>1. L[0] \in Text /\ Len(L[0]) <= Len(s) /\ 0 <= Len(s) /\ Len(s) - 0 = Len(s)
      BY <2>0, <1>1, <1>8
    <3> QED
      BY <3>1
  <2>2. ASSUME NEW i \in S PROVE i + 1 \in S
    <3>1. i \in Nat /\ L[i] \in Text /\ Len(L[i]) <= IF i <= Len(s) THEN Len(s) - i ELSE 0
      OBVIOUS
    <3>2. L[i + 1] \in Text /\ Len(L[i + 1]) <= IF 2 <= Len(L[i]) THEN Len(L[i]) - 1 ELSE 0
      BY <1>2, <1>8, <3>1
    <3>3. Len(L[i]) \in Nat /\ Len(L[i + 1]) \in Nat
      <4>1. \A u \in Text : Len(u) \in Nat
        BY DEF Text
      <4> QED
        BY <3>1, <3>2, <4>1, Zenon
    <3>4. Len(L[i + 1]) <= IF i + 1 <= Len(s) THEN Len(s) - (i + 1) ELSE 0
      BY <2>0, <3>1, <3>2, <3>3
    <3> QED
      BY <3>1, <3>2, <3>4
  <2> HIDE DEF S
  <2>3. S \in SUBSET Nat
    BY DEF S
  <2> QED
    BY <2>1, <2>2, <2>3, NaturalInduction
<1>10. n \in S /\ Len(s) \in Nat
  BY <1>9 DEF Text
<1>11. L[n] \in Text /\ Len(L[n]) \in Nat
  BY <1>10 DEF Text
<1>12. n >= Len(s) => Len(L[n]) = 0
  BY <1>10, <1>11
<1>13. ASSUME L[n] = <<>> PROVE L[n + 1] = <<>>
  <2>0. Len(L[n]) = 0
    BY <1>13
  <2>1. L[n + 1] \in Text /\ Len(L[n + 1]) <= 0
    <3>1. L[n + 1] = SkipSpaces(From(L[n], 2)) /\ ~(2 <= Len(L[n]))
      BY <1>8, <2>0
    <3> QED
      BY <1>2, <1>11, <3>1
  <2>2. Len(L[n + 1]) \in Nat
    BY <2>1 DEF Text
  <2> QED
    BY <2>1, <2>2 DEF Text
<1> QED
  BY <1>7, <1>11, <1>12, <1>13 DEF Text

(* The signs of all the rounds, which are 0 when both strings are over.     *)
RoundSigns(s, t) == [n \in Nat |-> Round(Rounds(s)[n], Rounds(t)[n])]

LEMMA OverIsOver == ASSUME NEW t \in Text, Round(<<>>, t) = 0 PROVE t = <<>>
<1>1. First(t) \in Int /\ (t # <<>> => First(t) # 0) /\ First(<<>>) = 0
  BY DEF First, Text
<1>3. \A c \in Int : ToUpper(c) \in Int /\ (ToUpper(c) = 0 <=> c = 0)
  BY DEF ToUpper
<1>2. Round(<<>>, t) = Sign(ToUpper(0), ToUpper(First(t)))
  BY <1>1 DEF Round, IsDigit, Zero
<1>4. ToUpper(0) = 0
  BY <1>3
<1> QED
  BY <1>1, <1>2, <1>3, <1>4 DEF Sign

LEMMA ComparisonLeads ==
  ASSUME NEW s \in Text, NEW t \in Text
  PROVE  strnatcmp0(s, t) \in Signs /\ Leads(RoundSigns(s, t), strnatcmp0(s, t))
<1> DEFINE
      round(n) == Round(Rounds(s)[n], Rounds(t)[n])
      P == {n \in 0..Len(s) : round(n) # 0}
      k == LeastOr(P, Len(s))
<1>1. strnatcmp0(s, t) = round(k)
  BY DEF strnatcmp0
<1>2. \A n \in Nat : round(n) \in Signs /\ RoundSigns(s, t)[n] = round(n)
  BY RoundsAre, RoundIs DEF RoundSigns
<1>3. Len(s) \in Nat /\ P \in SUBSET Nat
  BY DEF Text
<1>4. CASE P = {}
  <2>1. k = Len(s) /\ \A n \in 0..Len(s) : round(n) = 0
    BY <1>4 DEF LeastOr
  <2>2. round(Len(s)) = 0 /\ Rounds(s)[Len(s)] = <<>> /\ Rounds(t)[Len(s)] \in Text
    BY <2>1, <1>3, RoundsAre
  <2>3. ASSUME NEW n \in Nat PROVE round(n) = 0
    <3>1. CASE n <= Len(s)
      BY <3>1, <2>1
    <3>2. CASE n > Len(s)
      <4> DEFINE E == {m \in Nat : m >= Len(s) => Rounds(t)[m] = <<>>}
      <4>1. Rounds(t)[Len(s)] = <<>>
        BY <2>2, OverIsOver
      <4>2. 0 \in E
        BY <4>1, <1>3
      <4>3. ASSUME NEW m \in E PROVE m + 1 \in E
        BY <4>1, <1>3, RoundsAre
      <4>4. E = Nat
        <5>1. E \in SUBSET Nat
          OBVIOUS
        <5> HIDE DEF E
        <5> QED
          BY <4>2, <4>3, <5>1, NaturalInduction
      <4>5. n \in E
        BY <4>4
      <4>6. Rounds(t)[n] = <<>> /\ Rounds(s)[n] = <<>>
        BY <4>5, <3>2, <1>3, RoundsAre
      <4>7. Round(<<>>, <<>>) = 0
        BY <2>2, <4>1
      <4> QED
        BY <4>6, <4>7
    <3> QED
      BY <3>1, <3>2, <1>3
  <2> QED
    BY <2>1, <2>3, <1>1, <1>2 DEF Leads, Signs
<1>5. CASE P # {}
  <2>1. k \in P /\ \A j \in P : k <= j
    <3> HIDE DEF P
    <3> QED
      BY <1>5, <1>3, LeastOrIs
  <2>2. k \in Nat /\ round(k) # 0 /\ k <= Len(s)
    <3> HIDE DEF k
    <3> QED
      BY <2>1, <1>3
  <2>3. \A m \in 0..(k - 1) : round(m) = 0
    <3>1. \A m \in 0..Len(s) : round(m) = 0 \/ m \in P
      OBVIOUS
    <3> HIDE DEF P, k, round
    <3> QED
      BY <2>1, <2>2, <3>1, <1>3
  <2> HIDE DEF P, k, round
  <2> QED
    BY <2>2, <2>3, <1>1, <1>2 DEF Leads
<1> QED
  BY <1>4, <1>5

LEMMA ComparisonIs ==
  ASSUME NEW a \in Text, NEW b \in Text, NEW c \in Text
  PROVE  /\ strnatcmp0(a, b) \in Signs
         /\ strnatcmp0(b, a) = -strnatcmp0(a, b)
         /\ Composes(strnatcmp0(a, b), strnatcmp0(b, c), strnatcmp0(a, c))
<1>1. Leads(RoundSigns(a, b), strnatcmp0(a, b)) /\ strnatcmp0(a, b) \in Signs
  BY ComparisonLeads
<1>2. Leads(RoundSigns(b, a), strnatcmp0(b, a)) /\ strnatcmp0(b, a) \in Signs
  BY ComparisonLeads
<1>3. Leads(RoundSigns(b, c), strnatcmp0(b, c)) /\ strnatcmp0(b, c) \in Signs
  BY ComparisonLeads
<1>4. Leads(RoundSigns(a, c), strnatcmp0(a, c)) /\ strnatcmp0(a, c) \in Signs
  BY ComparisonLeads
<1>5. ASSUME NEW n \in Nat
      PROVE  /\ RoundSigns(a, b)[n] \in Signs /\ RoundSigns(b, a)[n] = -RoundSigns(a, b)[n]
             /\ Composes(RoundSigns(a, b)[n], RoundSigns(b, c)[n], RoundSigns(a, c)[n])
  <2>1. Rounds(a)[n] \in Text /\ Rounds(b)[n] \in Text /\ Rounds(c)[n] \in Text
    BY RoundsAre
  <2> QED
    BY <2>1, RoundIs DEF RoundSigns
<1>6. strnatcmp0(b, a) = -strnatcmp0(a, b)
  BY <1>1, <1>2, <1>5, LeadOpposite
<1>7. Composes(strnatcmp0(a, b), strnatcmp0(b, c), strnatcmp0(a, c))
  BY <1>1, <1>3, <1>4, <1>5, LeadComposes
<1> QED
  BY <1>1, <1>6, <1>7

(* The sign at hand is that of the two strings at hand.                     *)
OrderInv ==
    /\ compared.a \in Strings /\ compared.b \in Strings
    /\ compared.sign = Untold \/ compared.sign = Order[<<compared.a, compared.b>>]

(* ... of every comparison that strnatcmp and strnatcasecmp make.           *)
THEOREM OrderInductive == OrderSpec => []OrderInv
<1>1. OrderInit => OrderInv
  BY DEF OrderInit, OrderInv
<1>2. OrderInv /\ [OrderNext]_compared => OrderInv'
  <2> SUFFICES ASSUME OrderInv, [OrderNext]_compared PROVE OrderInv'
    OBVIOUS
  <2>1. ASSUME NEW b \in Strings, Compare(b) PROVE OrderInv'
    <3>1. PICK a \in {compared.a, compared.b} :
              compared' = [a |-> a, b |-> b, sign |-> Order[<<a, b>>]]
      BY <2>1 DEF Compare
    <3>2. a \in Strings
      BY DEF OrderInv
    <3>3. compared'.a = a /\ compared'.b = b /\ compared'.sign = Order[<<a, b>>]
      BY <3>1
    <3> QED
      BY <3>2, <3>3 DEF OrderInv
  <2>2. CASE UNCHANGED compared
    BY <2>2 DEF OrderInv
  <2> QED
    BY <2>1, <2>2 DEF OrderNext
<1> QED
  BY <1>1, <1>2, PTL DEF OrderSpec

(* Whichever two strings natsort or natcasesort compares, and whatever they *)
(* are: the comparison of strnatcmp.c is the other one's negative the other *)
(* way round, and what follows from two comparisons is what the third says. *)
THEOREM ComparisonsAreAnOrder == OrderSpec => []SortsByOrder
<1>1. OrderInv => SortsByOrder
  <2> SUFFICES ASSUME OrderInv, compared.sign # Untold PROVE SortsByOrder
    BY DEF SortsByOrder
  <2> DEFINE
        a == compared.a
        b == compared.b
  <2>1. a \in Strings /\ b \in Strings /\ Strings \subseteq Text
    BY OrderAssumption DEF OrderInv, Text
  <2>2. \A x \in Strings, y \in Strings : Order[<<x, y>>] = strnatcmp0(x, y)
    BY DEF Order
  <2>3. compared.sign = strnatcmp0(a, b)
    BY <2>1, <2>2 DEF OrderInv
  <2>4. Order[<<b, a>>] = -compared.sign
    <3>1. a \in Text /\ b \in Text
      BY <2>1
    <3>2. strnatcmp0(b, a) = -strnatcmp0(a, b)
      BY <3>1, ComparisonIs
    <3> QED
      BY <2>1, <2>2, <2>3, <3>2
  <2>5. ASSUME NEW c \in Strings, compared.sign <= 0, Order[<<b, c>>] <= 0
        PROVE  Order[<<a, c>>] <= 0 /\ (Order[<<a, c>>] = 0 => compared.sign = 0 /\ Order[<<b, c>>] = 0)
    <3> DEFINE
          p == strnatcmp0(a, b)
          q == strnatcmp0(b, c)
          r == strnatcmp0(a, c)
    <3>1. p \in Signs /\ q \in Signs /\ r \in Signs /\ Composes(p, q, r)
      BY <2>1, ComparisonIs
    <3>2. Order[<<b, c>>] = q /\ Order[<<a, c>>] = r /\ compared.sign = p
      BY <2>1, <2>2, <2>3
    <3> HIDE DEF p, q, r
    <3> QED
      BY <3>1, <3>2, <2>5 DEF Signs, Composes
  <2> QED
    BY <2>4, <2>5 DEF SortsByOrder
<1> QED
  BY <1>1, OrderInductive, PTL

-----------------------------------------------------------------------------
(* Binary strings in SQL text.                                              *)

(* Remainders of what is less than twice the divisor, and of a byte less    *)
(* an offset.                                                               *)
LEMMA SmallRemainder ==
  ASSUME NEW b \in Nat \ {0}, NEW x \in Int, x >= -b, x < 2 * b
  PROVE  x % b = IF x < 0 THEN x + b ELSE IF x < b THEN x ELSE x - b
<1>1. CASE x < 0
  <2>1. x + b \in 0..(b - 1) /\ x = b * (-1) + (x + b)
    BY <1>1
  <2> QED
    BY <1>1, <2>1, Z3
<1>2. CASE x >= 0 /\ x < b
  BY <1>2, Z3
<1>3. CASE x >= b
  <2>1. x - b \in 0..(b - 1) /\ x = b * 1 + (x - b)
    BY <1>3
  <2> QED
    BY <1>3, <2>1, Z3
<1> QED
  BY <1>1, <1>2, <1>3

LEMMA Shifted ==
  ASSUME NEW x \in Byte, NEW e \in Byte
  PROVE  /\ (x - e) % Bytes \in Byte
         /\ (((x - e) % Bytes) + e) % Bytes = x
         /\ \A d \in Byte : (x - e) % Bytes = d <=> x = (e + d) % Bytes
<1>1. Bytes \in Nat \ {0} /\ x \in 0..(Bytes - 1) /\ e \in 0..(Bytes - 1)
  BY BinaryAssumption DEF Byte
<1>2. (x - e) % Bytes = IF x < e THEN x - e + Bytes ELSE x - e
  <2>1. x - e \in Int /\ x - e >= -Bytes /\ x - e < 2 * Bytes
    BY <1>1
  <2>2. (x - e) % Bytes = IF x - e < 0 THEN x - e + Bytes
                          ELSE IF x - e < Bytes THEN x - e ELSE x - e - Bytes
    BY <1>1, <2>1, SmallRemainder
  <2> QED
    BY <1>1, <2>2
<1>3. \A d \in Byte : (e + d) % Bytes = IF e + d < Bytes THEN e + d ELSE (e + d) - Bytes
  <2> TAKE d \in Byte
  <2>0. d \in 0..(Bytes - 1)
    BY DEF Byte
  <2>1. e + d \in Int /\ e + d >= -Bytes /\ e + d < 2 * Bytes /\ ~(e + d < 0)
    BY <1>1, <2>0
  <2> DEFINE z == e + d
  <2>2. z % Bytes = IF z < 0 THEN z + Bytes ELSE IF z < Bytes THEN z ELSE z - Bytes
    <3>1. z \in Int /\ z >= -Bytes /\ z < 2 * Bytes
      BY <2>1
    <3> HIDE DEF z
    <3> QED
      BY <1>1, <3>1, SmallRemainder
  <2>3. z % Bytes = IF z < Bytes THEN z ELSE z - Bytes
    <3>1. ~(z < 0)
      BY <2>1
    <3> HIDE DEF z
    <3> QED
      BY <2>2, <3>1
  <2> QED
    BY <2>3
<1>4. (x - e) % Bytes \in Byte
  BY <1>1, <1>2 DEF Byte
<1>5. \A d \in Byte : (x - e) % Bytes = d <=> x = (e + d) % Bytes
  BY <1>1, <1>2, <1>3 DEF Byte
<1>6. (((x - e) % Bytes) + e) % Bytes = x
  <2> DEFINE d == (x - e) % Bytes
  <2>1. x = (e + d) % Bytes /\ d \in Byte
    BY <1>4, <1>5
  <2> HIDE DEF d
  <2>2. e + d = d + e
    BY <1>1, <2>1 DEF Byte
  <2>3. (d + e) % Bytes = x
    BY <2>1, <2>2
  <2> QED
    BY <2>3 DEF d
<1> QED
  BY <1>4, <1>5, <1>6

-----------------------------------------------------------------------------
(* What was encoded, byte by byte.                                          *)
LEMMA EncodedIs ==
  ASSUME NEW s \in Seq(Byte), NEW e \in Byte
  PROVE  /\ Encoded(s, e)[0] = <<>>
         /\ \A n \in 1..Len(s) : Encoded(s, e)[n] = Encoded(s, e)[n - 1] \o EncodedByte((s[n] - e) % Bytes)
         /\ \A n \in 0..Len(s) : Encoded(s, e)[n] \in Seq(Byte)
<1> DEFINE
      l == Len(s)
      V == [n \in 0..l |-> Seq(Byte)]
      code(n) == EncodedByte((s[n] - e) % Bytes)
      g == [p \in (1..l) \X Seq(Byte) |-> p[2] \o code(p[1])]
      body(f) == [n \in 0..l |-> IF n = 0 THEN <<>> ELSE f[n - 1] \o code(n)]
      T == CHOOSE f : f = body(f)
<1>0. l \in Nat /\ \A n \in 1..l : s[n] \in Byte
  OBVIOUS
<1>1. \A n \in 1..l : code(n) \in Seq(Byte)
  <2> TAKE n \in 1..l
  <2> DEFINE b == (s[n] - e) % Bytes
  <2>1. b \in Byte
    BY <1>0, Shifted
  <2>2. b \in Special => b + 1 \in Byte /\ Escape \in Byte
    BY BinaryAssumption DEF Special, Escape, Byte
  <2> HIDE DEF b
  <2>3. EncodedByte(b) \in Seq(Byte)
    BY <2>1, <2>2 DEF EncodedByte
  <2> QED
    BY <2>3 DEF b
<1> HIDE DEF code
<1>2. \A n \in 1..l, x \in Seq(Byte) : g[<<n, x>>] = x \o code(n) /\ g[<<n, x>>] \in Seq(Byte)
  <2> TAKE n \in 1..l, x \in Seq(Byte)
  <2>1. x \o code(n) \in Seq(Byte)
    BY <1>1
  <2>2. g[<<n, x>>] = x \o code(n)
    OBVIOUS
  <2> QED
    BY <2>1, <2>2
<1>3. <<>> \in V[0] /\ \A n \in 1..l : \A x \in V[n - 1] : g[<<n, x>>] \in V[n]
  <2>1. 0 \in 0..l /\ \A n \in 1..l : n \in 0..l /\ n - 1 \in 0..l
    BY <1>0
  <2>2. <<>> \in Seq(Byte) /\ \A n \in 0..l : V[n] = Seq(Byte)
    OBVIOUS
  <2> HIDE DEF g, l, V
  <2> QED
    BY <1>2, <2>1, <2>2
<1>4. PICK f : Goes(f, <<>>, g, l) /\ \A n \in 0..l : f[n] \in V[n]
  <2> HIDE DEF V, g, l
  <2> QED
    BY <1>0, <1>3, RecursionWithin
<1>5. f = body(f)
  <2>1. f = [n \in 0..l |-> f[n]] /\ f[0] = <<>> /\ \A n \in 1..l : f[n] = g[<<n, f[n - 1]>>]
    BY <1>4 DEF Goes, UpTo
  <2>2. \A n \in 1..l : n - 1 \in 0..l /\ f[n - 1] \in Seq(Byte)
    BY <1>0, <1>4
  <2>3. \A n \in 1..l : f[n] = f[n - 1] \o code(n)
    <3> HIDE DEF g, l
    <3> QED
      BY <2>1, <2>2, <1>2
  <2>4. \A n \in 0..l : f[n] = IF n = 0 THEN <<>> ELSE f[n - 1] \o code(n)
    <3>1. f[0] = <<>> /\ \A n \in 0..l : n = 0 \/ n \in 1..l
      BY <1>0, <2>1
    <3> HIDE DEF g, l
    <3> QED
      BY <2>3, <3>1
  <2> HIDE DEF g, l
  <2> QED
    BY <2>1, <2>4
<1>6. T = body(T)
  <2> HIDE DEF body
  <2> QED
    BY <1>5
<1>7. Encoded(s, e) = T
  BY DEF Encoded, code
<1> HIDE DEF T
<1>8. \A n \in 0..l : T[n] = IF n = 0 THEN <<>> ELSE T[n - 1] \o code(n)
  BY <1>6
<1>9. T[0] = <<>> /\ \A n \in 1..l : T[n] = T[n - 1] \o code(n)
  <2> HIDE DEF l, body
  <2>1. 0 \in 0..l /\ \A n \in 1..l : n \in 0..l /\ n # 0
    BY <1>0
  <2> QED
    BY <1>8, <2>1
<1> DEFINE S == {n \in Nat : n <= l => T[n] \in Seq(Byte)}
<1>10. S = Nat
  <2> HIDE DEF l, body
  <2>1. 0 \in S
    <3>1. T[0] \in Seq(Byte)
      BY <1>9
    <3> QED
      BY <3>1
  <2>2. ASSUME NEW n \in S PROVE n + 1 \in S
    <3> SUFFICES ASSUME n + 1 <= l PROVE T[n + 1] \in Seq(Byte)
      OBVIOUS
    <3>1. n \in Nat /\ n + 1 \in 1..l /\ (n + 1) - 1 = n /\ T[n] \in Seq(Byte)
      BY <1>0
    <3>2. T[n + 1] = T[n] \o code(n + 1) /\ code(n + 1) \in Seq(Byte)
      BY <3>1, <1>1, <1>9
    <3> QED
      BY <3>1, <3>2
  <2>3. S \in SUBSET Nat
    OBVIOUS
  <2> HIDE DEF S
  <2> QED
    BY <2>1, <2>2, <2>3, NaturalInduction
<1>11. \A n \in 0..l : T[n] \in Seq(Byte)
  <2>1. \A n \in 0..l : n \in S
    BY <1>0, <1>10
  <2> QED
    BY <2>1
<1> QED
  BY <1>7, <1>9, <1>11 DEF code

(* And decoded.                                                             *)
Getting == [escaped : BOOLEAN, out : Seq(Byte)]

LEMMA DecodedByteIs ==
  ASSUME NEW got \in Getting, NEW c \in Byte, NEW e \in Byte
  PROVE  DecodedByte(got, c, e) \in Getting
<1>1. (c - 1 + e) % Bytes \in Byte /\ (c + e) % Bytes \in Byte
  <2>1. c - 1 + e \in Int /\ c + e \in Int /\ Bytes \in Nat \ {0}
    BY BinaryAssumption DEF Byte
  <2>2. \A x \in Int : x % Bytes \in 0..(Bytes - 1)
    BY <2>1
  <2> QED
    BY <2>1, <2>2 DEF Byte
<1>2. got.out \in Seq(Byte) /\ got.escaped \in BOOLEAN
      /\ got = [escaped |-> got.escaped, out |-> got.out]
  BY DEF Getting
<1>3. CASE got.escaped
  BY <1>1, <1>2, <1>3 DEF DecodedByte, Getting
<1>4. CASE ~got.escaped /\ c = Escape
  <2>1. DecodedByte(got, c, e) = [escaped |-> TRUE, out |-> got.out]
    BY <1>2, <1>4 DEF DecodedByte
  <2> QED
    BY <1>2, <2>1 DEF Getting
<1>5. CASE ~got.escaped /\ c # Escape
  <2>1. DecodedByte(got, c, e) = [escaped |-> got.escaped, out |-> Append(got.out, (c + e) % Bytes)]
    BY <1>2, <1>5 DEF DecodedByte
  <2> QED
    BY <1>1, <1>2, <2>1 DEF Getting
<1> QED
  BY <1>3, <1>4, <1>5

LEMMA DecodedIs ==
  ASSUME NEW c \in Seq(Byte), NEW e \in Byte
  PROVE  /\ Decoded(c, e)[0] = [escaped |-> FALSE, out |-> <<>>]
         /\ \A n \in 1..Len(c) : Decoded(c, e)[n] = DecodedByte(Decoded(c, e)[n - 1], c[n], e)
<1> DEFINE
      l == Len(c)
      v == [escaped |-> FALSE, out |-> <<>>]
      V == [n \in 0..l |-> Getting]
      g == [p \in (1..l) \X Getting |-> DecodedByte(p[2], c[p[1]], e)]
      body(f) == [n \in 0..l |-> IF n = 0 THEN v ELSE DecodedByte(f[n - 1], c[n], e)]
      T == CHOOSE f : f = body(f)
<1>0. l \in Nat /\ \A n \in 1..l : c[n] \in Byte
  OBVIOUS
<1>1. v \in Getting
  BY DEF Getting
<1>2. \A n \in 1..l, x \in Getting : g[<<n, x>>] = DecodedByte(x, c[n], e) /\ g[<<n, x>>] \in Getting
  BY <1>0, DecodedByteIs
<1>3. v \in V[0] /\ \A n \in 1..l : \A x \in V[n - 1] : g[<<n, x>>] \in V[n]
  <2>1. 0 \in 0..l /\ \A n \in 1..l : n \in 0..l /\ n - 1 \in 0..l
    BY <1>0
  <2> HIDE DEF g, l, v
  <2> QED
    BY <1>1, <1>2, <2>1
<1>4. PICK f : Goes(f, v, g, l) /\ \A n \in 0..l : f[n] \in V[n]
  <2> HIDE DEF V, g, l, v
  <2> QED
    BY <1>0, <1>3, RecursionWithin
<1>5. f = body(f)
  <2>1. f = [n \in 0..l |-> f[n]] /\ f[0] = v /\ \A n \in 1..l : f[n] = g[<<n, f[n - 1]>>]
    BY <1>4 DEF Goes, UpTo
  <2>2. \A n \in 1..l : n - 1 \in 0..l /\ f[n - 1] \in Getting
    BY <1>0, <1>4
  <2>4. \A n \in 0..l : f[n] = IF n = 0 THEN v ELSE DecodedByte(f[n - 1], c[n], e)
    <3> HIDE DEF g, l, v
    <3> QED
      BY <1>0, <1>2, <2>1, <2>2
  <2> HIDE DEF g, l, v
  <2> QED
    BY <2>1, <2>4
<1>6. T = body(T)
  <2> HIDE DEF body
  <2> QED
    BY <1>5
<1>7. Decoded(c, e) = T
  BY DEF Decoded
<1> HIDE DEF T
<1>8. \A n \in 0..l : T[n] = IF n = 0 THEN v ELSE DecodedByte(T[n - 1], c[n], e)
  BY <1>6
<1>9. T[0] = v /\ \A n \in 1..l : T[n] = DecodedByte(T[n - 1], c[n], e)
  <2> HIDE DEF l, body, v
  <2>1. 0 \in 0..l /\ \A n \in 1..l : n \in 0..l /\ n # 0
    BY <1>0
  <2> QED
    BY <1>8, <2>1
<1> QED
  BY <1>7, <1>9

(* What is encoded up to n is what the code begins with.                    *)
LEMMA EncodedPrefix ==
  ASSUME NEW s \in Seq(Byte), NEW e \in Byte, NEW n \in 0..Len(s)
  PROVE  LET t == Encoded(s, e)[n]
             c == Encoded(s, e)[Len(s)]
         IN Len(t) <= Len(c) /\ \A i \in 1..Len(t) : t[i] = c[i]
<1> DEFINE
      l == Len(s)
      T == Encoded(s, e)
      Begins(x, y) == Len(x) <= Len(y) /\ \A i \in 1..Len(x) : x[i] = y[i]
      S == {m \in Nat : n + m <= l => Begins(T[n], T[n + m])}
<1>0. l \in Nat /\ n \in Nat /\ n <= l
  OBVIOUS
<1>1. /\ \A m \in 1..l : T[m] = T[m - 1] \o EncodedByte((s[m] - e) % Bytes)
      /\ \A m \in 0..l : T[m] \in Seq(Byte)
  BY EncodedIs
<1>c. \A m \in 1..l : EncodedByte((s[m] - e) % Bytes) \in Seq(Byte)
  <2> TAKE m \in 1..l
  <2> DEFINE b == (s[m] - e) % Bytes
  <2>1. b \in Byte
    BY Shifted
  <2>2. b \in Special => b + 1 \in Byte /\ Escape \in Byte
    BY BinaryAssumption DEF Special, Escape, Byte
  <2> HIDE DEF b
  <2>3. EncodedByte(b) \in Seq(Byte)
    BY <2>1, <2>2 DEF EncodedByte
  <2> QED
    BY <2>3 DEF b
<1> HIDE DEF T, l
<1>2. 0 \in S
  <2>1. Begins(T[n], T[n]) /\ n + 0 = n
    BY <1>0, <1>1
  <2> QED
    BY <2>1
<1>3. ASSUME NEW m \in S PROVE m + 1 \in S
  <2> SUFFICES ASSUME n + (m + 1) <= l PROVE Begins(T[n], T[n + (m + 1)])
    OBVIOUS
  <2> DEFINE k == n + m
  <2>1. k \in 0..l /\ k + 1 \in 1..l /\ (k + 1) - 1 = k /\ n + (m + 1) = k + 1 /\ n \in 0..l
    BY <1>0
  <2>2. Begins(T[n], T[k])
    BY <2>1
  <2> DEFINE d == EncodedByte((s[k + 1] - e) % Bytes)
  <2>3. T[k + 1] = T[k] \o d /\ d \in Seq(Byte) /\ T[k] \in Seq(Byte) /\ T[n] \in Seq(Byte)
    BY <2>1, <1>1, <1>c
  <2> HIDE DEF d, k
  <2>4. Begins(T[n], T[k + 1])
    BY <2>2, <2>3
  <2> QED
    BY <2>1, <2>4
<1>4. S = Nat
  <2>1. S \in SUBSET Nat
    OBVIOUS
  <2> HIDE DEF S
  <2> QED
    BY <1>2, <1>3, <2>1, NaturalInduction
<1>5. l - n \in Nat /\ n + (l - n) = l
  BY <1>0
<1>6. Begins(T[n], T[l])
  <2>1. \A m \in Nat : n + m <= l => Begins(T[n], T[n + m])
    BY <1>4
  <2>2. l <= l
    BY <1>0
  <2> QED
    BY <1>5, <2>1, <2>2
<1> QED
  BY <1>6 DEF T, l

(* Each byte, with its escape or without, is read as the byte it was.       *)
LEMMA DecodesWhatWasEncoded ==
  ASSUME NEW s \in Seq(Byte), NEW e \in Byte
  PROVE  LET c == Encoded(s, e)[Len(s)] IN Decoded(c, e)[Len(c)].out = s
<1> DEFINE
      l == Len(s)
      T == Encoded(s, e)
      c == T[l]
      R == Decoded(c, e)
      Got(n) == [escaped |-> FALSE, out |-> SubSeq(s, 1, n)]
      S == {n \in Nat : n <= l => R[Len(T[n])] = Got(n)}
<1>0. l \in Nat /\ \A n \in 1..l : s[n] \in Byte
  OBVIOUS
<1>1. /\ T[0] = <<>>
      /\ \A n \in 1..l : T[n] = T[n - 1] \o EncodedByte((s[n] - e) % Bytes)
      /\ \A n \in 0..l : T[n] \in Seq(Byte)
  BY EncodedIs
<1>2. \A n \in 0..l : Len(T[n]) <= Len(c) /\ \A i \in 1..Len(T[n]) : T[n][i] = c[i]
  BY EncodedPrefix
<1>3. c \in Seq(Byte)
  BY <1>0, <1>1
<1>4. R[0] = [escaped |-> FALSE, out |-> <<>>] /\ \A i \in 1..Len(c) : R[i] = DecodedByte(R[i - 1], c[i], e)
  <2> HIDE DEF c
  <2> QED
    BY <1>3, DecodedIs
<1> HIDE DEF T, c, R, l
<1>5. 0 \in S
  <2>1. Len(T[0]) = 0 /\ SubSeq(s, 1, 0) = <<>>
    BY <1>1, SubSeqEmpty
  <2> QED
    BY <2>1, <1>4
<1>6. ASSUME NEW n \in S PROVE n + 1 \in S
  <2> SUFFICES ASSUME n + 1 <= l PROVE R[Len(T[n + 1])] = Got(n + 1)
    OBVIOUS
  <2> DEFINE
        k == n + 1
        b == (s[k] - e) % Bytes
        p == Len(T[n])
  <2>1. k \in 1..l /\ k - 1 = n /\ k \in 0..l /\ n \in 0..l /\ n \in Nat
    BY <1>0
  <2>2. R[p] = Got(n)
    BY <2>1
  <2> HIDE DEF S
  <2>3. b \in Byte /\ (b + e) % Bytes = s[k] /\ s[k] \in Byte
    BY <2>1, <1>0, Shifted
  <2>4. T[k] = T[n] \o EncodedByte(b) /\ T[n] \in Seq(Byte) /\ p \in Nat /\ T[k] \in Seq(Byte)
    <3>1. T[k] = T[k - 1] \o EncodedByte(b) /\ T[n] \in Seq(Byte) /\ T[k] \in Seq(Byte)
      <4> HIDE DEF k
      <4> QED
        BY <2>1, <1>1
    <3> QED
      BY <2>1, <3>1
  <2>5. Len(T[k]) <= Len(c) /\ (\A i \in 1..Len(T[k]) : T[k][i] = c[i]) /\ Len(c) \in Nat
    BY <2>1, <1>2, <1>3
  <2>6. SubSeq(s, 1, k) = Append(SubSeq(s, 1, n), s[k])
    <3>1. k \in 1..Len(s) /\ SubSeq(s, 1, n) \in Seq(Byte)
      BY <2>1, SubSeqProperties DEF l
    <3>2. SubSeq(s, 1, k) = SubSeq(s, 1, k - 1) \o <<s[k]>>
      <4>1. 1 \in 1..Len(s)
        BY <3>1
      <4> HIDE DEF k
      <4> QED
        BY <3>1, <4>1, SubSeqRecursiveSecond
    <3> QED
      BY <2>1, <2>3, <3>1, <3>2
  <2> HIDE DEF b, k, p
  <2>7. CASE b \in Special
    <3>1. EncodedByte(b) = <<Escape, b + 1>> /\ b + 1 \in Int
      BY <2>3, <2>7 DEF EncodedByte, Special, Escape, Byte
    <3>2. Len(T[k]) = p + 2 /\ T[k][p + 1] = Escape /\ T[k][p + 2] = b + 1
      BY <2>4, <3>1 DEF p
    <3>3. p + 1 \in 1..Len(c) /\ p + 2 \in 1..Len(c) /\ c[p + 1] = Escape /\ c[p + 2] = b + 1
      <4>1. p \in Nat /\ Len(c) \in Nat /\ p + 2 <= Len(c)
        BY <2>4, <2>5, <3>2
      <4>2. p + 1 \in 1..Len(T[k]) /\ p + 2 \in 1..Len(T[k])
        BY <4>1, <3>2
      <4> QED
        BY <4>1, <4>2, <2>5, <3>2
    <3>4. (p + 1) - 1 = p /\ (p + 2) - 1 = p + 1
      BY <2>4
    <3>5. R[p + 1] = DecodedByte(Got(n), Escape, e)
      BY <1>4, <2>2, <3>3, <3>4
    <3>6. R[p + 1] = [escaped |-> TRUE, out |-> SubSeq(s, 1, n)]
      BY <3>5 DEF DecodedByte
    <3>7. R[p + 2] = DecodedByte(R[p + 1], b + 1, e)
      BY <1>4, <3>3, <3>4
    <3>8. (b + 1) - 1 + e = b + e
      BY <2>3 DEF Byte
    <3>9. R[p + 2] = [escaped |-> FALSE, out |-> Append(SubSeq(s, 1, n), s[k])]
      <4> DEFINE got == R[p + 1]
      <4>0. got = [escaped |-> TRUE, out |-> SubSeq(s, 1, n)]
        BY <3>6
      <4> HIDE DEF got
      <4>1. got.escaped
        BY <4>0
      <4>4. got.out = SubSeq(s, 1, n)
        BY <4>0
      <4>2. DecodedByte(got, b + 1, e)
            = [escaped |-> FALSE, out |-> Append(got.out, ((b + 1) - 1 + e) % Bytes)]
        BY <4>1 DEF DecodedByte
      <4>3. ((b + 1) - 1 + e) % Bytes = s[k]
        BY <2>3, <3>8
      <4> QED
        BY <4>4, <4>2, <4>3, <3>7 DEF got
    <3> QED
      BY <3>2, <3>9, <2>6 DEF k
  <2>8. CASE b \notin Special
    <3>1. EncodedByte(b) = <<b>> /\ b # Escape
      BY <2>8 DEF EncodedByte, Special
    <3>2. Len(T[k]) = p + 1 /\ T[k][p + 1] = b
      BY <2>4, <3>1 DEF p
    <3>3. p + 1 \in 1..Len(c) /\ c[p + 1] = b
      <4>1. p \in Nat /\ Len(c) \in Nat /\ p + 1 <= Len(c)
        BY <2>4, <2>5, <3>2
      <4>2. p + 1 \in 1..Len(T[k])
        BY <4>1, <3>2
      <4> QED
        BY <4>1, <4>2, <2>5, <3>2
    <3>4. (p + 1) - 1 = p
      BY <2>4
    <3>5. R[p + 1] = DecodedByte(Got(n), b, e)
      BY <1>4, <2>2, <3>3, <3>4
    <3>6. R[p + 1] = [escaped |-> FALSE, out |-> Append(SubSeq(s, 1, n), s[k])]
      BY <3>1, <3>5, <2>3 DEF DecodedByte
    <3> QED
      BY <3>2, <3>6, <2>6 DEF k
  <2> QED
    BY <2>7, <2>8
<1>7. S = Nat
  <2>1. S \in SUBSET Nat
    OBVIOUS
  <2> HIDE DEF S
  <2> QED
    BY <1>5, <1>6, <2>1, NaturalInduction
<1>8. R[Len(T[l])] = Got(l) /\ SubSeq(s, 1, l) = s
  <2>1. l \in S
    BY <1>0, <1>7
  <2> QED
    BY <1>0, <2>1, SubSeqFull DEF l
<1> QED
  BY <1>8 DEF T, c, R, l

-----------------------------------------------------------------------------
(* The room: each byte of the string has one place in the code, and another *)
(* one for each that the offset turns into one of the three to be escaped.  *)
LEMMA FirstNumbers == ASSUME NEW n \in Nat PROVE IsFiniteSet(1..n) /\ Cardinality(1..n) = n
<1>1. IsFiniteSet(1..n) /\ Cardinality(1..n) = IF 1 > n THEN 0 ELSE n - 1 + 1
  BY FS_Interval
<1> QED
  BY <1>1

LEMMA CountNat == ASSUME NEW s \in Seq(Byte), NEW b PROVE Count(s, b) \in Nat
<1> DEFINE places == {i \in DOMAIN s : s[i] = b % Bytes}
<1>1. DOMAIN s = 1..Len(s) /\ Len(s) \in Nat
  OBVIOUS
<1>2. IsFiniteSet(DOMAIN s) /\ places \in SUBSET DOMAIN s
  BY <1>1, FirstNumbers
<1>3. Cardinality(places) \in Nat
  <2> HIDE DEF places
  <2> QED
    BY <1>2, FS_Subset, FS_CardinalityType
<1> QED
  BY <1>3 DEF Count

Met(s, e, d, n) == {i \in 1..n : s[i] = (e + d) % Bytes}

LEMMA MetIs ==
  ASSUME NEW s, NEW e, NEW d, NEW n \in Nat
  PROVE  /\ Cardinality(Met(s, e, d, n)) \in Nat
         /\ Cardinality(Met(s, e, d, n + 1)) = Cardinality(Met(s, e, d, n))
                + (IF s[n + 1] = (e + d) % Bytes THEN 1 ELSE 0)
<1> DEFINE hit == s[n + 1] = (e + d) % Bytes
<1>1. IsFiniteSet(1..n) /\ Met(s, e, d, n) \in SUBSET (1..n)
  BY FS_Interval DEF Met
<1>2. IsFiniteSet(Met(s, e, d, n)) /\ Cardinality(Met(s, e, d, n)) \in Nat
  BY <1>1, FS_Subset, FS_CardinalityType
<1>3. n + 1 \notin Met(s, e, d, n) /\ 1..(n + 1) = (1..n) \cup {n + 1}
  BY <1>1
<1>4. Met(s, e, d, n + 1) = IF hit THEN Met(s, e, d, n) \cup {n + 1} ELSE Met(s, e, d, n)
  BY <1>3 DEF Met
<1> HIDE DEF hit
<1>5. CASE hit
  BY <1>2, <1>3, <1>4, <1>5, FS_AddElement DEF hit
<1>6. CASE ~hit
  BY <1>2, <1>4, <1>6 DEF hit
<1> QED
  BY <1>2, <1>5, <1>6

LEMMA CountIs ==
  ASSUME NEW s \in Seq(Byte), NEW e, NEW d
  PROVE  Count(s, e + d) = Cardinality(Met(s, e, d, Len(s)))
<1>1. DOMAIN s = 1..Len(s)
  OBVIOUS
<1> QED
  BY <1>1 DEF Count, Met

LEMMA CostIs ==
  ASSUME NEW s \in Seq(Byte), NEW e \in Byte
  PROVE  /\ Cost(s, e) = Cardinality(Met(s, e, 0, Len(s))) + Cardinality(Met(s, e, 1, Len(s)))
                         + Cardinality(Met(s, e, Quote, Len(s)))
         /\ Cost(s, e) \in Nat
<1>1. e + 0 = e /\ Len(s) \in Nat
  BY BinaryAssumption DEF Byte
<1>2. /\ Count(s, e + 0) = Cardinality(Met(s, e, 0, Len(s)))
      /\ Count(s, e + 1) = Cardinality(Met(s, e, 1, Len(s)))
      /\ Count(s, e + Quote) = Cardinality(Met(s, e, Quote, Len(s)))
  BY CountIs
<1>3. /\ Cardinality(Met(s, e, 0, Len(s))) \in Nat
      /\ Cardinality(Met(s, e, 1, Len(s))) \in Nat
      /\ Cardinality(Met(s, e, Quote, Len(s))) \in Nat
  BY <1>1, MetIs
<1>4. Cost(s, e) = Count(s, e) + Count(s, e + 1) + Count(s, e + Quote)
  BY DEF Cost, Escape
<1> QED
  BY <1>1, <1>2, <1>3, <1>4

LEMMA EncodedLength ==
  ASSUME NEW s \in Seq(Byte), NEW e \in Byte
  PROVE  Len(Encoded(s, e)[Len(s)]) = Len(s) + Cost(s, e)
<1> DEFINE
      l == Len(s)
      T == Encoded(s, e)
      K(d, n) == Cardinality(Met(s, e, d, n))
      S == {n \in Nat : n <= l => Len(T[n]) = n + (K(0, n) + K(1, n) + K(Quote, n))}
<1>0. l \in Nat /\ \A n \in 1..l : s[n] \in Byte
  OBVIOUS
<1>1. /\ T[0] = <<>>
      /\ \A n \in 1..l : T[n] = T[n - 1] \o EncodedByte((s[n] - e) % Bytes)
      /\ \A n \in 0..l : T[n] \in Seq(Byte)
  BY EncodedIs
<1>k. \A d, n : n \in Nat =>
          /\ K(d, n) \in Nat
          /\ K(d, n + 1) = K(d, n) + (IF s[n + 1] = (e + d) % Bytes THEN 1 ELSE 0)
  BY MetIs
<1>c. Cost(s, e) = K(0, l) + K(1, l) + K(Quote, l)
  BY CostIs
<1>m. \A d : Met(s, e, d, 0) = {}
  BY DEF Met
<1>z. \A d : K(d, 0) = 0
  BY <1>m, FS_EmptySet
<1> HIDE DEF T, l, K
<1>5. 0 \in S
  <2>1. Len(T[0]) = 0 /\ K(0, 0) = 0 /\ K(1, 0) = 0 /\ K(Quote, 0) = 0
    BY <1>1, <1>z
  <2> QED
    BY <2>1
<1>6. ASSUME NEW n \in S PROVE n + 1 \in S
  <2> SUFFICES ASSUME n + 1 <= l
               PROVE  Len(T[n + 1]) = (n + 1) + (K(0, n + 1) + K(1, n + 1) + K(Quote, n + 1))
    OBVIOUS
  <2> DEFINE b == (s[n + 1] - e) % Bytes
  <2>1. n + 1 \in 1..l /\ (n + 1) - 1 = n /\ n + 1 \in 0..l /\ n \in 0..l /\ n \in Nat
    BY <1>0
  <2>2. Len(T[n]) = n + (K(0, n) + K(1, n) + K(Quote, n))
    BY <2>1
  <2> HIDE DEF S
  <2>3. T[n + 1] = T[n] \o EncodedByte(b) /\ T[n] \in Seq(Byte)
    <3> DEFINE k == n + 1
    <3>1. k \in 1..l /\ k - 1 = n /\ n \in 0..l
      BY <2>1
    <3>2. T[k] = T[k - 1] \o EncodedByte((s[k] - e) % Bytes)
      <4> HIDE DEF k
      <4> QED
        BY <3>1, <1>1
    <3> QED
      BY <3>1, <3>2, <1>1
  <2>4. b \in Byte /\ \A d \in Byte : b = d <=> s[n + 1] = (e + d) % Bytes
    BY <2>1, <1>0, Shifted
  <2>5. 0 \in Byte /\ 1 \in Byte /\ Quote \in Byte /\ Quote > 1
    BY BinaryAssumption DEF Byte
  <2> HIDE DEF b
  <2>6. /\ K(0, n + 1) = K(0, n) + (IF b = 0 THEN 1 ELSE 0)
        /\ K(1, n + 1) = K(1, n) + (IF b = 1 THEN 1 ELSE 0)
        /\ K(Quote, n + 1) = K(Quote, n) + (IF b = Quote THEN 1 ELSE 0)
    BY <2>1, <2>4, <2>5, <1>k
  <2>7. K(0, n) \in Nat /\ K(1, n) \in Nat /\ K(Quote, n) \in Nat
    BY <2>1, <1>k
  <2> DEFINE sum == K(0, n) + K(1, n) + K(Quote, n)
  <2>s. sum \in Nat /\ Len(T[n]) = n + sum
    BY <2>2, <2>7
  <2>8. CASE b \in {0, 1, Quote}
    <3>1. EncodedByte(b) = <<Escape, b + 1>>
      BY <2>8 DEF EncodedByte, Special, Escape
    <3>2. Len(T[n + 1]) = Len(T[n]) + 2
      BY <2>3, <3>1
    <3>3. b \in Int /\ Quote \in Int
      BY <2>4, <2>5 DEF Byte
    <3>4. \/ b = 0 /\ b # 1 /\ b # Quote
          \/ b # 0 /\ b = 1 /\ b # Quote
          \/ b # 0 /\ b # 1 /\ b = Quote
      BY <2>5, <2>8, <3>3
    <3>5. CASE b = 0 /\ b # 1 /\ b # Quote
      <4>1. K(0, n + 1) = K(0, n) + 1 /\ K(1, n + 1) = K(1, n) /\ K(Quote, n + 1) = K(Quote, n)
        BY <2>6, <2>7, <3>5
      <4>2. K(0, n + 1) + K(1, n + 1) + K(Quote, n + 1) = sum + 1
        BY <2>7, <4>1
      <4> HIDE DEF sum
      <4> QED
        BY <2>1, <2>s, <3>2, <4>2
    <3>6. CASE b # 0 /\ b = 1 /\ b # Quote
      <4>1. K(0, n + 1) = K(0, n) /\ K(1, n + 1) = K(1, n) + 1 /\ K(Quote, n + 1) = K(Quote, n)
        BY <2>6, <2>7, <3>6
      <4>2. K(0, n + 1) + K(1, n + 1) + K(Quote, n + 1) = sum + 1
        BY <2>7, <4>1
      <4> HIDE DEF sum
      <4> QED
        BY <2>1, <2>s, <3>2, <4>2
    <3>7. CASE b # 0 /\ b # 1 /\ b = Quote
      <4>1. K(0, n + 1) = K(0, n) /\ K(1, n + 1) = K(1, n) /\ K(Quote, n + 1) = K(Quote, n) + 1
        BY <2>6, <2>7, <3>7
      <4>2. K(0, n + 1) + K(1, n + 1) + K(Quote, n + 1) = sum + 1
        BY <2>7, <4>1
      <4> HIDE DEF sum
      <4> QED
        BY <2>1, <2>s, <3>2, <4>2
    <3> QED
      BY <3>4, <3>5, <3>6, <3>7
  <2>9. CASE b \notin {0, 1, Quote}
    <3>1. EncodedByte(b) = <<b>>
      BY <2>9 DEF EncodedByte, Special, Escape
    <3>2. Len(T[n + 1]) = Len(T[n]) + 1
      BY <2>3, <3>1
    <3>3. b # 0 /\ b # 1 /\ b # Quote
      BY <2>9
    <3> QED
      BY <2>1, <2>2, <2>6, <2>7, <3>2, <3>3
  <2> QED
    BY <2>8, <2>9
<1>7. S = Nat
  <2>1. S \in SUBSET Nat
    OBVIOUS
  <2> HIDE DEF S
  <2> QED
    BY <1>5, <1>6, <2>1, NaturalInduction
<1>8. Len(T[l]) = l + (K(0, l) + K(1, l) + K(Quote, l))
  <2>1. \A n \in Nat : n <= l => Len(T[n]) = n + (K(0, n) + K(1, n) + K(Quote, n))
    BY <1>7
  <2> QED
    BY <1>0, <2>1
<1> QED
  BY <1>8, <1>c DEF T, l

(* No offset costs less than the one that is taken.                         *)
LEMMA OffsetIs ==
  ASSUME NEW s \in Seq(Byte)
  PROVE  /\ Offset(s) \in Offsets
         /\ \A f \in Offsets : Cost(s, Offset(s)) <= Cost(s, f)
<1> DEFINE Best(e) == \A f \in Offsets : Cost(s, f) <= Cost(s, e) => Cost(s, f) = Cost(s, e) /\ e <= f
<1>1. \A f \in Offsets : f \in Nat /\ f \in Byte /\ Cost(s, f) \in Nat
  <2>1. \A f \in Offsets : f \in Nat /\ f \in Byte
    BY BinaryAssumption DEF Offsets, Byte
  <2> QED
    BY <2>1, CostIs
<1>2. 1 \in Offsets
  BY BinaryAssumption DEF Offsets
<1>3. \E e \in Offsets : Best(e)
  <2> DEFINE costs == {Cost(s, f) : f \in Offsets}
  <2>1. costs \in SUBSET Nat /\ costs # {}
    BY <1>1, <1>2
  <2>2. PICK c \in costs : \A x \in costs : c <= x
    <3> HIDE DEF costs
    <3> QED
      BY <2>1, LeastNatural
  <2> DEFINE cheapest == {f \in Offsets : Cost(s, f) = c}
  <2>3. cheapest \in SUBSET Nat /\ cheapest # {}
    BY <1>1, <2>2
  <2>4. PICK e \in cheapest : \A x \in cheapest : e <= x
    <3> HIDE DEF cheapest
    <3> QED
      BY <2>3, LeastNatural
  <2>5. e \in Offsets /\ Cost(s, e) = c /\ c \in Nat
    BY <2>1, <2>2, <2>4
  <2>6. ASSUME NEW f \in Offsets, Cost(s, f) <= Cost(s, e)
        PROVE  Cost(s, f) = Cost(s, e) /\ e <= f
    <3>1. c <= Cost(s, f) /\ Cost(s, f) \in Nat
      BY <1>1, <2>2
    <3>2. Cost(s, f) = c
      BY <2>5, <2>6, <3>1
    <3> QED
      BY <2>4, <2>5, <3>2
  <2> QED
    BY <2>5, <2>6
<1>4. Offset(s) \in Offsets /\ Best(Offset(s))
  BY <1>3 DEF Offset
<1> QED
  BY <1>1, <1>4

(* Each place of the string costs one escape at most three of the offsets,  *)
(* so the offsets together cost no more than three times its length.        *)
Hit(s, d, n) == {i \in DOMAIN s : \E e \in Offsets : e <= n /\ s[i] = (e + d) % Bytes}

LEMMA HitIs ==
  ASSUME NEW s \in Seq(Byte), NEW d \in Byte, NEW n \in 0..(Bytes - 2)
  PROVE  /\ Cardinality(Hit(s, d, n)) \in Nat
         /\ Cardinality(Hit(s, d, n)) <= Len(s)
         /\ Hit(s, d, 0) = {}
         /\ Cardinality(Hit(s, d, n + 1)) = Cardinality(Hit(s, d, n))
                + (IF n + 1 = Quote THEN 0 ELSE Count(s, (n + 1) + d))
<1> DEFINE
      k == n + 1
      new == {i \in DOMAIN s : s[i] = (k + d) % Bytes}
<1>1. Bytes \in Nat /\ Quote \in Nat /\ k \in 1..(Bytes - 1) /\ n \in Nat /\ d \in 0..(Bytes - 1)
  BY BinaryAssumption DEF Byte
<1>2. \A e \in Offsets : e \in 1..(Bytes - 1) /\ e # Quote
  BY DEF Offsets
<1>3. k # Quote => k \in Offsets
  BY <1>1 DEF Offsets
<1>4. IsFiniteSet(DOMAIN s) /\ Cardinality(DOMAIN s) = Len(s)
  <2>1. DOMAIN s = 1..Len(s) /\ Len(s) \in Nat
    OBVIOUS
  <2> QED
    BY <2>1, FirstNumbers
<1>5. /\ Hit(s, d, n) \in SUBSET DOMAIN s /\ new \in SUBSET DOMAIN s
  BY DEF Hit
<1>6. IsFiniteSet(Hit(s, d, n)) /\ IsFiniteSet(new) /\ Cardinality(Hit(s, d, n)) <= Len(s)
      /\ Cardinality(Hit(s, d, n)) \in Nat /\ Cardinality(new) \in Nat
  BY <1>4, <1>5, FS_Subset, FS_CardinalityType
<1>7. Hit(s, d, 0) = {}
  BY <1>1, <1>2 DEF Hit
<1>8. CASE k = Quote
  <2>1. Hit(s, d, n + 1) = Hit(s, d, n)
    <3>1. \A e \in Offsets : e <= n + 1 <=> e <= n
      BY <1>1, <1>2, <1>8
    <3> QED
      BY <3>1 DEF Hit
  <2> QED
    BY <1>6, <1>7, <1>8, <2>1
<1>9. CASE k # Quote
  <2>1. \A e \in Offsets : e <= k <=> e <= n \/ e = k
    BY <1>1, <1>2
  <2>2. Hit(s, d, k) = Hit(s, d, n) \cup new
    BY <1>3, <1>9, <2>1 DEF Hit
  <2>3. Hit(s, d, n) \cap new = {}
    <3> SUFFICES ASSUME NEW i \in DOMAIN s, NEW e \in Offsets, e <= n,
                        s[i] = (e + d) % Bytes, s[i] = (k + d) % Bytes
                 PROVE  FALSE
      BY DEF Hit
    <3>1. e \in Byte /\ k \in Byte /\ e # k /\ e \in Nat
      BY <1>1, <1>2 DEF Byte
    <3>2. s[i] \in Byte
      OBVIOUS
    <3> DEFINE x == s[i]
    <3>3. x \in Byte /\ x = (e + d) % Bytes /\ x = (k + d) % Bytes
      BY <3>2
    <3> HIDE DEF x, k
    <3>4. (x - e) % Bytes = d /\ (x - k) % Bytes = d
      BY <3>1, <3>3, Shifted
    <3>5. x = (d + e) % Bytes /\ x = (d + k) % Bytes
      <4>1. d + e = e + d /\ d + k = k + d
        BY <1>1, <3>1 DEF Byte
      <4> QED
        BY <3>3, <4>1
    <3>6. (x - d) % Bytes = e /\ (x - d) % Bytes = k
      BY <3>1, <3>3, <3>5, Shifted
    <3> QED
      BY <3>1, <3>6
  <2>4. Cardinality(Hit(s, d, n) \cup new) = Cardinality(Hit(s, d, n)) + Cardinality(new) - 0
    BY <1>6, <2>3, FS_Union, FS_EmptySet
  <2>5. Cardinality(new) = Count(s, k + d)
    BY DEF Count
  <2>6. Cardinality(Hit(s, d, k)) = Cardinality(Hit(s, d, n)) + Count(s, k + d)
    <3> HIDE DEF new, k
    <3> QED
      BY <1>6, <2>2, <2>4, <2>5
  <2> QED
    BY <1>6, <1>7, <1>9, <2>6
<1> QED
  BY <1>6, <1>7, <1>8, <1>9

LEMMA OneMore == \A k \in Nat, m \in Nat : 0 * m = 0 /\ (k + 1) * m = k * m + m
  BY Z3

LEMMA CheapOffset ==
  ASSUME NEW s \in Seq(Byte)
  PROVE  (Bytes - 2) * Cost(s, Offset(s)) <= 3 * Len(s)
<1> DEFINE
      m == Cost(s, Offset(s))
      H(d, n) == Cardinality(Hit(s, d, n))
      Met3(n) == H(0, n) + H(1, n) + H(Quote, n)
      Passed(n) == IF n < Quote THEN n ELSE n - 1
      S == {n \in Nat : n <= Bytes - 1 => Passed(n) * m <= Met3(n)}
<1>0. Bytes \in Nat /\ Quote \in Nat /\ Quote >= 3 /\ Quote <= Bytes - 2 /\ Len(s) \in Nat
  BY BinaryAssumption
<1>1. m \in Nat /\ \A e \in Offsets : Cost(s, e) \in Nat /\ m <= Cost(s, e)
  <2>1. \A e \in Offsets : e \in Byte
    BY BinaryAssumption DEF Offsets, Byte
  <2> QED
    BY <2>1, OffsetIs, CostIs
<1>2. \A d \in {0, 1, Quote} : d \in Byte
  BY <1>0 DEF Byte
<1>3. \A d \in {0, 1, Quote}, n \in 0..(Bytes - 2) :
          /\ H(d, n) \in Nat /\ H(d, n) <= Len(s) /\ H(d, 0) = 0
          /\ H(d, n + 1) = H(d, n) + (IF n + 1 = Quote THEN 0 ELSE Count(s, (n + 1) + d))
  <2> TAKE d \in {0, 1, Quote}, n \in 0..(Bytes - 2)
  <2>1. d \in Byte
    BY <1>2
  <2>2. /\ H(d, n) \in Nat /\ H(d, n) <= Len(s) /\ Hit(s, d, 0) = {}
        /\ H(d, n + 1) = H(d, n) + (IF n + 1 = Quote THEN 0 ELSE Count(s, (n + 1) + d))
    BY <2>1, HitIs
  <2>3. H(d, 0) = 0
    BY <2>2, FS_EmptySet
  <2> HIDE DEF H
  <2> QED
    BY <2>2, <2>3
<1>f. \A d \in {0, 1, Quote} : H(d, Bytes - 1) <= Len(s) /\ H(d, Bytes - 1) \in Nat
  <2> TAKE d \in {0, 1, Quote}
  <2>1. Hit(s, d, Bytes - 1) \in SUBSET (1..Len(s))
    BY DEF Hit
  <2>2. IsFiniteSet(1..Len(s)) /\ Cardinality(1..Len(s)) = Len(s)
    BY <1>0, FirstNumbers
  <2> HIDE DEF S
  <2> QED
    BY <1>0, <2>1, <2>2, FS_Subset, FS_CardinalityType
<1> HIDE DEF m, H
<1>4. 0 \in S
  <2>1. H(0, 0) = 0 /\ H(1, 0) = 0 /\ H(Quote, 0) = 0
    BY <1>0, <1>3
  <2>2. Passed(0) = 0 /\ 0 * m = 0
    BY <1>0, <1>1, OneMore
  <2> QED
    BY <2>1, <2>2
<1>5. ASSUME NEW n \in S PROVE n + 1 \in S
  <2> SUFFICES ASSUME n + 1 <= Bytes - 1 PROVE Passed(n + 1) * m <= Met3(n + 1)
    OBVIOUS
  <2>1. n \in Nat /\ n \in 0..(Bytes - 2) /\ Passed(n) * m <= Met3(n)
    BY <1>0
  <2> HIDE DEF S
  <2>2. /\ H(0, n) \in Nat /\ H(1, n) \in Nat /\ H(Quote, n) \in Nat
        /\ H(0, n + 1) = H(0, n) + (IF n + 1 = Quote THEN 0 ELSE Count(s, (n + 1) + 0))
        /\ H(1, n + 1) = H(1, n) + (IF n + 1 = Quote THEN 0 ELSE Count(s, (n + 1) + 1))
        /\ H(Quote, n + 1) = H(Quote, n) + (IF n + 1 = Quote THEN 0 ELSE Count(s, (n + 1) + Quote))
    BY <1>3, <2>1
  <2>3. CASE n + 1 = Quote
    <3>1. Passed(n + 1) = Passed(n)
      BY <1>0, <2>1, <2>3
    <3>2. Met3(n + 1) = Met3(n)
      BY <2>2, <2>3
    <3> HIDE DEF Passed, Met3
    <3> QED
      BY <2>1, <3>1, <3>2
  <2>4. CASE n + 1 # Quote
    <3>1. Passed(n + 1) = Passed(n) + 1 /\ Passed(n) \in Nat
      BY <1>0, <2>1, <2>4
    <3>2. Passed(n + 1) * m = Passed(n) * m + m /\ Passed(n) * m \in Int
      <4>1. Passed(n) * m \in Int
        BY <1>1, <3>1
      <4> HIDE DEF Passed
      <4> QED
        BY <1>1, <3>1, <4>1, OneMore
    <3>3. n + 1 \in Offsets /\ (n + 1) + 0 = n + 1 /\ n + 1 \in Byte
      BY <1>0, <2>1, <2>4 DEF Offsets, Byte
    <3>4. m <= Count(s, n + 1) + Count(s, (n + 1) + 1) + Count(s, (n + 1) + Quote)
      BY <1>1, <3>3 DEF Cost, Escape
    <3>5. Met3(n + 1) = Met3(n) + (Count(s, n + 1) + Count(s, (n + 1) + 1) + Count(s, (n + 1) + Quote))
          /\ Met3(n) \in Int
          /\ Count(s, n + 1) + Count(s, (n + 1) + 1) + Count(s, (n + 1) + Quote) \in Int
      <4> DEFINE
            c0 == Count(s, n + 1)
            c1 == Count(s, (n + 1) + 1)
            cq == Count(s, (n + 1) + Quote)
      <4>1. c0 \in Nat /\ c1 \in Nat /\ cq \in Nat
        BY CountNat
      <4>2. /\ H(0, n + 1) = H(0, n) + c0
            /\ H(1, n + 1) = H(1, n) + c1
            /\ H(Quote, n + 1) = H(Quote, n) + cq
        BY <2>2, <2>4, <3>3
      <4>3. H(0, n) \in Nat /\ H(1, n) \in Nat /\ H(Quote, n) \in Nat
        BY <2>2
      <4> HIDE DEF c0, c1, cq
      <4>4. Met3(n + 1) = Met3(n) + (c0 + c1 + cq) /\ Met3(n) \in Int /\ c0 + c1 + cq \in Int
        BY <4>1, <4>2, <4>3
      <4> QED
        BY <4>4 DEF c0, c1, cq
    <3> HIDE DEF Passed, Met3
    <3> QED
      BY <1>1, <2>1, <3>2, <3>4, <3>5
  <2> QED
    BY <2>3, <2>4
<1>6. S = Nat
  <2>1. S \in SUBSET Nat
    OBVIOUS
  <2> HIDE DEF S
  <2> QED
    BY <1>4, <1>5, <2>1, NaturalInduction
<1>7. Passed(Bytes - 1) * m <= Met3(Bytes - 1) /\ Passed(Bytes - 1) = Bytes - 2
  <2>1. \A n \in Nat : n <= Bytes - 1 => Passed(n) * m <= Met3(n)
    BY <1>6
  <2>2. Passed(Bytes - 1) * m <= Met3(Bytes - 1)
    <3>1. Bytes - 1 \in Nat /\ Bytes - 1 <= Bytes - 1
      BY <1>0
    <3> HIDE DEF Passed, Met3
    <3> QED
      BY <2>1, <3>1
  <2>3. Passed(Bytes - 1) = Bytes - 2
    BY <1>0
  <2> QED
    BY <2>2, <2>3
<1>8. Met3(Bytes - 1) <= 3 * Len(s) /\ Met3(Bytes - 1) \in Int
  BY <1>0, <1>f
<1>9. (Bytes - 2) * m <= Met3(Bytes - 1) /\ (Bytes - 2) * m \in Int
  <2>1. (Bytes - 2) * m \in Int
    BY <1>0, <1>1
  <2> HIDE DEF Passed, Met3
  <2> QED
    BY <1>7, <2>1
<1> HIDE DEF Met3
<1>10. (Bytes - 2) * m <= 3 * Len(s)
  BY <1>0, <1>8, <1>9
<1> QED
  BY <1>10 DEF m

-----------------------------------------------------------------------------
LEMMA EncodedPlain ==
  ASSUME NEW s \in Seq(Byte), NEW e \in Byte
  PROVE  LET c == Encoded(s, e)[Len(s)] IN \A i \in 1..Len(c) : c[i] \notin {0, Quote}
<1> DEFINE
      l == Len(s)
      T == Encoded(s, e)
      Plain(c) == \A i \in 1..Len(c) : c[i] \notin {0, Quote}
      S == {n \in Nat : n <= l => Plain(T[n])}
<1>0. l \in Nat /\ \A n \in 1..l : s[n] \in Byte
  OBVIOUS
<1>1. /\ T[0] = <<>>
      /\ \A n \in 1..l : T[n] = T[n - 1] \o EncodedByte((s[n] - e) % Bytes)
      /\ \A n \in 0..l : T[n] \in Seq(Byte)
  BY EncodedIs
<1>2. ASSUME NEW b \in Byte PROVE EncodedByte(b) \in Seq(Byte) /\ Plain(EncodedByte(b))
  <2>0. b \in Int /\ Quote \in Int /\ Quote >= 3 /\ Bytes \in Int /\ Quote <= Bytes - 2
        /\ b \in 0..(Bytes - 1)
    BY BinaryAssumption DEF Byte
  <2>1. CASE b \in Special
    <3>1. EncodedByte(b) = <<1, b + 1>>
      BY <2>1 DEF EncodedByte, Escape
    <3>2. b + 1 \in Byte /\ 1 \in Byte /\ b + 1 # 0 /\ b + 1 # Quote /\ 1 # Quote
      BY <2>0, <2>1 DEF Special, Escape, Byte
    <3> QED
      BY <3>1, <3>2
  <2>2. CASE b \notin Special
    <3>1. EncodedByte(b) = <<b>> /\ b \notin {0, Quote}
      BY <2>2 DEF EncodedByte, Special
    <3> QED
      BY <3>1
  <2> QED
    BY <2>1, <2>2
<1> HIDE DEF T, l
<1>5. 0 \in S
  <2>1. Len(T[0]) = 0
    BY <1>1
  <2>2. Plain(T[0])
    BY <2>1
  <2> QED
    BY <2>2
<1>6. ASSUME NEW n \in S PROVE n + 1 \in S
  <2> SUFFICES ASSUME n + 1 <= l PROVE Plain(T[n + 1])
    OBVIOUS
  <2> DEFINE
        k == n + 1
        d == EncodedByte((s[k] - e) % Bytes)
  <2>1. k \in 1..l /\ k - 1 = n /\ n \in 0..l /\ n \in Nat
    BY <1>0
  <2>2. Plain(T[n])
    BY <2>1
  <2> HIDE DEF S, k
  <2>3. T[k] = T[n] \o d /\ T[n] \in Seq(Byte)
    BY <2>1, <1>1
  <2>4. d \in Seq(Byte) /\ Plain(d)
    BY <2>1, <1>0, <1>2, Shifted
  <2> HIDE DEF d
  <2>5. Plain(T[k])
    <3> TAKE i \in 1..Len(T[k])
    <3>1. Len(T[n]) \in Nat /\ Len(d) \in Nat /\ Len(T[k]) = Len(T[n]) + Len(d)
      BY <2>3, <2>4
    <3>2. CASE i <= Len(T[n])
      <4>1. i \in 1..Len(T[n]) /\ T[k][i] = T[n][i]
        BY <2>3, <2>4, <3>1, <3>2
      <4> QED
        BY <2>2, <4>1
    <3>3. CASE i > Len(T[n])
      <4>1. i - Len(T[n]) \in 1..Len(d) /\ T[k][i] = d[i - Len(T[n])]
        BY <2>3, <2>4, <3>1, <3>3
      <4> QED
        BY <2>4, <4>1
    <3> QED
      BY <3>1, <3>2, <3>3
  <2> QED
    BY <2>5 DEF k
<1>7. S = Nat
  <2>1. S \in SUBSET Nat
    OBVIOUS
  <2> HIDE DEF S
  <2> QED
    BY <1>5, <1>6, <2>1, NaturalInduction
<1>8. Plain(T[l])
  <2>1. \A n \in Nat : n <= l => Plain(T[n])
    BY <1>7
  <2>2. l <= l
    BY <1>0
  <2> QED
    BY <1>0, <2>1, <2>2
<1> QED
  BY <1>8 DEF T, l

LEMMA RoomEnough ==
  \A l \in Nat, c \in Nat, b \in Nat :
      b >= 5 /\ (b - 2) * c <= 3 * l =>
          (l + c + 3) * (b - 2) <= (l + b - 2) * (b + 1) + 3 * (b - 2)
<1> SUFFICES ASSUME NEW l \in Nat, NEW c \in Nat, NEW b \in Nat,
                    b >= 5, (b - 2) * c <= 3 * l
             PROVE  (l + c + 3) * (b - 2) <= (l + b - 2) * (b + 1) + 3 * (b - 2)
  OBVIOUS
<1>1. (l + c + 3) * (b - 2) = l * (b - 2) + (b - 2) * c + 3 * (b - 2)
  BY Z3
<1>2. (l + b - 2) * (b + 1) = l * (b - 2) + 3 * l + (b - 2) * (b + 1)
  BY Z3
<1>3. (b - 2) * (b + 1) >= 0
  BY Z3
<1>4. l * (b - 2) \in Int /\ (b - 2) * c \in Int /\ (b - 2) * (b + 1) \in Int
  OBVIOUS
<1> QED
  BY <1>1, <1>2, <1>3, <1>4, Z3

(* The column is what the encoding makes of the string at hand.             *)
BinaryInv == bytes \in Seq(Byte) /\ column = EncodeBinary(bytes)

(* ... whatever is stored by sqlite_encode_binary.                          *)
THEOREM BinaryInductive == SqliteSpec => []BinaryInv
<1>1. SqliteInit => BinaryInv
  BY DEF SqliteInit, BinaryInv, EncodeBinary, IsBinStr
<1>2. BinaryInv /\ [SqliteNext]_stored => BinaryInv'
  BY DEF BinaryInv, SqliteNext, Store, stored
<1> QED
  BY <1>1, <1>2, PTL DEF SqliteSpec

(* Strings of any bytes, of whatever width, come back from their columns as *)
(* they went in; nothing in the column of a binary one ends it or its       *)
(* quotes, and the encoding stays within the buffer that was allocated.     *)
THEOREM ColumnsKeepBinary == SqliteSpec => []BinaryKept
<1>1. BinaryInv => BinaryKept
  <2> SUFFICES ASSUME BinaryInv PROVE BinaryKept
    OBVIOUS
  <2> DEFINE
        s == bytes
        e == Offset(s)
        c == Encoded(s, e)[Len(s)]
  <2>0. /\ s \in Seq(Byte) /\ column = EncodeBinary(s)
        /\ Bytes \in Nat /\ Quote \in Nat /\ Quote >= 3 /\ Quote <= Bytes - 2
    BY BinaryAssumption DEF BinaryInv
  <2>1. CASE ~IsBinStr(s)
    <3>1. column = s /\ (s # <<>> => s[1] # Escape)
      BY <2>0, <2>1 DEF EncodeBinary, IsBinStr
    <3>2. DecodeBinary(column) = s
      BY <3>1 DEF DecodeBinary
    <3> QED
      BY <2>1, <3>2 DEF BinaryKept
  <2>2. CASE IsBinStr(s)
    <3>1. s # <<>> /\ column = <<Escape>> \o (<<e>> \o c)
      BY <2>0, <2>2 DEF EncodeBinary, IsBinStr, sqlite_encode_binary
    <3>2. e \in Offsets
      BY <2>0, OffsetIs
    <3>3. e \in Byte /\ e # 0 /\ e # Quote
      BY <2>0, <3>2 DEF Offsets, Byte
    <3>4. c \in Seq(Byte)
      <4>1. Len(s) \in 0..Len(s)
        BY <2>0
      <4> HIDE DEF e
      <4> QED
        BY <2>0, <3>3, <4>1, EncodedIs
    <3>5. Decoded(c, e)[Len(c)].out = s
      <4> HIDE DEF s, e
      <4> QED
        BY <2>0, <3>3, DecodesWhatWasEncoded
    <3>6. \A i \in 1..Len(c) : c[i] \notin {0, Quote}
      <4> HIDE DEF s, e
      <4> QED
        BY <2>0, <3>3, EncodedPlain
    <3>7. Len(c) = Len(s) + Cost(s, e) /\ Cost(s, e) \in Nat
      <4> HIDE DEF s, e
      <4> QED
        BY <2>0, <3>3, EncodedLength, CostIs
    <3>8. (Bytes - 2) * Cost(s, e) <= 3 * Len(s)
      BY <2>0, CheapOffset
    <3> HIDE DEF s, e, c
    <3>9. /\ <<e>> \o c \in Seq(Byte) /\ Len(<<e>> \o c) = Len(c) + 1 /\ (<<e>> \o c)[1] = e
          /\ Tail(<<e>> \o c) = c /\ Head(<<e>> \o c) = e
      BY <3>3, <3>4
    <3> DEFINE t == <<e>> \o c
    <3>10. column = <<Escape>> \o t /\ t \in Seq(Byte) /\ Len(t) = Len(c) + 1
           /\ Tail(t) = c /\ Head(t) = e
      BY <3>1, <3>9
    <3>11. \A i \in 1..Len(t) : t[i] \notin {0, Quote}
      <4> TAKE i \in 1..Len(t)
      <4>1. i = 1 \/ (i - 1 \in 1..Len(c) /\ t[i] = c[i - 1])
        BY <3>3, <3>4, <3>10
      <4> QED
        BY <3>3, <3>6, <3>9, <4>1
    <3> HIDE DEF t
    <3>12. Len(column) = Len(t) + 1 /\ column # <<>> /\ column[1] = Escape /\ Tail(column) = t
           /\ \A i \in 1..Len(column) : i = 1 \/ (i - 1 \in 1..Len(t) /\ column[i] = t[i - 1])
      BY <3>10
    <3>13. DecodeBinary(column) = s
      <4>1. (Len(c) + 1) - 1 = Len(c)
        BY <3>4
      <4> QED
        BY <3>5, <3>10, <3>12, <4>1 DEF DecodeBinary, sqlite_decode_binary
    <3>14. ASSUME NEW i \in DOMAIN column PROVE column[i] \notin {0, Quote}
      <4>1. i \in 1..Len(column)
        BY <3>10, <3>14
      <4>2. Escape # 0 /\ Escape # Quote
        BY <2>0 DEF Escape
      <4> QED
        BY <3>11, <3>12, <4>1, <4>2
    <3>15. (Len(column) + 1) * (Bytes - 2) <= Room2(s)
      <4> DEFINE
            l == Len(s)
            k == Cost(s, e)
      <4>1. l \in Nat /\ k \in Nat /\ Len(column) + 1 = l + k + 3
        BY <2>0, <3>4, <3>7, <3>10, <3>12
      <4>2. (Bytes - 2) * k <= 3 * l /\ Bytes \in Nat /\ Bytes >= 5
        BY <2>0, <3>8
      <4>3. Room2(s) = (l + Bytes - 2) * (Bytes + 1) + 3 * (Bytes - 2)
        BY DEF Room2
      <4> HIDE DEF l, k
      <4>4. (l + k + 3) * (Bytes - 2) <= (l + Bytes - 2) * (Bytes + 1) + 3 * (Bytes - 2)
        BY <4>1, <4>2, RoomEnough
      <4> QED
        BY <4>1, <4>3, <4>4
    <3> QED
      BY <3>13, <3>14, <3>15 DEF BinaryKept, s
  <2> QED
    BY <2>1, <2>2
<1> QED
  BY <1>1, BinaryInductive, PTL

-----------------------------------------------------------------------------
(* The numbers of mt_rand.                                                  *)

(* The calculations on words stay words.                                    *)
LEMMA HalfIsWord ==
  ASSUME NEW x \in Words, NEW b \in Nat \ {0}
  PROVE  x \div b \in Words
<1>1. Top \in Nat /\ x \in Nat /\ x <= 2 * Top - 1
  BY RandAssumption DEF Words
<1>2. x \div b \in Nat /\ x \div b <= x
  BY <1>1, DivisionOfNats
<1> DEFINE q == x \div b
<1> HIDE DEF q
<1>3. q \in Nat /\ q <= x => q \in Words
  BY <1>1 DEF Words
<1> QED
  BY <1>2, <1>3 DEF q

LEMMA RemainderIsWord == ASSUME NEW x \in Int PROVE x % (2 * Top) \in Words
<1>1. Top \in Nat /\ Top > 1
  BY RandAssumption
<1> DEFINE m == 2 * Top
<1>2. m \in Nat \ {0} /\ Words = 0..(m - 1)
  BY <1>1 DEF Words
<1> HIDE DEF m
<1>3. x % m \in 0..(m - 1)
  BY <1>2
<1> QED
  BY <1>2, <1>3 DEF m

LEMMA TwistIsWord == ASSUME NEW u \in Words, NEW v \in Words PROVE Twist(u, v) \in Words
<1>1. Top \in Words /\ Top - 1 \in Words /\ 0 \in Words /\ Magic \in Words
  BY RandAssumption DEF Words
<1> DEFINE
      joined == BitOr(BitAnd(u, Top), BitAnd(v, Top - 1))
      magic == IF v % 2 = 1 THEN Magic ELSE 0
<1>2. joined \in Words
  BY <1>1, WordAssumption
<1>3. joined \div 2 \in Words
  <2>1. 2 \in Nat \ {0}
    OBVIOUS
  <2> HIDE DEF joined
  <2> QED
    BY <1>2, <2>1, HalfIsWord
<1>4. magic \in Words
  BY <1>1
<1> QED
  BY <1>3, <1>4, WordAssumption DEF Twist

LEMMA TemperedIsWord == ASSUME NEW y \in Words PROVE Tempered(y) \in Words
<1>0. Shifts \in [1..4 -> Nat \ {0}] /\ Masks \in [1..2 -> Words]
  BY RandAssumption
<1>1. \A x \in Words, i \in 1..4 : x \div Shifts[i] \in Words /\ Left(x, Shifts[i]) \in Words
  <2> TAKE x \in Words, i \in 1..4
  <2>1. Shifts[i] \in Nat \ {0} /\ x \in Int
    BY <1>0, RandAssumption DEF Words
  <2>2. x \div Shifts[i] \in Words
    BY <2>1, HalfIsWord
  <2> DEFINE z == x * Shifts[i]
  <2>3. z \in Int
    BY <2>1
  <2> HIDE DEF z
  <2>4. z % (2 * Top) \in Words
    BY <2>3, RemainderIsWord
  <2> QED
    BY <2>2, <2>4 DEF Left, z
<1>2. 1 \in 1..4 /\ 2 \in 1..4 /\ 3 \in 1..4 /\ 4 \in 1..4 /\ Masks[1] \in Words /\ Masks[2] \in Words
  BY <1>0
<1> DEFINE
      a == BitXor(y, y \div Shifts[1])
      b == BitXor(a, BitAnd(Left(a, Shifts[2]), Masks[1]))
      c == BitXor(b, BitAnd(Left(b, Shifts[3]), Masks[2]))
      d == BitXor(c, c \div Shifts[4])
<1>3. a \in Words
  BY <1>1, <1>2, WordAssumption
<1>4. b \in Words
  <2> HIDE DEF a
  <2> QED
    BY <1>1, <1>2, <1>3, WordAssumption
<1>5. c \in Words
  <2> HIDE DEF b
  <2> QED
    BY <1>1, <1>2, <1>4, WordAssumption
<1>6. d \in Words
  <2> HIDE DEF c
  <2> QED
    BY <1>1, <1>2, <1>5, WordAssumption
<1> QED
  BY <1>6 DEF Tempered

(* What is returned for a word is in the range that was asked for.          *)
LEMMA InRangeIs ==
  ASSUME NEW number \in Words, NEW range \in Ranges
  PROVE  InRange(number, range) \in range.min..range.max
<1> DEFINE
      w == range.max - range.min + 1
      n == number \div 2
      p == w * n
      q == p \div Top
<1>1. Top \in Nat \ {0} /\ range.min \in Int /\ range.max \in Int /\ range.min <= range.max
  BY RandAssumption
<1>2. w \in Nat \ {0} /\ range.max = range.min + (w - 1)
  BY <1>1
<1>3. n \in Int /\ 0 <= n /\ n <= Top - 1
  BY <1>1 DEF Words
<1> HIDE DEF w, n
<1>4. p \in Nat /\ p <= w * (Top - 1)
  BY <1>1, <1>2, <1>3, Z3
<1>5. w * (Top - 1) < w * Top
  BY <1>1, <1>2, Z3
<1>6. p \in Nat /\ p < w * Top
  <2>1. w * (Top - 1) \in Int /\ w * Top \in Int
    BY <1>1, <1>2
  <2> HIDE DEF p
  <2> QED
    BY <1>4, <1>5, <2>1
<1> HIDE DEF p
<1>7. q \in Int /\ Top * q <= p /\ q \in Nat
  <2>1. q \in Int /\ Top * q <= p
    BY <1>1, <1>6, Z3
  <2>2. q \in Nat
    BY <1>1, <1>6, DivisionOfNats
  <2> QED
    BY <2>1, <2>2
<1> HIDE DEF q
<1>8. Top * q < w * Top
  <2>1. Top * q \in Int /\ w * Top \in Int
    BY <1>1, <1>2, <1>7
  <2> QED
    BY <1>6, <1>7, <2>1
<1>9. q < w
  <2>1. q >= w => Top * q >= w * Top
    BY <1>1, <1>2, <1>7, Z3
  <2> QED
    BY <1>1, <1>2, <1>7, <1>8, <2>1
<1>10. InRange(number, range) = range.min + q
  BY DEF InRange, q, p, w, n
<1> QED
  BY <1>1, <1>2, <1>7, <1>9, <1>10

(* The words of a seed.                                                     *)
LEMMA SeedWordsAre == ASSUME NEW seed \in Words PROVE SeedWords(seed) \in [0..(Batch - 1) -> Words]
<1> DEFINE
      l == Batch - 1
      v == BitOr(seed, 1)
      next(x) == (x * Multiplier) % (2 * Top)
      g == [p \in Nat \X Words |-> next(p[2])]
      body(f) == [i \in 0..l |-> IF i = 0 THEN v ELSE next(f[i - 1])]
      T == CHOOSE f : f = body(f)
<1>1. l \in Nat /\ v \in Words /\ Words \subseteq Int /\ Multiplier \in Int
  <2>1. 1 \in Words /\ Words \subseteq Int
    BY RandAssumption DEF Words
  <2>2. v \in Words
    BY <2>1, WordAssumption
  <2>3. l \in Nat /\ Multiplier \in Int
    BY RandAssumption
  <2> QED
    BY <2>1, <2>2, <2>3
<1>2. \A x \in Words : next(x) \in Words
  <2> TAKE x \in Words
  <2> DEFINE z == x * Multiplier
  <2>1. z \in Int
    BY <1>1
  <2> HIDE DEF z
  <2>2. z % (2 * Top) \in Words
    BY <2>1, RemainderIsWord
  <2> QED
    BY <2>2 DEF z
<1> HIDE DEF v, next
<1>3. g \in [Nat \X Words -> Words]
  BY <1>2
<1>4. Recursion(Words, v, g, l)
  <2> HIDE DEF g, l
  <2> QED
    BY <1>1, <1>3, RecursiveFunction
<1>5. PICK f \in [0..l -> Words] : f[0] = v /\ \A n \in 1..l : f[n] = g[<<n, f[n - 1]>>]
  BY <1>4 DEF Recursion
<1>6. f = body(f)
  <2>1. \A n \in 1..l : f[n] = next(f[n - 1])
    <3> TAKE n \in 1..l
    <3>1. n \in Nat /\ n - 1 \in 0..l
      BY <1>1
    <3>2. f[n - 1] \in Words
      BY <1>5, <3>1
    <3> QED
      BY <1>5, <3>1, <3>2
  <2>2. \A n \in 0..l : f[n] = IF n = 0 THEN v ELSE next(f[n - 1])
    <3>1. \A n \in 0..l : n = 0 \/ n \in 1..l
      BY <1>1
    <3> HIDE DEF l, g
    <3> QED
      BY <1>5, <2>1, <3>1
  <2> HIDE DEF l, g
  <2> QED
    BY <1>5, <2>2
<1>7. T = body(T)
  <2> HIDE DEF body
  <2> QED
    BY <1>6
<1>8. SeedWords(seed) = T
  BY DEF SeedWords, v, next
<1> HIDE DEF T
<1>9. T = [n \in 0..l |-> T[n]]
  BY <1>7
<1>10. T[0] = v /\ \A n \in 1..l : T[n] = next(T[n - 1])
  <2>1. 0 \in 0..l /\ \A n \in 1..l : n \in 0..l /\ n # 0
    BY <1>1
  <2>2. \A n \in 0..l : T[n] = IF n = 0 THEN v ELSE next(T[n - 1])
    BY <1>7
  <2> HIDE DEF l, body
  <2> QED
    BY <2>1, <2>2
<1>11. T = f
  <2>1. UpTo(l, f) /\ UpTo(l, T)
    BY <1>5, <1>9 DEF UpTo
  <2>2. T[0] = f[0]
    BY <1>5, <1>10
  <2>3. \A n \in 1..l : f[n] = next(f[n - 1])
    <3> TAKE n \in 1..l
    <3>1. n \in Nat /\ n - 1 \in 0..l
      BY <1>1
    <3>2. f[n - 1] \in Words
      BY <1>5, <3>1
    <3> QED
      BY <1>5, <3>1, <3>2
  <2>4. \A n \in 1..l : T[n - 1] = f[n - 1] => T[n] = f[n]
    BY <1>10, <2>3
  <2> HIDE DEF l, g, body
  <2> QED
    BY <1>1, <2>1, <2>2, <2>4, SameRecursion
<1> QED
  BY <1>5, <1>8, <1>11

(* The words of a batch that is made from an old one.                       *)
Batched == 0..(Batch - 1)
Ahead == Batch - Middle         \* how far the middle is from the end

Renewed(old, f, i) ==
    BitXor(IF i < Ahead THEN old[i + Middle] ELSE f[i - Ahead],
           Twist(old[i], IF i = Batch - 1 THEN f[0] ELSE old[i + 1]))

LEMMA Sizes ==
  /\ Batch \in Nat /\ Middle \in Nat /\ Ahead \in Nat \ {0} /\ Batch - 1 \in Nat \ {0}
  /\ Batch = Middle + Ahead /\ Middle >= 2
  /\ 0 \in Words /\ Words # {}
BY RandAssumption DEF Ahead, Words

LEMMA ReloadedIs ==
  ASSUME NEW old \in [Batched -> Words]
  PROVE  /\ Reloaded(old) \in [Batched -> Words]
         /\ \A i \in Batched : Reloaded(old)[i] = Renewed(old, Reloaded(old), i)
<1> DEFINE
      W == [Nat -> Words]
      g == [p \in Nat \X W |-> IF p[1] \in Batched THEN Renewed(old, p[2], p[1]) ELSE 0]
      body(f) == [i \in Batched |-> Renewed(old, f, i)]
      T == CHOOSE f : f = body(f)
<1>1. \A i \in Batched : /\ i \in Nat
                         /\ i < Ahead => i + Middle \in Batched
                         /\ ~(i < Ahead) => i - Ahead \in Batched /\ i - Ahead \in 0..(i - 1)
                         /\ i # Batch - 1 => i + 1 \in Batched
                         /\ i = Batch - 1 => 0 \in Batched /\ 0 \in 0..(i - 1)
  BY Sizes DEF Batched
<1>2. ASSUME NEW f, NEW i \in Batched, \A j \in 0..(i - 1) : f[j] \in Words
      PROVE  Renewed(old, f, i) \in Words
  <2> DEFINE
        far == IF i < Ahead THEN old[i + Middle] ELSE f[i - Ahead]
        near == IF i = Batch - 1 THEN f[0] ELSE old[i + 1]
  <2>1. far \in Words /\ near \in Words /\ old[i] \in Words
    BY <1>1, <1>2
  <2> HIDE DEF far, near
  <2>2. Twist(old[i], near) \in Words
    BY <2>1, TwistIsWord
  <2>3. BitXor(far, Twist(old[i], near)) \in Words
    BY <2>1, <2>2, WordAssumption
  <2> QED
    BY <2>3 DEF Renewed, far, near
<1>3. g \in [Nat \X W -> Words]
  <2>1. \A i \in Batched, f \in W : Renewed(old, f, i) \in Words
    <3> TAKE i \in Batched, f \in W
    <3>1. \A j \in 0..(i - 1) : j \in Nat /\ f[j] \in Words
      BY <1>1
    <3> QED
      BY <1>2, <3>1
  <2> HIDE DEF W
  <2> QED
    BY <2>1, Sizes
<1>4. \A n \in Nat, f \in W, k \in W : AlikeBefore(n, f, k) => g[<<n, f>>] = g[<<n, k>>]
  <2> TAKE n \in Nat, f \in W, k \in W
  <2> SUFFICES ASSUME AlikeBefore(n, f, k) PROVE g[<<n, f>>] = g[<<n, k>>]
    OBVIOUS
  <2>1. CASE n \notin Batched
    <3> HIDE DEF W
    <3> QED
      BY <2>1
  <2>2. CASE n \in Batched
    <3>1. Renewed(old, f, n) = Renewed(old, k, n)
      BY <1>1, <2>2 DEF AlikeBefore, Renewed
    <3>2. g[<<n, f>>] = Renewed(old, f, n) /\ g[<<n, k>>] = Renewed(old, k, n)
      <4> HIDE DEF W
      <4> QED
        BY <2>2
    <3> QED
      BY <3>1, <3>2
  <2> QED
    BY <2>1, <2>2
<1>5. \E f : Course(Words, g, f)
  <2>1. LooksBack(Words, g)
    <3> HIDE DEF g
    <3> QED
      BY <1>3, <1>4, Sizes DEF LooksBack
  <2> HIDE DEF g
  <2> QED
    BY <2>1, CourseOfValues
<1>6. PICK f : f \in W /\ \A n \in Nat : f[n] = g[<<n, f>>]
  <2> HIDE DEF g
  <2> QED
    BY <1>5 DEF Course
<1> DEFINE h == [i \in Batched |-> f[i]]
<1>7. h = body(h)
  <2>1. \A i \in Batched : f[i] = Renewed(old, f, i)
    <3> HIDE DEF W
    <3> QED
      BY <1>1, <1>6
  <2>2. \A i \in Batched : Renewed(old, f, i) = Renewed(old, h, i)
    <3> TAKE i \in Batched
    <3>1. \A j \in Batched : f[j] = h[j]
      OBVIOUS
    <3> HIDE DEF h
    <3> QED
      BY <1>1, <3>1 DEF Renewed
  <2> QED
    BY <2>1, <2>2
<1>8. T = body(T)
  <2> HIDE DEF body, h
  <2> QED
    BY <1>7
<1>9. Reloaded(old) = T
  BY DEF Reloaded, Renewed, Batched, Ahead
<1> HIDE DEF T
<1>10. \A i \in Batched : T[i] = Renewed(old, T, i)
  BY <1>8
<1>11. T = [i \in Batched |-> T[i]]
  BY <1>8
<1> DEFINE S == {n \in Nat : \A i \in Batched : i < n => T[i] \in Words}
<1>12. S = Nat
  <2> HIDE DEF body
  <2>1. 0 \in S
    <3>1. \A i \in Batched : ~(i < 0)
      BY Sizes DEF Batched
    <3> QED
      BY <3>1
  <2>2. ASSUME NEW n \in S PROVE n + 1 \in S
    <3>0. n \in Nat /\ n + 1 \in Nat
      OBVIOUS
    <3>1. ASSUME NEW i \in Batched, i < n + 1 PROVE T[i] \in Words
      <4>1. \A j \in 0..(i - 1) : j \in Batched /\ j < n
        BY <3>0, <3>1, Sizes DEF Batched
      <4>2. \A j \in 0..(i - 1) : T[j] \in Words
        BY <4>1
      <4>3. Renewed(old, T, i) \in Words
        BY <1>2, <4>2
      <4> QED
        BY <1>10, <4>3
    <3> QED
      BY <3>0, <3>1
  <2>3. S \in SUBSET Nat
    OBVIOUS
  <2> HIDE DEF S
  <2> QED
    BY <2>1, <2>2, <2>3, NaturalInduction
<1>13. \A i \in Batched : T[i] \in Words
  <2> TAKE i \in Batched
  <2> DEFINE n == i + 1
  <2>1. n \in Nat /\ i < n
    BY <1>1
  <2> HIDE DEF n
  <2>2. n \in S
    BY <2>1, <1>12
  <2> QED
    BY <2>1, <2>2
<1> QED
  BY <1>9, <1>10, <1>11, <1>13

(* The sequence that the batches are parts of.                              *)
Recurrent(x, seed) ==
    /\ x \in [Nat -> Words]
    /\ \A i \in Batched : x[i] = SeedWords(seed)[i]
    /\ \A i \in Nat : x[i + Batch] = BitXor(x[i + Middle], Twist(x[i], x[i + 1]))

LEMMA SequenceIs ==
  ASSUME NEW seed \in Words
  PROVE  Recurrent(Sequence(seed), seed)
<1> DEFINE
      W == [Nat -> Words]
      s == SeedWords(seed)
      later(f, i) == BitXor(f[i - Ahead], Twist(f[i - Batch], f[i - (Batch - 1)]))
      g == [p \in Nat \X W |-> IF p[1] < Batch THEN s[p[1]] ELSE later(p[2], p[1])]
      body(f) == [i \in Nat |-> IF i < Batch THEN s[i] ELSE later(f, i)]
      T == CHOOSE f : f = body(f)
<1>1. s \in [Batched -> Words]
  BY SeedWordsAre DEF Batched
<1>2. \A i \in Nat : IF i < Batch THEN i \in Batched
                     ELSE /\ i - Ahead \in 0..(i - 1) /\ i - Batch \in 0..(i - 1)
                          /\ i - (Batch - 1) \in 0..(i - 1)
  BY Sizes DEF Batched
<1>3. ASSUME NEW f, NEW i \in Nat, ~(i < Batch), \A j \in 0..(i - 1) : f[j] \in Words
      PROVE  later(f, i) \in Words
  <2>1. f[i - Ahead] \in Words /\ f[i - Batch] \in Words /\ f[i - (Batch - 1)] \in Words
    BY <1>2, <1>3
  <2>2. Twist(f[i - Batch], f[i - (Batch - 1)]) \in Words
    BY <2>1, TwistIsWord
  <2> QED
    BY <2>1, <2>2, WordAssumption
<1>4. g \in [Nat \X W -> Words]
  <2>1. \A i \in Nat, f \in W : ~(i < Batch) => later(f, i) \in Words
    <3> TAKE i \in Nat, f \in W
    <3>1. \A j \in 0..(i - 1) : j \in Nat /\ f[j] \in Words
      OBVIOUS
    <3> HIDE DEF later
    <3> QED
      BY <1>3, <3>1
  <2>2. \A i \in Nat : i < Batch => s[i] \in Words
    BY <1>1, <1>2
  <2> HIDE DEF W, later, s
  <2> QED
    BY <2>1, <2>2
<1>5. \A n \in Nat, f \in W, k \in W : AlikeBefore(n, f, k) => g[<<n, f>>] = g[<<n, k>>]
  <2> TAKE n \in Nat, f \in W, k \in W
  <2> SUFFICES ASSUME AlikeBefore(n, f, k) PROVE g[<<n, f>>] = g[<<n, k>>]
    OBVIOUS
  <2>1. n < Batch \/ later(f, n) = later(k, n)
    BY <1>2 DEF AlikeBefore
  <2> HIDE DEF W, later, s
  <2> QED
    BY <2>1
<1>6. \E f : Course(Words, g, f)
  <2>1. LooksBack(Words, g)
    <3> HIDE DEF g
    <3> QED
      BY <1>4, <1>5, Sizes DEF LooksBack
  <2> HIDE DEF g
  <2> QED
    BY <2>1, CourseOfValues
<1>7. PICK f : f \in W /\ \A n \in Nat : f[n] = g[<<n, f>>]
  <2> HIDE DEF g
  <2> QED
    BY <1>6 DEF Course
<1>8. f = body(f)
  <2> HIDE DEF later, s
  <2>1. \A n \in Nat : g[<<n, f>>] = IF n < Batch THEN s[n] ELSE later(f, n)
    <3> HIDE DEF W
    <3> QED
      BY <1>7
  <2> HIDE DEF g
  <2> QED
    BY <1>7, <2>1
<1>9. T = body(T)
  <2> HIDE DEF body
  <2> QED
    BY <1>8
<1>10. Sequence(seed) = T
  BY DEF Sequence, Ahead
<1> HIDE DEF T
<1>11. T = [i \in Nat |-> T[i]] /\ \A i \in Nat : T[i] = IF i < Batch THEN s[i] ELSE later(T, i)
  <2> HIDE DEF later, s
  <2> QED
    BY <1>9
<1> DEFINE S == {n \in Nat : \A i \in Nat : i < n => T[i] \in Words}
<1>12. S = Nat
  <2> HIDE DEF body
  <2>1. 0 \in S
    OBVIOUS
  <2>2. ASSUME NEW n \in S PROVE n + 1 \in S
    <3>0. n \in Nat /\ n + 1 \in Nat
      OBVIOUS
    <3>1. ASSUME NEW i \in Nat, i < n + 1 PROVE T[i] \in Words
      <4>1. \A j \in 0..(i - 1) : j \in Nat /\ j < n
        BY <3>0, <3>1
      <4>2. \A j \in 0..(i - 1) : T[j] \in Words
        BY <4>1
      <4>3. ~(i < Batch) => later(T, i) \in Words
        <5> HIDE DEF later
        <5> QED
          BY <1>3, <4>2
      <4>4. i < Batch => s[i] \in Words
        BY <1>1, <1>2
      <4> HIDE DEF later, s
      <4> QED
        BY <1>11, <4>3, <4>4
    <3> QED
      BY <3>0, <3>1
  <2>3. S \in SUBSET Nat
    OBVIOUS
  <2> HIDE DEF S
  <2> QED
    BY <2>1, <2>2, <2>3, NaturalInduction
<1>13. \A i \in Nat : T[i] \in Words
  <2> TAKE i \in Nat
  <2> DEFINE n == i + 1
  <2>1. n \in Nat /\ i < n
    OBVIOUS
  <2> HIDE DEF n
  <2>2. n \in S
    BY <2>1, <1>12
  <2> QED
    BY <2>1, <2>2
<1>14. \A i \in Batched : T[i] = s[i]
  <2>1. \A i \in Batched : i \in Nat /\ i < Batch
    BY Sizes DEF Batched
  <2> HIDE DEF s, later, body
  <2> QED
    BY <1>11, <2>1
<1>15. \A i \in Nat : T[i + Batch] = BitXor(T[i + Middle], Twist(T[i], T[i + 1]))
  <2> TAKE i \in Nat
  <2> DEFINE n == i + Batch
  <2>1. n \in Nat /\ ~(n < Batch) /\ n - Ahead = i + Middle /\ n - Batch = i /\ n - (Batch - 1) = i + 1
    BY Sizes
  <2> HIDE DEF n, body, s
  <2>2. T[n] = later(T, n)
    <3> HIDE DEF later
    <3> QED
      BY <1>11, <2>1
  <2>3. T[n] = BitXor(T[i + Middle], Twist(T[i], T[i + 1]))
    BY <2>1, <2>2
  <2> QED
    BY <2>3 DEF n
<1> QED
  BY <1>10, <1>11, <1>13, <1>14, <1>15 DEF Recurrent

(* A batch follows the one before: a reload in place, with the words of the *)
(* new batch where the middle runs over the end, goes on with the sequence. *)
LEMMA ReloadGoesOn ==
  ASSUME NEW seed \in Words, NEW x, Recurrent(x, seed), NEW o \in Nat,
         NEW old \in [Batched -> Words], \A i \in Batched : old[i] = x[o + i]
  PROVE  \A i \in Batched : Reloaded(old)[i] = x[(o + Batch) + i]
<1> DEFINE
      new == Reloaded(old)
      S == {n \in Nat : \A i \in Batched : i < n => new[i] = x[(o + Batch) + i]}
<1> HIDE DEF new
<1>1. \A i \in Batched : new[i] = Renewed(old, new, i)
  BY ReloadedIs DEF new
<1>2. 0 \in S
  BY Sizes DEF Batched
<1>3. ASSUME NEW n \in S PROVE n + 1 \in S
  <2>0. n \in Nat /\ n + 1 \in Nat
    OBVIOUS
  <2>1. ASSUME NEW i \in Batched, i < n + 1 PROVE new[i] = x[(o + Batch) + i]
    <3>0. i \in Nat /\ i <= Batch - 1 /\ i <= n
      BY <2>0, <2>1, Sizes DEF Batched
    <3> DEFINE m == o + i
    <3>1. m \in Nat /\ m + Batch = (o + Batch) + i
      BY <3>0, Sizes
    <3>2. x[m + Batch] = BitXor(x[m + Middle], Twist(x[m], x[m + 1]))
      <4> HIDE DEF m
      <4> QED
        BY <3>1 DEF Recurrent
    <3>3. old[i] = x[m]
      OBVIOUS
    <3>4. (IF i < Ahead THEN old[i + Middle] ELSE new[i - Ahead]) = x[m + Middle]
      <4>1. CASE i < Ahead
        <5> DEFINE j == i + Middle
        <5>1. j \in Batched /\ o + j = m + Middle
          BY <4>1, <3>0, Sizes DEF Batched
        <5> HIDE DEF j, m
        <5>2. old[j] = x[m + Middle]
          BY <5>1
        <5> QED
          BY <4>1, <5>2 DEF j
      <4>2. CASE ~(i < Ahead)
        <5> DEFINE j == i - Ahead
        <5>1. j \in Batched /\ (o + Batch) + j = m + Middle /\ j < n
          BY <4>2, <3>0, <2>0, Sizes DEF Batched
        <5> HIDE DEF j, m
        <5>2. new[j] = x[m + Middle]
          BY <5>1
        <5> QED
          BY <4>2, <5>2 DEF j
      <4> QED
        BY <4>1, <4>2
    <3>5. (IF i = Batch - 1 THEN new[0] ELSE old[i + 1]) = x[m + 1]
      <4>1. CASE i = Batch - 1
        <5>1. 0 \in Batched /\ (o + Batch) + 0 = m + 1 /\ 0 < n
          BY <4>1, <3>0, <2>0, Sizes DEF Batched
        <5> HIDE DEF m
        <5>2. new[0] = x[m + 1]
          BY <5>1
        <5> QED
          BY <4>1, <5>2
      <4>2. CASE i # Batch - 1
        <5> DEFINE j == i + 1
        <5>1. j \in Batched /\ o + j = m + 1
          BY <4>2, <3>0, Sizes DEF Batched
        <5> HIDE DEF j, m
        <5>2. old[j] = x[m + 1]
          BY <5>1
        <5> QED
          BY <4>2, <5>2 DEF j
      <4> QED
        BY <4>1, <4>2
    <3> HIDE DEF m
    <3> QED
      BY <1>1, <3>1, <3>2, <3>3, <3>4, <3>5 DEF Renewed
  <2> QED
    BY <2>0, <2>1
<1>4. S = Nat
  <2>1. S \in SUBSET Nat
    OBVIOUS
  <2> HIDE DEF S
  <2> QED
    BY <1>2, <1>3, <2>1, NaturalInduction
<1>5. \A i \in Batched : new[i] = x[(o + Batch) + i]
  <2> TAKE i \in Batched
  <2> DEFINE n == i + 1
  <2>1. n \in Nat /\ i < n
    BY Sizes DEF Batched
  <2> HIDE DEF n
  <2>2. n \in S
    BY <2>1, <1>4
  <2> QED
    BY <2>1, <2>2
<1> QED
  BY <1>5 DEF new

(* Only the first number of a batch has a count with a remainder of 1.      *)
LEMMA FirstOfBatch ==
  ASSUME NEW k \in Nat, NEW r \in 1..Batch, NEW n, n = Batch * k + r
  PROVE  n % Batch = 1 <=> r = 1
<1> DEFINE b == Batch
<1>1. b \in Nat /\ b >= 3 /\ n = b * k + r /\ r \in 1..b
  BY Sizes
<1> HIDE DEF b
<1>2. b * k \in Int /\ r \in Int
  BY <1>1
<1>3. CASE r < b
  <2> DEFINE
        p == n % b
        c == n \div b
        j == k - c
  <2>1. r >= 0 /\ k \in Int /\ b \in Nat \ {0} /\ n \in Int
    BY <1>1, <1>2
  <2>2. p \in Int /\ 0 <= p /\ p < b /\ c \in Int /\ n = b * c + p
    BY <2>1, Z3
  <2> HIDE DEF p, c
  <2>3. j \in Int /\ b * j = p - r
    BY <1>1, <2>1, <2>2, Z3
  <2> HIDE DEF j
  <2>4. j = 0
    <3>1. j < 0 => b * j <= -b
      BY <2>1, <2>3, Z3
    <3>2. j > 0 => b * j >= b
      BY <2>1, <2>3, Z3
    <3> QED
      BY <1>1, <1>3, <2>1, <2>2, <2>3, <3>1, <3>2
  <2>5. p = r
    BY <1>1, <2>1, <2>2, <2>3, <2>4, Z3
  <2>6. n % b = r
    BY <2>5 DEF p
  <2> QED
    BY <2>6 DEF b
<1>4. CASE r = b
  <2> DEFINE j == k + 1
  <2>1. j \in Int /\ n = b * j
    BY <1>1, <1>4
  <2> HIDE DEF j
  <2>2. n % b = 0
    BY <1>1, <2>1, MultipleHasNoRemainder
  <2> QED
    BY <1>1, <1>4, <2>2 DEF b
<1> QED
  BY <1>1, <1>3, <1>4

(* Where the twister is: its words are those of the sequence from a batch   *)
(* on, and what has been drawn are the batches before that and, of this     *)
(* batch, all but what is left.                                             *)
At(t, x, count, k) ==
    /\ t.left \in 0..(Batch - 1) /\ (k = 0 => t.left = 0)
    /\ t.left > 0 => t.next = Batch - t.left
    /\ count = Batch * k - t.left
    /\ \A i \in Batched : t.state[i] = x[Batch * k + i]

Twisters == [state : [Batched -> Words], next : Int, left : Int, seeded : BOOLEAN]

(* A twister that was seeded is somewhere in the sequence of its seed.      *)
RandInv ==
    /\ twister \in Twisters
    /\ drawn.seed \in Words /\ drawn.count \in Nat
    /\ ~twister.seeded => drawn.count = 0
    /\ twister.seeded => \E k \in Nat : At(twister, Sequence(drawn.seed), drawn.count, k)
    /\ FollowsSeed

(* A number that is drawn is the next one of the sequence.                  *)
LEMMA DrawGoesOn ==
  ASSUME NEW seed \in Words, NEW t \in Twisters, NEW count \in Nat, NEW k \in Nat,
         At(t, Sequence(seed), count, k)
  PROVE  LET got == randomMT(t)
             word == Tempered(Sequence(seed)[Batch + count])
         IN /\ got.after \in Twisters /\ got.after.seeded = t.seeded
            /\ got.number \in Words
            /\ got.number = IF (count + 1) % Batch = 1 THEN word ELSE word \div 2
            /\ \E j \in Nat : At(got.after, Sequence(seed), count + 1, j)
<1> DEFINE
      got == randomMT(t)
      x == Sequence(seed)
      word == Tempered(x[Batch + count])
      o == Batch * k
<1>1. Recurrent(x, seed) /\ x \in [Nat -> Words]
  BY SequenceIs DEF Recurrent
<1>2. o \in Nat /\ (k = 0 => o = 0)
  <2>1. Batch \in Nat /\ Batch * 0 = 0
    BY Sizes
  <2>2. \A a, b \in Nat : a * b \in Nat
    OBVIOUS
  <2> QED
    BY <2>1, <2>2
<1>3. /\ t.left \in 0..(Batch - 1) /\ (k = 0 => t.left = 0)
      /\ t.left > 0 => t.next = Batch - t.left
      /\ count = o - t.left
      /\ \A i \in Batched : t.state[i] = x[o + i]
  BY DEF At
<1>4. t.state \in [Batched -> Words] /\ t.next \in Int /\ t.left \in Int /\ t.seeded \in BOOLEAN
      /\ t = [state |-> t.state, next |-> t.next, left |-> t.left, seeded |-> t.seeded]
  BY DEF Twisters
<1> HIDE DEF x
<1>5. CASE t.left = 0
  <2> DEFINE
        new == Reloaded(t.state)
        p == o + Batch
        j == k + 1
  <2>1. new \in [Batched -> Words]
    BY <1>4, ReloadedIs
  <2>2. \A i \in Batched : new[i] = x[p + i]
    <3> HIDE DEF o
    <3> QED
      BY <1>1, <1>2, <1>3, <1>4, ReloadGoesOn
  <2>3. got = [after |-> [state |-> new, next |-> 1, left |-> Batch - 1, seeded |-> t.seeded],
               number |-> Tempered(new[0])]
    BY <1>4, <1>5 DEF randomMT, reloadMT
  <2> HIDE DEF new, got
  <2>4. 0 \in Batched /\ p + 0 = Batch + count /\ count = o
    <3> HIDE DEF o
    <3> QED
      BY <1>2, <1>3, <1>5, Sizes DEF Batched
  <2>5. new[0] = x[Batch + count] /\ new[0] \in Words
    <3> HIDE DEF p
    <3> QED
      BY <2>1, <2>2, <2>4
  <2>6. (count + 1) % Batch = 1
    <3> DEFINE n == count + 1
    <3>1. n = Batch * k + 1 /\ 1 \in 1..Batch
      BY <2>4, Sizes
    <3> HIDE DEF n
    <3>2. n % Batch = 1 <=> 1 = 1
      BY <3>1, FirstOfBatch
    <3> QED
      BY <3>2 DEF n
  <2>7. got.number = word /\ got.number \in Words
    BY <2>3, <2>5, TemperedIsWord
  <2>8. j \in Nat /\ Batch * j = p /\ j # 0
    BY Sizes
  <2>9. At(got.after, x, count + 1, j)
    <3>1. got.after.left = Batch - 1 /\ got.after.next = 1 /\ got.after.state = new
      BY <2>3
    <3>2. Batch - 1 \in 0..(Batch - 1) /\ 1 = Batch - (Batch - 1) /\ count + 1 = p - (Batch - 1)
      <4> HIDE DEF o
      <4> QED
        BY <1>2, <2>4, Sizes
    <3> HIDE DEF p, j
    <3> QED
      BY <2>2, <2>8, <3>1, <3>2 DEF At
  <2>10. got.after \in Twisters /\ got.after.seeded = t.seeded
    BY <1>4, <2>1, <2>3, Sizes DEF Twisters
  <2> HIDE DEF j, word
  <2> QED
    BY <2>6, <2>7, <2>8, <2>9, <2>10 DEF word, x, got
<1>6. CASE t.left # 0
  <2>1. t.left \in 1..(Batch - 1) /\ t.next = Batch - t.left /\ t.next \in Batched
    <3>1. t.left \in 1..(Batch - 1)
      BY <1>3, <1>6, Sizes
    <3>2. t.left > 0
      BY <3>1, Sizes
    <3>3. t.next = Batch - t.left
      BY <1>3, <3>2
    <3> QED
      BY <3>1, <3>3, Sizes DEF Batched
  <2> DEFINE y == t.state[t.next]
  <2>2. got = [after |-> [state |-> t.state, next |-> t.next + 1, left |-> t.left - 1, seeded |-> t.seeded],
               number |-> Tempered(y) \div 2]
    BY <1>4, <1>6 DEF randomMT
  <2>3. k # 0 /\ k \in Nat /\ k - 1 \in Nat
    BY <1>3, <1>6
  <2>4. o + t.next = Batch + count
    <3> HIDE DEF o
    <3> QED
      BY <1>2, <1>3, <1>4, <2>1, Sizes
  <2>5. y = x[Batch + count] /\ y \in Words
    <3> HIDE DEF o
    <3> QED
      BY <1>3, <1>4, <2>1, <2>4
  <2>6. (count + 1) % Batch # 1
    <3> DEFINE
          n == count + 1
          i == k - 1
          r == t.next + 1
    <3>1. r \in 1..Batch /\ r # 1
      BY <2>1, Sizes
    <3>2. Batch * k = Batch * i + Batch /\ i \in Nat
      BY <2>3, Sizes
    <3>3. n = Batch * i + r
      <4> DEFINE c == Batch * i
      <4>1. c \in Int /\ o = c + Batch
        BY <3>2, Sizes
      <4> HIDE DEF c, o, i
      <4>2. n = c + r
        BY <2>4, <4>1, <2>1, Sizes
      <4> QED
        BY <4>2 DEF c
    <3> HIDE DEF n, i, r
    <3>4. n % Batch = 1 <=> r = 1
      BY <3>1, <3>2, <3>3, FirstOfBatch
    <3> QED
      BY <3>1, <3>4 DEF n
  <2> HIDE DEF y, got
  <2>7. got.number = word \div 2 /\ got.number \in Words
    <3>1. Tempered(y) = word /\ Tempered(y) \in Words /\ 2 \in Nat \ {0}
      BY <2>5, TemperedIsWord
    <3> HIDE DEF word
    <3>2. word \div 2 \in Words
      BY <3>1, HalfIsWord
    <3> QED
      BY <2>2, <3>1, <3>2
  <2>8. At(got.after, x, count + 1, k)
    <3>1. got.after.left = t.left - 1 /\ got.after.next = t.next + 1 /\ got.after.state = t.state
      BY <2>2
    <3>2. t.left - 1 \in 0..(Batch - 1) /\ t.next + 1 = Batch - (t.left - 1) /\ count + 1 = o - (t.left - 1)
      <4> HIDE DEF o
      <4> QED
        BY <1>2, <1>3, <2>1, Sizes
    <3> QED
      BY <1>3, <2>3, <3>1, <3>2 DEF At
  <2>9. got.after \in Twisters /\ got.after.seeded = t.seeded
    BY <1>4, <2>1, <2>2 DEF Twisters
  <2> HIDE DEF word
  <2> QED
    BY <2>6, <2>7, <2>8, <2>9 DEF word, x, got
<1> QED
  BY <1>5, <1>6

(* A seed that was given or taken is where the sequence begins.             *)
LEMMA SeedIsBeginning ==
  ASSUME NEW seed \in Words, twister \in Twisters
  PROVE  seedMT(seed) \in Twisters /\ seedMT(seed).seeded /\ At(seedMT(seed), Sequence(seed), 0, 0)
<1> DEFINE t == seedMT(seed)
<1>1. t = [state |-> SeedWords(seed), next |-> twister.next, left |-> 0, seeded |-> TRUE]
  BY DEF seedMT
<1>2. SeedWords(seed) \in [Batched -> Words]
  BY SeedWordsAre DEF Batched
<1>3. t \in Twisters /\ t.seeded /\ t.left = 0 /\ t.state = SeedWords(seed)
  BY <1>1, <1>2 DEF Twisters
<1>4. \A i \in Batched : Batch * 0 + i = i
  BY Sizes DEF Batched
<1>5. \A i \in Batched : SeedWords(seed)[i] = Sequence(seed)[Batch * 0 + i]
  BY <1>4, SequenceIs DEF Recurrent
<1>6. 0 \in 0..(Batch - 1) /\ ~(0 > 0) /\ 0 = Batch * 0 - 0
  BY Sizes
<1> HIDE DEF t
<1>7. At(t, Sequence(seed), 0, 0)
  BY <1>3, <1>5, <1>6 DEF At
<1> QED
  BY <1>3, <1>7 DEF t

(* ... before and after every number that randomMT draws, and every reload. *)
THEOREM RandInductive == RandSpec => []RandInv
<1>1. ASSUME RandInit PROVE RandInv
  <2>1. twister \in Twisters /\ ~twister.seeded
    <3>1. [i \in Batched |-> 0] \in [Batched -> Words] /\ -1 \in Int
      BY Sizes
    <3> QED
      BY <1>1, <3>1 DEF RandInit, Twisters, Batched
  <2>2. drawn.seed \in Words /\ drawn.count = 0
    BY <1>1, Sizes DEF RandInit, Undrawn
  <2> QED
    BY <2>1, <2>2 DEF RandInv, FollowsSeed, WordDrawn
<1>2. ASSUME RandInv, [RandNext]_random PROVE RandInv'
  <2> USE <1>2
  <2>0. twister \in Twisters /\ drawn.seed \in Words /\ drawn.count \in Nat /\ Seeds \subseteq Words
        /\ 0 \in Nat
    BY RandAssumption DEF RandInv
  <2>1. ASSUME NEW seed \in Seeds, mt_srand(seed) PROVE RandInv'
    <3>1. /\ seed \in Words /\ seedMT(seed) \in Twisters /\ seedMT(seed).seeded
          /\ At(seedMT(seed), Sequence(seed), 0, 0)
      BY <2>0, SeedIsBeginning
    <3>2. twister' = seedMT(seed) /\ drawn'.seed = seed /\ drawn'.count = 0
      BY <2>1 DEF mt_srand, Undrawn
    <3>3. At(twister', Sequence(drawn'.seed), drawn'.count, 0)
      BY <3>1, <3>2
    <3>4. FollowsSeed'
      BY <3>2 DEF FollowsSeed, WordDrawn
    <3> QED
      BY <2>0, <3>1, <3>2, <3>3, <3>4 DEF RandInv
  <2>2. ASSUME NEW range \in Ranges, mt_rand(range) PROVE RandInv'
    <3> DEFINE from(seed) == IF twister.seeded THEN twister ELSE seedMT(seed)
    <3>1. PICK seed \in IF twister.seeded THEN {drawn.seed} ELSE Seeds :
             /\ twister' = randomMT(from(seed)).after
             /\ drawn' = [seed |-> seed, count |-> drawn.count + 1,
                          number |-> randomMT(from(seed)).number, range |-> range,
                          value |-> InRange(randomMT(from(seed)).number, range)]
      BY <2>2 DEF mt_rand
    <3>2. seed \in Words
      BY <2>0, <3>1
    <3>3. /\ from(seed) \in Twisters /\ from(seed).seeded
          /\ \E k \in Nat : At(from(seed), Sequence(seed), drawn.count, k)
      <4>1. CASE twister.seeded
        <5>1. seed = drawn.seed /\ from(seed) = twister
          BY <3>1, <4>1
        <5> QED
          BY <2>0, <4>1, <5>1 DEF RandInv
      <4>2. CASE ~twister.seeded
        <5>1. from(seed) = seedMT(seed) /\ drawn.count = 0
          BY <4>2 DEF RandInv
        <5>2. seedMT(seed) \in Twisters /\ seedMT(seed).seeded /\ At(seedMT(seed), Sequence(seed), 0, 0)
          BY <2>0, <3>2, SeedIsBeginning
        <5> QED
          BY <2>0, <5>1, <5>2
      <4> QED
        BY <4>1, <4>2
    <3> DEFINE
          t == from(seed)
          got == randomMT(t)
          word == Tempered(Sequence(seed)[Batch + drawn.count])
    <3>4. twister' = got.after /\ drawn'.seed = seed /\ drawn'.count = drawn.count + 1
          /\ drawn'.number = got.number /\ drawn'.range = range
          /\ drawn'.value = InRange(got.number, range)
      BY <3>1
    <3> HIDE DEF from
    <3>5. PICK k \in Nat : At(t, Sequence(seed), drawn.count, k)
      BY <3>3
    <3>6. t \in Twisters
      BY <3>3
    <3>7. /\ got.after \in Twisters /\ got.after.seeded = t.seeded
          /\ got.number \in Words
          /\ got.number = IF (drawn.count + 1) % Batch = 1 THEN word ELSE word \div 2
          /\ \E j \in Nat : At(got.after, Sequence(seed), drawn.count + 1, j)
      <4> HIDE DEF t
      <4> QED
        BY <2>0, <3>2, <3>5, <3>6, DrawGoesOn
    <3>8. InRange(got.number, range) \in range.min..range.max
      <4> HIDE DEF got
      <4> QED
        BY <3>7, InRangeIs
    <3>9. Batch + (drawn'.count - 1) = Batch + drawn.count /\ drawn'.count \in Nat
      BY <2>0, <3>4, Sizes
    <3> HIDE DEF t, got
    <3>10. FollowsSeed'
      BY <3>4, <3>7, <3>8, <3>9 DEF FollowsSeed, WordDrawn
    <3> QED
      BY <3>2, <3>3, <3>4, <3>7, <3>9, <3>10 DEF RandInv, t
  <2>3. CASE UNCHANGED random
    BY <2>3 DEF RandInv, FollowsSeed, WordDrawn, random
  <2> QED
    BY <2>1, <2>2, <2>3 DEF RandNext
<1> QED
  BY <1>1, <1>2, PTL DEF RandSpec

(* Whatever the sizes of batches and words, the seeds and the ranges: the   *)
(* numbers after a seed come from the words of the recurrence, one after    *)
(* the other and across the batches, each whole or less its last bit, and   *)
(* what is returned is in the range.                                        *)
THEOREM NumbersFollowSeed == RandSpec => []FollowsSeed
<1>1. RandInv => FollowsSeed
  BY DEF RandInv
<1> QED
  BY <1>1, RandInductive, PTL

-----------------------------------------------------------------------------
(* The message and its length in the blocks of sha1.                        *)

LEMMA PowersAre ==
  ASSUME NEW b \in Nat \ {0}
  PROVE  /\ PowersOf(b)[0] = 1
         /\ \A n \in Nat : PowersOf(b)[n] \in Nat \ {0} /\ PowersOf(b)[n + 1] = b * PowersOf(b)[n]
<1> DEFINE
      V == Nat \ {0}
      g == [p \in Nat \X V |-> b * p[2]]
      body(f) == [n \in Nat |-> IF n = 0 THEN 1 ELSE b * f[n - 1]]
      T == CHOOSE f : f = body(f)
<1>1. \A x \in V : b * x \in V
  <2> TAKE x \in V
  <2>1. b * x \in Int /\ b >= 1 /\ x >= 1
    OBVIOUS
  <2>2. b * x >= x
    BY <2>1, Z3
  <2> QED
    BY <2>1, <2>2
<1>2. g \in [Nat \X V -> V] /\ \A n \in Nat, x \in V : g[<<n, x>>] = b * x
  <2> HIDE DEF V
  <2> QED
    BY <1>1
<1>3. PICK f : Recursive(V, 1, g, f)
  <2> HIDE DEF g
  <2>1. 1 \in V
    OBVIOUS
  <2> HIDE DEF V
  <2> QED
    BY <1>2, <2>1, RecursionOnNat
<1>4. f \in [Nat -> V] /\ f[0] = 1 /\ \A n \in Nat \ {0} : f[n] = g[<<n, f[n - 1]>>]
  BY <1>3 DEF Recursive
<1>5. \A n \in Nat \ {0} : f[n] = b * f[n - 1]
  <2> TAKE n \in Nat \ {0}
  <2>1. n - 1 \in Nat /\ n \in Nat
    OBVIOUS
  <2>2. f[n - 1] \in V
    BY <1>4, <2>1
  <2> HIDE DEF g, V
  <2> QED
    BY <1>2, <1>4, <2>1, <2>2
<1>6. f = body(f)
  <2>1. \A n \in Nat : f[n] = IF n = 0 THEN 1 ELSE b * f[n - 1]
    <3> HIDE DEF g, V
    <3> QED
      BY <1>4, <1>5
  <2> HIDE DEF g, V
  <2> QED
    BY <1>4, <2>1
<1>7. T = body(T)
  <2> HIDE DEF body
  <2> QED
    BY <1>6
<1>8. PowersOf(b) = T
  BY DEF PowersOf
<1> HIDE DEF T
<1>9. T[0] = 1 /\ \A n \in Nat : T[n + 1] = b * T[n]
  <2>1. \A n \in Nat : T[n] = IF n = 0 THEN 1 ELSE b * T[n - 1]
    BY <1>7
  <2>2. \A n \in Nat : n + 1 \in Nat /\ n + 1 # 0 /\ (n + 1) - 1 = n
    OBVIOUS
  <2> HIDE DEF body
  <2> QED
    BY <2>1, <2>2
<1> DEFINE S == {n \in Nat : T[n] \in V}
<1>10. S = Nat
  <2> HIDE DEF body
  <2>1. 0 \in S
    BY <1>9
  <2>2. ASSUME NEW n \in S PROVE n + 1 \in S
    <3>1. n \in Nat /\ n + 1 \in Nat /\ T[n] \in V /\ T[n + 1] = b * T[n]
      BY <1>9
    <3> HIDE DEF V
    <3> QED
      BY <1>1, <3>1
  <2>3. S \in SUBSET Nat
    OBVIOUS
  <2> HIDE DEF S
  <2> QED
    BY <2>1, <2>2, <2>3, NaturalInduction
<1> QED
  BY <1>8, <1>9, <1>10

Powers == PowersOf(OctetSize)
Room == Block - LengthOctets

LEMMA Widths ==
  /\ OctetBits \in Nat \ {0} /\ OctetSize \in Nat \ {0} /\ WordSize \in Nat \ {0}
  /\ \E m \in Nat \ {0} : WordSize = OctetBits * m
  /\ WordOctets \in Nat \ {0} /\ LengthOctets = WordOctets + WordOctets
  /\ LengthOctets \in Nat /\ Block \in Nat /\ Room \in Nat \ {0} /\ Block = Room + LengthOctets
<1>1. OctetBits \in Nat \ {0} /\ Block \in Nat /\ Block > LengthOctets
  BY Sha1Assumption
<1>2. PICK k \in 1..Block : LengthOctets = 2 * k
  BY Sha1Assumption
<1>3. k \in Nat \ {0} /\ WordOctets = k /\ LengthOctets = k + k /\ LengthOctets \in Nat
  BY <1>1, <1>2 DEF WordOctets
<1>4. Room \in Nat \ {0} /\ Block = Room + LengthOctets
  BY <1>1, <1>3 DEF Room
<1>5. OctetSize \in Nat \ {0}
  <2>1. OctetBits \in Nat /\ 2 \in Nat \ {0}
    BY <1>1
  <2> QED
    BY <2>1, PowersAre DEF OctetSize
<1>6. WordSize \in Nat \ {0}
  BY <1>3, <1>5, PowersAre DEF WordSize
<1>7. \E m \in Nat \ {0} : WordSize = OctetBits * m
  <2> DEFINE
        w == WordSize
        b == OctetBits
        q == w \div b
  <2>1. w \in Nat \ {0} /\ b \in Nat \ {0} /\ w % b = 0
    BY <1>1, <1>6, Sha1Assumption
  <2> HIDE DEF w, b
  <2>2. q \in Int /\ w = b * q
    BY <2>1, Z3
  <2> HIDE DEF q
  <2>3. q > 0
    BY <2>1, <2>2, Z3
  <2>4. q \in Nat \ {0}
    BY <2>2, <2>3
  <2> QED
    BY <2>2, <2>4 DEF w, b
<1> QED
  BY <1>1, <1>3, <1>4, <1>5, <1>6, <1>7

(* The context while octets are taken: after so many of them.               *)
Contexts == [blocks : Seq(Seq(Nat)), block : Seq(Nat), low : Nat, high : Nat,
             computed : BOOLEAN, corrupted : BOOLEAN]

Counts(low, high, f) ==
    /\ low \in Nat /\ high \in Nat /\ low < WordSize /\ high < WordSize
    /\ \E m \in Nat : low = OctetBits * m
    /\ (high * WordSize) + low = OctetBits * f

Keeps(blocks, block, f) ==
    /\ blocks \in Seq(Seq(Nat)) /\ block \in Seq(Nat) /\ Len(block) < Block
    /\ f = (Block * Len(blocks)) + Len(block)
    /\ \A b \in 1..Len(blocks) :
          Len(blocks[b]) = Block /\ \A j \in 1..Block : blocks[b][j] = Octet((Block * (b - 1)) + j)
    /\ \A j \in 1..Len(block) : block[j] = Octet((Block * Len(blocks)) + j)

Holds(c, f) ==
    /\ c \in Contexts /\ ~c.computed
    /\ c.corrupted <=> OctetBits * f >= WordSize * WordSize
    /\ ~c.corrupted => Counts(c.low, c.high, f) /\ Keeps(c.blocks, c.block, f)

(* The length in two words, of which the second carries into the first.     *)
LEMMA CarryIs ==
  ASSUME NEW f \in Nat, NEW l, NEW h, Counts(l, h, f)
  PROVE  LET low == (l + OctetBits) % WordSize
             high == IF low = 0 THEN (h + 1) % WordSize ELSE h
         IN /\ low \in Nat /\ high \in Nat
            /\ IF low = 0 /\ high = 0 THEN OctetBits * (f + 1) >= WordSize * WordSize
               ELSE Counts(low, high, f + 1) /\ OctetBits * (f + 1) < WordSize * WordSize
<1> DEFINE
      b == OctetBits
      w == WordSize
      low == (l + b) % w
      high == IF low = 0 THEN (h + 1) % w ELSE h
<1>1. PICK m \in Nat, n \in Nat \ {0} : l = b * m /\ w = b * n
  BY Widths DEF Counts
<1>2. b \in Nat \ {0} /\ w \in Nat \ {0} /\ l \in Nat /\ h \in Nat /\ l < w /\ h < w
      /\ (h * w) + l = b * f
  BY Widths DEF Counts
<1>3. b * (f + 1) = (b * f) + b /\ b * (m + 1) = (b * m) + b
  BY <1>2, Z3
<1>4. m + 1 <= n
  <2>0. b * m < b * n
    BY <1>1, <1>2
  <2>1. ~(m + 1 <= n) => b * n <= b * m
    BY <1>1, <1>2, Z3
  <2>2. b * m \in Int /\ b * n \in Int
    BY <1>1, <1>2
  <2> QED
    BY <2>0, <2>1, <2>2
<1>5. l + b <= w
  <2>1. b * (m + 1) <= b * n
    BY <1>1, <1>2, <1>4, Z3
  <2> QED
    BY <1>1, <1>2, <1>3, <2>1
<1> DEFINE p == b * f
           q == h * w
           t == b * (f + 1)
           s == w * w
<1>6. p \in Int /\ q \in Int /\ t = p + b /\ s \in Int /\ q + l = p
  BY <1>2, <1>3
<1>7. q <= s - w
  <2>1. h <= w - 1
    BY <1>2
  <2>2. q <= (w - 1) * w
    BY <1>2, <2>1, Z3
  <2>3. (w - 1) * w = s - w
    BY <1>2, Z3
  <2> QED
    BY <2>2, <2>3
<1>8. CASE l + b < w
  <2>1. low = l + b
    <3>1. l + b \in Nat
      BY <1>2
    <3> HIDE DEF w, b
    <3> QED
      BY <1>2, <1>8, <3>1, Z3
  <2> HIDE DEF low
  <2>2. low # 0 /\ low \in Nat /\ low < w /\ high = h
    BY <1>2, <1>8, <2>1
  <2>3. \E k \in Nat : low = b * k
    <3>1. m + 1 \in Nat
      OBVIOUS
    <3> QED
      BY <1>1, <1>3, <2>1, <3>1
  <2>4. q + low = t /\ t < s
    <3> HIDE DEF p, q, t, s
    <3> QED
      BY <1>2, <1>6, <1>7, <1>8, <2>1
  <2>5. Counts(low, high, f + 1)
    BY <1>2, <2>2, <2>3, <2>4 DEF Counts
  <2> HIDE DEF high
  <2> QED
    BY <1>2, <2>2, <2>4, <2>5 DEF low, high
<1>9. CASE l + b = w
  <2>1. low = 0
    <3>1. w % w = 0
      <4> HIDE DEF w
      <4> QED
        BY <1>2, Z3
    <3> QED
      BY <1>9, <3>1
  <2> HIDE DEF low
  <2>2. CASE h + 1 < w
    <3>1. (h + 1) % w = h + 1
      <4> HIDE DEF w
      <4> QED
        BY <1>2, <2>2, Z3
    <3>2. high = h + 1 /\ high # 0 /\ high \in Nat /\ high < w
      BY <1>2, <2>1, <2>2, <3>1
    <3>3. \E k \in Nat : low = b * k
      <4>1. b * 0 = 0
        BY <1>2
      <4> QED
        BY <2>1, <4>1
    <3>4. (high * w) + low = t /\ t < s
      <4>1. (h + 1) * w = q + w
        BY <1>2, Z3
      <4>2. (h + 1) * w <= (w - 1) * w
        BY <1>2, <2>2, Z3
      <4>3. (w - 1) * w = s - w
        BY <1>2, Z3
      <4>4. high * w = q + w /\ q + w <= s - w
        BY <3>2, <4>1, <4>2, <4>3
      <4> DEFINE r == high * w
      <4> HIDE DEF p, q, t, s, high, r
      <4>5. r = q + w /\ q + w <= s - w
        BY <4>4 DEF r
      <4>6. r + low = t /\ t < s
        BY <1>2, <1>6, <1>9, <2>1, <4>5
      <4> QED
        BY <4>6 DEF r
    <3>5. Counts(low, high, f + 1)
      BY <1>2, <2>1, <3>2, <3>3, <3>4 DEF Counts
    <3> HIDE DEF high
    <3> QED
      BY <2>1, <3>2, <3>4, <3>5 DEF low, high
  <2>3. CASE ~(h + 1 < w)
    <3>1. h + 1 = w
      BY <1>2, <2>3
    <3>2. w % w = 0
      <4> HIDE DEF w
      <4> QED
        BY <1>2, Z3
    <3>3. high = 0
      BY <2>1, <3>1, <3>2
    <3>4. (h + 1) * w = q + w
      BY <1>2, Z3
    <3>5. s = q + w
      BY <3>1, <3>4
    <3>6. t = s
      <4> HIDE DEF p, q, t, s
      <4> QED
        BY <1>2, <1>6, <1>9, <3>5
    <3>7. t >= s
      BY <1>6, <3>6
    <3> HIDE DEF high
    <3> QED
      BY <2>1, <3>3, <3>7 DEF low, high
  <2> QED
    BY <2>2, <2>3
<1> QED
  BY <1>2, <1>5, <1>8, <1>9

(* An octet goes to its place, in the block or as the last of one.          *)
LEMMA OctetIsNat == ASSUME NEW i \in Nat PROVE Octet(i) \in Nat
BY Widths DEF Octet

LEMMA PlaceKept ==
  ASSUME NEW f \in Nat, NEW blocks, NEW block, Keeps(blocks, block, f)
  PROVE  LET more == Append(block, Octet(f + 1))
         IN /\ more \in Seq(Nat) /\ Len(more) = Len(block) + 1
            /\ IF Len(more) = Block THEN Keeps(Append(blocks, more), <<>>, f + 1)
               ELSE Keeps(blocks, more, f + 1)
<1> DEFINE
      o == Octet(f + 1)
      more == Append(block, o)
      n == Len(blocks)
      p == Len(block)
      z == Block * n
<1>1. /\ blocks \in Seq(Seq(Nat)) /\ block \in Seq(Nat) /\ p < Block /\ f = z + p
      /\ \A b \in 1..n : Len(blocks[b]) = Block /\ \A j \in 1..Block : blocks[b][j] = Octet((Block * (b - 1)) + j)
      /\ \A j \in 1..p : block[j] = Octet(z + j)
  BY DEF Keeps
<1>2. n \in Nat /\ p \in Nat /\ o \in Nat /\ Block \in Nat /\ z \in Int
  <2>1. f + 1 \in Nat
    OBVIOUS
  <2>2. o \in Nat /\ Block \in Nat
    BY <2>1, Widths, OctetIsNat
  <2>3. n \in Nat /\ p \in Nat
    BY <1>1
  <2> HIDE DEF n, p, o
  <2> QED
    BY <2>2, <2>3
<1> HIDE DEF o
<1>3. more \in Seq(Nat) /\ Len(more) = p + 1 /\ more[p + 1] = o /\ \A j \in 1..p : more[j] = block[j]
  BY <1>1, <1>2
<1>4. \A j \in 1..(p + 1) : more[j] = Octet(z + j)
  <2>1. o = Octet(z + (p + 1))
    <3>1. f + 1 = z + (p + 1)
      <4> HIDE DEF p, z
      <4> QED
        BY <1>1, <1>2
    <3> QED
      BY <3>1 DEF o
  <2>2. \A j \in 1..(p + 1) : j \in 1..p \/ j = p + 1
    <3> HIDE DEF p
    <3> QED
      BY <1>2
  <2> HIDE DEF more, p, z
  <2> QED
    BY <1>1, <1>3, <2>1, <2>2
<1>5. CASE p + 1 = Block
  <2> DEFINE
        all == Append(blocks, more)
        m == n + 1
  <2>1. all \in Seq(Seq(Nat)) /\ Len(all) = m /\ all[m] = more /\ \A b \in 1..n : all[b] = blocks[b]
    <3> HIDE DEF more
    <3> QED
      BY <1>1, <1>2, <1>3
  <2> HIDE DEF all
  <2>2. Block * m = z + Block /\ m - 1 = n
    BY <1>2
  <2>3. \A b \in 1..m : Len(all[b]) = Block /\ \A j \in 1..Block : all[b][j] = Octet((Block * (b - 1)) + j)
    <3> TAKE b \in 1..m
    <3>1. CASE b = m
      <4> HIDE DEF more
      <4> QED
        BY <1>3, <1>4, <1>5, <2>1, <2>2, <3>1
    <3>2. CASE b # m
      <4>1. b \in 1..n
        BY <1>2, <3>2
      <4> HIDE DEF n
      <4> QED
        BY <1>1, <2>1, <4>1
    <3> QED
      BY <3>1, <3>2
  <2>4. f + 1 = (Block * m) + 0
    <3> HIDE DEF z, p, m
    <3> QED
      BY <1>1, <1>2, <1>5, <2>2
  <2>5. <<>> \in Seq(Nat) /\ Len(<<>>) = 0 /\ 0 < Block /\ \A j \in 1..0 : FALSE
    BY Widths
  <2>6. Keeps(all, <<>>, f + 1)
    <3>1. f + 1 = (Block * Len(all)) + Len(<<>>)
      <4> HIDE DEF m
      <4> QED
        BY <2>1, <2>4, <2>5
    <3>2. \A j \in 1..Len(<<>>) : <<>>[j] = Octet((Block * Len(all)) + j)
      BY <2>5
    <3>3. \A b \in 1..Len(all) : Len(all[b]) = Block /\ \A j \in 1..Block : all[b][j] = Octet((Block * (b - 1)) + j)
      <4> HIDE DEF m
      <4> QED
        BY <2>1, <2>3
    <3> HIDE DEF m
    <3> QED
      BY <2>1, <2>5, <3>1, <3>2, <3>3 DEF Keeps
  <2>7. Len(more) = Block
    BY <1>3, <1>5
  <2> HIDE DEF more
  <2> QED
    BY <1>3, <2>6, <2>7 DEF all, more, o, p
<1>6. CASE p + 1 # Block
  <2>1. p + 1 < Block
    <3> HIDE DEF p
    <3> QED
      BY <1>1, <1>2, <1>6
  <2>2. f + 1 = z + (p + 1)
    <3> HIDE DEF p, z
    <3> QED
      BY <1>1, <1>2
  <2>3. Keeps(blocks, more, f + 1)
    <3>1. Len(more) < Block /\ f + 1 = (Block * Len(blocks)) + Len(more)
      BY <1>3, <2>1, <2>2
    <3>2. \A j \in 1..Len(more) : more[j] = Octet((Block * Len(blocks)) + j)
      BY <1>3, <1>4
    <3> HIDE DEF more
    <3> QED
      BY <1>1, <1>3, <3>1, <3>2 DEF Keeps
  <2>4. Len(more) # Block
    BY <1>3, <1>6
  <2> HIDE DEF more
  <2> QED
    BY <1>3, <2>3, <2>4 DEF more, o, p
<1> QED
  BY <1>5, <1>6

(* Changes of the context, field by field.                                  *)
Context(blocks, block, low, high, computed, corrupted) ==
    [blocks |-> blocks, block |-> block, low |-> low, high |-> high,
     computed |-> computed, corrupted |-> corrupted]

Named(c) == c = Context(c.blocks, c.block, c.low, c.high, c.computed, c.corrupted)

LEMMA ContextIs ==
  ASSUME NEW c \in Contexts
  PROVE  Named(c)
BY DEF Contexts, Context, Named

LEMMA Counted ==
  ASSUME NEW c, Named(c), NEW x, NEW y, NEW z, NEW b,
         NEW d, d = [c EXCEPT !.block = x, !.low = y, !.high = z, !.corrupted = b]
  PROVE  d = Context(c.blocks, x, y, z, c.computed, b)
BY DEF Named, Context

LEMMA Filling ==
  ASSUME NEW c, Named(c), NEW x, NEW d, d = [c EXCEPT !.block = x]
  PROVE  d = Context(c.blocks, x, c.low, c.high, c.computed, c.corrupted)
BY DEF Named, Context

LEMMA Processed ==
  ASSUME NEW c, Named(c), NEW d, d = SHA1ProcessMessageBlock(c)
  PROVE  d = Context(Append(c.blocks, c.block), <<>>, c.low, c.high, c.computed, c.corrupted)
BY DEF Named, Context, SHA1ProcessMessageBlock

LEMMA ContextNamed ==
  ASSUME NEW blocks, NEW block, NEW low, NEW high, NEW computed, NEW corrupted,
         NEW c, c = Context(blocks, block, low, high, computed, corrupted)
  PROVE  /\ Named(c)
         /\ c.blocks = blocks /\ c.block = block /\ c.low = low /\ c.high = high
         /\ c.computed = computed /\ c.corrupted = corrupted
BY DEF Named, Context

LEMMA TakeHolds ==
  ASSUME NEW f \in Nat, NEW c, Holds(c, f)
  PROVE  Holds(Take(c, Octet(f + 1)), f + 1)
<1> DEFINE
      o == Octet(f + 1)
      low == (c.low + OctetBits) % WordSize
      high == IF low = 0 THEN (c.high + 1) % WordSize ELSE c.high
      bad == low = 0 /\ high = 0
      more == Append(c.block, o)
      d == Take(c, o)
<1>0. /\ c \in Contexts /\ ~c.computed
      /\ c.corrupted <=> OctetBits * f >= WordSize * WordSize
      /\ ~c.corrupted => Counts(c.low, c.high, f) /\ Keeps(c.blocks, c.block, f)
  BY DEF Holds
<1>1. CASE c.corrupted
  <2>1. d = c
    BY <1>1 DEF Take
  <2>2. OctetBits * (f + 1) >= WordSize * WordSize
    <3> DEFINE
          x == OctetBits * f
          y == WordSize * WordSize
    <3>1. x \in Int /\ y \in Int /\ OctetBits \in Nat /\ x >= y /\ OctetBits * (f + 1) = x + OctetBits
      BY <1>0, <1>1, Widths
    <3> HIDE DEF x, y
    <3>2. x + OctetBits >= y
      BY <3>1
    <3> QED
      BY <3>1, <3>2 DEF y
  <2> QED
    BY <1>0, <1>1, <2>1, <2>2 DEF Holds
<1>2. CASE ~c.corrupted
  <2>1. /\ low \in Nat /\ high \in Nat
        /\ IF bad THEN OctetBits * (f + 1) >= WordSize * WordSize
           ELSE Counts(low, high, f + 1) /\ OctetBits * (f + 1) < WordSize * WordSize
    <3>1. Counts(c.low, c.high, f)
      BY <1>0, <1>2
    <3> QED
      BY <3>1, CarryIs
  <2>2. /\ more \in Seq(Nat)
        /\ IF Len(more) = Block THEN Keeps(Append(c.blocks, more), <<>>, f + 1)
           ELSE Keeps(c.blocks, more, f + 1)
    <3>1. Keeps(c.blocks, c.block, f)
      BY <1>0, <1>2
    <3> QED
      BY <3>1, PlaceKept
  <2> DEFINE
        blocks == IF Len(more) = Block THEN Append(c.blocks, more) ELSE c.blocks
        block == IF Len(more) = Block THEN <<>> ELSE more
        new == Context(blocks, block, low, high, c.computed, bad)
  <2>3. Keeps(blocks, block, f + 1)
    <3> HIDE DEF more
    <3> QED
      BY <2>2
  <2>4. d = new
    <3> DEFINE
          taken == [c EXCEPT !.block = more, !.low = low, !.high = high, !.corrupted = bad]
          processed == SHA1ProcessMessageBlock(taken)
    <3>1. Named(c)
      BY <1>0, ContextIs
    <3>2. taken = Context(c.blocks, more, low, high, c.computed, bad)
      <4> DEFINE b == bad
      <4>1. taken = [c EXCEPT !.block = more, !.low = low, !.high = high, !.corrupted = b]
        OBVIOUS
      <4> HIDE DEF more, low, high, b, taken
      <4>2. taken = Context(c.blocks, more, low, high, c.computed, b)
        BY <3>1, <4>1, Counted
      <4> QED
        BY <4>2 DEF b
    <3>3. d = IF Len(taken.block) = Block THEN processed ELSE taken
      BY <1>2 DEF Take
    <3>7. /\ Named(taken) /\ taken.blocks = c.blocks /\ taken.block = more /\ taken.low = low
          /\ taken.high = high /\ taken.computed = c.computed /\ taken.corrupted = bad
      <4> HIDE DEF more, low, high, bad, taken
      <4> QED
        BY <3>2, ContextNamed
    <3>8. processed = Context(Append(c.blocks, more), <<>>, low, high, c.computed, bad)
      <4>1. processed = SHA1ProcessMessageBlock(taken)
        OBVIOUS
      <4> HIDE DEF more, low, high, bad, taken, processed
      <4>2. processed = Context(Append(taken.blocks, taken.block), <<>>, taken.low, taken.high,
                                taken.computed, taken.corrupted)
        BY <3>7, <4>1, Processed
      <4> QED
        BY <3>7, <4>2
    <3>5. CASE Len(more) = Block
      <4>1. blocks = Append(c.blocks, more) /\ block = <<>>
        BY <3>5
      <4>2. d = processed
        <5> HIDE DEF taken, d, processed
        <5> QED
          BY <3>3, <3>5, <3>7
      <4> HIDE DEF taken, d, processed, blocks, block, more, low, high, bad
      <4> QED
        BY <3>8, <4>1, <4>2
    <3>6. CASE Len(more) # Block
      <4>1. blocks = c.blocks /\ block = more
        BY <3>6
      <4>2. d = taken
        <5> HIDE DEF taken, d, processed
        <5> QED
          BY <3>3, <3>6, <3>7
      <4> HIDE DEF taken, d, processed, blocks, block, more, low, high, bad
      <4> QED
        BY <3>2, <4>1, <4>2
    <3> QED
      BY <3>5, <3>6
  <2>5. blocks \in Seq(Seq(Nat)) /\ block \in Seq(Nat)
    BY <2>3 DEF Keeps
  <2>6. bad <=> OctetBits * (f + 1) >= WordSize * WordSize
    <3> DEFINE
          x == OctetBits * (f + 1)
          y == WordSize * WordSize
    <3>1. x \in Int /\ y \in Int
      BY Widths
    <3> HIDE DEF x, y, bad, low, high
    <3>2. IF bad THEN x >= y ELSE x < y
      BY <2>1 DEF x, y
    <3>3. x < y => ~(x >= y)
      BY <3>1
    <3>4. bad <=> x >= y
      BY <3>2, <3>3
    <3> QED
      BY <3>4 DEF x, y
  <2> HIDE DEF blocks, block, low, high, d
  <2>7. bad \in BOOLEAN /\ c.computed \in BOOLEAN
    BY <1>0 DEF Contexts
  <2> HIDE DEF bad
  <2>8. new \in Contexts /\ ~new.computed
    BY <1>0, <2>1, <2>5, <2>7 DEF Contexts, Context
  <2>9. ~bad => Counts(low, high, f + 1)
    BY <2>1
  <2>10. Holds(new, f + 1)
    <3>1. new.corrupted = bad /\ new.low = low /\ new.high = high /\ new.blocks = blocks /\ new.block = block
      BY DEF Context
    <3> HIDE DEF new
    <3> QED
      BY <2>3, <2>6, <2>8, <2>9, <3>1 DEF Holds
  <2> QED
    BY <2>4, <2>10 DEF d
<1> QED
  BY <1>1, <1>2

(* And so do all octets of a piece, whatever its length.                    *)
LEMMA InputHolds ==
  ASSUME NEW f \in Nat, NEW c, Holds(c, f), NEW l \in Nat
  PROVE  Holds(SHA1Input(c, [i \in 1..l |-> Octet(f + i)]), f + l)
<1> DEFINE
      octets == [i \in 1..l |-> Octet(f + i)]
      V == [n \in 0..l |-> {x \in Contexts : Holds(x, f + n)}]
      g == [p \in (1..l) \X Contexts |-> Take(p[2], octets[p[1]])]
      body(h) == [n \in 0..l |-> IF n = 0 THEN c ELSE Take(h[n - 1], octets[n])]
      T == CHOOSE h : h = body(h)
<1>1. c \in Contexts /\ ~c.computed
  BY DEF Holds
<1>2. Len(octets) = l /\ \A n \in 1..l : octets[n] = Octet(f + n)
  OBVIOUS
<1> HIDE DEF octets
<1>3. \A n \in 1..l : \A x : Holds(x, f + (n - 1)) => Holds(Take(x, octets[n]), f + n)
  <2> TAKE n \in 1..l
  <2> TAKE x
  <2> SUFFICES ASSUME Holds(x, f + (n - 1)) PROVE Holds(Take(x, octets[n]), f + n)
    OBVIOUS
  <2> DEFINE m == f + (n - 1)
  <2>1. m \in Nat /\ m + 1 = f + n
    OBVIOUS
  <2> HIDE DEF m
  <2>2. Holds(x, m)
    BY DEF m
  <2>3. Holds(Take(x, Octet(m + 1)), m + 1)
    BY <2>1, <2>2, TakeHolds
  <2> QED
    BY <1>2, <2>1, <2>3
<1>4. \A n \in 0..l : \A x : x \in V[n] <=> Holds(x, f + n)
  BY DEF Holds
<1>5. c \in V[0] /\ \A n \in 1..l : \A x \in V[n - 1] : g[<<n, x>>] \in V[n]
  <2>1. 0 \in 0..l /\ f + 0 = f /\ \A n \in 1..l : n \in 0..l /\ n - 1 \in 0..l
    OBVIOUS
  <2>2. c \in V[0]
    <3> HIDE DEF V
    <3> QED
      BY <1>4, <2>1
  <2>3. ASSUME NEW n \in 1..l, NEW x \in V[n - 1] PROVE g[<<n, x>>] \in V[n]
    <3>1. Holds(x, f + (n - 1))
      <4> HIDE DEF V
      <4> QED
        BY <1>4, <2>1
    <3>2. g[<<n, x>>] = Take(x, octets[n])
      BY <3>1 DEF Holds
    <3>3. Holds(Take(x, octets[n]), f + n)
      BY <1>3, <3>1
    <3> HIDE DEF V, g
    <3> QED
      BY <1>4, <2>1, <3>2, <3>3
  <2> HIDE DEF V, g
  <2> QED
    BY <2>2, <2>3
<1>6. PICK h : Goes(h, c, g, l) /\ \A n \in 0..l : h[n] \in V[n]
  <2> HIDE DEF V, g
  <2> QED
    BY <1>5, RecursionWithin
<1>7. h = body(h)
  <2>1. h = [n \in 0..l |-> h[n]] /\ h[0] = c /\ \A n \in 1..l : h[n] = g[<<n, h[n - 1]>>]
    BY <1>6 DEF Goes, UpTo
  <2>2. \A n \in 1..l : n - 1 \in 0..l /\ h[n - 1] \in Contexts
    BY <1>6
  <2>3. \A n \in 1..l : g[<<n, h[n - 1]>>] = Take(h[n - 1], octets[n])
    BY <2>2
  <2>4. \A n \in 0..l : h[n] = IF n = 0 THEN c ELSE Take(h[n - 1], octets[n])
    <3>1. \A n \in 0..l : n = 0 \/ n \in 1..l
      OBVIOUS
    <3> HIDE DEF g, V
    <3> QED
      BY <2>1, <2>3, <3>1
  <2> HIDE DEF g, V
  <2> QED
    BY <2>1, <2>4
<1>8. T = body(T)
  <2> HIDE DEF body
  <2> QED
    BY <1>7
<1> HIDE DEF T
<1>9. T[0] = c /\ \A n \in 1..l : T[n] = Take(T[n - 1], octets[n])
  <2>1. \A n \in 0..l : T[n] = IF n = 0 THEN c ELSE Take(T[n - 1], octets[n])
    BY <1>8
  <2>2. 0 \in 0..l /\ \A n \in 1..l : n \in 0..l /\ n # 0
    OBVIOUS
  <2> HIDE DEF body
  <2> QED
    BY <2>1, <2>2
<1> DEFINE S == {n \in Nat : n <= l => Holds(T[n], f + n)}
<1>10. S = Nat
  <2> HIDE DEF body
  <2>1. 0 \in S
    <3>1. f + 0 = f
      OBVIOUS
    <3> QED
      BY <1>9, <3>1
  <2>2. ASSUME NEW n \in S PROVE n + 1 \in S
    <3> SUFFICES ASSUME n + 1 <= l PROVE Holds(T[n + 1], f + (n + 1))
      OBVIOUS
    <3> DEFINE k == n + 1
    <3>1. k \in 1..l /\ k - 1 = n /\ n <= l /\ n \in Nat
      OBVIOUS
    <3>2. Holds(T[n], f + n)
      BY <3>1
    <3> HIDE DEF k, S
    <3>3. Holds(T[k - 1], f + (k - 1)) /\ T[k] = Take(T[k - 1], octets[k])
      BY <1>9, <3>1, <3>2
    <3>4. Holds(T[k], f + k)
      BY <1>3, <3>1, <3>3
    <3> QED
      BY <3>4 DEF k
  <2>3. S \in SUBSET Nat
    OBVIOUS
  <2> HIDE DEF S
  <2> QED
    BY <2>1, <2>2, <2>3, NaturalInduction
<1>11. Holds(T[l], f + l)
  BY <1>10
<1> DEFINE d == SHA1Input(c, octets)
<1>12. d = IF octets # <<>> /\ (c.computed \/ c.corrupted) THEN [c EXCEPT !.corrupted = TRUE]
           ELSE T[l]
  BY <1>2 DEF SHA1Input, T
<1> HIDE DEF d
<1>13. CASE octets # <<>> /\ c.corrupted
  <2>1. d = [c EXCEPT !.corrupted = TRUE]
    BY <1>12, <1>13
  <2>2. d = c
    <3>1. c.corrupted = TRUE
      BY <1>1, <1>13 DEF Contexts
    <3> QED
      BY <1>1, <2>1, <3>1 DEF Contexts
  <2>3. OctetBits * (f + l) >= WordSize * WordSize
    <3> DEFINE
          x == OctetBits * f
          z == OctetBits * l
          y == WordSize * WordSize
    <3>1. x \in Int /\ y \in Int /\ z \in Nat /\ x >= y /\ OctetBits * (f + l) = x + z
      BY <1>13, Widths DEF Holds
    <3> HIDE DEF x, y, z
    <3>2. x + z >= y
      BY <3>1
    <3> QED
      BY <3>1, <3>2 DEF y
  <2>4. Holds(c, f + l)
    BY <1>13, <2>3 DEF Holds
  <2> QED
    BY <2>2, <2>4 DEF d, octets
<1>14. CASE ~(octets # <<>> /\ c.corrupted)
  <2>1. d = T[l]
    BY <1>1, <1>12, <1>14
  <2> QED
    BY <1>11, <2>1 DEF d, octets
<1> QED
  BY <1>13, <1>14

(* The blocks that padding makes of the last one.                           *)
LEMMA JoinIs ==
  ASSUME NEW a \in Seq(Nat), NEW b \in Seq(Nat), NEW m, NEW n, m = Len(a), n = Len(b)
  PROVE  /\ a \o b \in Seq(Nat) /\ Len(a \o b) = m + n
         /\ \A i \in 1..m : (a \o b)[i] = a[i]
         /\ \A i \in 1..n : (a \o b)[m + i] = b[i]
<1>1. m \in Nat /\ n \in Nat
  OBVIOUS
<1>2. a \o b \in Seq(Nat) /\ Len(a \o b) = Len(a) + Len(b)
  OBVIOUS
<1>3. \A i \in 1..(Len(a) + Len(b)) : (a \o b)[i] = IF i <= Len(a) THEN a[i] ELSE b[i - Len(a)]
  OBVIOUS
<1> DEFINE c == a \o b
<1> HIDE DEF c
<1>4. \A i \in 1..(m + n) : c[i] = IF i <= m THEN a[i] ELSE b[i - m]
  BY <1>3 DEF c
<1>5. \A i \in 1..m : i \in 1..(m + n) /\ i <= m
  BY <1>1
<1>6. \A i \in 1..n : m + i \in 1..(m + n) /\ ~(m + i <= m) /\ (m + i) - m = i
  BY <1>1
<1> QED
  BY <1>2, <1>4, <1>5, <1>6 DEF c

LEMMA FilledIs ==
  ASSUME NEW block \in Seq(Nat), NEW place \in Nat, Len(block) <= place
  PROVE  /\ Filled(block, place) \in Seq(Nat) /\ Len(Filled(block, place)) = place
         /\ \A i \in 1..place : Filled(block, place)[i] = IF i <= Len(block) THEN block[i] ELSE 0
<1> DEFINE
      n == Len(block)
      l == place - n
      zeros == [i \in 1..l |-> 0]
<1>1. n \in Nat /\ l \in Nat /\ n + l = place
  <2>1. n \in Nat
    OBVIOUS
  <2> HIDE DEF n
  <2> QED
    BY <2>1 DEF n
<1> HIDE DEF l
<1>2. zeros \in Seq(Nat) /\ Len(zeros) = l /\ \A i \in 1..l : zeros[i] = 0
  BY <1>1
<1> HIDE DEF zeros
<1>3. /\ block \o zeros \in Seq(Nat) /\ Len(block \o zeros) = n + l
      /\ \A i \in 1..(n + l) : (block \o zeros)[i] = IF i <= n THEN block[i] ELSE zeros[i - n]
  BY <1>1, <1>2
<1>4. \A i \in 1..place : ~(i <= n) => i - n \in 1..l
  <2> HIDE DEF n
  <2> QED
    BY <1>1
<1>5. Filled(block, place) = block \o zeros
  BY DEF Filled, zeros, l
<1> HIDE DEF n
<1> QED
  BY <1>1, <1>2, <1>3, <1>4, <1>5 DEF n

Bit == OctetSize \div 2
PlaceOctet(block, j) == IF j <= Len(block) THEN block[j] ELSE IF j = Len(block) + 1 THEN Bit ELSE 0

LEMMA BegunIs ==
  ASSUME NEW block \in Seq(Nat), NEW place \in Nat, Len(block) < place
  PROVE  LET begun == Filled(Append(block, Bit), place)
         IN /\ begun \in Seq(Nat) /\ Len(begun) = place
            /\ \A j \in 1..place : begun[j] = PlaceOctet(block, j)
<1> DEFINE
      bit == Bit
      more == Append(block, bit)
      n == Len(block)
<1>1. bit \in Nat
  BY Widths DEF Bit
<1> HIDE DEF bit
<1>2. more \in Seq(Nat) /\ Len(more) = n + 1 /\ more[n + 1] = bit /\ \A j \in 1..n : more[j] = block[j]
  BY <1>1
<1>3. n \in Nat /\ n + 1 <= place
  <2>1. n \in Nat
    OBVIOUS
  <2> HIDE DEF n
  <2> QED
    BY <2>1 DEF n
<1> HIDE DEF more
<1>4. /\ Filled(more, place) \in Seq(Nat) /\ Len(Filled(more, place)) = place
      /\ \A j \in 1..place : Filled(more, place)[j] = IF j <= Len(more) THEN more[j] ELSE 0
  <2>1. Len(more) <= place
    BY <1>2, <1>3
  <2> QED
    BY <1>2, <2>1, FilledIs
<1>5. \A j \in 1..place : (IF j <= Len(more) THEN more[j] ELSE 0) = PlaceOctet(block, j)
  <2>1. \A j \in 1..place : /\ j <= n => j \in 1..n /\ j <= n + 1
                            /\ j = n + 1 => ~(j <= n) /\ j <= n + 1
                            /\ ~(j <= n) /\ j # n + 1 => ~(j <= n + 1)
    <3> HIDE DEF n
    <3> QED
      BY <1>3
  <2> QED
    BY <1>2, <2>1 DEF PlaceOctet, bit
<1> QED
  BY <1>4, <1>5 DEF more, bit

LEMMA LengthIs ==
  ASSUME NEW c, c.low \in Nat, c.high \in Nat
  PROVE  /\ LengthAsOctets(c) \in Seq(Nat) /\ Len(LengthAsOctets(c)) = LengthOctets
         /\ \A i \in 1..WordOctets :
               /\ LengthAsOctets(c)[i] = (c.high \div Powers[WordOctets - i]) % OctetSize
               /\ LengthAsOctets(c)[WordOctets + i] = (c.low \div Powers[WordOctets - i]) % OctetSize
<1> DEFINE
      w == WordOctets
      octets(x) == [i \in 1..w |-> (x \div Powers[w - i]) % OctetSize]
<1>1. w \in Nat /\ LengthOctets = w + w /\ OctetSize \in Nat \ {0}
  BY Widths
<1>2. \A i \in 1..w : Powers[w - i] \in Nat \ {0}
  <2>1. \A i \in 1..w : w - i \in Nat
    BY <1>1
  <2> QED
    BY <1>1, <2>1, PowersAre DEF Powers
<1>3. \A x \in Nat, i \in 1..w : (x \div Powers[w - i]) % OctetSize \in Nat
  <2> TAKE x \in Nat, i \in 1..w
  <2> DEFINE q == x \div Powers[w - i]
  <2>1. q \in Nat
    BY <1>2, DivisionOfNats
  <2> HIDE DEF q
  <2>2. q % OctetSize \in Nat
    BY <1>1, <2>1
  <2> QED
    BY <2>2 DEF q
<1> DEFINE
      h == octets(c.high)
      l == octets(c.low)
<1>4. /\ h \in Seq(Nat) /\ Len(h) = w /\ \A i \in 1..w : h[i] = (c.high \div Powers[w - i]) % OctetSize
      /\ l \in Seq(Nat) /\ Len(l) = w /\ \A i \in 1..w : l[i] = (c.low \div Powers[w - i]) % OctetSize
  <2> HIDE DEF w
  <2> QED
    BY <1>1, <1>3
<1> HIDE DEF h, l
<1>5. LengthAsOctets(c) = h \o l
  BY DEF LengthAsOctets, h, l, Powers
<1>6. /\ h \o l \in Seq(Nat) /\ Len(h \o l) = w + w
      /\ \A i \in 1..w : (h \o l)[i] = h[i] /\ (h \o l)[w + i] = l[i]
  <2> HIDE DEF w
  <2> QED
    BY <1>4, JoinIs
<1> QED
  BY <1>1, <1>4, <1>5, <1>6

(* Padding: the block that was begun, with the bit and zeros; when it is    *)
(* too small, another one; and the length in the last octets of the last.   *)
LastOf(c, begun) == SubSeq(Filled(begun, Room), 1, Room) \o LengthAsOctets(c)

LEMMA LastIs ==
  ASSUME NEW c, c.low \in Nat, c.high \in Nat, NEW begun \in Seq(Nat), Len(begun) <= Room
  PROVE  /\ LastOf(c, begun) \in Seq(Nat) /\ Len(LastOf(c, begun)) = Block
         /\ \A j \in 1..Room : LastOf(c, begun)[j] = Filled(begun, Room)[j]
         /\ \A i \in 1..LengthOctets : LastOf(c, begun)[Room + i] = LengthAsOctets(c)[i]
<1> DEFINE
      a == Filled(begun, Room)
      b == LengthAsOctets(c)
      f == SubSeq(a, 1, Room)
<1>1. Room \in Nat /\ LengthOctets \in Nat /\ Block = Room + LengthOctets
  BY Widths
<1>2. a \in Seq(Nat) /\ Len(a) = Room
  BY <1>1, FilledIs
<1>3. b \in Seq(Nat) /\ Len(b) = LengthOctets
  BY LengthIs
<1> HIDE DEF a, b
<1>4. f \in Seq(Nat) /\ Len(f) = Room /\ \A j \in 1..Room : f[j] = a[j]
  BY <1>1, <1>2
<1> HIDE DEF f
<1>5. /\ f \o b \in Seq(Nat) /\ Len(f \o b) = Room + LengthOctets
      /\ \A j \in 1..Room : (f \o b)[j] = f[j]
      /\ \A i \in 1..LengthOctets : (f \o b)[Room + i] = b[i]
  BY <1>3, <1>4, JoinIs
<1>8. LastOf(c, begun) = f \o b
  BY DEF LastOf, f, a, b
<1> QED
  BY <1>1, <1>4, <1>5, <1>8 DEF a, b

FirstEnd(c) == Filled(Append(c.block, Bit), Block)
Ends(c) ==
    IF TooSmall(c.block) THEN Append(Append(c.blocks, FirstEnd(c)), LastOf(c, <<>>))
    ELSE Append(c.blocks, LastOf(c, Append(c.block, Bit)))

LEMMA PadIs ==
  ASSUME NEW c, Named(c)
  PROVE  SHA1PadMessage(c) = Context(Ends(c), <<>>, c.low, c.high, c.computed, c.corrupted)
<1> DEFINE
      more == Append(c.block, Bit)
      begun == [c EXCEPT !.block = more]
      full == [begun EXCEPT !.block = Filled(begun.block, Block)]
      processed == SHA1ProcessMessageBlock(full)
      ended == IF TooSmall(c.block) THEN processed ELSE begun
      end == SubSeq(Filled(ended.block, Room), 1, Room) \o LengthAsOctets(c)
      filled == [ended EXCEPT !.block = end]
      d == SHA1ProcessMessageBlock(filled)
<1>1. SHA1PadMessage(c) = d
  BY DEF SHA1PadMessage, Bit, Room
<1>2. begun = Context(c.blocks, more, c.low, c.high, c.computed, c.corrupted)
  <2>1. begun = [c EXCEPT !.block = more]
    OBVIOUS
  <2> HIDE DEF begun, more
  <2> QED
    BY <2>1, Filling
<1>3. /\ Named(begun) /\ begun.blocks = c.blocks /\ begun.block = more /\ begun.low = c.low
      /\ begun.high = c.high /\ begun.computed = c.computed /\ begun.corrupted = c.corrupted
  <2> HIDE DEF begun, more
  <2> QED
    BY <1>2, ContextNamed
<1>4. full = Context(c.blocks, FirstEnd(c), c.low, c.high, c.computed, c.corrupted)
  <2> DEFINE e == Filled(begun.block, Block)
  <2>1. e = FirstEnd(c)
    <3> HIDE DEF begun
    <3> QED
      BY <1>3 DEF FirstEnd
  <2>2. full = [begun EXCEPT !.block = e]
    OBVIOUS
  <2> HIDE DEF begun, full, e
  <2>3. full = Context(begun.blocks, e, begun.low, begun.high, begun.computed, begun.corrupted)
    BY <1>3, <2>2, Filling
  <2> QED
    BY <1>3, <2>1, <2>3
<1>5. processed = Context(Append(c.blocks, FirstEnd(c)), <<>>, c.low, c.high, c.computed, c.corrupted)
  <2>1. processed = SHA1ProcessMessageBlock(full)
    OBVIOUS
  <2> HIDE DEF full, processed
  <2>2. /\ Named(full) /\ full.blocks = c.blocks /\ full.block = FirstEnd(c) /\ full.low = c.low
        /\ full.high = c.high /\ full.computed = c.computed /\ full.corrupted = c.corrupted
    BY <1>4, ContextNamed
  <2>3. processed = Context(Append(full.blocks, full.block), <<>>, full.low, full.high,
                            full.computed, full.corrupted)
    BY <2>1, <2>2, Processed
  <2> QED
    BY <2>2, <2>3
<1> DEFINE
      blocks == IF TooSmall(c.block) THEN Append(c.blocks, FirstEnd(c)) ELSE c.blocks
      block == IF TooSmall(c.block) THEN <<>> ELSE more
<1>6. ended = Context(blocks, block, c.low, c.high, c.computed, c.corrupted)
  <2> HIDE DEF processed, begun, more
  <2> QED
    BY <1>2, <1>5
<1> HIDE DEF ended, blocks, block
<1>7. /\ Named(ended) /\ ended.blocks = blocks /\ ended.block = block /\ ended.low = c.low
      /\ ended.high = c.high /\ ended.computed = c.computed /\ ended.corrupted = c.corrupted
  BY <1>6, ContextNamed
<1>8. end = LastOf(c, block)
  BY <1>7 DEF LastOf
<1>9. filled = Context(blocks, LastOf(c, block), c.low, c.high, c.computed, c.corrupted)
  <2>1. filled = [ended EXCEPT !.block = end]
    OBVIOUS
  <2> HIDE DEF filled, end
  <2>2. filled = Context(ended.blocks, end, ended.low, ended.high, ended.computed, ended.corrupted)
    BY <1>7, <2>1, Filling
  <2> QED
    BY <1>7, <1>8, <2>2
<1> HIDE DEF end, filled
<1>10. /\ Named(filled) /\ filled.blocks = blocks /\ filled.block = LastOf(c, block) /\ filled.low = c.low
       /\ filled.high = c.high /\ filled.computed = c.computed /\ filled.corrupted = c.corrupted
  BY <1>9, ContextNamed
<1>11. d = Context(Append(blocks, LastOf(c, block)), <<>>, c.low, c.high, c.computed, c.corrupted)
  <2>1. d = SHA1ProcessMessageBlock(filled)
    OBVIOUS
  <2> HIDE DEF d
  <2>2. d = Context(Append(filled.blocks, filled.block), <<>>, filled.low, filled.high,
                    filled.computed, filled.corrupted)
    BY <1>10, <2>1, Processed
  <2> QED
    BY <1>10, <2>2
<1>12. Ends(c) = Append(blocks, LastOf(c, block))
  BY DEF Ends, blocks, block, more
<1> HIDE DEF d
<1> QED
  BY <1>1, <1>11, <1>12

LEMMA EndsAre ==
  ASSUME NEW f \in Nat, NEW c, Holds(c, f), ~c.corrupted
  PROVE  LET n == Len(c.blocks)
             e == Ends(c)
         IN /\ e \in Seq(Seq(Nat)) /\ Len(e) = n + (IF TooSmall(c.block) THEN 2 ELSE 1)
            /\ \A b \in 1..Len(e) : Len(e[b]) = Block
            /\ \A b \in 1..n : e[b] = c.blocks[b]
            /\ \A j \in 1..Room : e[n + 1][j] = PlaceOctet(c.block, j)
            /\ TooSmall(c.block) => /\ \A j \in 1..Block : e[n + 1][j] = PlaceOctet(c.block, j)
                                    /\ \A j \in 1..Room : e[n + 2][j] = 0
            /\ \A i \in 1..LengthOctets : e[Len(e)][Room + i] = LengthAsOctets(c)[i]
<1> DEFINE
      n == Len(c.blocks)
      p == Len(c.block)
      m == n + 1
      k == n + 2
      blocks == c.blocks
      e == Ends(c)
<1>1. /\ blocks \in Seq(Seq(Nat)) /\ c.block \in Seq(Nat) /\ p < Block
      /\ \A b \in 1..n : Len(blocks[b]) = Block
      /\ c.low \in Nat /\ c.high \in Nat
  BY DEF Holds, Keeps, Counts
<1>2. n \in Nat /\ p \in Nat /\ Block = Room + LengthOctets /\ Room \in Nat \ {0} /\ LengthOctets \in Nat
      /\ Block \in Nat
  <2>1. n \in Nat /\ p \in Nat
    BY <1>1
  <2> HIDE DEF n, p
  <2> QED
    BY <2>1, Widths
<1>3. CASE TooSmall(c.block)
  <2> DEFINE
        x == FirstEnd(c)
        y == LastOf(c, <<>>)
        a == Append(blocks, x)
  <2>1. x \in Seq(Nat) /\ Len(x) = Block /\ \A j \in 1..Block : x[j] = PlaceOctet(c.block, j)
    BY <1>1, <1>2, BegunIs DEF FirstEnd
  <2>2. <<>> \in Seq(Nat) /\ Len(<<>>) = 0 /\ Len(<<>>) <= Room /\ \A j \in 1..Room : ~(j <= 0)
    BY <1>2
  <2>3. /\ y \in Seq(Nat) /\ Len(y) = Block
        /\ \A j \in 1..Room : y[j] = Filled(<<>>, Room)[j]
        /\ \A i \in 1..LengthOctets : y[Room + i] = LengthAsOctets(c)[i]
    BY <1>1, <2>2, LastIs
  <2>4. \A j \in 1..Room : Filled(<<>>, Room)[j] = 0
    <3>1. \A j \in 1..Room : Filled(<<>>, Room)[j] = IF j <= Len(<<>>) THEN <<>>[j] ELSE 0
      BY <1>2, <2>2, FilledIs
    <3> QED
      BY <2>2, <3>1
  <2> HIDE DEF x, y
  <2>5. a \in Seq(Seq(Nat)) /\ Len(a) = m /\ a[m] = x /\ \A b \in 1..n : a[b] = blocks[b]
    BY <1>1, <1>2, <2>1
  <2> HIDE DEF a
  <2>6. e = Append(a, y)
    BY <1>3 DEF Ends, a, x, y
  <2> HIDE DEF e
  <2>7. e \in Seq(Seq(Nat)) /\ Len(e) = m + 1 /\ e[m + 1] = y /\ \A b \in 1..m : e[b] = a[b]
    BY <2>3, <2>5, <2>6
  <2>8. m + 1 = k /\ m \in 1..m /\ \A b \in 1..n : b \in 1..m
    BY <1>2
  <2>9. Len(e) = k /\ e[k] = y /\ e[m] = x /\ \A b \in 1..n : e[b] = blocks[b]
    <3> HIDE DEF m, k, n
    <3> QED
      BY <2>5, <2>7, <2>8
  <2>10. \A b \in 1..k : b = k \/ b = m \/ b \in 1..n
    BY <1>2
  <2>11. \A b \in 1..k : Len(e[b]) = Block
    <3> HIDE DEF m, k, n
    <3> QED
      BY <1>1, <2>1, <2>3, <2>9, <2>10
  <2>12. \A j \in 1..Room : j \in 1..Block
    BY <1>2
  <2> HIDE DEF m, k, n
  <2>13. /\ e \in Seq(Seq(Nat)) /\ Len(e) = k
         /\ \A b \in 1..Len(e) : Len(e[b]) = Block
         /\ \A b \in 1..n : e[b] = blocks[b]
         /\ \A j \in 1..Block : e[m][j] = PlaceOctet(c.block, j)
         /\ \A j \in 1..Room : e[m][j] = PlaceOctet(c.block, j)
         /\ \A j \in 1..Room : e[k][j] = 0
         /\ \A i \in 1..LengthOctets : e[Len(e)][Room + i] = LengthAsOctets(c)[i]
    BY <2>1, <2>3, <2>4, <2>7, <2>9, <2>11, <2>12
  <2> QED
    BY <1>3, <2>13 DEF m, k, n, e
<1>4. CASE ~TooSmall(c.block)
  <2> DEFINE
        x == Append(c.block, Bit)
        y == LastOf(c, x)
  <2>1. x \in Seq(Nat) /\ Len(x) = p + 1
    <3>1. Bit \in Nat
      BY Widths DEF Bit
    <3> QED
      BY <1>1, <3>1
  <2>2. p + 1 <= Room
    <3> HIDE DEF p
    <3>1. ~(p > (Block - LengthOctets) - 1)
      BY <1>4 DEF TooSmall, p
    <3> QED
      BY <1>2, <3>1
  <2>3. \A j \in 1..Room : Filled(x, Room)[j] = PlaceOctet(c.block, j)
    <3>1. p < Room
      <4> HIDE DEF p
      <4> QED
        BY <1>2, <2>2
    <3> QED
      BY <1>1, <1>2, <3>1, BegunIs
  <2> HIDE DEF x
  <2>4. /\ y \in Seq(Nat) /\ Len(y) = Block
        /\ \A j \in 1..Room : y[j] = Filled(x, Room)[j]
        /\ \A i \in 1..LengthOctets : y[Room + i] = LengthAsOctets(c)[i]
    BY <1>1, <2>1, <2>2, LastIs
  <2>5. e = Append(blocks, y)
    BY <1>4 DEF Ends, x, y
  <2> HIDE DEF y, e
  <2>6. e \in Seq(Seq(Nat)) /\ Len(e) = m /\ e[m] = y /\ \A b \in 1..n : e[b] = blocks[b]
    BY <1>1, <1>2, <2>4, <2>5
  <2>7. \A b \in 1..m : b = m \/ b \in 1..n
    BY <1>2
  <2> HIDE DEF m, n
  <2>8. /\ e \in Seq(Seq(Nat)) /\ Len(e) = m
        /\ \A b \in 1..Len(e) : Len(e[b]) = Block
        /\ \A b \in 1..n : e[b] = blocks[b]
        /\ \A j \in 1..Room : e[m][j] = PlaceOctet(c.block, j)
        /\ \A i \in 1..LengthOctets : e[Len(e)][Room + i] = LengthAsOctets(c)[i]
    BY <1>1, <2>3, <2>4, <2>6, <2>7
  <2> QED
    BY <1>4, <2>8 DEF m, n, e
<1> QED
  BY <1>3, <1>4

(* The octets of the blocks in a row.                                       *)
LEMMA QuotientOf ==
  ASSUME NEW b \in Nat \ {0}, NEW w \in Int, NEW q \in Int, b * q <= w, w < (b * q) + b
  PROVE  w \div b = q /\ w % b = w - (b * q)
<1> DEFINE
      c == w \div b
      r == w % b
      j == q - c
<1>1. c \in Int /\ r \in Int /\ 0 <= r /\ r < b /\ w = b * c + r
  BY Z3
<1> HIDE DEF c, r
<1>2. j \in Int /\ b * j <= r /\ r < (b * j) + b
  BY <1>1, Z3
<1> HIDE DEF j
<1>3. j < 0 => b * j <= -b
  BY <1>2, Z3
<1>4. j > 0 => b * j >= b
  BY <1>2, Z3
<1>5. j = 0
  <2> DEFINE z == b * j
  <2>1. z \in Int
    BY <1>2
  <2> HIDE DEF z
  <2>2. z <= r /\ r < z + b /\ (j < 0 => z <= -b) /\ (j > 0 => z >= b)
    BY <1>2, <1>3, <1>4 DEF z
  <2> QED
    BY <1>1, <1>2, <2>1, <2>2
<1>6. q = c
  BY <1>1, <1>5 DEF j
<1>7. r = w - (b * q)
  BY <1>1, <1>6, Z3
<1> QED
  BY <1>6, <1>7 DEF c, r

LEMMA HashedAt ==
  ASSUME NEW d, NEW q \in Nat, NEW j \in 1..Block, NEW i, i = (Block * q) + j
  PROVE  Hashed(d, i) = d.blocks[q + 1][j]
<1> DEFINE
      z == Block * q
      w == i - 1
<1>1. Block \in Nat \ {0} /\ z \in Int /\ j \in Int /\ 1 <= j /\ j <= Block
  BY Widths
<1>2. w \in Int /\ z <= w /\ w < z + Block /\ w - z = j - 1
  <2> HIDE DEF z
  <2> QED
    BY <1>1 DEF z
<1> HIDE DEF w
<1>3. w \div Block = q /\ w % Block = w - (Block * q)
  <2> DEFINE b == Block
  <2>1. b \in Nat \ {0} /\ w \in Int /\ q \in Int /\ b * q <= w /\ w < (b * q) + b
    BY <1>1, <1>2
  <2> HIDE DEF b
  <2>2. w \div b = q /\ w % b = w - (b * q)
    BY <2>1, QuotientOf
  <2> QED
    BY <2>2 DEF b
<1>4. (w % Block) + 1 = j
  <2>1. w % Block = j - 1
    BY <1>2, <1>3
  <2> QED
    BY <1>1, <2>1
<1> QED
  BY <1>3, <1>4 DEF Hashed, w

LEMMA PlaceIs ==
  ASSUME NEW i \in Nat \ {0}
  PROVE  \E q \in Nat, j \in 1..Block : i = (Block * q) + j
<1> DEFINE
      b == Block
      w == i - 1
      q == w \div b
      r == w % b
      j == r + 1
<1>1. b \in Nat \ {0} /\ w \in Nat
  BY Widths
<1> HIDE DEF b, w
<1>2. q \in Nat
  BY <1>1, DivisionOfNats
<1>3. r \in Int /\ 0 <= r /\ r < b /\ w = b * q + r
  BY <1>1, Z3
<1> HIDE DEF q, r
<1>4. j \in 1..b /\ i = (b * q) + j
  <2> DEFINE z == b * q
  <2>1. z \in Int
    BY <1>1, <1>2
  <2> HIDE DEF z
  <2>2. w = z + r
    BY <1>3 DEF z
  <2>3. j \in 1..b /\ i = z + j
    BY <1>1, <1>3, <2>1, <2>2 DEF w
  <2> QED
    BY <2>3 DEF z
<1> QED
  BY <1>2, <1>4 DEF b

(* The octets of a word, the first one first, are its digits: each takes    *)
(* what was read so far to one digit more of the word.                      *)
LEMMA DigitGoesOn ==
  ASSUME NEW w \in Nat, NEW a \in Nat \ {0}, NEW s \in Nat \ {0}
  PROVE  ((w \div (s * a)) * s) + ((w \div a) % s) = w \div a
<1> DEFINE
      x == w \div a
      y == x \div s
      r == x % s
      b == s * a
<1>1. x \in Int /\ a * x <= w /\ w < (a * x) + a
  BY Z3
<1>2. x \in Nat
  BY DivisionOfNats
<1> HIDE DEF x
<1>3. y \in Int /\ r \in Int /\ 0 <= r /\ r < s /\ x = s * y + r
  BY <1>2, Z3
<1> HIDE DEF y, r
<1>4. b \in Nat \ {0}
  <2>1. a >= 1 /\ s >= 1 /\ b \in Int
    OBVIOUS
  <2>2. b >= a
    BY <2>1, Z3
  <2> QED
    BY <2>1, <2>2
<1>5. b * y <= w /\ w < (b * y) + b
  <2>1. b * y = a * (s * y)
    BY <1>3, Z3
  <2>2. s * y <= x /\ x + 1 <= (s * y) + s
    BY <1>2, <1>3
  <2>3. s * y \in Int /\ (s * y) + s \in Int /\ x + 1 \in Int
    BY <1>2, <1>3
  <2> DEFINE
        t == s * y
        u == (s * y) + s
  <2> HIDE DEF t, u
  <2>4. a * t <= a * x
    BY <1>2, <2>2, <2>3, Z3 DEF t
  <2>5. a * (x + 1) <= a * u
    BY <1>2, <2>2, <2>3, Z3 DEF u
  <2>6. a * (x + 1) = (a * x) + a
    BY <1>2, Z3
  <2>7. a * u = (b * y) + b
    BY <1>3, Z3 DEF u
  <2>8. b * y <= a * x /\ (a * x) + a <= (b * y) + b
    BY <2>1, <2>4, <2>5, <2>6, <2>7 DEF t
  <2> DEFINE
        g == b * y
        h == a * x
  <2>9. g \in Int /\ h \in Int /\ b \in Int
    BY <1>2, <1>3, <1>4
  <2>10. g <= h /\ h + a <= g + b /\ h <= w /\ w < h + a
    BY <1>1, <2>8
  <2> HIDE DEF g, h, b
  <2>11. g <= w /\ w < g + b
    BY <2>9, <2>10
  <2> QED
    BY <2>11 DEF g
<1>6. w \div b = y
  <2>1. w \in Int
    OBVIOUS
  <2> HIDE DEF b
  <2> QED
    BY <1>3, <1>4, <1>5, <2>1, QuotientOf
<1>7. (y * s) + r = x
  BY <1>2, <1>3, Z3
<1> QED
  BY <1>6, <1>7 DEF y, r, x, b

Reads(T, D, l) == T = [i \in 0..l |-> IF i = 0 THEN 0 ELSE (T[i - 1] * OctetSize) + D[i]]

LEMMA ReadsExists ==
  ASSUME NEW l \in Nat, NEW D, \A i \in 1..l : D[i] \in Nat
  PROVE  \E T : Reads(T, D, l)
<1> DEFINE g == [p \in (1..l) \X Nat |-> (p[2] * OctetSize) + D[p[1]]]
           V == [n \in 0..l |-> Nat]
<1>0. OctetSize \in Nat
  BY Widths
<1>1. \A n \in 1..l, x \in Nat : g[<<n, x>>] = (x * OctetSize) + D[n] /\ g[<<n, x>>] \in Nat
  <2> TAKE n \in 1..l, x \in Nat
  <2>1. x * OctetSize \in Nat
    BY <1>0
  <2>2. (x * OctetSize) + D[n] \in Nat
    BY <2>1
  <2>3. g[<<n, x>>] = (x * OctetSize) + D[n]
    OBVIOUS
  <2> QED
    BY <2>2, <2>3
<1>2. \A n \in 0..l : V[n] = Nat
  OBVIOUS
<1> HIDE DEF g, V
<1>3. 0 \in V[0] /\ \A n \in 1..l : \A x \in V[n - 1] : g[<<n, x>>] \in V[n]
  <2>1. 0 \in 0..l /\ \A n \in 1..l : n \in 0..l /\ n - 1 \in 0..l
    OBVIOUS
  <2> QED
    BY <1>1, <1>2, <2>1
<1>4. PICK T : Goes(T, 0, g, l) /\ \A n \in 0..l : T[n] \in V[n]
  BY <1>3, RecursionWithin
<1>5. T = [n \in 0..l |-> T[n]] /\ T[0] = 0 /\ \A n \in 1..l : T[n] = g[<<n, T[n - 1]>>]
  BY <1>4 DEF Goes, UpTo
<1>6. \A n \in 1..l : T[n] = (T[n - 1] * OctetSize) + D[n]
  <2>1. \A n \in 1..l : n - 1 \in 0..l /\ T[n - 1] \in Nat
    BY <1>2, <1>4
  <2> QED
    BY <1>1, <1>5, <2>1
<1>7. \A n \in 0..l : T[n] = IF n = 0 THEN 0 ELSE (T[n - 1] * OctetSize) + D[n]
  <2>1. \A n \in 0..l : n = 0 \/ n \in 1..l
    OBVIOUS
  <2> QED
    BY <1>5, <1>6, <2>1
<1>8. Reads(T, D, l)
  BY <1>5, <1>7 DEF Reads
<1> QED
  BY <1>8

LEMMA NumberRead ==
  ASSUME NEW c, NEW f \in Nat, Counts(c.low, c.high, f), NEW T, NEW D, Reads(T, D, LengthOctets),
         \A i \in 1..LengthOctets : D[i] = LengthAsOctets(c)[i]
  PROVE  T[LengthOctets] = OctetBits * f
<1> DEFINE
      w == WordOctets
      s == OctetSize
      h == c.high
      l == c.low
      P == Powers
<1>0. /\ w \in Nat \ {0} /\ LengthOctets = w + w /\ s \in Nat \ {0}
      /\ h \in Nat /\ l \in Nat /\ h < P[w] /\ l < P[w] /\ (h * P[w]) + l = OctetBits * f
  BY Widths DEF Counts, WordSize, Powers
<1>1. P[0] = 1 /\ \A n \in Nat : P[n] \in Nat \ {0} /\ P[n + 1] = s * P[n]
  BY <1>0, PowersAre DEF Powers
<1>2. \A i \in 1..w : /\ D[i] = (h \div P[w - i]) % s
                      /\ D[w + i] = (l \div P[w - i]) % s
  <2>1. \A i \in 1..w : i \in 1..LengthOctets /\ w + i \in 1..LengthOctets
    BY <1>0
  <2>2. h \in Nat /\ l \in Nat
    BY <1>0
  <2>3. \A i \in 1..w : /\ LengthAsOctets(c)[i] = (h \div P[w - i]) % s
                        /\ LengthAsOctets(c)[w + i] = (l \div P[w - i]) % s
    BY <2>2, LengthIs
  <2> HIDE DEF w, h, l, P, s
  <2> QED
    BY <2>1, <2>3
<1> HIDE DEF w, h, l, P, s
<1>3. T[0] = 0 /\ \A i \in 1..(w + w) : T[i] = (T[i - 1] * s) + D[i]
  <2>1. \A i \in 0..LengthOctets : T[i] = IF i = 0 THEN 0 ELSE (T[i - 1] * s) + D[i]
    BY DEF Reads, s
  <2>2. 0 \in 0..LengthOctets /\ \A i \in 1..(w + w) : i \in 0..LengthOctets /\ i # 0
    BY <1>0
  <2> QED
    BY <2>1, <2>2
<1>4. \A x \in Nat : x < P[w] => x \div P[w] = 0
  <2> TAKE x \in Nat
  <2> DEFINE b == P[w]
  <2> SUFFICES ASSUME x < b PROVE x \div b = 0
    OBVIOUS
  <2>1. b \in Nat \ {0}
    BY <1>0, <1>1
  <2> HIDE DEF b
  <2>2. b * 0 <= x /\ x < (b * 0) + b /\ x \in Int /\ 0 \in Int
    BY <2>1
  <2> QED
    BY <2>1, <2>2, QuotientOf
<1>5. \A x \in Nat : x \div P[0] = x
  <2> TAKE x \in Nat
  <2>1. x \div 1 = x
    BY Z3
  <2> QED
    BY <1>1, <2>1
<1>6. \A x \in Nat, k \in 0..(w - 1) :
         ((x \div P[w - k]) * s) + ((x \div P[w - (k + 1)]) % s) = x \div P[w - (k + 1)]
  <2> TAKE x \in Nat, k \in 0..(w - 1)
  <2> DEFINE
        n == w - (k + 1)
        a == P[n]
  <2>1. n \in Nat /\ w - k = n + 1
    BY <1>0
  <2> HIDE DEF n
  <2>2. P[w - k] = s * a /\ a \in Nat \ {0}
    BY <1>1, <2>1
  <2> HIDE DEF a
  <2>3. ((x \div (s * a)) * s) + ((x \div a) % s) = x \div a
    BY <1>0, <2>2, DigitGoesOn
  <2> QED
    BY <2>2, <2>3 DEF a, n
<1> DEFINE A == {k \in Nat : k <= w => T[k] = h \div P[w - k]}
<1>7. A = Nat
  <2>1. 0 \in A
    <3>1. w - 0 = w /\ h \div P[w] = 0
      BY <1>0, <1>4
    <3> QED
      BY <1>3, <3>1
  <2>2. ASSUME NEW k \in A PROVE k + 1 \in A
    <3> SUFFICES ASSUME k + 1 <= w PROVE T[k + 1] = h \div P[w - (k + 1)]
      OBVIOUS
    <3> DEFINE i == k + 1
    <3>1. k \in Nat /\ k \in 0..(w - 1) /\ k <= w /\ i \in 1..w /\ i \in 1..(w + w) /\ i - 1 = k
      BY <1>0
    <3>2. T[k] = h \div P[w - k]
      BY <3>1
    <3>3. ((h \div P[w - k]) * s) + ((h \div P[w - i]) % s) = h \div P[w - i]
      BY <1>0, <1>6, <3>1
    <3> HIDE DEF i, A
    <3>4. T[i] = (T[k] * s) + D[i]
      BY <1>3, <3>1
    <3>5. D[i] = (h \div P[w - i]) % s
      BY <1>2, <3>1
    <3>6. T[i] = h \div P[w - i]
      BY <3>2, <3>3, <3>4, <3>5
    <3> QED
      BY <3>6 DEF i
  <2>3. A \in SUBSET Nat
    OBVIOUS
  <2> HIDE DEF A
  <2> QED
    BY <2>1, <2>2, <2>3, NaturalInduction
<1>8. T[w] = h
  <2>1. w \in A /\ w - w = 0
    BY <1>0, <1>7
  <2>2. T[w] = h \div P[0]
    BY <1>0, <2>1
  <2> QED
    BY <1>0, <1>5, <2>2
<1> DEFINE B == {k \in Nat : k <= w => T[w + k] = (h * P[k]) + (l \div P[w - k])}
<1>9. B = Nat
  <2>1. 0 \in B
    <3>1. w - 0 = w /\ w + 0 = w /\ l \div P[w] = 0
      BY <1>0, <1>4
    <3>2. (h * P[0]) + 0 = h
      BY <1>0, <1>1
    <3>3. T[w + 0] = (h * P[0]) + (l \div P[w - 0])
      BY <1>8, <3>1, <3>2
    <3> QED
      BY <3>3
  <2>2. ASSUME NEW k \in B PROVE k + 1 \in B
    <3> SUFFICES ASSUME k + 1 <= w PROVE T[w + (k + 1)] = (h * P[k + 1]) + (l \div P[w - (k + 1)])
      OBVIOUS
    <3> DEFINE
          i == k + 1
          j == w + i
          x == l \div P[w - k]
          y == l \div P[w - i]
          u == h * P[k]
    <3>1. /\ k \in Nat /\ k \in 0..(w - 1) /\ k <= w /\ i \in 1..w /\ i \in Nat
          /\ j \in 1..(w + w) /\ j - 1 = w + k /\ w - k \in Nat /\ w - i \in Nat
      BY <1>0
    <3>2. T[w + k] = u + x
      BY <3>1
    <3>3. (x * s) + (y % s) = y
      BY <1>0, <1>6, <3>1
    <3>4. h * P[i] = u * s
      <4>1. P[i] = s * P[k] /\ P[k] \in Nat
        BY <1>1, <3>1
      <4>2. h * (s * P[k]) = (h * P[k]) * s
        <5> DEFINE z == P[k]
        <5> HIDE DEF z
        <5>1. z \in Nat
          BY <4>1 DEF z
        <5>2. h * (s * z) = (h * z) * s
          BY <1>0, <5>1, Z3
        <5> QED
          BY <5>2 DEF z
      <4> QED
        BY <4>1, <4>2
    <3>5. D[j] = y % s
      BY <1>2, <3>1
    <3>6. x \in Nat /\ y \in Nat /\ u \in Nat
      <4>1. P[w - k] \in Nat \ {0} /\ P[w - i] \in Nat \ {0} /\ P[k] \in Nat
        BY <1>1, <3>1
      <4>2. u \in Nat
        BY <1>0, <4>1
      <4> QED
        BY <1>0, <4>1, <4>2, DivisionOfNats
    <3> HIDE DEF i, j, x, y, u, B
    <3>7. T[j] = (T[w + k] * s) + D[j]
      BY <1>3, <3>1
    <3>8. T[j] = ((u + x) * s) + (y % s)
      BY <3>2, <3>5, <3>7
    <3>9. T[j] = (u * s) + y
      <4> DEFINE r == y % s
      <4>1. r \in Int
        BY <1>0, <3>6
      <4> HIDE DEF r
      <4>2. ((u + x) * s) + r = (u * s) + ((x * s) + r)
        BY <1>0, <3>6, <4>1, Z3
      <4> QED
        BY <3>3, <3>8, <4>2 DEF r
    <3>10. T[j] = (h * P[i]) + y
      BY <3>4, <3>9
    <3> QED
      BY <3>10 DEF i, j, y
  <2>3. B \in SUBSET Nat
    OBVIOUS
  <2> HIDE DEF B
  <2> QED
    BY <2>1, <2>2, <2>3, NaturalInduction
<1>10. T[w + w] = (h * P[w]) + l
  <2>1. w \in B /\ w - w = 0
    BY <1>0, <1>9
  <2>2. T[w + w] = (h * P[w]) + (l \div P[0])
    BY <1>0, <2>1
  <2> QED
    BY <1>0, <1>5, <2>2
<1> QED
  BY <1>0, <1>10

(* What the padded blocks say, octet by octet and at the end.               *)
LEMMA PaddedIs ==
  ASSUME NEW f \in Nat, NEW c, Holds(c, f), ~c.corrupted, NEW d, d.blocks = Ends(c)
  PROVE  Padded(d, f)
<1> DEFINE
      e == Ends(c)
      n == Len(c.blocks)
      p == Len(c.block)
      m == Len(e)
      small == TooSmall(c.block)
      z == Block * n
      all == Block * m
      l == LengthOctets
<1>1. /\ c.blocks \in Seq(Seq(Nat)) /\ c.block \in Seq(Nat) /\ p < Block /\ f = z + p
      /\ \A b \in 1..n : \A j \in 1..Block : c.blocks[b][j] = Octet((Block * (b - 1)) + j)
      /\ \A j \in 1..p : c.block[j] = Octet(z + j)
      /\ Counts(c.low, c.high, f)
  BY DEF Holds, Keeps
<1>2. /\ n \in Nat /\ p \in Nat /\ Block = Room + l /\ Room \in Nat \ {0} /\ l \in Nat
      /\ Block \in Nat \ {0} /\ z \in Nat
  <2>1. n \in Nat /\ p \in Nat
    BY <1>1
  <2>2. Block = Room + l /\ Room \in Nat \ {0} /\ l \in Nat /\ Block \in Nat \ {0}
    BY Widths
  <2>3. z \in Nat
    <3> HIDE DEF n
    <3> QED
      BY <2>1, <2>2
  <2> HIDE DEF n, p, z
  <2> QED
    BY <2>1, <2>2, <2>3
<1>3. /\ e \in Seq(Seq(Nat)) /\ m = n + (IF small THEN 2 ELSE 1)
      /\ \A b \in 1..m : Len(e[b]) = Block
      /\ \A b \in 1..n : e[b] = c.blocks[b]
      /\ \A j \in 1..Room : e[n + 1][j] = PlaceOctet(c.block, j)
      /\ small => /\ \A j \in 1..Block : e[n + 1][j] = PlaceOctet(c.block, j)
                  /\ \A j \in 1..Room : e[n + 2][j] = 0
      /\ \A i \in 1..l : e[m][Room + i] = LengthAsOctets(c)[i]
  BY EndsAre
<1>4. small <=> p > (Block - l) - 1
  BY DEF TooSmall
<1>5. d.blocks = e
  OBVIOUS
<1> HIDE DEF e, n, p, m, small, l
<1>6. m \in Nat \ {0} /\ m - 1 \in Nat /\ (small => m = n + 2) /\ (~small => m = n + 1)
  BY <1>2, <1>3
<1>7. all = IF small THEN (z + Block) + Block ELSE z + Block
  <2>1. small => all = (z + Block) + Block
    <3>1. Block * (n + 2) = (z + Block) + Block
      BY <1>2, Z3
    <3> QED
      BY <1>6, <3>1
  <2>2. ~small => all = z + Block
    <3>1. Block * (n + 1) = z + Block
      BY <1>2, Z3
    <3> QED
      BY <1>6, <3>1
  <2> QED
    BY <2>1, <2>2
<1>8. all - ((f + 1) + l) \in 0..(Block - 1)
  <2> HIDE DEF all, z
  <2> QED
    BY <1>1, <1>2, <1>4, <1>7
<1>9. ASSUME NEW i \in 1..(all - l)
      PROVE  Hashed(d, i) = IF i <= f THEN Octet(i) ELSE IF i = f + 1 THEN OctetSize \div 2 ELSE 0
  <2>0. all \in Nat /\ i \in Nat \ {0} /\ i <= all - l
    <3>1. all \in Nat
      <4> HIDE DEF z, all
      <4> QED
        BY <1>2, <1>7
    <3> HIDE DEF all
    <3> QED
      BY <1>2, <3>1
  <2>1. PICK q \in Nat, j \in 1..Block : i = (Block * q) + j
    BY <2>0, PlaceIs
  <2>2. Hashed(d, i) = e[q + 1][j]
    BY <1>5, <2>1, HashedAt
  <2>3. j \in Int /\ 1 <= j /\ j <= Block
    BY <1>2
  <2> DEFINE y == Block * q
  <2>4. y \in Nat /\ i = y + j
    <3>1. y \in Nat
      BY <1>2
    <3> QED
      BY <2>1, <3>1
  <2>5. CASE q < n
    <3>1. y + Block <= z
      <4>1. Block * (q + 1) <= Block * n
        BY <1>2, <2>5, Z3
      <4>2. Block * (q + 1) = y + Block
        BY <1>2, Z3
      <4> QED
        BY <4>1, <4>2
    <3>2. i <= f
      <4> HIDE DEF y, z
      <4> QED
        BY <1>1, <1>2, <2>3, <2>4, <3>1
    <3> DEFINE b == q + 1
    <3>3. b \in 1..n /\ b - 1 = q
      BY <1>2, <2>5
    <3> HIDE DEF b
    <3>4. e[b][j] = Octet((Block * (b - 1)) + j)
      BY <1>1, <1>3, <3>3
    <3>5. e[b][j] = Octet(i)
      BY <2>1, <3>3, <3>4
    <3> QED
      BY <2>2, <3>2, <3>5 DEF b
  <2>6. CASE q = n
    <3>0. y = z /\ i = z + j
      BY <2>4, <2>6
    <3> HIDE DEF y, z, all
    <3>1. e[n + 1][j] = PlaceOctet(c.block, j)
      <4>1. CASE small
        BY <1>3, <4>1
      <4>2. CASE ~small
        <5>1. j \in 1..Room
          BY <1>2, <1>7, <2>0, <2>3, <3>0, <4>2
        <5> QED
          BY <1>3, <5>1
      <4> QED
        BY <4>1, <4>2
    <3>2. /\ i <= f <=> j <= p
          /\ i = f + 1 <=> j = p + 1
          /\ j <= p => j \in 1..p
      BY <1>1, <1>2, <2>3, <3>0
    <3>3. PlaceOctet(c.block, j) = IF j <= p THEN c.block[j] ELSE IF j = p + 1 THEN OctetSize \div 2 ELSE 0
      BY DEF PlaceOctet, Bit, p
    <3>4. j <= p => c.block[j] = Octet(i)
      BY <1>1, <3>0, <3>2
    <3>5. Hashed(d, i) = PlaceOctet(c.block, j)
      BY <2>2, <2>6, <3>1
    <3> QED
      BY <3>2, <3>3, <3>4, <3>5
  <2>7. CASE q > n
    <3>1. Block * (n + 1) = z + Block /\ Block * (n + 2) = (z + Block) + Block
      BY <1>2, Z3
    <3>2. y >= z + Block
      <4>1. Block * q >= Block * (n + 1)
        BY <1>2, <2>7, Z3
      <4> QED
        BY <3>1, <4>1
    <3>3. small /\ q = n + 1
      <4>1. ~small => FALSE
        <5> HIDE DEF y, z, all
        <5> QED
          BY <1>2, <1>7, <2>0, <2>3, <2>4, <3>2
      <4>2. ~(q >= n + 2)
        <5>1. q >= n + 2 => Block * q >= Block * (n + 2)
          BY <1>2, Z3
        <5>2. q >= n + 2 => y >= (z + Block) + Block
          BY <3>1, <5>1
        <5> HIDE DEF y, z, all
        <5> QED
          BY <1>2, <1>7, <2>0, <2>3, <2>4, <4>1, <5>2
      <4> QED
        BY <1>2, <2>7, <4>1, <4>2
    <3>4. y = z + Block
      BY <3>1, <3>3
    <3>5. j \in 1..Room /\ ~(i <= f) /\ i # f + 1
      <4> HIDE DEF y, z, all
      <4> QED
        BY <1>1, <1>2, <1>7, <2>0, <2>3, <2>4, <3>3, <3>4
    <3>6. q + 1 = n + 2
      BY <1>2, <3>3
    <3>7. e[q + 1][j] = 0
      BY <1>3, <3>3, <3>5, <3>6
    <3> QED
      BY <2>2, <3>5, <3>7
  <2> QED
    BY <1>2, <2>5, <2>6, <2>7
<1>10. \A i \in 1..l : Hashed(d, (all - l) + i) = LengthAsOctets(c)[i]
  <2> TAKE i \in 1..l
  <2> DEFINE
        q == m - 1
        j == Room + i
        k == (all - l) + i
        y == Block * q
  <2>1. q \in Nat /\ j \in 1..Block /\ q + 1 = m
    BY <1>2, <1>6
  <2>2. all = y + Block /\ y \in Int
    <3>1. Block * (q + 1) = y + Block
      <4> HIDE DEF q
      <4> QED
        BY <1>2, <2>1, Z3
    <3>2. y \in Int
      <4> HIDE DEF q
      <4> QED
        BY <1>2, <2>1
    <3> QED
      BY <2>1, <3>1, <3>2
  <2>3. k = y + j
    <3> HIDE DEF all, y
    <3> QED
      BY <1>2, <2>2
  <2> HIDE DEF k, q, j
  <2>4. Hashed(d, k) = e[q + 1][j]
    <3>1. k = (Block * q) + j
      BY <2>3
    <3> HIDE DEF y
    <3> QED
      BY <1>5, <2>1, <3>1, HashedAt
  <2>5. e[m][j] = LengthAsOctets(c)[i]
    BY <1>3 DEF j
  <2> QED
    BY <2>1, <2>4, <2>5 DEF k
<1> DEFINE
      body(t) == [i \in 0..l |-> IF i = 0 THEN 0 ELSE (t[i - 1] * OctetSize) + Hashed(d, (all - l) + i)]
      T == CHOOSE v : v = body(v)
      D == [i \in 1..l |-> LengthAsOctets(c)[i]]
<1>11. T[l] = OctetBits * f
  <2>1. \A i \in 1..l : D[i] = LengthAsOctets(c)[i] /\ D[i] \in Nat
    <3>1. c.low \in Nat /\ c.high \in Nat
      BY <1>1 DEF Counts
    <3>2. LengthAsOctets(c) \in Seq(Nat) /\ Len(LengthAsOctets(c)) = l
      BY <3>1, LengthIs DEF l
    <3>3. \A i \in 1..l : LengthAsOctets(c)[i] \in Nat
      BY <3>2
    <3> QED
      BY <3>3
  <2> HIDE DEF D
  <2>2. PICK u : Reads(u, D, l)
    BY <1>2, <2>1, ReadsExists
  <2>3. \A t : Reads(t, D, l) <=> t = body(t)
    <3> TAKE t
    <3> DEFINE
          x(i) == IF i = 0 THEN 0 ELSE (t[i - 1] * OctetSize) + D[i]
          y(i) == IF i = 0 THEN 0 ELSE (t[i - 1] * OctetSize) + Hashed(d, (all - l) + i)
    <3>1. \A i \in 0..l : x(i) = y(i)
      <4> TAKE i \in 0..l
      <4>1. i = 0 \/ i \in 1..l
        BY <1>2
      <4> HIDE DEF all
      <4> QED
        BY <1>10, <2>1, <4>1
    <3> HIDE DEF x, y
    <3>2. [i \in 0..l |-> x(i)] = [i \in 0..l |-> y(i)]
      BY <3>1
    <3>3. Reads(t, D, l) <=> t = [i \in 0..l |-> x(i)]
      BY DEF Reads, x
    <3>4. body(t) = [i \in 0..l |-> y(i)]
      BY DEF y
    <3> HIDE DEF body
    <3> QED
      BY <3>2, <3>3, <3>4
  <2>4. T = body(T)
    <3>1. u = body(u)
      BY <2>2, <2>3
    <3> HIDE DEF body
    <3> QED
      BY <3>1
  <2>5. Reads(T, D, l)
    <3> HIDE DEF T, body
    <3> QED
      BY <2>3, <2>4
  <2> HIDE DEF T
  <2>6. Reads(T, D, LengthOctets) /\ \A i \in 1..LengthOctets : D[i] = LengthAsOctets(c)[i]
    BY <2>1, <2>5 DEF l
  <2>7. T[LengthOctets] = OctetBits * f
    BY <1>1, <2>6, NumberRead
  <2> QED
    BY <2>7 DEF l
<1>12. \A b \in DOMAIN d.blocks : Len(d.blocks[b]) = Block
  <2>1. DOMAIN e = 1..m
    BY <1>3 DEF m
  <2> QED
    BY <1>3, <1>5, <2>1
<1>13. Len(d.blocks) = m
  BY <1>5 DEF m
<1> HIDE DEF T
<1>14. \A i \in 1..(all - l) : Hashed(d, i) = IF i <= f THEN Octet(i) ELSE IF i = f + 1 THEN OctetSize \div 2 ELSE 0
  BY <1>9
<1> QED
  BY <1>8, <1>11, <1>12, <1>13, <1>14 DEF Padded, T, l

(* The digits of a digest are numbers, none of them the one that stands for *)
(* no digest.                                                               *)
LEMMA DigitsAre ==
  ASSUME NEW digest \in [1..DigestOctets -> 0..(OctetSize - 1)]
  PROVE  HexDigits(digest) # Nothing
<1> DEFINE
      l == DigestOctets
      V == [n \in 0..l |-> Seq(Nat)]
      g == [p \in (1..l) \X Seq(Nat) |-> p[2] \o HexOf(digest[p[1]])]
      body(f) == [n \in 0..l |-> IF n = 0 THEN <<>> ELSE f[n - 1] \o HexOf(digest[n])]
      T == CHOOSE f : f = body(f)
<1>0. l \in Nat /\ OctetSize \in Nat \ {0}
  BY Widths, Sha1Assumption
<1>1. \A n \in 1..l : HexOf(digest[n]) \in Seq(Nat)
  <2> TAKE n \in 1..l
  <2> DEFINE x == digest[n]
  <2>1. x \in Nat
    BY <1>0
  <2>2. Radix \in Nat \ {0}
    <3> DEFINE h == OctetBits \div 2
    <3>1. h \in Nat
      BY Widths, DivisionOfNats
    <3> HIDE DEF h
    <3>2. PowersOf(2)[h] \in Nat \ {0}
      BY <3>1, PowersAre
    <3> QED
      BY <3>2 DEF Radix, h
  <2> HIDE DEF x
  <2>3. x \div Radix \in Nat /\ x % Radix \in Nat
    BY <2>1, <2>2, DivisionOfNats
  <2>4. HexOf(x) \in Seq(Nat)
    BY <2>1, <2>3 DEF HexOf
  <2> QED
    BY <2>4 DEF x
<1>2. \A n \in 1..l, x \in Seq(Nat) : /\ g[<<n, x>>] = x \o HexOf(digest[n])
                                      /\ x \o HexOf(digest[n]) \in Seq(Nat)
  <2> TAKE n \in 1..l, x \in Seq(Nat)
  <2>1. HexOf(digest[n]) \in Seq(Nat)
    BY <1>1
  <2> DEFINE y == HexOf(digest[n])
  <2> HIDE DEF y
  <2>2. x \o y \in Seq(Nat)
    BY <2>1 DEF y
  <2>3. g[<<n, x>>] = x \o HexOf(digest[n])
    OBVIOUS
  <2> QED
    BY <2>2, <2>3 DEF y
<1>3. <<>> \in V[0] /\ \A n \in 1..l : \A x \in V[n - 1] : g[<<n, x>>] \in V[n]
  <2>1. 0 \in 0..l /\ \A n \in 1..l : n \in 0..l /\ n - 1 \in 0..l
    BY <1>0
  <2>2. <<>> \in Seq(Nat) /\ \A n \in 0..l : V[n] = Seq(Nat)
    OBVIOUS
  <2> HIDE DEF g, V, l
  <2>3. \A n \in 1..l : \A x \in V[n - 1] : g[<<n, x>>] \in V[n]
    <3> TAKE n \in 1..l
    <3> TAKE x \in V[n - 1]
    <3>1. x \in Seq(Nat) /\ V[n] = Seq(Nat)
      BY <2>1, <2>2
    <3> QED
      BY <1>2, <3>1
  <2> QED
    BY <2>1, <2>2, <2>3
<1>4. PICK f : Goes(f, <<>>, g, l) /\ \A n \in 0..l : f[n] \in V[n]
  <2> HIDE DEF V, g, l
  <2> QED
    BY <1>0, <1>3, RecursionWithin
<1>5. f = body(f)
  <2>1. f = [n \in 0..l |-> f[n]] /\ f[0] = <<>> /\ \A n \in 1..l : f[n] = g[<<n, f[n - 1]>>]
    BY <1>4 DEF Goes, UpTo
  <2>2. \A n \in 1..l : n - 1 \in 0..l /\ f[n - 1] \in Seq(Nat)
    BY <1>0, <1>4
  <2>3. \A n \in 0..l : n = 0 \/ n \in 1..l
    BY <1>0
  <2> HIDE DEF g, V, l
  <2>4. \A n \in 1..l : f[n] = f[n - 1] \o HexOf(digest[n])
    BY <2>1, <2>2, <1>2
  <2>5. \A n \in 0..l : f[n] = IF n = 0 THEN <<>> ELSE f[n - 1] \o HexOf(digest[n])
    BY <2>1, <2>3, <2>4
  <2> QED
    BY <2>1, <2>5
<1>6. T = body(T)
  <2> HIDE DEF body
  <2> QED
    BY <1>5
<1>7. HexDigits(digest) = T[l]
  BY DEF HexDigits
<1> HIDE DEF T
<1>8. T[0] = <<>> /\ \A n \in 1..l : T[n] = T[n - 1] \o HexOf(digest[n])
  <2>1. \A n \in 0..l : T[n] = IF n = 0 THEN <<>> ELSE T[n - 1] \o HexOf(digest[n])
    BY <1>6
  <2>2. 0 \in 0..l /\ \A n \in 1..l : n \in 0..l /\ n # 0
    BY <1>0
  <2> HIDE DEF body, l
  <2> QED
    BY <2>1, <2>2
<1> DEFINE S == {n \in Nat : n <= l => T[n] \in Seq(Nat)}
<1>9. S = Nat
  <2> HIDE DEF body, l
  <2>1. 0 \in S
    <3>1. T[0] \in Seq(Nat)
      BY <1>8
    <3> QED
      BY <3>1
  <2>2. ASSUME NEW n \in S PROVE n + 1 \in S
    <3> SUFFICES ASSUME n + 1 <= l PROVE T[n + 1] \in Seq(Nat)
      OBVIOUS
    <3> DEFINE k == n + 1
    <3>1. n \in Nat /\ k \in 1..l /\ k - 1 = n /\ T[n] \in Seq(Nat)
      BY <1>0
    <3> HIDE DEF k, S
    <3>2. T[k] = T[n] \o HexOf(digest[k]) /\ T[n] \o HexOf(digest[k]) \in Seq(Nat)
      BY <1>2, <1>8, <3>1
    <3> QED
      BY <3>2 DEF k
  <2>3. S \in SUBSET Nat
    OBVIOUS
  <2> HIDE DEF S
  <2> QED
    BY <2>1, <2>2, <2>3, NaturalInduction
<1>10. T[l] \in Seq(Nat)
  <2>1. l \in S
    BY <1>0, <1>9
  <2> HIDE DEF l
  <2> QED
    BY <1>0, <2>1
<1>11. \A x \in Seq(Nat) : x # <<-1>>
  <2> SUFFICES ASSUME <<-1>> \in Seq(Nat) PROVE FALSE
    OBVIOUS
  <2>1. <<-1>>[1] \in Nat
    BY SMT
  <2> QED
    BY <2>1
<1> QED
  BY <1>7, <1>10, <1>11 DEF Nothing

(* While it is read a message is in the blocks and counted in the words;    *)
(* after its end it is padded.                                              *)
Sha1Inv ==
    /\ fed \in Nat
    /\ hex = Nothing => Holds(context, fed)
    /\ hex # Nothing => HashesPadded

(* ... at every call of SHA1Input and after SHA1Result.                     *)
THEOREM Sha1Inductive == Sha1Spec => []Sha1Inv
<1>1. ASSUME Sha1Init PROVE Sha1Inv
  <2> DEFINE c == SHA1Reset
  <2>1. context = c /\ fed = 0 /\ hex = Nothing
    BY <1>1 DEF Sha1Init
  <2>2. c \in Contexts /\ ~c.computed /\ ~c.corrupted /\ c.low = 0 /\ c.high = 0
        /\ c.blocks = <<>> /\ c.block = <<>>
    BY DEF SHA1Reset, Contexts
  <2>3. OctetBits * 0 = 0 /\ ~(0 >= WordSize * WordSize) /\ (0 * WordSize) + 0 = 0 /\ 0 < WordSize
    <3> DEFINE w == WordSize
    <3>1. w \in Nat /\ w >= 1 /\ OctetBits \in Nat
      BY Widths
    <3> HIDE DEF w
    <3>2. w * w >= w
      BY <3>1, Z3
    <3>3. OctetBits * 0 = 0 /\ (0 * w) + 0 = 0
      BY <3>1
    <3>4. ~(0 >= w * w)
      <4> DEFINE s == w * w
      <4>1. s \in Int
        BY <3>1
      <4>2. s >= w
        BY <3>2
      <4> HIDE DEF s
      <4>3. ~(0 >= s)
        BY <3>1, <4>1, <4>2
      <4> QED
        BY <4>3 DEF s
    <3>5. 0 < w
      BY <3>1
    <3> QED
      BY <3>3, <3>4, <3>5 DEF w
  <2> HIDE DEF c
  <2>4. Counts(c.low, c.high, 0)
    <3>1. \E k \in Nat : 0 = OctetBits * k
      BY <2>3
    <3> QED
      BY <2>2, <2>3, <3>1 DEF Counts
  <2>5. Keeps(c.blocks, c.block, 0)
    <3>1. Block \in Nat \ {0} /\ Block * 0 = 0
      BY Widths
    <3>2. Len(<<>>) = 0 /\ \A j \in 1..0 : FALSE
      OBVIOUS
    <3>3. <<>> \in Seq(Seq(Nat)) /\ <<>> \in Seq(Nat)
      OBVIOUS
    <3>4. Keeps(<<>>, <<>>, 0)
      BY <3>1, <3>2, <3>3 DEF Keeps
    <3> QED
      BY <2>2, <3>4
  <2>6. Holds(c, 0)
    BY <2>2, <2>3, <2>4, <2>5 DEF Holds
  <2> QED
    BY <2>1, <2>6 DEF Sha1Inv
<1>2. ASSUME Sha1Inv, [Sha1Next]_hashing PROVE Sha1Inv'
  <2> USE <1>2
  <2>1. ASSUME NEW l \in Pieces, Read(l) PROVE Sha1Inv'
    <3>1. /\ hex = Nothing /\ hex' = hex /\ fed' = fed + l
          /\ context' = SHA1Input(context, [i \in 1..l |-> Octet(fed + i)])
      BY <2>1 DEF Read
    <3>2. l \in Nat /\ fed \in Nat /\ Holds(context, fed)
      BY <3>1, Sha1Assumption DEF Sha1Inv
    <3>3. Holds(SHA1Input(context, [i \in 1..l |-> Octet(fed + i)]), fed + l)
      BY <3>2, InputHolds
    <3>4. Holds(context', fed') /\ fed' \in Nat
      BY <3>1, <3>2, <3>3
    <3> QED
      BY <3>1, <3>4 DEF Sha1Inv
  <2>2. CASE AtEof
    <3>1. hex = Nothing /\ fed' = fed /\ context' = SHA1Result(context) /\ hex' # Nothing
      BY <2>2, DigitsAre DEF AtEof
    <3>2. fed \in Nat /\ Holds(context, fed) /\ ~context.computed
          /\ (context.corrupted <=> OctetBits * fed >= WordSize * WordSize)
      BY <3>1 DEF Sha1Inv, Holds
    <3>3. CASE context.corrupted
      <4>1. context' = context
        BY <3>1, <3>3 DEF SHA1Result
      <4>2. HashesPadded'
        BY <3>1, <3>2, <3>3, <4>1 DEF HashesPadded, Length
      <4> QED
        BY <3>1, <3>2, <4>2 DEF Sha1Inv
    <3>4. CASE ~context.corrupted
      <4> DEFINE
            padded == SHA1PadMessage(context)
            d == [padded EXCEPT !.computed = TRUE]
      <4>1. context' = d
        BY <3>1, <3>2, <3>4 DEF SHA1Result
      <4>2. Named(context)
        BY <3>2, ContextIs DEF Holds
      <4>3. padded = Context(Ends(context), <<>>, context.low, context.high,
                             context.computed, context.corrupted)
        BY <4>2, PadIs
      <4> HIDE DEF padded
      <4>4. d.blocks = padded.blocks /\ d.computed /\ d.corrupted = padded.corrupted
        <5>1. padded = [blocks |-> padded.blocks, block |-> padded.block, low |-> padded.low,
                        high |-> padded.high, computed |-> padded.computed,
                        corrupted |-> padded.corrupted]
          BY <4>3 DEF Context
        <5> QED
          BY <5>1
      <4>5. padded.blocks = Ends(context) /\ padded.corrupted = context.corrupted
        BY <4>3 DEF Context
      <4> HIDE DEF d
      <4>6. d.blocks = Ends(context) /\ d.computed /\ ~d.corrupted
        BY <3>4, <4>4, <4>5
      <4>7. Padded(d, fed)
        BY <3>2, <3>4, <4>6, PaddedIs
      <4>8. HashesPadded'
        BY <3>1, <3>2, <3>4, <4>1, <4>6, <4>7 DEF HashesPadded, Length
      <4> QED
        BY <3>1, <3>2, <4>8 DEF Sha1Inv
    <3> QED
      BY <3>3, <3>4
  <2>3. CASE UNCHANGED hashing
    BY <2>3 DEF Sha1Inv, HashesPadded, Length, hashing
  <2> QED
    BY <2>1, <2>2, <2>3 DEF Sha1Next
<1> QED
  BY <1>1, <1>2, PTL DEF Sha1Spec

(* Messages of any length, in pieces of any lengths, with octets, words and *)
(* blocks of any width: what is hashed is the message, a bit, zeros to the  *)
(* end of a block and no more, and the length; all but messages whose       *)
(* length does not fit two words are hashed.                                *)
THEOREM MessagesPadded == Sha1Spec => []HashesPadded
<1>1. Sha1Inv => HashesPadded
  BY DEF Sha1Inv, Holds, HashesPadded, Length
<1> QED
  BY <1>1, Sha1Inductive, PTL

-----------------------------------------------------------------------------
(* Floats as text.                                                          *)

(* What comes out of a sequence that is taken in from its first element on. *)
Folded(g, v, s) ==
    LET f[n \in 0..Len(s)] == IF n = 0 THEN v ELSE g[<<f[n - 1], s[n]>>] IN f[Len(s)]

Folds(f, g, v, s) == f = [n \in 0..Len(s) |-> IF n = 0 THEN v ELSE g[<<f[n - 1], s[n]>>]]

Stays(V, C, v, g) == v \in V /\ g \in [V \X C -> V]
Within(V, f, l) == \A n \in 0..l : f[n] \in V

FoldsTo(V, g, v, s) ==
    \E f : Folds(f, g, v, s) /\ Folded(g, v, s) = f[Len(s)] /\ Within(V, f, Len(s))

LEMMA FoldExists ==
  ASSUME NEW V, NEW C, NEW v, NEW g, Stays(V, C, v, g), NEW s \in Seq(C)
  PROVE  FoldsTo(V, g, v, s)
<1> USE DEF Stays
<1> DEFINE
      l == Len(s)
      W == [n \in 0..l |-> V]
      h == [p \in (1..l) \X V |-> g[<<p[2], s[p[1]]>>]]
      body(f) == [n \in 0..l |-> IF n = 0 THEN v ELSE g[<<f[n - 1], s[n]>>]]
      T == CHOOSE f : f = body(f)
<1>1. l \in Nat /\ \A n \in 1..l : s[n] \in C
  OBVIOUS
<1> HIDE DEF l
<1>2. \A n \in 1..l, x \in V : h[<<n, x>>] = g[<<x, s[n]>>] /\ h[<<n, x>>] \in V
  BY <1>1
<1>3. \A n \in 0..l : W[n] = V
  OBVIOUS
<1> HIDE DEF h, W
<1>4. v \in W[0] /\ \A n \in 1..l : \A x \in W[n - 1] : h[<<n, x>>] \in W[n]
  <2>1. 0 \in 0..l /\ \A n \in 1..l : n \in 0..l /\ n - 1 \in 0..l
    BY <1>1
  <2> QED
    BY <1>2, <1>3, <2>1
<1>5. PICK f : Goes(f, v, h, l) /\ \A n \in 0..l : f[n] \in W[n]
  BY <1>1, <1>4, RecursionWithin
<1>6. f = body(f)
  <2>1. f = [n \in 0..l |-> f[n]] /\ f[0] = v /\ \A n \in 1..l : f[n] = h[<<n, f[n - 1]>>]
    BY <1>5 DEF Goes, UpTo
  <2>2. \A n \in 1..l : n - 1 \in 0..l /\ f[n - 1] \in V
    BY <1>1, <1>3, <1>5
  <2>3. \A n \in 0..l : n = 0 \/ n \in 1..l
    BY <1>1
  <2>4. \A n \in 0..l : f[n] = IF n = 0 THEN v ELSE g[<<f[n - 1], s[n]>>]
    BY <1>2, <2>1, <2>2, <2>3
  <2> QED
    BY <2>1, <2>4
<1>7. T = body(T)
  <2> HIDE DEF body
  <2> QED
    BY <1>6
<1>8. f = T
  <2>1. UpTo(l, f) /\ UpTo(l, T)
    BY <1>6, <1>7 DEF UpTo
  <2>2. 0 \in 0..l /\ \A n \in 1..l : n \in 0..l /\ n # 0
    BY <1>1
  <2>3. f[0] = v /\ \A n \in 1..l : f[n] = g[<<f[n - 1], s[n]>>]
    BY <1>6, <2>2
  <2>4. T[0] = v /\ \A n \in 1..l : T[n] = g[<<T[n - 1], s[n]>>]
    BY <1>7, <2>2
  <2> HIDE DEF T
  <2> QED
    BY <1>1, <2>1, <2>3, <2>4, SameRecursion
<1>9. Folded(g, v, s) = T[l]
  BY DEF Folded, l
<1>10. Folds(f, g, v, s)
  BY <1>6 DEF Folds, l
<1>11. \A n \in 0..l : f[n] \in V
  BY <1>3, <1>5
<1> QED
  BY <1>8, <1>9, <1>10, <1>11 DEF l, FoldsTo, Within

(* And whatever satisfies the equation of a fold is that fold.              *)
LEMMA FoldUnique ==
  ASSUME NEW V, NEW C, NEW v, NEW g, Stays(V, C, v, g), NEW s \in Seq(C), NEW k, Folds(k, g, v, s)
  PROVE  Folded(g, v, s) = k[Len(s)] /\ Within(V, k, Len(s))
<1>0. FoldsTo(V, g, v, s)
  BY FoldExists
<1>1. PICK f : Folds(f, g, v, s) /\ Folded(g, v, s) = f[Len(s)] /\ Within(V, f, Len(s))
  BY <1>0 DEF FoldsTo
<1> DEFINE l == Len(s)
<1>2. l \in Nat /\ 0 \in 0..l /\ \A n \in 1..l : n \in 0..l /\ n # 0
  OBVIOUS
<1>3. UpTo(l, f) /\ UpTo(l, k)
  BY <1>1 DEF Folds, UpTo
<1>4. f[0] = v /\ \A n \in 1..l : f[n] = g[<<f[n - 1], s[n]>>]
  BY <1>1, <1>2 DEF Folds
<1>5. k[0] = v /\ \A n \in 1..l : k[n] = g[<<k[n - 1], s[n]>>]
  BY <1>2 DEF Folds
<1>6. f = k
  <2>1. f[0] = k[0] /\ \A n \in 1..l : f[n - 1] = k[n - 1] => f[n] = k[n]
    BY <1>4, <1>5
  <2> HIDE DEF l
  <2> QED
    BY <1>2, <1>3, <2>1, SameRecursion
<1> QED
  BY <1>1, <1>6

LEMMA FoldedIs ==
  ASSUME NEW V, NEW C, NEW v, NEW g, Stays(V, C, v, g)
  PROVE  /\ Folded(g, v, <<>>) = v
         /\ \A s \in Seq(C) : Folded(g, v, s) \in V
         /\ \A s \in Seq(C), c \in C : Folded(g, v, Append(s, c)) = g[<<Folded(g, v, s), c>>]
<1>1. Folded(g, v, <<>>) = v
  <2>1. <<>> \in Seq(C) /\ Len(<<>>) = 0
    OBVIOUS
  <2>2. FoldsTo(V, g, v, <<>>)
    BY <2>1, FoldExists
  <2>3. PICK f : Folds(f, g, v, <<>>) /\ Folded(g, v, <<>>) = f[Len(<<>>)]
    BY <2>2 DEF FoldsTo
  <2> QED
    BY <2>1, <2>3 DEF Folds
<1>2. ASSUME NEW s \in Seq(C) PROVE Folded(g, v, s) \in V
  <2>0. FoldsTo(V, g, v, s)
    BY FoldExists
  <2>1. PICK f : Folded(g, v, s) = f[Len(s)] /\ \A n \in 0..Len(s) : f[n] \in V
    BY <2>0 DEF FoldsTo, Within
  <2>2. Len(s) \in 0..Len(s)
    OBVIOUS
  <2> QED
    BY <2>1, <2>2
<1>3. ASSUME NEW s \in Seq(C), NEW c \in C
      PROVE  Folded(g, v, Append(s, c)) = g[<<Folded(g, v, s), c>>]
  <2> DEFINE
        t == Append(s, c)
        l == Len(s)
  <2>1. t \in Seq(C) /\ Len(t) = l + 1 /\ l \in Nat /\ t[l + 1] = c /\ \A n \in 1..l : t[n] = s[n]
    OBVIOUS
  <2> HIDE DEF t
  <2>a. FoldsTo(V, g, v, t)
    BY <2>1, FoldExists
  <2>2. PICK f : Folds(f, g, v, t) /\ Folded(g, v, t) = f[Len(t)]
    BY <2>a DEF FoldsTo
  <2> DEFINE k == [n \in 0..l |-> f[n]]
  <2>3. \A n \in 0..(l + 1) : f[n] = IF n = 0 THEN v ELSE g[<<f[n - 1], t[n]>>]
    BY <2>1, <2>2 DEF Folds
  <2>4. \A n \in 0..l : k[n] = IF n = 0 THEN v ELSE g[<<k[n - 1], s[n]>>]
    <3> SUFFICES ASSUME NEW n \in 0..l PROVE k[n] = IF n = 0 THEN v ELSE g[<<k[n - 1], s[n]>>]
      OBVIOUS
    <3>1. CASE n = 0
      <4>1. 0 \in 0..(l + 1) /\ 0 \in 0..l
        BY <2>1
      <4>2. f[0] = v /\ k[0] = f[0]
        BY <2>3, <4>1
      <4> HIDE DEF k
      <4> QED
        BY <3>1, <4>2
    <3>2. CASE n # 0
      <4>1. n \in 1..l /\ n - 1 \in 0..l /\ n \in 0..(l + 1)
        BY <2>1, <3>2
      <4>2. k[n] = f[n] /\ k[n - 1] = f[n - 1] /\ t[n] = s[n]
        BY <2>1, <4>1
      <4>3. f[n] = g[<<f[n - 1], t[n]>>]
        BY <2>3, <3>2, <4>1
      <4> HIDE DEF k
      <4> QED
        BY <3>2, <4>2, <4>3
    <3> QED
      BY <3>1, <3>2
  <2>5. Folds(k, g, v, s)
    <3>1. k = [n \in 0..l |-> k[n]]
      OBVIOUS
    <3> HIDE DEF k
    <3> QED
      BY <2>4, <3>1 DEF Folds
  <2>6. Folded(g, v, s) = k[l]
    <3> HIDE DEF k, Within
    <3> QED
      BY <2>5, FoldUnique
  <2>7. k[l] = f[l] /\ f[l + 1] = g[<<f[l], t[l + 1]>>]
    <3>1. l \in 0..l /\ l + 1 \in 0..(l + 1) /\ l + 1 # 0 /\ (l + 1) - 1 = l
      BY <2>1
    <3> QED
      BY <2>3, <3>1
  <2> HIDE DEF k
  <2>8. Folded(g, v, t) = g[<<Folded(g, v, s), c>>]
    BY <2>1, <2>2, <2>6, <2>7
  <2> QED
    BY <2>8 DEF t
<1> QED
  BY <1>1, <1>2, <1>3

(* Every sequence but the empty one is one appended to.                     *)
LEMMA LastOff ==
  ASSUME NEW C, NEW s \in Seq(C), s # <<>>
  PROVE  \E f \in Seq(C), c \in C : s = Append(f, c) /\ Len(f) = Len(s) - 1
<1> DEFINE
      l == Len(s)
      f == SubSeq(s, 1, l - 1)
<1>1. l \in Nat /\ l >= 1 /\ s[l] \in C
  OBVIOUS
<1>2. f \in Seq(C) /\ Len(f) = l - 1 /\ \A i \in 1..(l - 1) : f[i] = s[i]
  <2>1. f = [i \in 1..(l - 1) |-> s[i]]
    <3>1. \A i \in 1..(l - 1) : (1 + i) - 1 = i
      OBVIOUS
    <3>2. l - 1 \in Nat /\ (1 > l - 1 => l - 1 = 0)
      <4>1. \A i \in Nat : i >= 1 => i - 1 \in Nat /\ (1 > i - 1 => i - 1 = 0)
        BY Z3
      <4> HIDE DEF l, f
      <4> QED
        BY <1>1, <4>1, Zenon
    <3> QED
      BY <1>1, <3>1, <3>2
  <2>2. \A i \in 1..(l - 1) : s[i] \in C
    OBVIOUS
  <2>3. l - 1 \in Nat
    BY <1>1
  <2> HIDE DEF f, l
  <2>4. f \in [1..(l - 1) -> C]
    BY <2>1, <2>2
  <2> QED
    BY <2>1, <2>3, <2>4
<1> HIDE DEF f
<1>3. s = Append(f, s[l])
  BY <1>1, <1>2
<1> QED
  BY <1>1, <1>2, <1>3

LEMMA FoldedConcat ==
  ASSUME NEW V, NEW C, NEW v, NEW g, Stays(V, C, v, g), NEW s \in Seq(C), NEW t \in Seq(C)
  PROVE  Folded(g, v, s \o t) = Folded(g, Folded(g, v, s), t)
<1> DEFINE
      w == Folded(g, v, s)
      S == {n \in Nat : \A u \in Seq(C) : Len(u) = n => Folded(g, v, s \o u) = Folded(g, w, u)}
<1>0. Stays(V, C, w, g)
  <2>1. w \in V
    BY FoldedIs
  <2> QED
    BY <2>1 DEF Stays
<1> HIDE DEF w
<1>1. 0 \in S
  <2> SUFFICES ASSUME NEW u \in Seq(C), Len(u) = 0 PROVE Folded(g, v, s \o u) = Folded(g, w, u)
    OBVIOUS
  <2>1. u = <<>> /\ s \o u = s
    OBVIOUS
  <2>2. Folded(g, w, <<>>) = w
    BY <1>0, FoldedIs
  <2> QED
    BY <2>1, <2>2 DEF w
<1>2. ASSUME NEW n \in S PROVE n + 1 \in S
  <2> SUFFICES ASSUME NEW u \in Seq(C), Len(u) = n + 1
               PROVE  Folded(g, v, s \o u) = Folded(g, w, u)
    OBVIOUS
  <2>1. u # <<>> /\ n \in Nat
    OBVIOUS
  <2>2. PICK f \in Seq(C), c \in C : u = Append(f, c) /\ Len(f) = Len(u) - 1
    BY <2>1, LastOff
  <2>3. Len(f) = n
    BY <2>1, <2>2
  <2>4. Folded(g, v, s \o f) = Folded(g, w, f)
    BY <2>3
  <2> HIDE DEF S
  <2>5. s \o u = Append(s \o f, c) /\ s \o f \in Seq(C)
    BY <2>2
  <2>6. Folded(g, v, s \o u) = g[<<Folded(g, v, s \o f), c>>]
    <3> DEFINE q == s \o f
    <3>1. s \o u = Append(q, c) /\ q \in Seq(C)
      BY <2>5
    <3> HIDE DEF q
    <3>2. Folded(g, v, Append(q, c)) = g[<<Folded(g, v, q), c>>]
      BY <3>1, <2>2, FoldedIs
    <3> QED
      BY <3>1, <3>2 DEF q
  <2>7. Folded(g, w, u) = g[<<Folded(g, w, f), c>>]
    BY <1>0, <2>2, FoldedIs
  <2> QED
    BY <2>4, <2>6, <2>7
<1>3. S = Nat
  <2>1. S \in SUBSET Nat
    OBVIOUS
  <2> HIDE DEF S
  <2> QED
    BY <1>1, <1>2, <2>1, NaturalInduction
<1>4. Len(t) \in S
  BY <1>3
<1>5. Folded(g, v, s \o t) = Folded(g, w, t)
  BY <1>4
<1> QED
  BY <1>5 DEF w

LEMMA PowersAdd ==
  ASSUME NEW b \in Nat \ {0}, NEW m \in Nat, NEW n \in Nat
  PROVE  PowersOf(b)[m + n] = PowersOf(b)[m] * PowersOf(b)[n]
<1> DEFINE
      P == PowersOf(b)
      S == {k \in Nat : P[m + k] = P[m] * P[k]}
<1>1. P[0] = 1 /\ \A k \in Nat : P[k] \in Nat \ {0} /\ P[k + 1] = b * P[k]
  BY PowersAre
<1> HIDE DEF P
<1>2. 0 \in S
  <2>1. m + 0 = m /\ P[m] * 1 = P[m]
    BY <1>1
  <2> QED
    BY <1>1, <2>1
<1>3. ASSUME NEW k \in S PROVE k + 1 \in S
  <2>1. k \in Nat /\ k + 1 \in Nat /\ m + k \in Nat /\ m + (k + 1) = (m + k) + 1
    OBVIOUS
  <2>2. P[m + k] = P[m] * P[k]
    OBVIOUS
  <2>3. P[m + (k + 1)] = b * (P[m] * P[k]) /\ P[k + 1] = b * P[k]
    BY <1>1, <2>1, <2>2
  <2> HIDE DEF S
  <2>4. \A x, y \in Nat : b * (x * y) = x * (b * y)
    BY Z3
  <2>5. P[m] \in Nat /\ P[k] \in Nat
    BY <1>1, <2>1
  <2>6. P[m + (k + 1)] = P[m] * P[k + 1]
    BY <2>3, <2>4, <2>5
  <2> QED
    BY <2>1, <2>6 DEF S
<1>4. S = Nat
  <2>1. S \in SUBSET Nat
    OBVIOUS
  <2> HIDE DEF S
  <2> QED
    BY <1>2, <1>3, <2>1, NaturalInduction
<1>5. P[m + n] = P[m] * P[n]
  BY <1>4
<1> QED
  BY <1>5 DEF P

LEMMA TenIs ==
  /\ Ten[0] = 1
  /\ \A n \in Nat : Ten[n] \in Nat \ {0} /\ Ten[n + 1] = 10 * Ten[n]
  /\ \A m, n \in Nat : Ten[m + n] = Ten[m] * Ten[n]
<1>1. 10 \in Nat \ {0}
  OBVIOUS
<1>2. Ten = PowersOf(10)
  BY DEF Ten
<1>3. \A m, n \in Nat : Ten[m + n] = Ten[m] * Ten[n]
  BY <1>1, <1>2, PowersAdd
<1> QED
  BY <1>1, <1>2, <1>3, PowersAre

LEMMA TwoIs ==
  Two[0] = 1 /\ \A n \in Nat : Two[n] \in Nat \ {0} /\ Two[n + 1] = 2 * Two[n]
<1>1. 2 \in Nat \ {0} /\ Two = PowersOf(2)
  BY DEF Two
<1> QED
  BY <1>1, PowersAre

(* What a sequence of digits says.                                          *)
Cipher == 0..9
TenTimes == [p \in Nat \X Cipher |-> (10 * p[1]) + p[2]]
Value(d) == Folded(TenTimes, 0, d)

LEMMA ValueFolds == \A v \in Nat : Stays(Nat, Cipher, v, TenTimes)
<1>1. TenTimes \in [Nat \X Cipher -> Nat]
  BY DEF TenTimes, Cipher
<1> QED
  BY <1>1 DEF Stays

LEMMA ValueIs ==
  /\ Value(<<>>) = 0
  /\ \A s \in Seq(Cipher) : Value(s) \in Nat
  /\ \A s \in Seq(Cipher), c \in Cipher : Value(Append(s, c)) = (10 * Value(s)) + c
<1>1. Stays(Nat, Cipher, 0, TenTimes)
  BY ValueFolds
<1>2. /\ Value(<<>>) = 0
      /\ \A s \in Seq(Cipher) : Value(s) \in Nat
      /\ \A s \in Seq(Cipher), c \in Cipher : Value(Append(s, c)) = TenTimes[<<Value(s), c>>]
  BY <1>1, FoldedIs DEF Value
<1>3. \A v \in Nat, c \in Cipher : TenTimes[<<v, c>>] = (10 * v) + c
  BY DEF TenTimes
<1> QED
  BY <1>2, <1>3

LEMMA ValueConcat ==
  ASSUME NEW s \in Seq(Cipher), NEW t \in Seq(Cipher)
  PROVE  Value(s \o t) = (Value(s) * Ten[Len(t)]) + Value(t)
<1> DEFINE S == {n \in Nat : \A u \in Seq(Cipher) :
                    Len(u) = n => Value(s \o u) = (Value(s) * Ten[n]) + Value(u)}
<1>1. 0 \in S
  <2> SUFFICES ASSUME NEW u \in Seq(Cipher), Len(u) = 0
               PROVE  Value(s \o u) = (Value(s) * Ten[0]) + Value(u)
    OBVIOUS
  <2>1. u = <<>> /\ s \o u = s
    OBVIOUS
  <2>2. Value(s) \in Nat
    BY ValueIs
  <2> QED
    BY <2>1, <2>2, TenIs, ValueIs
<1>2. ASSUME NEW n \in S PROVE n + 1 \in S
  <2> SUFFICES ASSUME NEW u \in Seq(Cipher), Len(u) = n + 1
               PROVE  Value(s \o u) = (Value(s) * Ten[n + 1]) + Value(u)
    OBVIOUS
  <2>1. u # <<>> /\ n \in Nat
    OBVIOUS
  <2>2. PICK f \in Seq(Cipher), c \in Cipher : u = Append(f, c) /\ Len(f) = Len(u) - 1
    BY <2>1, LastOff
  <2>3. Len(f) = n
    BY <2>1, <2>2
  <2>4. Value(s \o f) = (Value(s) * Ten[n]) + Value(f)
    BY <2>3
  <2> HIDE DEF S
  <2> DEFINE q == s \o f
  <2>5. s \o u = Append(q, c) /\ q \in Seq(Cipher)
    BY <2>2
  <2>6. Value(q) = (Value(s) * Ten[n]) + Value(f)
    BY <2>4
  <2> HIDE DEF q
  <2>7. Value(s \o u) = (10 * Value(q)) + c /\ Value(u) = (10 * Value(f)) + c
    BY <2>2, <2>5, ValueIs
  <2>8. Ten[n + 1] = 10 * Ten[n] /\ Ten[n] \in Nat /\ Value(s) \in Nat /\ Value(f) \in Nat /\ c \in Int
    <3>1. Ten[n + 1] = 10 * Ten[n] /\ Ten[n] \in Nat
      BY <2>1, TenIs
    <3>2. Value(s) \in Nat /\ Value(f) \in Nat
      BY <2>2, ValueIs
    <3> QED
      BY <3>1, <3>2 DEF Cipher
  <2>9. \A x, y, z \in Nat : (10 * ((x * y) + z)) = (x * (10 * y)) + (10 * z)
    BY Z3
  <2> QED
    BY <2>6, <2>7, <2>8, <2>9
<1>3. S = Nat
  <2>1. S \in SUBSET Nat
    OBVIOUS
  <2> HIDE DEF S
  <2> QED
    BY <1>1, <1>2, <2>1, NaturalInduction
<1>4. Len(t) \in S
  BY <1>3
<1> QED
  BY <1>4

LEMMA ValueBounds ==
  ASSUME NEW s \in Seq(Cipher)
  PROVE  /\ Value(s) \in Nat /\ Value(s) < Ten[Len(s)]
         /\ s # <<>> /\ s[1] # 0 => Value(s) >= Ten[Len(s) - 1]
<1> DEFINE
      Within0(u, n) == /\ Value(u) < Ten[n]
                       /\ n > 0 /\ u[1] # 0 => Value(u) >= Ten[n - 1]
      S == {n \in Nat : \A u \in Seq(Cipher) : Len(u) = n => Within0(u, n)}
<1>1. 0 \in S
  <2> SUFFICES ASSUME NEW u \in Seq(Cipher), Len(u) = 0 PROVE Value(u) < Ten[0]
    OBVIOUS
  <2>1. u = <<>>
    OBVIOUS
  <2> QED
    BY <2>1, TenIs, ValueIs
<1>2. ASSUME NEW n \in S PROVE n + 1 \in S
  <2> SUFFICES ASSUME NEW u \in Seq(Cipher), Len(u) = n + 1 PROVE Within0(u, n + 1)
    OBVIOUS
  <2>1. u # <<>> /\ n \in Nat
    OBVIOUS
  <2>2. PICK f \in Seq(Cipher), c \in Cipher : u = Append(f, c) /\ Len(f) = Len(u) - 1
    BY <2>1, LastOff
  <2>3. Len(f) = n
    BY <2>1, <2>2
  <2>4. Within0(f, n)
    BY <2>3
  <2> HIDE DEF S
  <2>5. /\ Value(u) = (10 * Value(f)) + c /\ Value(f) \in Nat /\ Ten[n] \in Nat
        /\ Ten[n + 1] = 10 * Ten[n] /\ c \in 0..9
    BY <2>1, <2>2, TenIs, ValueIs DEF Cipher
  <2>6. Value(u) < Ten[n + 1]
    BY <2>4, <2>5
  <2>7. ASSUME u[1] # 0 PROVE Value(u) >= Ten[n]
    <3>1. CASE n = 0
      <4>1. u[1] = c /\ Ten[n] = 1
        BY <2>2, <2>3, <3>1, TenIs
      <4> QED
        BY <2>5, <2>7, <4>1
    <3>2. CASE n > 0
      <4>1. f[1] = u[1]
        BY <2>2, <2>3, <3>2
      <4>2. n - 1 \in Nat /\ (n - 1) + 1 = n
        BY <2>1, <3>2
      <4>3. Ten[n] = 10 * Ten[n - 1] /\ Ten[n - 1] \in Nat
        BY <4>2, TenIs
      <4>4. Value(f) >= Ten[n - 1]
        BY <2>4, <2>7, <3>2, <4>1
      <4> QED
        BY <2>5, <4>3, <4>4
    <3> QED
      BY <2>1, <3>1, <3>2
  <2>8. (n + 1) - 1 = n
    BY <2>1
  <2> QED
    BY <2>6, <2>7, <2>8
<1>3. S = Nat
  <2>1. S \in SUBSET Nat
    OBVIOUS
  <2> HIDE DEF S
  <2> QED
    BY <1>1, <1>2, <2>1, NaturalInduction
<1>4. Len(s) \in S
  BY <1>3
<1>5. s # <<>> => Len(s) > 0
  OBVIOUS
<1> QED
  BY <1>4, <1>5, ValueIs

LEMMA ZerosAre ==
  ASSUME NEW n \in Int
  PROVE  /\ Zeros(n) \in Seq(Cipher) /\ Len(Zeros(n)) = IF n > 0 THEN n ELSE 0
         /\ Value(Zeros(n)) = 0 /\ \A i \in 1..n : Zeros(n)[i] = 0
<1> DEFINE S == {k \in Nat : Value(Zeros(k)) = 0}
<1>1. \A k \in Nat : /\ Zeros(k) \in Seq(Cipher) /\ Len(Zeros(k)) = k
                     /\ \A i \in 1..k : Zeros(k)[i] = 0
  BY DEF Zeros, Cipher
<1>2. Zeros(0) = <<>>
  BY DEF Zeros
<1>3. 0 \in S
  BY <1>2, ValueIs
<1>4. ASSUME NEW k \in S PROVE k + 1 \in S
  <2>1. k \in Nat /\ Value(Zeros(k)) = 0 /\ k + 1 \in Nat
    OBVIOUS
  <2> HIDE DEF S
  <2>2. Zeros(k + 1) = Append(Zeros(k), 0)
    BY <2>1 DEF Zeros
  <2>3. 0 \in Cipher
    BY DEF Cipher
  <2>4. Value(Zeros(k + 1)) = (10 * Value(Zeros(k))) + 0
    BY <1>1, <2>1, <2>2, <2>3, ValueIs
  <2> QED
    BY <2>1, <2>4 DEF S
<1>5. S = Nat
  <2>1. S \in SUBSET Nat
    OBVIOUS
  <2> HIDE DEF S
  <2> QED
    BY <1>3, <1>4, <2>1, NaturalInduction
<1>6. CASE n > 0
  <2>1. n \in S /\ n \in Nat
    BY <1>5, <1>6
  <2>2. Value(Zeros(n)) = 0
    BY <2>1
  <2> QED
    BY <1>1, <1>6, <2>1, <2>2
<1>7. CASE ~(n > 0)
  <2>1. Zeros(n) = <<>>
    BY <1>7 DEF Zeros
  <2> QED
    BY <1>7, <2>1, ValueIs
<1> QED
  BY <1>6, <1>7

LEMMA ConcatIs ==
  ASSUME NEW C, NEW a \in Seq(C), NEW b \in Seq(C)
  PROVE  /\ a \o b \in Seq(C) /\ Len(a \o b) = Len(a) + Len(b)
         /\ \A i \in 1..Len(a) : (a \o b)[i] = a[i]
         /\ \A i \in 1..Len(b) : (a \o b)[Len(a) + i] = b[i]
<1> DEFINE
      m == Len(a)
      n == Len(b)
      c == a \o b
<1>1. m \in Nat /\ n \in Nat
  OBVIOUS
<1>2. c \in Seq(C) /\ Len(c) = m + n
  OBVIOUS
<1>3. \A i \in 1..(m + n) : c[i] = IF i <= m THEN a[i] ELSE b[i - m]
  OBVIOUS
<1> HIDE DEF c
<1>4. \A i \in 1..m : i \in 1..(m + n) /\ i <= m
  BY <1>1
<1>5. \A i \in 1..n : m + i \in 1..(m + n) /\ ~(m + i <= m) /\ (m + i) - m = i
  BY <1>1
<1> QED
  BY <1>2, <1>3, <1>4, <1>5 DEF c

LEMMA SameSequence ==
  ASSUME NEW C, NEW s \in Seq(C), NEW t \in Seq(C), Len(s) = Len(t), \A i \in 1..Len(s) : s[i] = t[i]
  PROVE  s = t
OBVIOUS

LEMMA PrefixIs ==
  ASSUME NEW C, NEW s \in Seq(C), NEW m \in 0..Len(s)
  PROVE  /\ SubSeq(s, 1, m) \in Seq(C) /\ Len(SubSeq(s, 1, m)) = m
         /\ \A i \in 1..m : SubSeq(s, 1, m)[i] = s[i]
         /\ SubSeq(s, m + 1, Len(s)) \in Seq(C) /\ Len(SubSeq(s, m + 1, Len(s))) = Len(s) - m
         /\ \A i \in 1..(Len(s) - m) : SubSeq(s, m + 1, Len(s))[i] = s[m + i]
         /\ s = SubSeq(s, 1, m) \o SubSeq(s, m + 1, Len(s))
         /\ m < Len(s) => SubSeq(s, 1, m + 1) = Append(SubSeq(s, 1, m), s[m + 1])
<1> DEFINE
      l == Len(s)
      p == SubSeq(s, 1, m)
      q == SubSeq(s, m + 1, l)
<1>1. l \in Nat /\ m \in Nat /\ m <= l /\ \A i \in 1..l : s[i] \in C
  OBVIOUS
<1>2. p \in Seq(C) /\ Len(p) = m /\ \A i \in 1..m : p[i] = s[i]
  BY <1>1
<1>3. q \in Seq(C) /\ Len(q) = l - m /\ \A i \in 1..(l - m) : q[i] = s[m + i]
  BY <1>1
<1>4. s = p \o q
  <2> HIDE DEF p, q, l
  <2> DEFINE c == p \o q
  <2>1. c \in Seq(C) /\ Len(c) = m + (l - m) /\ (\A i \in 1..m : c[i] = p[i])
        /\ (\A i \in 1..(l - m) : c[m + i] = q[i])
    <3>1. p \in Seq(C) /\ q \in Seq(C) /\ Len(p) = m /\ Len(q) = l - m
      BY <1>2, <1>3
    <3>a. p \in Seq(C) /\ q \in Seq(C)
      BY <1>2, <1>3
    <3>2. /\ p \o q \in Seq(C) /\ Len(p \o q) = Len(p) + Len(q)
          /\ \A i \in 1..Len(p) : (p \o q)[i] = p[i]
          /\ \A i \in 1..Len(q) : (p \o q)[Len(p) + i] = q[i]
      BY <3>a, ConcatIs
    <3> QED
      BY <3>1, <3>2
  <2> HIDE DEF c
  <2>2. Len(c) = l
    BY <1>1, <2>1
  <2>3. ASSUME NEW i \in 1..l PROVE s[i] = c[i]
    <3>1. CASE i <= m
      <4>1. i \in 1..m
        BY <1>1, <3>1
      <4> QED
        BY <1>2, <2>1, <4>1
    <3>2. CASE i > m
      <4>1. i - m \in 1..(l - m) /\ m + (i - m) = i
        BY <1>1, <3>2
      <4> QED
        BY <1>3, <2>1, <4>1
    <3> QED
      BY <1>1, <3>1, <3>2
  <2>4. s = c
    BY <2>1, <2>2, <2>3, SameSequence DEF l
  <2> QED
    BY <2>4 DEF c
<1>5. ASSUME m < l PROVE SubSeq(s, 1, m + 1) = Append(p, s[m + 1])
  <2> DEFINE r == SubSeq(s, 1, m + 1)
  <2>1. r \in Seq(C) /\ Len(r) = m + 1 /\ \A i \in 1..(m + 1) : r[i] = s[i]
    BY <1>1, <1>5
  <2>2. s[m + 1] \in C
    BY <1>1, <1>5
  <2> HIDE DEF p, r
  <2>3. r = Append(p, s[m + 1])
    BY <1>1, <1>2, <2>1, <2>2
  <2> QED
    BY <2>3 DEF r
<1> QED
  BY <1>2, <1>3, <1>4, <1>5

LEMMA ValuePrefix ==
  ASSUME NEW s \in Seq(Cipher), NEW m \in 0..Len(s)
  PROVE  /\ Value(SubSeq(s, 1, m)) = Value(s) \div Ten[Len(s) - m]
         /\ m < Len(s) => Value(SubSeq(s, 1, m + 1)) = (10 * Value(SubSeq(s, 1, m))) + s[m + 1]
<1> DEFINE
      p == SubSeq(s, 1, m)
      q == SubSeq(s, m + 1, Len(s))
      l == Len(s) - m
<1>1. p \in Seq(Cipher) /\ q \in Seq(Cipher) /\ Len(q) = l /\ l \in Nat /\ s = p \o q
      /\ (m < Len(s) => SubSeq(s, 1, m + 1) = Append(p, s[m + 1]) /\ s[m + 1] \in Cipher)
  <2>1. l \in Nat /\ (m < Len(s) => s[m + 1] \in Cipher)
    OBVIOUS
  <2>2. p \in Seq(Cipher) /\ q \in Seq(Cipher) /\ Len(q) = l /\ s = p \o q
    BY PrefixIs
  <2>3. m < Len(s) => SubSeq(s, 1, m + 1) = Append(p, s[m + 1])
    BY PrefixIs
  <2> QED
    BY <2>1, <2>2, <2>3
<1> HIDE DEF p, q, l
<1>2. Value(s) = (Value(p) * Ten[l]) + Value(q) /\ Value(q) < Ten[l]
  BY <1>1, ValueConcat, ValueBounds
<1>3. Value(p) \in Nat /\ Value(q) \in Nat /\ Ten[l] \in Nat \ {0}
  BY <1>1, ValueIs, TenIs
<1>4. Value(s) \div Ten[l] = Value(p)
  <2> DEFINE
        a == Value(p)
        r == Value(q)
        b == Ten[l]
        w == Value(s)
  <2>1. a \in Nat /\ r \in Nat /\ b \in Nat \ {0} /\ w = (a * b) + r /\ r < b
    BY <1>2, <1>3
  <2> HIDE DEF a, r, b, w
  <2>2. b * a = a * b /\ a * b \in Nat
    BY <2>1, Z3
  <2>3. w \in Int /\ a \in Int /\ b * a <= w /\ w < (b * a) + b
    BY <2>1, <2>2
  <2>4. w \div b = a
    BY <2>1, <2>3, QuotientOf
  <2> QED
    BY <2>4 DEF a, b, w
<1>5. m < Len(s) => Value(SubSeq(s, 1, m + 1)) = (10 * Value(p)) + s[m + 1]
  BY <1>1, ValueIs
<1> QED
  BY <1>4, <1>5 DEF p, l

-----------------------------------------------------------------------------
(* Quotients of products.                                                   *)
LEMMA DivideTwice ==
  ASSUME NEW w \in Nat, NEW a \in Nat \ {0}, NEW b \in Nat \ {0}
  PROVE  a * b \in Nat \ {0} /\ (w \div a) \div b = w \div (a * b)
<1> DEFINE
      x == w \div a
      y == x \div b
      c == a * b
<1>1. x \in Int /\ a * x <= w /\ w < (a * x) + a
  BY Z3
<1>2. x \in Nat
  BY DivisionOfNats
<1> HIDE DEF x
<1>3. y \in Int /\ b * y <= x /\ x < (b * y) + b
  BY <1>2, Z3
<1> HIDE DEF y
<1>4. c \in Nat \ {0}
  <2>1. a >= 1 /\ b >= 1 /\ c \in Int
    OBVIOUS
  <2>2. c >= a
    BY <2>1, Z3
  <2> QED
    BY <2>1, <2>2
<1>5. c * y <= w /\ w < (c * y) + c
  <2> DEFINE
        t == b * y
        u == (b * y) + b
        h == a * x
  <2>1. t \in Int /\ u \in Int /\ h \in Int
    BY <1>2, <1>3
  <2>2. c * y = a * t /\ (c * y) + c = a * u
    BY <1>3, Z3
  <2>3. a * t <= h
    <3> HIDE DEF t
    <3> QED
      BY <1>2, <1>3, <2>1, Z3 DEF h, t
  <2>4. h + a <= a * u
    <3>1. x + 1 <= u
      BY <1>2, <1>3
    <3> HIDE DEF u
    <3> QED
      BY <1>2, <2>1, <3>1, Z3 DEF h
  <2> DEFINE
        p == a * t
        q == a * u
  <2>5. p \in Int /\ q \in Int
    BY <2>1
  <2>6. p <= h /\ h + a <= q /\ h <= w /\ w < h + a
    BY <1>1, <2>3, <2>4
  <2> HIDE DEF p, q, h
  <2>7. p <= w /\ w < q
    BY <2>1, <2>5, <2>6
  <2> QED
    BY <2>2, <2>7 DEF p, q
<1>6. w \div c = y
  <2>1. w \in Int /\ y \in Int
    BY <1>3
  <2> HIDE DEF c
  <2> QED
    BY <1>4, <1>5, <2>1, QuotientOf
<1> QED
  BY <1>4, <1>6 DEF y, x, c

(* The whole part of a multiple of b * w + r.                               *)
LEMMA DivideSum ==
  ASSUME NEW w \in Nat, NEW r \in Nat, NEW t \in Nat, NEW b \in Nat \ {0}
  PROVE  (((b * w) + r) * t) \div b = (w * t) + ((r * t) \div b)
<1> DEFINE
      s == r * t
      q == s \div b
      a == w * t
      n == ((b * w) + r) * t
<1>1. s \in Nat /\ a \in Nat
  BY Z3
<1>2. n = (b * a) + s
  BY Z3
<1> HIDE DEF s, a, n
<1>3. q \in Int /\ b * q <= s /\ s < (b * q) + b
  BY <1>1, Z3
<1> HIDE DEF q
<1>4. b * (a + q) = (b * a) + (b * q) /\ b * a \in Int /\ b * q \in Int
  BY <1>1, <1>3, Z3
<1>5. n \in Int /\ a + q \in Int /\ b * (a + q) <= n /\ n < (b * (a + q)) + b
  BY <1>1, <1>2, <1>3, <1>4
<1>6. n \div b = a + q
  BY <1>5, QuotientOf
<1> QED
  BY <1>6 DEF n, a, q, s

(* Both multiplied by the same.                                             *)
LEMMA DivideScaled ==
  ASSUME NEW a \in Nat, NEW b \in Nat \ {0}, NEW c \in Nat \ {0}
  PROVE  (c * a) \div (c * b) = a \div b
<1>1. c * a \in Nat
  BY Z3
<1>2. ((c * a) \div c) \div b = (c * a) \div (c * b)
  BY <1>1, DivideTwice
<1>3. (c * a) \div c = a
  <2> DEFINE n == c * a
  <2>1. n \in Int /\ a \in Int /\ c * a <= n /\ n < (c * a) + c
    BY <1>1
  <2> HIDE DEF n
  <2>2. n \div c = a
    BY <2>1, QuotientOf
  <2> QED
    BY <2>2 DEF n
<1> QED
  BY <1>2, <1>3

-----------------------------------------------------------------------------
(* The digits of a whole number.                                            *)
LEMMA LastDigit ==
  ASSUME NEW n \in Nat
  PROVE  n % 10 \in Cipher /\ n \div 10 \in Nat /\ n = (10 * (n \div 10)) + (n % 10)
         /\ (n > 0 => n \div 10 < n)
BY DEF Cipher

LEMMA DecimalIs ==
  /\ Decimal \in [Nat -> Seq(Cipher)] /\ Decimal[0] = <<>>
  /\ \A n \in Nat \ {0} : Decimal[n] = Append(Decimal[n \div 10], n % 10)
<1> DEFINE
      V == Seq(Cipher)
      W == [Nat -> V]
      more(f, n) == Append(f[n \div 10], n % 10)
      g == [p \in Nat \X W |-> IF p[1] = 0 THEN <<>> ELSE more(p[2], p[1])]
      body(f) == [n \in Nat |-> IF n = 0 THEN <<>> ELSE more(f, n)]
      T == CHOOSE f : f = body(f)
<1>1. ASSUME NEW f, NEW n \in Nat, n # 0, f[n \div 10] \in V PROVE more(f, n) \in V
  BY <1>1, LastDigit
<1>2. g \in [Nat \X W -> V]
  <2>1. \A n \in Nat, f \in W : n # 0 => more(f, n) \in V
    <3> TAKE n \in Nat, f \in W
    <3>1. f[n \div 10] \in V
      BY LastDigit
    <3> HIDE DEF V, more
    <3> QED
      BY <1>1, <3>1
  <2>2. <<>> \in V
    OBVIOUS
  <2> HIDE DEF W, more, V
  <2> QED
    BY <2>1, <2>2
<1>a. \A n \in Nat : n # 0 => n \div 10 \in 0..(n - 1)
  <2> SUFFICES ASSUME NEW n \in Nat, n # 0 PROVE n \div 10 \in 0..(n - 1)
    OBVIOUS
  <2> DEFINE q == n \div 10
  <2>1. q \in Nat /\ q < n
    BY LastDigit
  <2> HIDE DEF q
  <2>2. q \in 0..(n - 1)
    BY <2>1
  <2> QED
    BY <2>2 DEF q
<1>3. \A n \in Nat, f \in W, k \in W : AlikeBefore(n, f, k) => g[<<n, f>>] = g[<<n, k>>]
  <2> TAKE n \in Nat, f \in W, k \in W
  <2> SUFFICES ASSUME AlikeBefore(n, f, k) PROVE g[<<n, f>>] = g[<<n, k>>]
    OBVIOUS
  <2>2. n = 0 \/ more(f, n) = more(k, n)
    BY <1>a DEF AlikeBefore
  <2> HIDE DEF W, more, V
  <2> QED
    BY <2>2
<1>4. \E f : Course(V, g, f)
  <2>1. LooksBack(V, g)
    <3>1. V # {}
      BY EmptySeq
    <3> HIDE DEF g, V
    <3> QED
      BY <1>2, <1>3, <3>1 DEF LooksBack
  <2> HIDE DEF g, V
  <2> QED
    BY <2>1, CourseOfValues
<1>5. PICK f : f \in W /\ \A n \in Nat : f[n] = g[<<n, f>>]
  <2> HIDE DEF g, V
  <2> QED
    BY <1>4 DEF Course
<1>6. f = body(f)
  <2> HIDE DEF more
  <2>1. \A n \in Nat : g[<<n, f>>] = IF n = 0 THEN <<>> ELSE more(f, n)
    <3> HIDE DEF W
    <3> QED
      BY <1>5
  <2> HIDE DEF g
  <2> QED
    BY <1>5, <2>1
<1>7. T = body(T)
  <2> HIDE DEF body
  <2> QED
    BY <1>6
<1>8. Decimal = T
  BY DEF Decimal
<1> HIDE DEF T
<1>9. T = [n \in Nat |-> T[n]] /\ \A n \in Nat : T[n] = IF n = 0 THEN <<>> ELSE more(T, n)
  <2> HIDE DEF more
  <2> QED
    BY <1>7
<1> DEFINE S == {n \in Nat : \A i \in Nat : i < n => T[i] \in V}
<1>10. S = Nat
  <2> HIDE DEF body
  <2>1. 0 \in S
    OBVIOUS
  <2>2. ASSUME NEW n \in S PROVE n + 1 \in S
    <3>0. n \in Nat /\ n + 1 \in Nat
      OBVIOUS
    <3>1. ASSUME NEW i \in Nat, i < n + 1 PROVE T[i] \in V
      <4>1. CASE i = 0
        <5>1. T[i] = <<>>
          BY <1>9, <4>1
        <5> HIDE DEF T, S
        <5> QED
          BY <5>1
      <4>2. CASE i # 0
        <5>1. i \div 10 \in Nat /\ i \div 10 < n
          BY <3>0, <3>1, <4>2, LastDigit
        <5>2. T[i \div 10] \in V
          BY <5>1
        <5> HIDE DEF V, more, S
        <5> QED
          BY <1>1, <1>9, <4>2, <5>2
      <4> QED
        BY <4>1, <4>2
    <3> QED
      BY <3>0, <3>1
  <2>3. S \in SUBSET Nat
    OBVIOUS
  <2> HIDE DEF S
  <2> QED
    BY <2>1, <2>2, <2>3, NaturalInduction
<1>11. \A i \in Nat : T[i] \in V
  <2> TAKE i \in Nat
  <2> DEFINE n == i + 1
  <2>1. n \in Nat /\ i < n
    OBVIOUS
  <2> HIDE DEF n
  <2>2. n \in S
    BY <2>1, <1>10
  <2> QED
    BY <2>1, <2>2
<1> HIDE DEF body, V
<1> QED
  BY <1>8, <1>9, <1>11 DEF V

LEMMA DecimalValue ==
  ASSUME NEW n \in Nat
  PROVE  /\ Decimal[n] \in Seq(Cipher) /\ Value(Decimal[n]) = n
         /\ n > 0 => Decimal[n] # <<>> /\ Decimal[n][1] # 0
<1> DEFINE
      Right(i) == Value(Decimal[i]) = i /\ (i > 0 => Decimal[i] # <<>> /\ Decimal[i][1] # 0)
      S == {k \in Nat : \A i \in Nat : i < k => Right(i)}
<1>1. 0 \in S
  OBVIOUS
<1>2. ASSUME NEW k \in S PROVE k + 1 \in S
  <2>0. k \in Nat /\ k + 1 \in Nat
    OBVIOUS
  <2>1. ASSUME NEW i \in Nat, i < k + 1 PROVE Right(i)
    <3>1. CASE i = 0
      BY <3>1, DecimalIs, ValueIs
    <3>2. CASE i # 0
      <4> DEFINE
            j == i \div 10
            c == i % 10
      <4>1. j \in Nat /\ j < k /\ c \in Cipher /\ i = (10 * j) + c
        BY <2>0, <2>1, <3>2, LastDigit
      <4>2. Right(j)
        BY <4>1
      <4> HIDE DEF S
      <4>3. Decimal[i] = Append(Decimal[j], c) /\ Decimal[j] \in Seq(Cipher)
        BY <3>2, <4>1, DecimalIs
      <4> HIDE DEF j, c
      <4>4. Value(Decimal[i]) = i
        BY <4>1, <4>2, <4>3, ValueIs
      <4>5. Decimal[i] # <<>>
        BY <4>1, <4>3
      <4>6. Decimal[i][1] # 0
        <5>1. CASE j = 0
          <6>1. Decimal[j] = <<>>
            BY <5>1, DecimalIs
          <6>2. Decimal[i][1] = c
            BY <4>1, <4>3, <6>1
          <6> QED
            BY <3>2, <4>1, <5>1, <6>2
        <5>2. CASE j # 0
          <6>1. Decimal[j] # <<>> /\ Decimal[j][1] # 0
            BY <4>1, <4>2, <5>2
          <6>2. Decimal[i][1] = Decimal[j][1]
            BY <4>1, <4>3, <6>1
          <6> QED
            BY <6>1, <6>2
        <5> QED
          BY <5>1, <5>2
      <4> QED
        BY <4>4, <4>5, <4>6
    <3> QED
      BY <3>1, <3>2
  <2> HIDE DEF Right
  <2> QED
    BY <2>0, <2>1
<1>3. S = Nat
  <2>1. S \in SUBSET Nat
    OBVIOUS
  <2> HIDE DEF S
  <2> QED
    BY <1>1, <1>2, <2>1, NaturalInduction
<1>5. Right(n)
  <2> DEFINE k == n + 1
  <2>1. k \in Nat /\ n < k
    OBVIOUS
  <2> HIDE DEF k, Right
  <2>2. k \in S
    BY <1>3, <2>1
  <2> QED
    BY <2>1, <2>2
<1>6. Decimal[n] \in Seq(Cipher)
  BY DecimalIs
<1> QED
  BY <1>5, <1>6

LEMMA TenGrows ==
  ASSUME NEW m \in Nat, NEW n \in Nat, m <= n
  PROVE  Ten[m] <= Ten[n] /\ (m < n => 10 * Ten[m] <= Ten[n])
<1>1. ASSUME NEW i \in Nat, NEW j \in Nat, i <= j PROVE Ten[i] <= Ten[j]
  <2> DEFINE
        d == j - i
        a == Ten[i]
        b == Ten[d]
  <2>1. d \in Nat /\ i + d = j
    BY <1>1
  <2>2. Ten[j] = a * b /\ a \in Nat \ {0} /\ b \in Nat \ {0}
    <3> HIDE DEF d
    <3> QED
      BY <2>1, TenIs
  <2> HIDE DEF a, b
  <2>3. a \in Nat /\ b \in Nat /\ b >= 1
    BY <2>2
  <2>4. a * b >= a
    BY <2>3, Z3
  <2> QED
    BY <2>2, <2>4 DEF a
<1>2. m < n => m + 1 <= n /\ Ten[m + 1] = 10 * Ten[m]
  BY TenIs
<1> QED
  BY <1>1, <1>2

LEMMA DecimalLength ==
  ASSUME NEW n \in Nat, NEW k \in Nat, k > 0, Ten[k - 1] <= n, n < Ten[k]
  PROVE  Len(Decimal[n]) = k
<1> DEFINE
      d == Decimal[n]
      l == Len(d)
<1>0. k - 1 \in Nat /\ Ten[k - 1] \in Nat \ {0} /\ Ten[k] \in Nat
  <2>1. k - 1 \in Nat
    OBVIOUS
  <2> QED
    BY <2>1, TenIs
<1>1. d \in Seq(Cipher) /\ Value(d) = n /\ d # <<>> /\ d[1] # 0
  <2>1. n > 0
    BY <1>0
  <2> QED
    BY <2>1, DecimalValue
<1>2. l \in Nat /\ l > 0
  BY <1>1
<1>3. n < Ten[l] /\ n >= Ten[l - 1]
  BY <1>1, ValueBounds
<1> HIDE DEF l
<1>4. l - 1 \in Nat /\ Ten[l] \in Nat /\ Ten[l - 1] \in Nat
  <2>1. l - 1 \in Nat
    BY <1>2
  <2> QED
    BY <1>2, <2>1, TenIs
<1>5. ASSUME l < k PROVE FALSE
  <2>1. Ten[l] <= Ten[k - 1]
    BY <1>0, <1>2, <1>5, TenGrows
  <2> QED
    BY <1>0, <1>3, <1>4, <2>1
<1>6. ASSUME k < l PROVE FALSE
  <2>1. Ten[k] <= Ten[l - 1]
    BY <1>2, <1>4, <1>6, TenGrows
  <2> QED
    BY <1>0, <1>3, <1>4, <2>1
<1>7. l = k
  BY <1>2, <1>5, <1>6
<1> QED
  BY <1>7 DEF l

-----------------------------------------------------------------------------
(* The digits after the point.                                              *)
LEMMA NextDigit ==
  ASSUME NEW b \in Nat \ {0}, NEW r \in 0..(b - 1)
  PROVE  /\ (10 * r) % b \in 0..(b - 1) /\ (10 * r) \div b \in Cipher
         /\ 10 * r = (b * ((10 * r) \div b)) + ((10 * r) % b)
         /\ (10 * r) \div b = 0 => 10 * r < b
<1> DEFINE
      q == (10 * r) \div b
      s == (10 * r) % b
<1>1. q \in Int /\ s \in 0..(b - 1) /\ 10 * r = (b * q) + s
  BY Z3
<1> HIDE DEF q, s
<1>2. b \in Int /\ b > 0 /\ r \in Int /\ 0 <= r /\ r < b /\ s \in Int /\ 0 <= s /\ s < b
  BY <1>1
<1>3. q >= 0
  <2> SUFFICES ASSUME q <= -1 PROVE FALSE
    BY <1>1
  <2>1. b * q <= b * (-1)
    BY <1>1, <1>2, Z3
  <2>2. b * q \in Int
    BY <1>1
  <2> QED
    BY <1>1, <1>2, <2>1, <2>2
<1>4. q <= 9
  <2> SUFFICES ASSUME q >= 10 PROVE FALSE
    BY <1>1
  <2>1. b * q >= b * 10
    BY <1>1, <1>2, Z3
  <2>2. b * q \in Int
    BY <1>1
  <2> QED
    BY <1>1, <1>2, <2>1, <2>2
<1>5. q = 0 => 10 * r < b
  <2>1. q = 0 => b * q = 0
    BY <1>2
  <2> QED
    BY <1>1, <1>2, <2>1
<1> QED
  BY <1>1, <1>3, <1>4, <1>5 DEF q, s, Cipher

Remains(T, part, b, k) ==
    /\ T[0] = part
    /\ \A i \in 1..k : T[i] = (10 * T[i - 1]) % b
    /\ \A i \in 0..k : T[i] \in 0..(b - 1)

LEMMA AfterDigits ==
  ASSUME NEW part \in Nat, NEW bits \in Nat, part < Two[bits], NEW k \in Nat
  PROVE  \E T : /\ Remains(T, part, Two[bits], k)
                /\ DigitsAfter(part, bits, k) = [i \in 1..k |-> (10 * T[i - 1]) \div Two[bits]]
<1> DEFINE
      b == Two[bits]
      V == [n \in 0..k |-> 0..(b - 1)]
      g == [p \in (1..k) \X (0..(b - 1)) |-> (10 * p[2]) % b]
      body(f) == [i \in 0..k |-> IF i = 0 THEN part ELSE (10 * f[i - 1]) % b]
      T == CHOOSE f : f = body(f)
<1>1. b \in Nat \ {0} /\ part \in 0..(b - 1)
  BY TwoIs
<1> HIDE DEF b
<1>2. \A n \in 1..k, x \in 0..(b - 1) : g[<<n, x>>] = (10 * x) % b /\ (10 * x) % b \in 0..(b - 1)
  BY <1>1, NextDigit
<1>3. \A n \in 0..k : V[n] = 0..(b - 1)
  OBVIOUS
<1> HIDE DEF g, V
<1>4. part \in V[0] /\ \A n \in 1..k : \A x \in V[n - 1] : g[<<n, x>>] \in V[n]
  <2>1. 0 \in 0..k /\ \A n \in 1..k : n \in 0..k /\ n - 1 \in 0..k
    OBVIOUS
  <2> QED
    BY <1>1, <1>2, <1>3, <2>1
<1>5. PICK f : Goes(f, part, g, k) /\ \A n \in 0..k : f[n] \in V[n]
  BY <1>4, RecursionWithin
<1>6. f = [n \in 0..k |-> f[n]] /\ f[0] = part /\ \A n \in 1..k : f[n] = g[<<n, f[n - 1]>>]
  BY <1>5 DEF Goes, UpTo
<1>7. \A n \in 1..k : f[n] = (10 * f[n - 1]) % b
  <2> SUFFICES ASSUME NEW n \in 1..k PROVE f[n] = (10 * f[n - 1]) % b
    OBVIOUS
  <2>1. n - 1 \in 0..k
    OBVIOUS
  <2>2. f[n - 1] \in V[n - 1] /\ V[n - 1] = 0..(b - 1)
    BY <1>3, <1>5, <2>1
  <2> DEFINE y == f[n - 1]
  <2>3. y \in 0..(b - 1) /\ f[n] = g[<<n, y>>]
    BY <1>6, <2>2
  <2> HIDE DEF y
  <2>4. f[n] = (10 * y) % b
    BY <1>2, <2>3
  <2> QED
    BY <2>4 DEF y
<1>8. f = body(f)
  <2>1. \A n \in 0..k : n = 0 \/ n \in 1..k
    OBVIOUS
  <2> QED
    BY <1>6, <1>7, <2>1
<1>9. T = body(T)
  <2> HIDE DEF body
  <2> QED
    BY <1>8
<1>10. DigitsAfter(part, bits, k) = [i \in 1..k |-> (10 * T[i - 1]) \div b]
  BY DEF DigitsAfter, b
<1>11. f = T
  <2>1. UpTo(k, f) /\ UpTo(k, T)
    BY <1>8, <1>9 DEF UpTo
  <2>2. T[0] = part /\ \A n \in 1..k : T[n] = (10 * T[n - 1]) % b
    <3>1. 0 \in 0..k /\ \A n \in 1..k : n \in 0..k /\ n # 0
      OBVIOUS
    <3> QED
      BY <1>9, <3>1
  <2> HIDE DEF T
  <2>3. f[0] = T[0] /\ \A n \in 1..k : f[n - 1] = T[n - 1] => f[n] = T[n]
    BY <1>6, <1>7, <2>2
  <2> QED
    BY <2>1, <2>3, SameRecursion
<1>12. Remains(f, part, b, k)
  BY <1>3, <1>5, <1>6, <1>7 DEF Remains
<1> HIDE DEF T
<1> QED
  BY <1>10, <1>11, <1>12 DEF b

LEMMA AfterIs ==
  ASSUME NEW part \in Nat, NEW bits \in Nat, part < Two[bits], NEW k \in Nat
  PROVE  LET d == DigitsAfter(part, bits, k)
         IN /\ d \in Seq(Cipher) /\ Len(d) = k
            /\ \A m \in 0..k : Value(SubSeq(d, 1, m)) = (part * Ten[m]) \div Two[bits]
            /\ k > 0 /\ 10 * part >= Two[bits] => d[1] # 0
<1> DEFINE
      b == Two[bits]
      d == DigitsAfter(part, bits, k)
<1>0. b \in Nat \ {0} /\ part \in Nat
  BY TwoIs
<1>1. PICK T : Remains(T, part, b, k) /\ d = [i \in 1..k |-> (10 * T[i - 1]) \div b]
  BY AfterDigits
<1> HIDE DEF b, d
<1>2. \A i \in 1..k : /\ i - 1 \in 0..k /\ T[i - 1] \in 0..(b - 1)
                      /\ d[i] = (10 * T[i - 1]) \div b /\ d[i] \in Cipher
                      /\ 10 * T[i - 1] = (b * d[i]) + T[i]
  <2> SUFFICES ASSUME NEW i \in 1..k
               PROVE /\ i - 1 \in 0..k /\ T[i - 1] \in 0..(b - 1)
                     /\ d[i] = (10 * T[i - 1]) \div b /\ d[i] \in Cipher
                     /\ 10 * T[i - 1] = (b * d[i]) + T[i]
    OBVIOUS
  <2>1. i - 1 \in 0..k
    OBVIOUS
  <2>2. T[i - 1] \in 0..(b - 1) /\ T[i] = (10 * T[i - 1]) % b
    BY <1>1, <2>1 DEF Remains
  <2>3. d[i] = (10 * T[i - 1]) \div b
    BY <1>1
  <2> QED
    BY <1>0, <2>1, <2>2, <2>3, NextDigit
<1>3. d \in Seq(Cipher) /\ Len(d) = k
  <2>1. d = [i \in 1..k |-> d[i]] /\ \A i \in 1..k : d[i] \in Cipher
    BY <1>1, <1>2
  <2> QED
    BY <2>1
<1> DEFINE
      P(m) == SubSeq(d, 1, m)
      S == {m \in Nat : m <= k => part * Ten[m] = (b * Value(P(m))) + T[m]}
<1>4. 0 \in S
  <2>1. P(0) = <<>>
    BY <1>3
  <2>2. T[0] = part /\ (b * 0) + part = part * 1
    BY <1>0, <1>1 DEF Remains
  <2>3. Value(P(0)) = 0 /\ Ten[0] = 1
    BY <2>1, TenIs, ValueIs
  <2> HIDE DEF P
  <2>4. part * Ten[0] = (b * Value(P(0))) + T[0]
    BY <2>2, <2>3
  <2> QED
    BY <2>4
<1>5. ASSUME NEW m \in S PROVE m + 1 \in S
  <2> SUFFICES ASSUME m + 1 <= k PROVE part * Ten[m + 1] = (b * Value(P(m + 1))) + T[m + 1]
    OBVIOUS
  <2>1. m \in Nat /\ m \in 0..k /\ m + 1 \in 1..k /\ (m + 1) - 1 = m /\ m < k
    OBVIOUS
  <2>2. part * Ten[m] = (b * Value(P(m))) + T[m]
    BY <2>1
  <2>3. P(m) \in Seq(Cipher) /\ Value(P(m)) \in Nat
    <3>1. P(m) \in Seq(Cipher)
      BY <1>3, <2>1, PrefixIs
    <3> QED
      BY <3>1, ValueIs
  <2>4. Value(P(m + 1)) = (10 * Value(P(m))) + d[m + 1]
    BY <1>3, <2>1, ValuePrefix
  <2> HIDE DEF S
  <2> DEFINE
        v == Value(P(m))
        c == d[m + 1]
        t == Ten[m]
        r == T[m]
        s == T[m + 1]
        w == Value(P(m + 1))
  <2>5. 10 * r = (b * c) + s /\ c \in Cipher /\ r \in Nat
    BY <1>2, <2>1
  <2>6. s \in Nat
    <3>1. m + 1 \in 0..k
      BY <2>1
    <3> QED
      BY <1>0, <1>1, <3>1 DEF Remains
  <2>7. part * t = (b * v) + r /\ v \in Nat /\ w = (10 * v) + c
    BY <2>2, <2>3, <2>4
  <2>8. Ten[m + 1] = 10 * t /\ t \in Nat
    BY <2>1, TenIs
  <2>9. c \in Nat
    BY <2>5 DEF Cipher
  <2> HIDE DEF v, c, t, r, s, w, P
  <2>10. part * (10 * t) = (b * w) + s
    <3>1. part * (10 * t) = 10 * (part * t)
      BY <1>0, <2>8, Z3
    <3>2. b * w = (10 * (b * v)) + (b * c)
      BY <1>0, <2>7, <2>9, Z3
    <3>3. part * t \in Int /\ b * v \in Int /\ b * c \in Int /\ b * w \in Int
      BY <1>0, <2>7, <2>8, <2>9
    <3> DEFINE
          e == part * t
          f == b * v
          h == b * c
    <3>4. 10 * e = ((10 * f) + h) + s
      <4>1. e = f + r /\ 10 * r = h + s
        BY <2>5, <2>7
      <4>2. e \in Int /\ f \in Int /\ h \in Int
        BY <3>3
      <4> HIDE DEF e, f, h
      <4> QED
        BY <2>5, <2>6, <4>1, <4>2
    <3> QED
      BY <3>1, <3>2, <3>4
  <2> QED
    BY <2>8, <2>10 DEF w, s
<1>6. S = Nat
  <2>1. S \in SUBSET Nat
    OBVIOUS
  <2> HIDE DEF S
  <2> QED
    BY <1>4, <1>5, <2>1, NaturalInduction
<1>7. ASSUME NEW m \in 0..k PROVE Value(P(m)) = (part * Ten[m]) \div b
  <2>1. m \in S /\ m <= k
    BY <1>6
  <2>2. part * Ten[m] = (b * Value(P(m))) + T[m]
    BY <2>1
  <2>3. T[m] \in 0..(b - 1)
    BY <1>1 DEF Remains
  <2>4. Value(P(m)) \in Nat
    <3>1. P(m) \in Seq(Cipher)
      BY <1>3, PrefixIs
    <3> QED
      BY <3>1, ValueIs
  <2> HIDE DEF S
  <2> DEFINE
        w == part * Ten[m]
        q == Value(P(m))
        r == T[m]
  <2>5. w = (b * q) + r /\ r \in 0..(b - 1) /\ q \in Nat
    BY <2>2, <2>3, <2>4
  <2> HIDE DEF w, q, r
  <2>6. b * q \in Int /\ b \in Int
    BY <1>0, <2>5
  <2>7. w \in Int /\ q \in Int /\ b * q <= w /\ w < (b * q) + b
    BY <1>0, <2>5, <2>6
  <2>8. w \div b = q
    BY <1>0, <2>7, QuotientOf
  <2> QED
    BY <2>8 DEF w, q
<1>8. ASSUME k > 0, 10 * part >= b PROVE d[1] # 0
  <2>1. 1 \in 1..k /\ 1 - 1 = 0 /\ T[0] = part
    BY <1>1, <1>8 DEF Remains
  <2>2. d[1] = (10 * part) \div b /\ part \in 0..(b - 1)
    BY <1>2, <2>1
  <2> QED
    BY <1>0, <1>8, <2>2, NextDigit
<1> QED
  BY <1>3, <1>7, <1>8 DEF b, d

LEMMA TwoBelowTen == \A n \in Nat : Two[n] <= Ten[n]
<1> DEFINE S == {n \in Nat : Two[n] <= Ten[n]}
<1>1. 0 \in S
  BY TenIs, TwoIs
<1>2. ASSUME NEW n \in S PROVE n + 1 \in S
  <2>1. n \in Nat /\ Two[n] <= Ten[n] /\ n + 1 \in Nat
    OBVIOUS
  <2>2. Two[n + 1] = 2 * Two[n] /\ Ten[n + 1] = 10 * Ten[n] /\ Two[n] \in Nat /\ Ten[n] \in Nat
    BY <2>1, TenIs, TwoIs
  <2> QED
    BY <2>1, <2>2
<1>3. S = Nat
  <2>1. S \in SUBSET Nat
    OBVIOUS
  <2> HIDE DEF S
  <2> QED
    BY <1>1, <1>2, <2>1, NaturalInduction
<1> QED
  BY <1>3

(* A number as it is written: what is before the point and after it.        *)
Floats == [num : Int, bits : Nat]

LEMMA PartsAre ==
  ASSUME NEW x \in Floats
  PROVE  /\ Two[x.bits] \in Nat \ {0} /\ Magnitude(x.num) \in Nat
         /\ Whole(x) \in Nat /\ Rest(x) \in Nat /\ Rest(x) < Two[x.bits]
         /\ Magnitude(x.num) = (Two[x.bits] * Whole(x)) + Rest(x)
<1> DEFINE
      b == Two[x.bits]
      n == Magnitude(x.num)
<1>1. b \in Nat \ {0} /\ n \in Nat
  BY TwoIs DEF Floats, Magnitude
<1>2. Whole(x) = n \div b /\ Rest(x) = n % b
  BY DEF Whole, Rest
<1> HIDE DEF b, n
<1> DEFINE
      q == n \div b
      r == n % b
<1>3. q \in Int /\ r \in Nat /\ r < b /\ n = (b * q) + r
  BY <1>1, Z3
<1>4. q \in Nat
  BY <1>1, DivisionOfNats
<1> QED
  BY <1>1, <1>2, <1>3, <1>4 DEF b, n

LEMMA LeadingZerosAre ==
  ASSUME NEW x \in Floats
  PROVE  LET z == LeadingZeros(x)
         IN /\ z \in Nat /\ Rest(x) * Ten[z] < Two[x.bits]
            /\ Rest(x) # 0 => Rest(x) * Ten[z + 1] >= Two[x.bits]
<1> DEFINE
      r == Rest(x)
      b == Two[x.bits]
      l == x.bits
      S == {k \in Nat : r * Ten[k + 1] >= b}
      First0(k) == r * Ten[k + 1] >= b /\ \A j \in 1..k : r * Ten[j] < b
      z == LeadingZeros(x)
<1>1. b \in Nat \ {0} /\ r \in Nat /\ r < b /\ l \in Nat /\ b = Two[l]
  BY PartsAre DEF Floats
<1>2. z = IF r = 0 THEN 0 ELSE CHOOSE k \in 0..l : First0(k)
  BY DEF LeadingZeros
<1> HIDE DEF r, b, l, z
<1>3. CASE r = 0
  <2>1. z = 0 /\ 0 * 1 = 0
    BY <1>2, <1>3
  <2>2. r * Ten[z] = 0
    BY <1>3, <2>1, TenIs
  <2> QED
    BY <1>1, <1>3, <2>1, <2>2 DEF r, b, z
<1>4. CASE r # 0
  <2>1. l \in S
    <3> DEFINE t == Ten[l + 1]
    <3>1. t \in Nat /\ t >= b
      <4>1. Ten[l + 1] = 10 * Ten[l] /\ Ten[l] \in Nat /\ Ten[l] >= b
        BY <1>1, TenIs, TwoBelowTen
      <4> QED
        BY <1>1, <4>1
    <3> HIDE DEF t
    <3>2. r >= 1 /\ r \in Nat
      BY <1>1, <1>4
    <3>3. r * t >= t
      BY <3>1, <3>2, Z3
    <3>4. r * t \in Int
      BY <3>1, <3>2
    <3>5. r * t >= b
      BY <1>1, <3>1, <3>3, <3>4
    <3> QED
      BY <1>1, <3>5 DEF t
  <2>2. S \in SUBSET Nat /\ S # {}
    BY <2>1
  <2>3. PICK k \in S : \A j \in S : k <= j
    <3> HIDE DEF S
    <3> QED
      BY <2>2, LeastNatural
  <2>4. k \in 0..l
    <3>1. k \in Nat /\ k <= l
      BY <2>1, <2>3
    <3> QED
      BY <1>1, <3>1
  <2>5. ASSUME NEW j \in 1..k PROVE r * Ten[j] < b
    <3>1. j - 1 \in Nat /\ (j - 1) + 1 = j /\ ~(k <= j - 1)
      BY <2>4
    <3>2. j - 1 \notin S
      BY <2>3, <3>1
    <3>3. ~(r * Ten[j] >= b)
      BY <3>1, <3>2
    <3>4. Ten[j] \in Nat
      <4>1. j \in Nat
        OBVIOUS
      <4> QED
        BY <4>1, TenIs
    <3>5. r * Ten[j] \in Int
      BY <1>1, <3>4
    <3> QED
      BY <1>1, <3>3, <3>5
  <2>6. First0(k)
    BY <2>3, <2>5
  <2>7. z \in 0..l /\ First0(z)
    <3> HIDE DEF First0
    <3> QED
      BY <1>2, <1>4, <2>4, <2>6
  <2>8. z \in Nat
    BY <1>1, <2>7
  <2>9. r * Ten[z] < b
    <3>1. CASE z = 0
      <4>1. r * Ten[z] = r
        BY <1>1, <3>1, TenIs
      <4> QED
        BY <1>1, <4>1
    <3>2. CASE z # 0
      <4>1. z \in 1..z
        BY <2>8, <3>2
      <4> QED
        BY <2>7, <4>1
    <3> QED
      BY <3>1, <3>2
  <2> QED
    BY <2>7, <2>8, <2>9 DEF r, b, z
<1> QED
  BY <1>3, <1>4


-----------------------------------------------------------------------------
(* What the digits of a number are: its value, rounded down.                *)
LEMMA UpIs ==
  ASSUME NEW s \in Int
  PROVE  /\ Up(s) \in Nat \ {0}
         /\ s >= 0 => Up(s) = Ten[s]
         /\ s <= 0 => Up(s) = 1
<1>1. CASE s > 0
  <2>1. s \in Nat
    BY <1>1
  <2>2. Up(s) = Ten[s] /\ Ten[s] \in Nat \ {0}
    BY <1>1, <2>1, TenIs DEF Up
  <2> QED
    BY <1>1, <2>2
<1>2. CASE ~(s > 0)
  <2>1. Up(s) = 1
    BY <1>2 DEF Up
  <2>2. s >= 0 => s = 0
    BY <1>2
  <2>3. Ten[0] = 1
    BY TenIs
  <2> QED
    BY <2>1, <2>2, <2>3
<1> QED
  BY <1>1, <1>2

LEMMA HalfUp ==
  ASSUME NEW a \in Nat, NEW b \in Nat \ {0}
  PROVE  ((a \div b) + 5) \div 10 = (a + (5 * b)) \div (10 * b)
<1> DEFINE
      n == (b * 5) + a
      q == a \div b
<1>1. n \in Nat /\ n = a + (5 * b) /\ 1 \in Nat /\ 5 \in Nat
  OBVIOUS
<1>2. (n * 1) \div b = (5 * 1) + ((a * 1) \div b)
  BY <1>1, DivideSum
<1>3. n * 1 = n /\ a * 1 = a /\ 5 * 1 = 5
  OBVIOUS
<1>4. q \in Nat
  BY DivisionOfNats
<1> HIDE DEF n
<1>5. n \div b = 5 + q
  BY <1>2, <1>3
<1>6. (n \div b) \div 10 = n \div (b * 10)
  <2>1. 10 \in Nat \ {0}
    OBVIOUS
  <2> QED
    BY <1>1, <2>1, DivideTwice
<1> HIDE DEF q
<1>7. q + 5 = n \div b /\ b * 10 = 10 * b
  BY <1>4, <1>5
<1>8. (q + 5) \div 10 = n \div (10 * b)
  BY <1>6, <1>7
<1> QED
  BY <1>1, <1>8 DEF q

(* Rounding to the nearest looks at one more digit.                         *)
LEMMA RoundedIs ==
  ASSUME NEW x \in Floats, NEW s \in Int
  PROVE  Floor(x, s + 1) \in Nat /\ RoundedTo(x, s) = (Floor(x, s + 1) + 5) \div 10
<1> DEFINE
      b == Two[x.bits]
      n == Magnitude(x.num)
<1>1. b \in Nat \ {0} /\ n \in Nat
  BY PartsAre
<1>2. /\ Floor(x, s + 1) = (n * Up(s + 1)) \div (b * Up(-(s + 1)))
      /\ RoundedTo(x, s) = ((2 * (n * Up(s))) + (b * Up(-s))) \div (2 * (b * Up(-s)))
  BY DEF Floor, RoundedTo
<1> HIDE DEF b, n
<1>3. CASE s >= 0
  <2> DEFINE
        t == Ten[s]
        a == n * t
  <2>1. s \in Nat
    BY <1>3
  <2>2. t \in Nat /\ Ten[s + 1] = 10 * t
    BY <2>1, TenIs
  <2>3. Up(s) = t /\ Up(s + 1) = 10 * t /\ Up(-s) = 1 /\ Up(-(s + 1)) = 1
    <3>1. -s \in Int /\ -s <= 0 /\ s + 1 \in Int /\ s + 1 >= 0 /\ -(s + 1) \in Int /\ -(s + 1) <= 0
      BY <1>3
    <3> HIDE DEF t
    <3>2. Up(s) = Ten[s] /\ Up(s + 1) = Ten[s + 1] /\ Up(-s) = 1 /\ Up(-(s + 1)) = 1
      BY <1>3, <3>1, UpIs
    <3> QED
      BY <2>2, <3>2 DEF t
  <2> HIDE DEF t
  <2>4. a \in Nat /\ n * (10 * t) = 10 * a
    BY <1>1, <2>2, Z3
  <2> HIDE DEF a
  <2>5. b * 1 = b
    BY <1>1
  <2>6. Floor(x, s + 1) = (10 * a) \div b /\ RoundedTo(x, s) = ((2 * a) + b) \div (2 * b)
    BY <1>2, <2>3, <2>4, <2>5 DEF a
  <2> DEFINE
        c == 10 * a
        h == (2 * a) + b
        k == 2 * b
  <2>7. c \in Nat /\ h \in Nat /\ k \in Nat \ {0} /\ 5 \in Nat \ {0}
    BY <1>1, <2>4
  <2>8. c + (5 * b) = 5 * h /\ 10 * b = 5 * k
    BY <1>1, <2>4
  <2>9. ((c \div b) + 5) \div 10 = (c + (5 * b)) \div (10 * b)
    <3> HIDE DEF c
    <3> QED
      BY <1>1, <2>7, HalfUp
  <2>10. (5 * h) \div (5 * k) = h \div k
    <3> HIDE DEF h, k
    <3> QED
      BY <2>7, DivideScaled
  <2>11. c \div b \in Nat
    <3> HIDE DEF c
    <3> QED
      BY <1>1, <2>7, DivisionOfNats
  <2>12. Floor(x, s + 1) = c \div b /\ RoundedTo(x, s) = h \div k
    BY <2>6
  <2> HIDE DEF c, h, k
  <2> QED
    BY <2>8, <2>9, <2>10, <2>11, <2>12
<1>4. CASE s < 0
  <2> DEFINE
        m == -(s + 1)
        t == Ten[m]
        c == b * t
  <2>1. m \in Nat /\ -s = m + 1 /\ -s \in Nat
    BY <1>4
  <2>2. t \in Nat \ {0} /\ Ten[-s] = 10 * t
    <3> HIDE DEF m
    <3> QED
      BY <2>1, TenIs
  <2>3. Up(s) = 1 /\ Up(s + 1) = 1 /\ Up(-s) = 10 * t /\ Up(m) = t
    <3>1. -s >= 0 /\ s <= 0 /\ s + 1 \in Int /\ s + 1 <= 0 /\ m \in Int /\ m >= 0 /\ -s \in Int
      BY <1>4
    <3> HIDE DEF t, m
    <3>2. Up(s) = 1 /\ Up(s + 1) = 1 /\ Up(-s) = Ten[-s] /\ Up(m) = Ten[m]
      BY <3>1, UpIs
    <3> QED
      BY <2>2, <3>2 DEF t
  <2>4. Floor(x, s + 1) = (n * Up(s + 1)) \div (b * Up(m))
    BY <1>2
  <2> HIDE DEF t, m
  <2>5. c \in Nat \ {0} /\ b * (10 * t) = 10 * c
    BY <1>1, <2>2, Z3
  <2>6. n * 1 = n
    BY <1>1
  <2>7. Floor(x, s + 1) = n \div c /\ RoundedTo(x, s) = ((2 * n) + (10 * c)) \div (2 * (10 * c))
    BY <1>2, <2>3, <2>4, <2>5, <2>6
  <2> HIDE DEF c
  <2> DEFINE
        h == n + (5 * c)
        k == 10 * c
  <2>8. h \in Nat /\ k \in Nat \ {0} /\ 2 \in Nat \ {0} /\ (2 * n) + (10 * c) = 2 * h
    BY <1>1, <2>5
  <2>9. ((n \div c) + 5) \div 10 = h \div k
    BY <1>1, <2>5, HalfUp
  <2>10. (2 * h) \div (2 * k) = h \div k
    <3> HIDE DEF h, k
    <3> QED
      BY <2>8, DivideScaled
  <2>11. n \div c \in Nat
    BY <1>1, <2>5, DivisionOfNats
  <2>12. RoundedTo(x, s) = ((2 * n) + (10 * c)) \div (2 * k)
    BY <2>7
  <2> HIDE DEF h, k
  <2> QED
    BY <2>7, <2>8, <2>9, <2>10, <2>11, <2>12
<1> QED
  BY <1>3, <1>4

LEMMA PrefixOfConcat ==
  ASSUME NEW C, NEW a \in Seq(C), NEW b \in Seq(C), NEW m \in 0..Len(a \o b)
  PROVE  /\ m <= Len(a) => SubSeq(a \o b, 1, m) = SubSeq(a, 1, m)
         /\ m >= Len(a) => SubSeq(a \o b, 1, m) = a \o SubSeq(b, 1, m - Len(a))
<1> DEFINE
      c == a \o b
      p == SubSeq(c, 1, m)
      l == Len(a)
<1>1. /\ c \in Seq(C) /\ Len(c) = l + Len(b) /\ l \in Nat /\ Len(b) \in Nat
      /\ \A i \in 1..l : c[i] = a[i]
      /\ \A i \in 1..Len(b) : c[l + i] = b[i]
  <2>1. l \in Nat /\ Len(b) \in Nat
    OBVIOUS
  <2> QED
    BY <2>1, ConcatIs
<1>2. p \in Seq(C) /\ Len(p) = m /\ \A i \in 1..m : p[i] = c[i]
  <2>1. m \in 0..Len(c)
    OBVIOUS
  <2> HIDE DEF c
  <2> QED
    BY <1>1, <2>1, PrefixIs
<1> HIDE DEF c, p
<1>3. ASSUME m <= l PROVE p = SubSeq(a, 1, m)
  <2> DEFINE q == SubSeq(a, 1, m)
  <2>1. m \in 0..l
    BY <1>1, <1>3
  <2>2. q \in Seq(C) /\ Len(q) = m /\ \A i \in 1..m : q[i] = a[i]
    BY <2>1, PrefixIs
  <2> HIDE DEF q, l
  <2>3. \A i \in 1..m : i \in 1..l
    BY <1>1, <1>3
  <2>4. \A i \in 1..Len(p) : p[i] = q[i]
    BY <1>1, <1>2, <2>2, <2>3
  <2>5. p = q
    BY <1>2, <2>2, <2>4, SameSequence
  <2> QED
    BY <2>5 DEF q
<1>4. ASSUME m >= l PROVE p = a \o SubSeq(b, 1, m - l)
  <2> DEFINE
        j == m - l
        q == SubSeq(b, 1, j)
        d == a \o q
  <2>1. j \in 0..Len(b) /\ m = l + j
    BY <1>1, <1>4 DEF c
  <2> HIDE DEF j
  <2>2. q \in Seq(C) /\ Len(q) = j /\ \A i \in 1..j : q[i] = b[i]
    BY <2>1, PrefixIs
  <2> HIDE DEF q
  <2>3. /\ d \in Seq(C) /\ Len(d) = m
        /\ \A i \in 1..l : d[i] = a[i]
        /\ \A i \in 1..j : d[l + i] = b[i]
    <3>1. /\ d \in Seq(C) /\ Len(d) = l + Len(q)
          /\ \A i \in 1..l : d[i] = a[i]
          /\ \A i \in 1..Len(q) : d[l + i] = q[i]
      <4> HIDE DEF j
      <4>1. q \in Seq(C)
        BY <2>2
      <4> QED
        BY <4>1, ConcatIs
    <3> HIDE DEF d, l
    <3>2. \A i \in 1..j : d[l + i] = b[i]
      BY <2>2, <3>1
    <3> QED
      BY <2>1, <2>2, <3>1, <3>2
  <2> HIDE DEF d, l
  <2>4. ASSUME NEW i \in 1..m PROVE p[i] = d[i]
    <3>1. CASE i <= l
      <4>1. i \in 1..l
        BY <1>1, <3>1
      <4> QED
        BY <1>1, <1>2, <2>3, <4>1
    <3>2. CASE ~(i <= l)
      <4>1. i - l \in 1..j /\ i = l + (i - l) /\ i - l \in 1..Len(b)
        BY <1>1, <2>1, <3>2
      <4> DEFINE k == i - l
      <4>2. k \in 1..j /\ i = l + k /\ k \in 1..Len(b)
        BY <4>1
      <4> HIDE DEF k
      <4>3. c[l + k] = b[k] /\ d[l + k] = b[k]
        BY <1>1, <2>3, <4>2
      <4> QED
        BY <1>2, <4>2, <4>3
    <3> QED
      BY <3>1, <3>2, <1>1
  <2>5. p = d
    BY <1>2, <2>3, <2>4, SameSequence
  <2> QED
    BY <2>5 DEF d, q, j, l
<1> QED
  BY <1>3, <1>4 DEF p, c

(* The digits of a number from its first on, of which pcc_cvt skips the z   *)
(* zeros after the point of a number below one.                             *)
Made(x, z, k) == Decimal[Whole(x)] \o DigitsAfter(Rest(x) * Ten[z], x.bits, k)
PointOf(x, z) == IF Decimal[Whole(x)] # <<>> THEN Len(Decimal[Whole(x)]) ELSE -z
Skips(x, z) == z \in Nat /\ Rest(x) * Ten[z] < Two[x.bits] /\ (Whole(x) = 0 \/ z = 0)

LEMMA WholeDigits ==
  ASSUME NEW x \in Floats
  PROVE  /\ Decimal[Whole(x)] \in Seq(Cipher) /\ Value(Decimal[Whole(x)]) = Whole(x)
         /\ Decimal[Whole(x)] # <<>> <=> Whole(x) > 0
         /\ Decimal[Whole(x)] # <<>> => Decimal[Whole(x)][1] # 0
<1> DEFINE w == Whole(x)
<1>1. w \in Nat
  BY PartsAre
<1> HIDE DEF w
<1>2. Decimal[w] \in Seq(Cipher) /\ Value(Decimal[w]) = w /\ (w > 0 => Decimal[w] # <<>> /\ Decimal[w][1] # 0)
  BY <1>1, DecimalValue
<1>3. w = 0 => Decimal[w] = <<>>
  BY DecimalIs
<1> QED
  BY <1>1, <1>2, <1>3 DEF w

LEMMA RestDigits ==
  ASSUME NEW x \in Floats, NEW z, Skips(x, z), NEW k \in Nat
  PROVE  LET d == DigitsAfter(Rest(x) * Ten[z], x.bits, k)
         IN /\ d \in Seq(Cipher) /\ Len(d) = k
            /\ \A m \in 0..k :
                  Value(SubSeq(d, 1, m)) = ((Rest(x) * Ten[z]) * Ten[m]) \div Two[x.bits]
            /\ k > 0 /\ 10 * (Rest(x) * Ten[z]) >= Two[x.bits] => d[1] # 0
<1> DEFINE
      part == Rest(x) * Ten[z]
      l == x.bits
<1>1. part \in Nat /\ part < Two[l] /\ l \in Nat
  <2>1. z \in Nat /\ part < Two[l]
    BY DEF Skips
  <2>2. Rest(x) \in Nat /\ Ten[z] \in Nat
    BY <2>1, PartsAre, TenIs
  <2> QED
    BY <2>1, <2>2 DEF Floats
<1> HIDE DEF part, l
<1>2. LET d == DigitsAfter(part, l, k)
      IN /\ d \in Seq(Cipher) /\ Len(d) = k
         /\ \A m \in 0..k : Value(SubSeq(d, 1, m)) = (part * Ten[m]) \div Two[l]
         /\ k > 0 /\ 10 * part >= Two[l] => d[1] # 0
  BY <1>1, AfterIs
<1> QED
  BY <1>2 DEF part, l

LEMMA PointIs ==
  ASSUME NEW x \in Floats, NEW z, Skips(x, z)
  PROVE  /\ PointOf(x, z) \in Int
         /\ Decimal[Whole(x)] # <<>> =>
              z = 0 /\ Whole(x) > 0 /\ PointOf(x, z) = Len(Decimal[Whole(x)]) /\ PointOf(x, z) > 0
         /\ Decimal[Whole(x)] = <<>> => Whole(x) = 0 /\ PointOf(x, z) = -z /\ PointOf(x, z) <= 0
<1> DEFINE whole == Decimal[Whole(x)]
<1>1. whole \in Seq(Cipher) /\ (whole # <<>> <=> Whole(x) > 0) /\ Whole(x) \in Nat
  BY PartsAre, WholeDigits
<1>2. z \in Nat /\ (Whole(x) = 0 \/ z = 0)
  BY DEF Skips
<1>3. PointOf(x, z) = IF whole # <<>> THEN Len(whole) ELSE -z
  BY DEF PointOf
<1>4. whole # <<>> => Len(whole) \in Nat /\ Len(whole) > 0
  BY <1>1
<1> HIDE DEF whole
<1> QED
  BY <1>1, <1>2, <1>3, <1>4 DEF whole

LEMMA MadeIs ==
  ASSUME NEW x \in Floats, NEW z, Skips(x, z), NEW k \in Nat
  PROVE  /\ Made(x, z, k) \in Seq(Cipher) /\ Len(Made(x, z, k)) >= k
         /\ \A m \in 0..k : Value(SubSeq(Made(x, z, k), 1, m)) = Floor(x, m - PointOf(x, z))
<1> DEFINE
      whole == Decimal[Whole(x)]
      w == Whole(x)
      r == Rest(x)
      b == Two[x.bits]
      n == Magnitude(x.num)
      part == r * Ten[z]
      d == DigitsAfter(part, x.bits, k)
      l == Len(whole)
      p == PointOf(x, z)
<1>1. /\ b \in Nat \ {0} /\ n \in Nat /\ w \in Nat /\ r \in Nat /\ n = (b * w) + r /\ w = n \div b
      /\ part \in Nat
  <2>1. Ten[z] \in Nat
    BY TenIs DEF Skips
  <2>2. Whole(x) = Magnitude(x.num) \div Two[x.bits]
    BY DEF Whole
  <2> QED
    BY <2>1, <2>2, PartsAre
<1>2. /\ whole \in Seq(Cipher) /\ Value(whole) = w
      /\ l \in Nat
  BY WholeDigits
<1>3. /\ d \in Seq(Cipher) /\ Len(d) = k
      /\ \A m \in 0..k : Value(SubSeq(d, 1, m)) = (part * Ten[m]) \div b
  BY RestDigits
<1>4. Made(x, z, k) = whole \o d
  BY DEF Made
<1>5. \A s \in Int : Floor(x, s) = (n * Up(s)) \div (b * Up(-s))
  BY DEF Floor
<1>6. z \in Nat
  BY DEF Skips
<1>7. /\ p \in Int
      /\ whole # <<>> => z = 0 /\ w > 0 /\ p = l /\ p > 0
      /\ whole = <<>> => w = 0 /\ p = -z /\ p <= 0
  BY PointIs
<1>a. whole = <<>> => l = 0
  OBVIOUS
<1>b. part = r * Ten[z]
  OBVIOUS
<1> HIDE DEF w, r, b, n, part, d, p, whole
<1>8. whole \o d \in Seq(Cipher) /\ Len(whole \o d) = l + k
  <2>1. whole \o d \in Seq(Cipher) /\ Len(whole \o d) = Len(whole) + Len(d)
    BY <1>2, <1>3, ConcatIs
  <2> QED
    BY <1>3, <2>1
<1>9. ASSUME NEW m \in 0..k PROVE Value(SubSeq(whole \o d, 1, m)) = Floor(x, m - p)
  <2>0. m \in 0..Len(whole \o d) /\ m \in Nat /\ Len(whole \o d) \in Nat
    BY <1>2, <1>8
  <2>1. CASE whole # <<>> /\ m <= l
    <3> DEFINE
          j == l - m
          t == Ten[j]
    <3>1. j \in Nat /\ m - l = -j /\ -(-j) = j /\ m \in 0..l
      BY <1>2, <2>0, <2>1
    <3>2. Value(SubSeq(whole \o d, 1, m)) = Value(SubSeq(whole, 1, m))
      <4>1. SubSeq(whole \o d, 1, m) = SubSeq(whole, 1, m)
        BY <1>2, <1>3, <2>0, <2>1, PrefixOfConcat
      <4> QED
        BY <4>1
    <3>3. Value(SubSeq(whole, 1, m)) = Value(whole) \div Ten[Len(whole) - m]
      <4>1. m \in 0..Len(whole)
        BY <3>1
      <4> HIDE DEF j, l
      <4> QED
        BY <1>2, <4>1, ValuePrefix
    <3>4. Value(SubSeq(whole \o d, 1, m)) = w \div t
      BY <1>2, <3>2, <3>3
    <3> HIDE DEF l, j, t
    <3>5. Up(j) = t /\ Up(-j) = 1 /\ t \in Nat \ {0}
      <4>1. j \in Int /\ -j \in Int /\ j >= 0 /\ -j <= 0
        BY <3>1
      <4> QED
        BY <4>1, UpIs DEF t
    <3>6. Floor(x, -j) = (n * 1) \div (b * t)
      <4>1. -j \in Int
        BY <3>1
      <4> QED
        BY <1>5, <3>1, <3>5, <4>1
    <3>7. n * 1 = n
      BY <1>1
    <3>8. (n \div b) \div t = n \div (b * t)
      BY <1>1, <3>5, DivideTwice
    <3>9. m - p = -j
      BY <1>7, <2>1, <3>1
    <3> QED
      BY <1>1, <3>4, <3>6, <3>7, <3>8, <3>9
  <2>2. CASE whole # <<>> /\ ~(m <= l)
    <3> DEFINE
          j == m - l
          t == Ten[j]
          q == SubSeq(d, 1, j)
    <3>1. j \in Nat /\ j \in 0..k /\ m >= l
      BY <1>2, <2>0, <2>2
    <3>2. SubSeq(whole \o d, 1, m) = whole \o q
      BY <1>2, <1>3, <2>0, <3>1, PrefixOfConcat
    <3> HIDE DEF j
    <3>3. q \in Seq(Cipher) /\ Len(q) = j
      <4>1. j \in 0..Len(d)
        BY <1>3, <3>1
      <4> QED
        BY <1>3, <4>1, PrefixIs
    <3>4. Value(q) = (part * t) \div b
      BY <1>3, <3>1
    <3> HIDE DEF q, t
    <3>5. Value(whole \o q) = (w * t) + ((part * t) \div b)
      <4>1. Value(whole \o q) = (Value(whole) * Ten[Len(q)]) + Value(q)
        BY <1>2, <3>3, ValueConcat
      <4> QED
        BY <1>2, <3>3, <3>4, <4>1 DEF t
    <3>6. part = r
      <4>1. Ten[z] = 1
        BY <1>7, <2>2, TenIs
      <4>2. r * 1 = r
        BY <1>1
      <4> QED
        BY <1>b, <4>1, <4>2
    <3>7. Up(j) = t /\ Up(-j) = 1 /\ t \in Nat \ {0}
      <4>1. j \in Int /\ -j \in Int /\ j >= 0 /\ -j <= 0
        BY <3>1
      <4> QED
        BY <4>1, UpIs DEF t
    <3>8. Floor(x, j) = (n * t) \div (b * 1)
      <4>1. j \in Int
        BY <3>1
      <4> QED
        BY <1>5, <3>7, <4>1
    <3>9. b * 1 = b
      BY <1>1
    <3>10. (((b * w) + r) * t) \div b = (w * t) + ((r * t) \div b)
      BY <1>1, <3>7, DivideSum
    <3>11. m - p = j
      BY <1>7, <2>2 DEF j
    <3> QED
      BY <1>1, <3>2, <3>5, <3>6, <3>8, <3>9, <3>10, <3>11
  <2>3. CASE whole = <<>>
    <3> DEFINE
          j == m + z
          q == SubSeq(d, 1, m)
    <3>1. whole \o d = d
      BY <1>3, <2>3
    <3>2. Value(q) = (part * Ten[m]) \div b
      BY <1>3
    <3>3. part * Ten[m] = r * Ten[m + z]
      <4>1. Ten[m + z] = Ten[m] * Ten[z] /\ Ten[m] \in Nat /\ Ten[z] \in Nat
        BY <1>6, <2>0, TenIs
      <4> DEFINE
            f == Ten[m]
            g == Ten[z]
      <4>2. f \in Nat /\ g \in Nat
        BY <4>1
      <4> HIDE DEF f, g
      <4>3. (r * g) * f = r * (f * g)
        BY <1>1, <4>2, Z3
      <4> QED
        BY <1>b, <4>1, <4>3 DEF f, g
    <3>4. n = r
      <4>1. b * 0 = 0 /\ w = 0
        BY <1>1, <1>7, <2>3
      <4> QED
        BY <1>1, <4>1
    <3>5. Floor(x, j) = (n * Ten[j]) \div (b * 1)
      <4>1. j \in Int /\ -j \in Int /\ j >= 0 /\ -j <= 0
        BY <1>6, <2>0
      <4> HIDE DEF j
      <4>2. Up(j) = Ten[j] /\ Up(-j) = 1
        BY <4>1, UpIs
      <4> QED
        BY <1>5, <4>1, <4>2
    <3>6. b * 1 = b /\ m - p = j
      BY <1>1, <1>6, <1>7, <2>0, <2>3
    <3> QED
      BY <3>1, <3>2, <3>3, <3>4, <3>5, <3>6
  <2> QED
    BY <2>1, <2>2, <2>3
<1>10. l + k >= k
  BY <1>2
<1> QED
  BY <1>4, <1>8, <1>9, <1>10 DEF p

(* The first digit is no zero, if the zeros of a number below one are       *)
(* skipped.                                                                 *)
LEMMA MadeStarts ==
  ASSUME NEW x \in Floats, NEW z, Skips(x, z), NEW k \in Nat, k > 0,
         Whole(x) > 0 \/ Rest(x) * Ten[z + 1] >= Two[x.bits]
  PROVE  Made(x, z, k)[1] # 0
<1> DEFINE
      whole == Decimal[Whole(x)]
      part == Rest(x) * Ten[z]
      d == DigitsAfter(part, x.bits, k)
<1>1. whole \in Seq(Cipher) /\ (whole # <<>> <=> Whole(x) > 0) /\ (whole # <<>> => whole[1] # 0)
  BY WholeDigits
<1>2. d \in Seq(Cipher) /\ Len(d) = k /\ (10 * part >= Two[x.bits] => d[1] # 0)
  BY RestDigits
<1>3. Made(x, z, k) = whole \o d
  BY DEF Made
<1>4. 10 * part = Rest(x) * Ten[z + 1]
  <2>1. z \in Nat /\ Rest(x) \in Nat
    BY PartsAre DEF Skips
  <2>2. Ten[z + 1] = 10 * Ten[z] /\ Ten[z] \in Nat
    BY <2>1, TenIs
  <2> QED
    BY <2>1, <2>2, Z3
<1> HIDE DEF whole, part, d
<1>5. CASE whole # <<>>
  <2>1. 1 \in 1..Len(whole)
    BY <1>1, <1>5
  <2>2. (whole \o d)[1] = whole[1]
    BY <1>1, <1>2, <2>1, ConcatIs
  <2> QED
    BY <1>1, <1>3, <1>5, <2>2
<1>6. CASE whole = <<>>
  <2>1. whole \o d = d
    BY <1>2, <1>6
  <2> QED
    BY <1>1, <1>2, <1>3, <1>4, <1>6, <2>1
<1> QED
  BY <1>5, <1>6

-----------------------------------------------------------------------------
(* Rounding the digits by the next one.                                     *)
LEMMA LastOther ==
  ASSUME NEW s \in Seq(Cipher), NEW c
  PROVE  \E k \in 0..Len(s) : (\A i \in (k + 1)..Len(s) : s[i] = c) /\ (k = 0 \/ s[k] # c)
<1> DEFINE
      l == Len(s)
      S == {k \in Nat : k <= l /\ \A i \in (k + 1)..l : s[i] = c}
<1>1. l \in Nat
  OBVIOUS
<1> HIDE DEF l
<1>2. l \in S
  BY <1>1
<1>3. PICK k \in S : \A j \in S : k <= j
  <2>1. S \in SUBSET Nat /\ S # {}
    BY <1>2
  <2> HIDE DEF S
  <2> QED
    BY <2>1, LeastNatural
<1>4. k = 0 \/ s[k] # c
  <2> SUFFICES ASSUME k # 0, s[k] = c PROVE FALSE
    OBVIOUS
  <2>1. k - 1 \in Nat /\ k - 1 <= l /\ ~(k <= k - 1)
    BY <1>1
  <2>2. \A i \in ((k - 1) + 1)..l : i = k \/ i \in (k + 1)..l
    BY <1>1
  <2>3. \A i \in ((k - 1) + 1)..l : s[i] = c
    BY <2>2
  <2>4. k - 1 \in S
    BY <2>1, <2>3
  <2> QED
    BY <1>3, <2>1, <2>4
<1>5. k \in 0..l /\ \A i \in (k + 1)..l : s[i] = c
  BY <1>1
<1> QED
  BY <1>4, <1>5 DEF l

LEMMA Nines ==
  ASSUME NEW s \in Seq(Cipher), \A i \in 1..Len(s) : s[i] = 9
  PROVE  Value(s) = Ten[Len(s)] - 1
<1> DEFINE
      AllNines(u) == \A i \in 1..Len(u) : u[i] = 9
      S == {n \in Nat : \A u \in Seq(Cipher) : Len(u) = n /\ AllNines(u) => Value(u) = Ten[n] - 1}
<1>1. 0 \in S
  <2> SUFFICES ASSUME NEW u \in Seq(Cipher), Len(u) = 0 PROVE Value(u) = Ten[0] - 1
    OBVIOUS
  <2>1. u = <<>>
    OBVIOUS
  <2> QED
    BY <2>1, TenIs, ValueIs
<1>2. ASSUME NEW n \in S PROVE n + 1 \in S
  <2> SUFFICES ASSUME NEW u \in Seq(Cipher), Len(u) = n + 1, AllNines(u)
               PROVE  Value(u) = Ten[n + 1] - 1
    OBVIOUS
  <2>1. u # <<>> /\ n \in Nat
    OBVIOUS
  <2>2. PICK f \in Seq(Cipher), c \in Cipher : u = Append(f, c) /\ Len(f) = Len(u) - 1
    BY <2>1, LastOff
  <2>3. Len(f) = n /\ c = u[n + 1] /\ \A i \in 1..Len(f) : f[i] = u[i] /\ i \in 1..Len(u)
    BY <2>1, <2>2
  <2>4. AllNines(f) /\ c = 9
    <3>1. n + 1 \in 1..Len(u)
      BY <2>1
    <3> QED
      BY <2>3, <3>1
  <2>5. Value(f) = Ten[n] - 1
    <3> HIDE DEF AllNines
    <3> QED
      BY <2>3, <2>4
  <2> HIDE DEF S
  <2>6. Value(u) = (10 * Value(f)) + c
    BY <2>2, ValueIs
  <2>7. Ten[n + 1] = 10 * Ten[n] /\ Ten[n] \in Nat
    BY <2>1, TenIs
  <2> QED
    BY <2>4, <2>5, <2>6, <2>7
<1>3. S = Nat
  <2>1. S \in SUBSET Nat
    OBVIOUS
  <2> HIDE DEF S
  <2> QED
    BY <1>1, <1>2, <2>1, NaturalInduction
<1>4. Len(s) \in S /\ AllNines(s)
  BY <1>3
<1> QED
  BY <1>4

(* One added to the last digit that is no nine.                             *)
Raised(s, k) == [SubSeq(s, 1, k) EXCEPT ![k] = @ + 1] \o Zeros(Len(s) - k)

LEMMA RaisedIs ==
  ASSUME NEW s \in Seq(Cipher), NEW k \in 1..Len(s), s[k] # 9,
         \A i \in (k + 1)..Len(s) : s[i] = 9
  PROVE  /\ Raised(s, k) \in Seq(Cipher) /\ Len(Raised(s, k)) = Len(s)
         /\ Value(Raised(s, k)) = Value(s) + 1
         /\ s[1] # 0 => Raised(s, k)[1] # 0
<1> DEFINE
      l == Len(s)
      j == k - 1
      h == SubSeq(s, 1, j)
      c == s[k]
      p == SubSeq(s, 1, k)
      q == SubSeq(s, k + 1, l)
      e == [p EXCEPT ![k] = @ + 1]
      z == Zeros(l - k)
      t == Ten[l - k]
<1>1. l \in Nat /\ k \in Nat /\ k \in 0..l /\ j \in 0..l /\ j < l /\ j + 1 = k /\ l - k \in Nat /\ k >= 1
  OBVIOUS
<1>2. c \in 0..8 /\ c + 1 \in Cipher /\ c \in Cipher
  BY DEF Cipher
<1>3. /\ p \in Seq(Cipher) /\ Len(p) = k /\ \A i \in 1..k : p[i] = s[i]
      /\ q \in Seq(Cipher) /\ Len(q) = l - k /\ \A i \in 1..(l - k) : q[i] = s[k + i]
      /\ s = p \o q
  <2> HIDE DEF j, h, c, e, z, t
  <2>1. k \in 0..Len(s)
    BY <1>1
  <2> QED
    BY <2>1, PrefixIs
<1>4. h \in Seq(Cipher) /\ Len(h) = j /\ p = Append(h, c)
  <2>1. j \in 0..Len(s) /\ j < Len(s)
    BY <1>1
  <2> HIDE DEF l
  <2>2. h \in Seq(Cipher) /\ Len(h) = j /\ SubSeq(s, 1, j + 1) = Append(h, s[j + 1])
    <3> HIDE DEF j
    <3> QED
      BY <2>1, PrefixIs
  <2> QED
    BY <1>1, <2>2
<1>5. e = Append(h, c + 1)
  <2> HIDE DEF l, j, h, c, p, q, z, t
  <2>1. Len(p) = k /\ p[k] = c /\ \A i \in 1..j : p[i] = h[i]
    BY <1>1, <1>4
  <2> DEFINE u == Append(h, c + 1)
  <2>2. u \in Seq(Cipher) /\ Len(u) = k /\ u[k] = c + 1 /\ \A i \in 1..j : u[i] = h[i]
    BY <1>1, <1>2, <1>4
  <2> HIDE DEF u
  <2>3. e \in Seq(Cipher) /\ Len(e) = k /\ e[k] = c + 1 /\ \A i \in 1..j : e[i] = p[i]
    BY <1>1, <1>2, <1>3, <2>1
  <2>4. \A i \in 1..Len(e) : i = k \/ i \in 1..j
    BY <1>1, <2>3
  <2> HIDE DEF e
  <2>5. \A i \in 1..Len(e) : e[i] = u[i]
    BY <2>1, <2>2, <2>3, <2>4
  <2>6. e = u
    BY <2>2, <2>3, <2>5, SameSequence
  <2> QED
    BY <2>6 DEF u
<1>6. z \in Seq(Cipher) /\ Len(z) = l - k /\ Value(z) = 0
  <2>1. l - k \in Int /\ (l - k > 0 \/ l - k = 0)
    BY <1>1
  <2> DEFINE n == l - k
  <2>2. n \in Int /\ (n > 0 \/ n = 0)
    BY <2>1
  <2> HIDE DEF n
  <2>3. Zeros(n) \in Seq(Cipher) /\ Len(Zeros(n)) = n /\ Value(Zeros(n)) = 0
    BY <2>2, ZerosAre
  <2> QED
    BY <2>3 DEF n
<1>7. t \in Nat
  BY <1>1, TenIs
<1>8. Value(q) = t - 1
  <2>1. \A i \in 1..(l - k) : k + i \in (k + 1)..l
    BY <1>1
  <2>2. \A i \in 1..Len(q) : q[i] = 9
    <3> HIDE DEF q, p, h, c, e, z, t
    <3> QED
      BY <1>3, <2>1
  <2> HIDE DEF q
  <2>3. Value(q) = Ten[Len(q)] - 1
    BY <1>3, <2>2, Nines
  <2> QED
    BY <1>3, <2>3
<1> DEFINE r == e \o z
<1>9. Raised(s, k) = r
  BY DEF Raised
<1> HIDE DEF l, j, h, c, p, q, e, z, t
<1>10. e \in Seq(Cipher) /\ Len(e) = k /\ Value(e) = (10 * Value(h)) + (c + 1)
  <2>1. e \in Seq(Cipher) /\ Len(e) = j + 1
    BY <1>2, <1>4, <1>5
  <2>2. Value(Append(h, c + 1)) = (10 * Value(h)) + (c + 1)
    BY <1>2, <1>4, ValueIs
  <2> QED
    BY <1>1, <1>5, <2>1, <2>2
<1>11. r \in Seq(Cipher) /\ Len(r) = l /\ \A i \in 1..k : r[i] = e[i]
  <2>1. r \in Seq(Cipher) /\ Len(r) = Len(e) + Len(z) /\ \A i \in 1..Len(e) : r[i] = e[i]
    <3>1. e \in Seq(Cipher) /\ z \in Seq(Cipher)
      BY <1>6, <1>10
    <3> QED
      BY <3>1, ConcatIs
  <2> HIDE DEF r
  <2> QED
    BY <1>1, <1>6, <1>10, <2>1
<1>12. Value(r) = Value(s) + 1
  <2>1. Value(r) = (Value(e) * t) + 0
    <3>1. Value(r) = (Value(e) * Ten[Len(z)]) + Value(z)
      BY <1>6, <1>10, ValueConcat
    <3> HIDE DEF r
    <3> QED
      BY <1>6, <3>1 DEF t
  <2>2. Value(s) = (Value(p) * t) + (t - 1)
    <3>1. Value(p \o q) = (Value(p) * Ten[Len(q)]) + Value(q)
      BY <1>3, ValueConcat
    <3> QED
      BY <1>3, <1>8, <3>1 DEF t
  <2>3. Value(p) = (10 * Value(h)) + c
    BY <1>2, <1>4, ValueIs
  <2>4. Value(h) \in Nat
    BY <1>4, ValueIs
  <2> DEFINE v == (10 * Value(h)) + c
  <2>5. v \in Nat /\ Value(e) = v + 1 /\ Value(p) = v
    BY <1>2, <1>10, <2>3, <2>4
  <2> HIDE DEF v, r
  <2>6. (v + 1) * t = (v * t) + t /\ v * t \in Nat
    BY <1>7, <2>5, Z3
  <2> QED
    BY <1>7, <2>1, <2>2, <2>5, <2>6
<1>13. ASSUME s[1] # 0 PROVE r[1] # 0
  <2>1. 1 \in 1..k
    BY <1>1
  <2>2. r[1] = e[1] /\ p[1] = s[1]
    BY <1>3, <1>11, <2>1
  <2>3. CASE k = 1
    <3>1. e[1] = c + 1
      BY <1>1, <1>4, <1>5, <2>3
    <3> QED
      BY <1>2, <2>2, <3>1
  <2>4. CASE k # 1
    <3>1. 1 \in 1..j
      BY <1>1, <2>4
    <3>2. e[1] = h[1] /\ p[1] = h[1]
      BY <1>1, <1>4, <1>5, <3>1
    <3> QED
      BY <1>13, <2>2, <3>2
  <2> QED
    BY <2>3, <2>4
<1> QED
  BY <1>9, <1>11, <1>12, <1>13 DEF l

LEMMA OneAndZeros ==
  ASSUME NEW n \in Nat
  PROVE  /\ <<1>> \o Zeros(n) \in Seq(Cipher) /\ Len(<<1>> \o Zeros(n)) = n + 1
         /\ (<<1>> \o Zeros(n))[1] = 1 /\ Value(<<1>> \o Zeros(n)) = Ten[n]
<1> DEFINE z == Zeros(n)
<1>1. z \in Seq(Cipher) /\ Len(z) = n /\ Value(z) = 0
  <2>1. n \in Int /\ (n > 0 \/ n = 0)
    OBVIOUS
  <2> QED
    BY <2>1, ZerosAre
<1> HIDE DEF z
<1>2. <<1>> \in Seq(Cipher) /\ <<1>> = Append(<<>>, 1) /\ 1 \in Cipher /\ <<>> \in Seq(Cipher)
  BY DEF Cipher
<1>3. Value(<<1>>) = 1
  <2>1. Value(Append(<<>>, 1)) = (10 * Value(<<>>)) + 1
    BY <1>2, ValueIs
  <2> QED
    BY <1>2, <2>1, ValueIs
<1>4. Value(<<1>> \o z) = (Value(<<1>>) * Ten[Len(z)]) + Value(z)
  BY <1>1, <1>2, ValueConcat
<1>5. Ten[n] \in Nat
  BY TenIs
<1>6. Value(<<1>> \o z) = Ten[n]
  BY <1>1, <1>3, <1>4, <1>5
<1>7. <<1>> \o z \in Seq(Cipher) /\ Len(<<1>> \o z) = n + 1 /\ (<<1>> \o z)[1] = 1
  BY <1>1, <1>2
<1> QED
  BY <1>6, <1>7 DEF z

(* What rounding makes of the digits.  A carry out of the first digit moves *)
(* the point.                                                               *)
Kept(r, digits, next, point) ==
    /\ r.point = point /\ Len(r.digits) = Len(digits)
    /\ Value(r.digits) = Value(digits) + (IF next < 5 THEN 0 ELSE 1)
    /\ digits[1] # 0 => r.digits[1] # 0

Carried(r, digits, next, point, eflag) ==
    /\ next >= 5 /\ Value(digits) = Ten[Len(digits)] - 1 /\ r.point = point + 1
    /\ Len(r.digits) = IF eflag THEN Len(digits) ELSE Len(digits) + 1
    /\ r.digits[1] = 1 /\ Value(r.digits) = Ten[Len(r.digits) - 1]

LEMMA RoundedDigits ==
  ASSUME NEW s \in Seq(Cipher), s # <<>>, NEW next \in Cipher, NEW point \in Int,
         NEW eflag \in BOOLEAN
  PROVE  /\ Rounded(s, next, point, eflag).digits \in Seq(Cipher)
         /\ \/ Kept(Rounded(s, next, point, eflag), s, next, point)
            \/ Carried(Rounded(s, next, point, eflag), s, next, point, eflag)
<1> DEFINE
      l == Len(s)
      Last(k) == (\A i \in (k + 1)..l : s[i] = 9) /\ (k = 0 \/ s[k] # 9)
      place == CHOOSE k \in 0..l : Last(k)
      r == Rounded(s, next, point, eflag)
<1>1. next \in Int /\ l \in Nat /\ l >= 1 /\ Value(s) \in Nat
  BY ValueIs DEF Cipher
<1>2. r = IF next < 5 THEN [digits |-> s, point |-> point]
          ELSE IF place = 0
          THEN [digits |-> <<1>> \o Zeros(IF eflag THEN l - 1 ELSE l), point |-> point + 1]
          ELSE [digits |-> Raised(s, place), point |-> point]
  BY DEF Rounded, CarriedPoint, Raised
<1>3. place \in 0..l /\ Last(place)
  <2>1. \E k \in 0..l : Last(k)
    BY LastOther
  <2> HIDE DEF Last
  <2> QED
    BY <2>1
<1>4. /\ \A i \in (place + 1)..l : s[i] = 9
      /\ place = 0 \/ s[place] # 9
  BY <1>3
<1> HIDE DEF place, Last, r
<1>5. CASE next < 5
  <2>1. r.digits = s /\ r.point = point
    BY <1>2, <1>5
  <2>2. Value(s) = Value(s) + 0
    BY <1>1
  <2>3. Kept(r, s, next, point)
    BY <1>5, <2>1, <2>2 DEF Kept
  <2> QED
    BY <2>1, <2>3 DEF r
<1>6. CASE ~(next < 5) /\ place = 0
  <2> DEFINE
        n == IF eflag THEN l - 1 ELSE l
        d == <<1>> \o Zeros(n)
  <2>1. n \in Nat /\ (eflag => n + 1 = l) /\ (~eflag => n = l)
    BY <1>1
  <2>2. r.digits = d /\ r.point = point + 1
    BY <1>2, <1>6
  <2> HIDE DEF n
  <2>3. d \in Seq(Cipher) /\ Len(d) = n + 1 /\ d[1] = 1 /\ Value(d) = Ten[n]
    BY <2>1, OneAndZeros
  <2> HIDE DEF d
  <2>4. Value(s) = Ten[l] - 1
    <3>1. \A i \in 1..Len(s) : s[i] = 9
      BY <1>4, <1>6
    <3> QED
      BY <3>1, Nines
  <2>5. Len(d) = IF eflag THEN l ELSE l + 1
    BY <2>1, <2>3
  <2>6. (n + 1) - 1 = n /\ next >= 5
    BY <1>1, <1>6, <2>1
  <2>7. Value(d) = Ten[Len(d) - 1]
    BY <2>3, <2>6
  <2>8. Carried(r, s, next, point, eflag)
    BY <2>2, <2>3, <2>4, <2>5, <2>6, <2>7 DEF Carried
  <2> QED
    BY <2>2, <2>3, <2>8 DEF r
<1>7. CASE ~(next < 5) /\ place # 0
  <2> DEFINE d == Raised(s, place)
  <2>1. r.digits = d /\ r.point = point
    BY <1>2, <1>7
  <2>2. d \in Seq(Cipher) /\ Len(d) = Len(s) /\ Value(d) = Value(s) + 1 /\ (s[1] # 0 => d[1] # 0)
    <3>1. place \in 1..Len(s) /\ s[place] # 9
      BY <1>3, <1>4, <1>7
    <3> QED
      BY <1>4, <3>1, RaisedIs
  <2> HIDE DEF d
  <2>3. Kept(r, s, next, point)
    BY <1>7, <2>1, <2>2 DEF Kept
  <2> QED
    BY <2>1, <2>2, <2>3 DEF r
<1> QED
  BY <1>5, <1>6, <1>7 DEF r

(* The n digits of a number and the next.                                   *)
LEMMA NextMade ==
  ASSUME NEW x \in Floats, NEW z, Skips(x, z), NEW n \in Nat, n > 0
  PROVE  LET s == SubSeq(Made(x, z, n), 1, n)
             next == Made(x, z, n + 1)[n + 1]
         IN /\ s \in Seq(Cipher) /\ Len(s) = n /\ s # <<>> /\ next \in Cipher
            /\ s[1] = Made(x, z, n)[1]
            /\ Value(s) = Floor(x, n - PointOf(x, z))
            /\ Floor(x, (n - PointOf(x, z)) + 1) = (10 * Value(s)) + next
<1> DEFINE
      p == PointOf(x, z)
      a == Made(x, z, n)
      b == Made(x, z, n + 1)
      s == SubSeq(a, 1, n)
      t == SubSeq(b, 1, n)
      u == SubSeq(b, 1, n + 1)
      next == b[n + 1]
<1>1. p \in Int
  BY PointIs
<1>2. a \in Seq(Cipher) /\ Len(a) >= n /\ Value(s) = Floor(x, n - p)
  <2>1. n \in 0..n
    OBVIOUS
  <2> QED
    BY <2>1, MadeIs
<1>3. b \in Seq(Cipher) /\ Len(b) >= n + 1 /\ Value(t) = Floor(x, n - p) /\ Value(u) = Floor(x, (n + 1) - p)
  <2>1. n \in 0..(n + 1) /\ n + 1 \in 0..(n + 1) /\ n + 1 \in Nat
    OBVIOUS
  <2> DEFINE m == n + 1
  <2>2. n \in 0..m /\ m \in 0..m /\ m \in Nat
    BY <2>1
  <2> HIDE DEF m
  <2>3. LET c == Made(x, z, m)
        IN c \in Seq(Cipher) /\ Len(c) >= m /\ \A i \in 0..m : Value(SubSeq(c, 1, i)) = Floor(x, i - p)
    BY <2>2, MadeIs
  <2> QED
    BY <2>2, <2>3 DEF m
<1> HIDE DEF a, b, p
<1>4. s \in Seq(Cipher) /\ Len(s) = n /\ \A i \in 1..n : s[i] = a[i]
  <2>1. n \in 0..Len(a)
    BY <1>2
  <2> QED
    BY <1>2, <2>1, PrefixIs
<1>5. next \in Cipher
  <2>1. n + 1 \in 1..Len(b)
    BY <1>3
  <2> QED
    BY <1>3, <2>1
<1>6. Value(u) = (10 * Value(t)) + next
  <2>1. n \in 0..Len(b) /\ n < Len(b)
    BY <1>3
  <2> QED
    BY <1>3, <2>1, ValuePrefix
<1> HIDE DEF s, t, u, next
<1>7. s # <<>> /\ s[1] = a[1] /\ (n + 1) - p = (n - p) + 1
  BY <1>1, <1>4
<1> QED
  BY <1>2, <1>3, <1>4, <1>5, <1>6, <1>7 DEF s, next, a, b, p

LEMMA SkippedIs ==
  ASSUME NEW x \in Floats, NEW f \in BOOLEAN
  PROVE  LET z == IF Decimal[Whole(x)] # <<>> \/ f THEN 0 ELSE LeadingZeros(x)
         IN /\ Skips(x, z)
            /\ ~f => x.num = 0 \/ Whole(x) > 0 \/ Rest(x) * Ten[z + 1] >= Two[x.bits]
<1> DEFINE
      c == Decimal[Whole(x)] # <<>> \/ f
      z == IF c THEN 0 ELSE LeadingZeros(x)
      b == Two[x.bits]
      r == Rest(x)
      w == Whole(x)
<1>1. /\ b \in Nat \ {0} /\ r \in Nat /\ r < b /\ w \in Nat
      /\ Magnitude(x.num) = (b * w) + r
  BY PartsAre
<1>2. (Decimal[w] # <<>>) <=> w > 0
  BY WholeDigits
<1>3. /\ LeadingZeros(x) \in Nat /\ r * Ten[LeadingZeros(x)] < b
      /\ r # 0 => r * Ten[LeadingZeros(x) + 1] >= b
  BY LeadingZerosAre
<1>4. x.num \in Int /\ (Magnitude(x.num) = 0 => x.num = 0)
  BY DEF Floats, Magnitude
<1>5. Skips(x, z) <=> z \in Nat /\ r * Ten[z] < b /\ (w = 0 \/ z = 0)
  BY DEF Skips
<1> HIDE DEF b, r, w
<1>6. CASE c
  <2>1. z = 0 /\ r * Ten[0] < b
    <3>1. r * Ten[0] = r
      BY <1>1, TenIs
    <3> QED
      BY <1>1, <1>6, <3>1
  <2>2. ~f => w > 0
    BY <1>2, <1>6 DEF w
  <2> HIDE DEF z
  <2>3. Skips(x, z)
    BY <1>5, <2>1
  <2> QED
    BY <2>2, <2>3 DEF z, w
<1>7. CASE ~c
  <2>1. z = LeadingZeros(x) /\ w = 0
    BY <1>1, <1>2, <1>7 DEF w
  <2>2. r = 0 => x.num = 0
    <3>1. b * 0 = 0
      BY <1>1
    <3> QED
      BY <1>1, <1>4, <2>1, <3>1
  <2> HIDE DEF z
  <2>3. Skips(x, z)
    BY <1>3, <1>5, <2>1
  <2>4. x.num = 0 \/ r * Ten[z + 1] >= b
    BY <1>3, <2>1, <2>2
  <2> QED
    BY <2>3, <2>4 DEF z, r, b
<1> QED
  BY <1>6, <1>7

LEMMA CappedIs ==
  ASSUME NEW n \in Nat
  PROVE  /\ Capped(n) \in Nat /\ Capped(n) <= n /\ Capped(n) + 1 < Ndig /\ Ndig \in Nat
         /\ n > 0 => Capped(n) > 0
         /\ n > 1 => Capped(n) > 1
         /\ Capped(Capped(n)) = Capped(n)
BY TextAssumption DEF Capped

LEMMA CvtIs ==
  ASSUME NEW x \in Floats, NEW ndigits \in Nat, NEW eflag \in BOOLEAN
  PROVE  LET n == Capped(ndigits)
             z == IF Decimal[Whole(x)] # <<>> \/ (~eflag /\ n > 0) THEN 0 ELSE LeadingZeros(x)
             point == PointOf(x, z)
             rounding == IF eflag THEN n ELSE n + point
         IN pcc_cvt(x, ndigits, eflag) =
            IF rounding < 0 THEN [digits |-> <<>>, point |-> point]
            ELSE IF rounding >= Ndig
            THEN [digits |-> SubSeq(Made(x, z, Ndig), 1, Ndig - 1), point |-> point]
            ELSE Rounded(SubSeq(Made(x, z, rounding), 1, rounding),
                         Made(x, z, rounding + 1)[rounding + 1], point, eflag)
BY DEF pcc_cvt, Made, PointOf

-----------------------------------------------------------------------------
(* The digits of pcc_cvt, as the e and the f format ask for them.           *)
LEMMA TenthsAre ==
  ASSUME NEW v \in Nat, NEW c \in 0..9
  PROVE  (((10 * v) + c) + 5) \div 10 = v + (IF c < 5 THEN 0 ELSE 1)
OBVIOUS

LEMMA ZeroStays ==
  ASSUME NEW x \in Floats, x.num = 0, NEW s \in Int
  PROVE  Floor(x, s) = 0 /\ RoundedTo(x, s) = 0
<1>1. ASSUME NEW i \in Int PROVE Floor(x, i) = 0
  <2> DEFINE
        u == Up(i)
        d == Two[x.bits] * Up(-i)
  <2>1. u \in Nat /\ d \in Nat \ {0}
    <3>1. -i \in Int
      OBVIOUS
    <3>2. u \in Nat /\ Up(-i) \in Nat \ {0} /\ Two[x.bits] \in Nat \ {0}
      BY <3>1, UpIs, PartsAre
    <3> QED
      BY <3>2, Z3
  <2>2. Magnitude(x.num) = 0
    BY DEF Magnitude
  <2>3. Floor(x, i) = (0 * u) \div d
    BY <2>2 DEF Floor
  <2> HIDE DEF u, d
  <2>4. 0 * u = 0
    BY <2>1
  <2>5. 0 \div d = 0
    <3>1. 0 \div d \in Nat /\ 0 \div d <= 0
      BY <2>1, DivisionOfNats
    <3> QED
      BY <3>1
  <2> QED
    BY <2>3, <2>4, <2>5
<1>2. s + 1 \in Int
  OBVIOUS
<1>3. RoundedTo(x, s) = (Floor(x, s + 1) + 5) \div 10
  BY RoundedIs
<1> QED
  BY <1>1, <1>2, <1>3

LEMMA CvtE ==
  ASSUME NEW x \in Floats, NEW ndigits \in Nat, ndigits > 0
  PROVE  LET m == pcc_cvt(x, ndigits, TRUE)
             n == Capped(ndigits)
         IN /\ m.digits \in Seq(Cipher) /\ Len(m.digits) = n /\ n > 0 /\ m.point \in Int
            /\ Value(m.digits) = RoundedTo(x, n - m.point)
            /\ x.num # 0 => m.digits[1] # 0
            /\ x.num = 0 => Value(m.digits) = 0
<1> DEFINE
      n == Capped(ndigits)
      z == IF Decimal[Whole(x)] # <<>> \/ FALSE THEN 0 ELSE LeadingZeros(x)
      p == PointOf(x, z)
      m == pcc_cvt(x, ndigits, TRUE)
      s == SubSeq(Made(x, z, n), 1, n)
      next == Made(x, z, n + 1)[n + 1]
<1>1. n \in Nat /\ n > 0 /\ n < Ndig /\ Ndig \in Nat /\ ~(n < 0) /\ ~(n >= Ndig)
  <2>1. n \in Nat /\ n > 0 /\ n + 1 < Ndig /\ Ndig \in Nat
    BY CappedIs
  <2> HIDE DEF n
  <2> QED
    BY <2>1
<1>2. m = Rounded(s, next, p, TRUE)
  <2> DEFINE y == IF Decimal[Whole(x)] # <<>> \/ (~TRUE /\ n > 0) THEN 0 ELSE LeadingZeros(x)
  <2>1. m = LET point == PointOf(x, y)
                rounding == IF TRUE THEN n ELSE n + point
            IN IF rounding < 0 THEN [digits |-> <<>>, point |-> point]
               ELSE IF rounding >= Ndig
               THEN [digits |-> SubSeq(Made(x, y, Ndig), 1, Ndig - 1), point |-> point]
               ELSE Rounded(SubSeq(Made(x, y, rounding), 1, rounding),
                            Made(x, y, rounding + 1)[rounding + 1], point, TRUE)
    <3> HIDE DEF m
    <3>1. TRUE \in BOOLEAN
      OBVIOUS
    <3> QED
      BY <3>1, CvtIs DEF m
  <2>2. y = z
    OBVIOUS
  <2> HIDE DEF n, y, z, m
  <2>3. m = IF n < 0 THEN [digits |-> <<>>, point |-> p]
            ELSE IF n >= Ndig
            THEN [digits |-> SubSeq(Made(x, z, Ndig), 1, Ndig - 1), point |-> p]
            ELSE Rounded(SubSeq(Made(x, z, n), 1, n), Made(x, z, n + 1)[n + 1], p, TRUE)
    BY <2>1, <2>2
  <2> QED
    BY <1>1, <2>3
<1>3. /\ Skips(x, z)
      /\ x.num = 0 \/ Whole(x) > 0 \/ Rest(x) * Ten[z + 1] >= Two[x.bits]
  <2>1. FALSE \in BOOLEAN
    OBVIOUS
  <2> QED
    BY <2>1, SkippedIs
<1> HIDE DEF z, n, m
<1>4. /\ s \in Seq(Cipher) /\ Len(s) = n /\ s # <<>> /\ next \in Cipher
      /\ s[1] = Made(x, z, n)[1]
      /\ Value(s) = Floor(x, n - p)
      /\ Floor(x, (n - p) + 1) = (10 * Value(s)) + next
  BY <1>1, <1>3, NextMade
<1>5. p \in Int
  BY <1>3, PointIs
<1>6. x.num # 0 => s[1] # 0
  BY <1>1, <1>3, <1>4, MadeStarts
<1> HIDE DEF s, next, p
<1>7. /\ m.digits \in Seq(Cipher)
      /\ Kept(m, s, next, p) \/ Carried(m, s, next, p, TRUE)
  <2>1. TRUE \in BOOLEAN
    OBVIOUS
  <2> QED
    BY <1>2, <1>4, <1>5, <2>1, RoundedDigits
<1>8. Value(s) \in Nat /\ next \in 0..9
  BY <1>4, ValueIs DEF Cipher
<1>9. n - p \in Int
  BY <1>1, <1>5
<1>10. RoundedTo(x, n - p) = Value(s) + (IF next < 5 THEN 0 ELSE 1)
  <2>1. RoundedTo(x, n - p) = (((10 * Value(s)) + next) + 5) \div 10
    <3> DEFINE i == n - p
    <3>1. i \in Int
      BY <1>9
    <3> HIDE DEF i
    <3>2. RoundedTo(x, i) = (Floor(x, i + 1) + 5) \div 10
      BY <3>1, RoundedIs
    <3> QED
      BY <1>4, <3>2 DEF i
  <2> QED
    BY <1>8, <2>1, TenthsAre
<1>11. CASE Kept(m, s, next, p)
  <2>1. /\ m.point = p /\ Len(m.digits) = n
        /\ Value(m.digits) = Value(s) + (IF next < 5 THEN 0 ELSE 1)
        /\ s[1] # 0 => m.digits[1] # 0
    BY <1>4, <1>11 DEF Kept
  <2>2. Value(m.digits) = RoundedTo(x, n - m.point)
    BY <1>10, <2>1
  <2>3. x.num # 0 => m.digits[1] # 0
    BY <1>6, <2>1
  <2>4. x.num = 0 => Value(m.digits) = 0
    BY <1>9, <1>10, <2>1, ZeroStays
  <2> QED
    BY <1>1, <1>5, <1>7, <2>1, <2>2, <2>3, <2>4 DEF n, m
<1>12. CASE Carried(m, s, next, p, TRUE)
  <2>1. /\ next >= 5 /\ Value(s) = Ten[n] - 1 /\ m.point = p + 1 /\ Len(m.digits) = n
        /\ m.digits[1] = 1 /\ Value(m.digits) = Ten[n - 1]
    BY <1>4, <1>12 DEF Carried
  <2> DEFINE i == n - m.point
  <2>2. i \in Int /\ i + 1 = n - p
    BY <1>1, <1>5, <2>1
  <2> HIDE DEF i
  <2>3. RoundedTo(x, i) = (Value(s) + 5) \div 10
    <3>1. RoundedTo(x, i) = (Floor(x, i + 1) + 5) \div 10
      BY <2>2, RoundedIs
    <3> QED
      BY <1>4, <2>2, <3>1
  <2>4. n - 1 \in Nat /\ (n - 1) + 1 = n
    BY <1>1
  <2>5. Ten[n] = 10 * Ten[n - 1] /\ Ten[n - 1] \in Nat \ {0}
    BY <2>4, TenIs
  <2>6. (Value(s) + 5) \div 10 = Ten[n - 1]
    <3> DEFINE t == Ten[n - 1]
    <3>1. t \in Nat /\ Value(s) + 5 = (10 * t) + 4
      BY <2>1, <2>5
    <3> HIDE DEF t
    <3>2. ((10 * t) + 4) \div 10 = t
      BY <3>1
    <3> QED
      BY <3>1, <3>2 DEF t
  <2>7. Value(m.digits) = RoundedTo(x, i)
    BY <2>1, <2>3, <2>6
  <2>8. Value(m.digits) = RoundedTo(x, n - m.point)
    BY <2>7 DEF i
  <2>9. m.point \in Int /\ m.digits[1] # 0
    BY <1>5, <2>1
  <2>10. ASSUME x.num = 0 PROVE FALSE
    <3>1. Floor(x, n - p) = 0
      BY <1>9, <2>10, ZeroStays
    <3>2. Value(s) = 0 /\ Ten[n] >= 10
      BY <1>4, <2>5, <3>1
    <3> QED
      BY <2>1, <3>2
  <2> QED
    BY <1>1, <1>7, <2>1, <2>8, <2>9, <2>10 DEF n, m
<1> QED
  BY <1>7, <1>11, <1>12

LEMMA ShortWhole ==
  ASSUME NEW x \in Floats, NEW k \in Nat, Whole(x) < Ten[k]
  PROVE  Len(Decimal[Whole(x)]) \in Nat /\ Len(Decimal[Whole(x)]) <= k
<1> DEFINE
      d == Decimal[Whole(x)]
      l == Len(d)
<1>1. d \in Seq(Cipher) /\ Value(d) = Whole(x) /\ (d # <<>> => d[1] # 0) /\ l \in Nat
  BY WholeDigits
<1> HIDE DEF d
<1>2. ASSUME l > k PROVE FALSE
  <2>1. d # <<>> /\ l - 1 \in Nat /\ k <= l - 1
    BY <1>1, <1>2
  <2>2. Value(d) >= Ten[l - 1]
    BY <1>1, <2>1, ValueBounds
  <2>3. Ten[k] <= Ten[l - 1] /\ Ten[k] \in Nat /\ Ten[l - 1] \in Nat
    BY <2>1, TenGrows, TenIs
  <2>4. Whole(x) \in Nat
    BY PartsAre
  <2> QED
    BY <1>1, <2>2, <2>3, <2>4
<1> QED
  BY <1>1, <1>2 DEF d

LEMMA CvtF ==
  ASSUME NEW x \in Floats, NEW ndigits \in Nat, ndigits > 0, Whole(x) < Ten[Ndig - 1]
  PROVE  LET m == pcc_cvt(x, ndigits, FALSE)
             n == Capped(ndigits)
             l == Len(Decimal[Whole(x)])
         IN /\ m.digits \in Seq(Cipher) /\ m.point \in Nat /\ Len(m.digits) >= m.point /\ n > 0
            /\ n + l < Ndig =>
                  Len(m.digits) - m.point = n /\ Value(m.digits) = RoundedTo(x, n)
            /\ ~(n + l < Ndig) =>
                  /\ Len(m.digits) - m.point = (Ndig - 1) - l
                  /\ Value(m.digits) = Floor(x, (Ndig - 1) - l)
<1> DEFINE
      n == Capped(ndigits)
      p == PointOf(x, 0)
      m == pcc_cvt(x, ndigits, FALSE)
      l == Len(Decimal[Whole(x)])
      k == n + p
      s == SubSeq(Made(x, 0, k), 1, k)
      next == Made(x, 0, k + 1)[k + 1]
<1>1. n \in Nat /\ n > 0 /\ n + 1 < Ndig /\ Ndig \in Nat
  BY CappedIs
<1>2. Skips(x, 0)
  <2> DEFINE z == IF Decimal[Whole(x)] # <<>> \/ TRUE THEN 0 ELSE LeadingZeros(x)
  <2>1. TRUE \in BOOLEAN
    OBVIOUS
  <2>2. Skips(x, z)
    BY <2>1, SkippedIs
  <2>3. z = 0
    OBVIOUS
  <2> HIDE DEF z
  <2> QED
    BY <2>2, <2>3
<1>3. l \in Nat /\ l <= Ndig - 1 /\ p = l
  <2>1. Ndig - 1 \in Nat
    BY <1>1
  <2>2. l \in Nat /\ l <= Ndig - 1
    BY <2>1, ShortWhole
  <2>3. Decimal[Whole(x)] = <<>> => l = 0 /\ p = 0
    <3>1. PICK i \in Nat : i = 0
      OBVIOUS
    <3>2. (-i) + i = 0 /\ -i \in Int
      OBVIOUS
    <3> DEFINE j == -i
    <3>3. j \in Int /\ j + i = 0
      BY <3>2
    <3>4. p = IF Decimal[Whole(x)] # <<>> THEN l ELSE j
      BY <3>1 DEF PointOf
    <3> HIDE DEF j
    <3>5. j = 0
      BY <3>1, <3>3
    <3>6. Decimal[Whole(x)] = <<>> => l = 0
      OBVIOUS
    <3> QED
      BY <3>4, <3>5, <3>6
  <2>4. Decimal[Whole(x)] # <<>> => p = l
    BY DEF PointOf
  <2> QED
    BY <2>2, <2>3, <2>4
<1>4. m = IF k < 0 THEN [digits |-> <<>>, point |-> p]
          ELSE IF k >= Ndig
          THEN [digits |-> SubSeq(Made(x, 0, Ndig), 1, Ndig - 1), point |-> p]
          ELSE Rounded(s, next, p, FALSE)
  <2> DEFINE y == IF Decimal[Whole(x)] # <<>> \/ (~FALSE /\ n > 0) THEN 0 ELSE LeadingZeros(x)
  <2>1. m = LET point == PointOf(x, y)
                rounding == IF FALSE THEN n ELSE n + point
            IN IF rounding < 0 THEN [digits |-> <<>>, point |-> point]
               ELSE IF rounding >= Ndig
               THEN [digits |-> SubSeq(Made(x, y, Ndig), 1, Ndig - 1), point |-> point]
               ELSE Rounded(SubSeq(Made(x, y, rounding), 1, rounding),
                            Made(x, y, rounding + 1)[rounding + 1], point, FALSE)
    <3> HIDE DEF m
    <3>1. FALSE \in BOOLEAN
      OBVIOUS
    <3> QED
      BY <3>1, CvtIs DEF m
  <2>2. y = 0
    BY <1>1
  <2> HIDE DEF n, y, m
  <2> QED
    BY <2>1, <2>2
<1> HIDE DEF n, m, l, p
<1>5. k \in Nat /\ k > 0
  BY <1>1, <1>3
<1>6. CASE k < Ndig
  <2>0. ~(k < 0) /\ ~(k >= Ndig) /\ n + l < Ndig
    BY <1>1, <1>3, <1>5, <1>6
  <2>1. m = Rounded(s, next, p, FALSE) /\ n + l < Ndig
    <3> HIDE DEF k, s, next
    <3> QED
      BY <1>4, <2>0
  <2>2. /\ s \in Seq(Cipher) /\ Len(s) = k /\ s # <<>> /\ next \in Cipher
        /\ Value(s) = Floor(x, k - p)
        /\ Floor(x, (k - p) + 1) = (10 * Value(s)) + next
    <3> HIDE DEF k
    <3> QED
      BY <1>2, <1>5, NextMade DEF p
  <2>3. k - p = n /\ p \in Int
    BY <1>1, <1>3
  <2> HIDE DEF k, s, next
  <2>4. /\ m.digits \in Seq(Cipher)
        /\ Kept(m, s, next, p) \/ Carried(m, s, next, p, FALSE)
    <3>1. FALSE \in BOOLEAN
      OBVIOUS
    <3> QED
      BY <2>1, <2>2, <2>3, <3>1, RoundedDigits
  <2>5. Value(s) \in Nat /\ next \in 0..9
    BY <2>2, ValueIs DEF Cipher
  <2>6. RoundedTo(x, n) = Value(s) + (IF next < 5 THEN 0 ELSE 1)
    <3>1. n \in Int
      BY <1>1
    <3>2. RoundedTo(x, n) = (((10 * Value(s)) + next) + 5) \div 10
      <4>1. RoundedTo(x, n) = (Floor(x, n + 1) + 5) \div 10
        BY <3>1, RoundedIs
      <4> QED
        BY <2>2, <2>3, <4>1
    <3> QED
      BY <2>5, <3>2, TenthsAre
  <2>7. CASE Kept(m, s, next, p)
    <3>1. /\ m.point = p /\ Len(m.digits) = k
          /\ Value(m.digits) = Value(s) + (IF next < 5 THEN 0 ELSE 1)
      BY <2>2, <2>7 DEF Kept
    <3>2. m.point \in Nat /\ Len(m.digits) >= m.point /\ Len(m.digits) - m.point = n
      BY <1>1, <1>3, <1>5, <2>3, <3>1
    <3> QED
      BY <1>1, <2>1, <2>4, <2>6, <3>1, <3>2 DEF n, m, l
  <2>8. CASE Carried(m, s, next, p, FALSE)
    <3>1. /\ next >= 5 /\ Value(s) = Ten[k] - 1 /\ m.point = p + 1 /\ Len(m.digits) = k + 1
          /\ Value(m.digits) = Ten[Len(m.digits) - 1]
      BY <2>2, <2>8 DEF Carried
    <3>2. (k + 1) - 1 = k /\ Ten[k] \in Nat
      <4>1. k \in Nat /\ (k + 1) - 1 = k
        BY <1>5
      <4> QED
        BY <4>1, TenIs
    <3>3. Value(m.digits) = Value(s) + 1
      BY <3>1, <3>2
    <3>4. ~(next < 5)
      BY <2>5, <3>1
    <3>5. Value(m.digits) = RoundedTo(x, n)
      BY <2>6, <3>3, <3>4
    <3>6. m.point \in Nat /\ Len(m.digits) >= m.point /\ Len(m.digits) - m.point = n
      BY <1>1, <1>3, <1>5, <2>3, <3>1
    <3> QED
      BY <1>1, <2>1, <2>4, <3>5, <3>6 DEF n, m, l
  <2> QED
    BY <2>4, <2>7, <2>8
<1>7. CASE ~(k < Ndig)
  <2> DEFINE
        a == Made(x, 0, Ndig)
        j == Ndig - 1
        d == SubSeq(a, 1, j)
  <2>0. ~(k < 0) /\ k >= Ndig /\ ~(n + l < Ndig)
    BY <1>1, <1>3, <1>5, <1>7
  <2>1. m = [digits |-> d, point |-> p] /\ ~(n + l < Ndig)
    <3> HIDE DEF k, s, next
    <3> QED
      BY <1>4, <2>0
  <2>2. /\ a \in Seq(Cipher) /\ Len(a) >= Ndig
        /\ \A i \in 0..Ndig : Value(SubSeq(a, 1, i)) = Floor(x, i - p)
    BY <1>1, <1>2, MadeIs DEF p
  <2>3. j \in 0..Ndig /\ j \in 0..Len(a) /\ j - p = (Ndig - 1) - l /\ j >= p
    BY <1>1, <1>3, <2>2
  <2> HIDE DEF a, j
  <2>4. Value(d) = Floor(x, j - p) /\ d \in Seq(Cipher) /\ Len(d) = j
    BY <2>2, <2>3, PrefixIs
  <2> HIDE DEF d
  <2>5. m.digits = d /\ m.point = p
    BY <2>1
  <2> QED
    BY <1>1, <1>3, <2>1, <2>3, <2>4, <2>5 DEF n, m, l
<1> QED
  BY <1>1, <1>3, <1>6, <1>7

-----------------------------------------------------------------------------
(* Reading a text, character by character.                                  *)
Codes == {Minus, Plus, Dot, CharE} \cup (Char(0)..Char(9))
States ==
    [minus : BOOLEAN, digits : Nat, inDecimals : BOOLEAN, decimals : Nat,
     inExponent : BOOLEAN, down : BOOLEAN, exponent : Nat]

(* What n digits do to what was read: they say v.                           *)
More(r, v, n) ==
    IF r.inExponent THEN [r EXCEPT !.exponent = (@ * Ten[n]) + v]
    ELSE [r EXCEPT !.digits = (@ * Ten[n]) + v,
                   !.decimals = IF r.inDecimals THEN @ + n ELSE @]

LEMMA ReadCharIs ==
  ASSUME NEW r \in States
  PROVE  /\ ReadChar(r, CharE) = [r EXCEPT !.inExponent = TRUE]
         /\ ReadChar(r, Dot) = [r EXCEPT !.inDecimals = TRUE]
         /\ ~r.inExponent => ReadChar(r, Minus) = [r EXCEPT !.minus = TRUE]
         /\ r.inExponent => ReadChar(r, Minus) = [r EXCEPT !.down = TRUE]
         /\ r.inExponent => ReadChar(r, Plus) = [r EXCEPT !.down = FALSE]
         /\ \A c \in Cipher :
               ReadChar(r, Char(c)) =
               IF r.inExponent THEN [r EXCEPT !.exponent = (10 * @) + c]
               ELSE [r EXCEPT !.digits = (10 * @) + c,
                              !.decimals = IF r.inDecimals THEN @ + 1 ELSE @]
<1>0. r.inExponent \in BOOLEAN
  BY DEF States
<1>1. ReadChar(r, CharE) = [r EXCEPT !.inExponent = TRUE]
  BY DEF ReadChar, CharE, Dot, Plus, Minus, Char
<1>2. ReadChar(r, Dot) = [r EXCEPT !.inDecimals = TRUE]
  BY DEF ReadChar, CharE, Dot, Plus, Minus, Char
<1>a. ASSUME NEW c \in {Plus, Minus}
      PROVE  ReadChar(r, c) = IF r.inExponent THEN [r EXCEPT !.down = (c = Minus)]
                              ELSE [r EXCEPT !.minus = (c = Minus)]
  BY <1>0 DEF ReadChar, CharE, Dot, Plus, Minus, Char
<1>b. Minus \in {Plus, Minus} /\ (Minus = Minus) = TRUE /\ Plus \in {Plus, Minus} /\ (Plus = Minus) = FALSE
  BY DEF Plus, Minus
<1>3. ~r.inExponent => ReadChar(r, Minus) = [r EXCEPT !.minus = TRUE]
  BY <1>a, <1>b
<1>4. r.inExponent => ReadChar(r, Minus) = [r EXCEPT !.down = TRUE]
  BY <1>a, <1>b
<1>5. r.inExponent => ReadChar(r, Plus) = [r EXCEPT !.down = FALSE]
  BY <1>a, <1>b
<1>6. ASSUME NEW c \in Cipher
      PROVE  ReadChar(r, Char(c)) =
             IF r.inExponent THEN [r EXCEPT !.exponent = (10 * @) + c]
             ELSE [r EXCEPT !.digits = (10 * @) + c,
                            !.decimals = IF r.inDecimals THEN @ + 1 ELSE @]
  <2> DEFINE a == Char(c)
  <2>1. a \in Char(0)..Char(9) /\ a # CharE /\ a # Dot /\ ~(a \in {Plus, Minus}) /\ a - Char(0) = c
    BY DEF Cipher, CharE, Dot, Plus, Minus, Char
  <2> HIDE DEF a
  <2>2. ReadChar(r, a) =
        IF r.inExponent THEN [r EXCEPT !.exponent = (10 * @) + c]
        ELSE [r EXCEPT !.digits = (10 * @) + c,
                       !.decimals = IF r.inDecimals THEN @ + 1 ELSE @]
    BY <1>0, <2>1 DEF ReadChar
  <2> QED
    BY <2>2 DEF a
<1> QED
  BY <1>1, <1>2, <1>3, <1>4, <1>5, <1>6

LEMMA ReadCharStays == \A r \in States, c \in Codes : ReadChar(r, c) \in States
<1> SUFFICES ASSUME NEW r \in States, NEW c \in Codes PROVE ReadChar(r, c) \in States
  OBVIOUS
<1>1. CASE c = CharE
  <2>1. ReadChar(r, c) = [r EXCEPT !.inExponent = TRUE]
    BY <1>1 DEF ReadChar, CharE, Dot, Plus, Minus, Char
  <2> QED
    BY <2>1 DEF States
<1>2. CASE c = Dot
  <2>1. ReadChar(r, c) = [r EXCEPT !.inDecimals = TRUE]
    BY <1>2 DEF ReadChar, CharE, Dot, Plus, Minus, Char
  <2> QED
    BY <2>1 DEF States
<1>3. CASE c \in {Plus, Minus}
  <2>1. \/ ReadChar(r, c) = [r EXCEPT !.down = (c = Minus)]
        \/ ReadChar(r, c) = [r EXCEPT !.minus = (c = Minus)]
    BY <1>3 DEF ReadChar, CharE, Dot, Plus, Minus, Char, States
  <2> QED
    BY <2>1 DEF States
<1>4. CASE c \in Char(0)..Char(9)
  <2> DEFINE a == c - Char(0)
  <2>1. a \in Nat /\ c # CharE /\ c # Dot /\ ~(c \in {Plus, Minus})
    BY <1>4 DEF Char, CharE, Dot, Plus, Minus
  <2>2. \/ ReadChar(r, c) = [r EXCEPT !.exponent = (10 * @) + a]
        \/ ReadChar(r, c) =
           [r EXCEPT !.digits = (10 * @) + a, !.decimals = IF r.inDecimals THEN @ + 1 ELSE @]
    BY <1>4, <2>1 DEF ReadChar, States
  <2> HIDE DEF a
  <2> DEFINE
        w == (10 * r.digits) + a
        h == (10 * r.exponent) + a
        l == IF r.inDecimals THEN r.decimals + 1 ELSE r.decimals
  <2>3. w \in Nat /\ h \in Nat /\ l \in Nat
    BY <2>1 DEF States
  <2>4. \/ ReadChar(r, c) = [r EXCEPT !.exponent = h]
        \/ ReadChar(r, c) = [r EXCEPT !.digits = w, !.decimals = l]
    BY <2>2
  <2> HIDE DEF w, h, l
  <2> QED
    BY <2>3, <2>4 DEF States
<1> QED
  BY <1>1, <1>2, <1>3, <1>4 DEF Codes

CharTaken == [p \in States \X Codes |-> ReadChar(p[1], p[2])]

LEMMA TakeStays == \A r \in States : Stays(States, Codes, r, CharTaken)
<1>1. CharTaken \in [States \X Codes -> States]
  BY ReadCharStays DEF CharTaken
<1> QED
  BY <1>1 DEF Stays

LEMMA ReadFromIs ==
  ASSUME NEW r \in States, NEW s \in Seq(Codes)
  PROVE  ReadFrom(r, s) = Folded(CharTaken, r, s)
<1> DEFINE
      l == Len(s)
      body(f) == [n \in 0..l |-> IF n = 0 THEN r ELSE ReadChar(f[n - 1], s[n])]
      T == CHOOSE f : f = body(f)
<1>1. l \in Nat /\ \A n \in 1..l : s[n] \in Codes
  OBVIOUS
<1>2. PICK f : Folds(f, CharTaken, r, s) /\ Folded(CharTaken, r, s) = f[l] /\ Within(States, f, l)
  <2>1. Stays(States, Codes, r, CharTaken)
    BY TakeStays
  <2>2. FoldsTo(States, CharTaken, r, s)
    BY <2>1, FoldExists
  <2> QED
    BY <2>2 DEF FoldsTo
<1>3. ReadFrom(r, s) = T[l]
  BY DEF ReadFrom
<1> HIDE DEF l
<1>4. f = [n \in 0..l |-> IF n = 0 THEN r ELSE CharTaken[<<f[n - 1], s[n]>>]]
  BY <1>2 DEF Folds, l
<1>5. \A n \in 0..l : f[n] \in States
  BY <1>2 DEF Within
<1>6. f = body(f)
  <2>1. \A n \in 0..l : n # 0 => CharTaken[<<f[n - 1], s[n]>>] = ReadChar(f[n - 1], s[n])
    <3> SUFFICES ASSUME NEW n \in 0..l, n # 0
                 PROVE  CharTaken[<<f[n - 1], s[n]>>] = ReadChar(f[n - 1], s[n])
      OBVIOUS
    <3>1. n - 1 \in 0..l /\ n \in 1..l
      BY <1>1
    <3>2. f[n - 1] \in States /\ s[n] \in Codes
      BY <1>1, <1>5, <3>1
    <3> QED
      BY <3>2 DEF CharTaken
  <2> QED
    BY <1>4, <2>1
<1>7. T = body(T)
  <2> HIDE DEF body
  <2> QED
    BY <1>6
<1>8. f = T
  <2>1. UpTo(l, f) /\ UpTo(l, T)
    BY <1>6, <1>7 DEF UpTo
  <2>2. 0 \in 0..l /\ \A n \in 1..l : n \in 0..l /\ n # 0
    BY <1>1
  <2>3. f[0] = r /\ \A n \in 1..l : f[n] = ReadChar(f[n - 1], s[n])
    BY <1>6, <2>2
  <2>4. T[0] = r /\ \A n \in 1..l : T[n] = ReadChar(T[n - 1], s[n])
    BY <1>7, <2>2
  <2> HIDE DEF T
  <2> QED
    BY <1>1, <2>1, <2>3, <2>4, SameRecursion
<1> QED
  BY <1>2, <1>3, <1>8

LEMMA ReadingIs ==
  ASSUME NEW r \in States
  PROVE  /\ ReadFrom(r, <<>>) = r
         /\ \A s \in Seq(Codes) : ReadFrom(r, s) \in States
         /\ \A s \in Seq(Codes), c \in Codes :
               ReadFrom(r, Append(s, c)) = ReadChar(ReadFrom(r, s), c)
         /\ \A s \in Seq(Codes), t \in Seq(Codes) :
               ReadFrom(r, s \o t) = ReadFrom(ReadFrom(r, s), t)
<1>1. Stays(States, Codes, r, CharTaken)
  BY TakeStays
<1>2. /\ Folded(CharTaken, r, <<>>) = r
      /\ \A s \in Seq(Codes) : Folded(CharTaken, r, s) \in States
      /\ \A s \in Seq(Codes), c \in Codes :
            Folded(CharTaken, r, Append(s, c)) = CharTaken[<<Folded(CharTaken, r, s), c>>]
  BY <1>1, FoldedIs
<1>3. ReadFrom(r, <<>>) = r
  <2>1. <<>> \in Seq(Codes)
    OBVIOUS
  <2> QED
    BY <1>2, <2>1, ReadFromIs
<1>4. \A s \in Seq(Codes) : ReadFrom(r, s) \in States /\ ReadFrom(r, s) = Folded(CharTaken, r, s)
  BY <1>2, ReadFromIs
<1>5. ASSUME NEW s \in Seq(Codes), NEW c \in Codes
      PROVE  ReadFrom(r, Append(s, c)) = ReadChar(ReadFrom(r, s), c)
  <2> DEFINE
        t == Append(s, c)
        q == Folded(CharTaken, r, s)
  <2>1. t \in Seq(Codes)
    OBVIOUS
  <2>2. Folded(CharTaken, r, t) = CharTaken[<<q, c>>] /\ q \in States
    BY <1>2
  <2> HIDE DEF t, q
  <2>3. CharTaken[<<q, c>>] = ReadChar(q, c)
    BY <2>2 DEF CharTaken
  <2>4. ReadFrom(r, t) = Folded(CharTaken, r, t) /\ ReadFrom(r, s) = q
    BY <1>4, <2>1 DEF q
  <2> QED
    BY <2>2, <2>3, <2>4 DEF t
<1>6. ASSUME NEW s \in Seq(Codes), NEW t \in Seq(Codes)
      PROVE  ReadFrom(r, s \o t) = ReadFrom(ReadFrom(r, s), t)
  <2>1. s \o t \in Seq(Codes)
    OBVIOUS
  <2>2. Folded(CharTaken, r, s \o t) = Folded(CharTaken, Folded(CharTaken, r, s), t)
    BY <1>1, FoldedConcat
  <2> DEFINE q == Folded(CharTaken, r, s)
  <2>3. q \in States /\ ReadFrom(r, s) = q
    BY <1>2, <1>4
  <2> HIDE DEF q
  <2>4. ReadFrom(q, t) = Folded(CharTaken, q, t)
    BY <2>3, ReadFromIs
  <2>5. ReadFrom(r, s \o t) = Folded(CharTaken, r, s \o t)
    BY <1>4, <2>1
  <2> QED
    BY <2>2, <2>3, <2>4, <2>5 DEF q
<1> QED
  BY <1>3, <1>4, <1>5, <1>6

LEMMA CharsAre ==
  ASSUME NEW d \in Seq(Cipher)
  PROVE  /\ Chars(d) \in Seq(Codes) /\ Len(Chars(d)) = Len(d)
         /\ \A c \in Cipher : Char(c) \in Codes /\ Chars(Append(d, c)) = Append(Chars(d), Char(c))
<1> DEFINE l == Len(d)
<1>1. l \in Nat /\ DOMAIN d = 1..l /\ \A i \in 1..l : d[i] \in Cipher
  OBVIOUS
<1>2. \A c \in Cipher : Char(c) \in Codes
  BY DEF Codes, Char, Cipher
<1>3. Chars(d) = [i \in 1..l |-> Char(d[i])]
  BY <1>1 DEF Chars
<1> HIDE DEF l
<1>4. Chars(d) \in Seq(Codes) /\ Len(Chars(d)) = l
  <2>1. \A i \in 1..l : Char(d[i]) \in Codes
    BY <1>1, <1>2
  <2> QED
    BY <1>1, <1>3, <2>1
<1>5. ASSUME NEW c \in Cipher PROVE Chars(Append(d, c)) = Append(Chars(d), Char(c))
  <2> DEFINE
        t == Append(d, c)
        a == Chars(t)
        b == Append(Chars(d), Char(c))
  <2>1. DOMAIN t = 1..(l + 1) /\ t[l + 1] = c /\ \A i \in 1..l : t[i] = d[i]
    BY <1>1 DEF l
  <2> HIDE DEF t
  <2>2. a = [i \in 1..(l + 1) |-> Char(t[i])]
    BY <2>1 DEF Chars
  <2>3. \A i \in 1..(l + 1) : i = l + 1 \/ i \in 1..l
    BY <1>1
  <2>4. \A i \in 1..(l + 1) : Char(t[i]) \in Codes
    <3>1. \A i \in 1..(l + 1) : t[i] \in Cipher
      BY <1>1, <2>1, <2>3
    <3> QED
      BY <1>2, <3>1
  <2>5. a \in Seq(Codes) /\ Len(a) = l + 1
    BY <1>1, <2>2, <2>4
  <2>6. b \in Seq(Codes) /\ Len(b) = l + 1 /\ b[l + 1] = Char(c) /\ \A i \in 1..l : b[i] = Chars(d)[i]
    BY <1>1, <1>2, <1>4
  <2>7. \A i \in 1..l : Chars(d)[i] = Char(d[i])
    BY <1>3
  <2>8. \A i \in 1..Len(a) : a[i] = b[i]
    <3> SUFFICES ASSUME NEW i \in 1..(l + 1) PROVE a[i] = b[i]
      BY <2>5
    <3>1. a[i] = Char(t[i])
      BY <2>2
    <3> HIDE DEF a, b
    <3> QED
      BY <2>1, <2>3, <2>6, <2>7, <3>1
  <2> HIDE DEF a, b
  <2>9. a = b
    BY <2>5, <2>6, <2>8, SameSequence
  <2> QED
    BY <2>9 DEF a, b, t
<1> QED
  BY <1>2, <1>4, <1>5 DEF l

LEMMA MoreIs ==
  ASSUME NEW r \in States, NEW v \in Nat, NEW n \in Nat
  PROVE  /\ More(r, v, n) \in States
         /\ More(r, 0, 0) = r
         /\ \A c \in Cipher : ReadChar(More(r, v, n), Char(c)) = More(r, (10 * v) + c, n + 1)
<1> DEFINE
      t == Ten[n]
      g == Ten[n + 1]
      q == More(r, v, n)
      j == r.inExponent
      i == r.inDecimals
      w == (r.digits * t) + v
      h == (r.exponent * t) + v
      p == IF i THEN r.decimals + n ELSE r.decimals
<1>1. t \in Nat /\ g = 10 * t
  BY TenIs
<1>2. r.digits \in Nat /\ r.exponent \in Nat /\ r.decimals \in Nat /\ j \in BOOLEAN /\ i \in BOOLEAN
  BY DEF States
<1>3. q = IF j THEN [r EXCEPT !.exponent = h] ELSE [r EXCEPT !.digits = w, !.decimals = p]
  BY DEF More
<1> HIDE DEF q, t
<1>4. w \in Nat /\ h \in Nat /\ p \in Nat
  BY <1>1, <1>2
<1>5. q \in States
  <2> HIDE DEF w, h, p
  <2> QED
    BY <1>3, <1>4 DEF States
<1>6. More(r, 0, 0) = r
  <2>1. Ten[0] = 1
    BY TenIs
  <2>2. /\ (r.exponent * 1) + 0 = r.exponent /\ (r.digits * 1) + 0 = r.digits
        /\ (IF r.inDecimals THEN r.decimals + 0 ELSE r.decimals) = r.decimals
    BY <1>2
  <2>3. More(r, 0, 0) = IF j THEN [r EXCEPT !.exponent = r.exponent]
                        ELSE [r EXCEPT !.digits = r.digits, !.decimals = r.decimals]
    BY <2>1, <2>2 DEF More
  <2>4. [r EXCEPT !.exponent = r.exponent] = r
    BY DEF States
  <2>5. [r EXCEPT !.digits = r.digits, !.decimals = r.decimals] = r
    BY DEF States
  <2> QED
    BY <2>3, <2>4, <2>5
<1>7. ASSUME NEW c \in Cipher PROVE ReadChar(q, Char(c)) = More(r, (10 * v) + c, n + 1)
  <2> DEFINE
        x == (10 * v) + c
        w2 == (r.digits * g) + x
        h2 == (r.exponent * g) + x
        p2 == IF i THEN r.decimals + (n + 1) ELSE r.decimals
  <2>1. More(r, x, n + 1) = IF j THEN [r EXCEPT !.exponent = h2] ELSE [r EXCEPT !.digits = w2, !.decimals = p2]
    BY DEF More
  <2>2. ReadChar(q, Char(c)) =
        IF q.inExponent THEN [q EXCEPT !.exponent = (10 * @) + c]
        ELSE [q EXCEPT !.digits = (10 * @) + c,
                       !.decimals = IF q.inDecimals THEN @ + 1 ELSE @]
    BY <1>5, ReadCharIs
  <2>3. c \in Nat
    BY DEF Cipher
  <2>4. w2 = (10 * w) + c /\ h2 = (10 * h) + c
    <3>1. \A y \in Nat : (y * (10 * t)) + ((10 * v) + c) = (10 * ((y * t) + v)) + c
      BY <1>1, <2>3, Z3
    <3> QED
      BY <1>1, <1>2, <3>1
  <2>5. p2 = IF i THEN p + 1 ELSE p
    BY <1>2
  <2> HIDE DEF x, w, h, p, w2, h2, p2, g
  <2>6. CASE j
    <3>1. q = [r EXCEPT !.exponent = h] /\ More(r, x, n + 1) = [r EXCEPT !.exponent = h2]
      BY <1>3, <2>1, <2>6
    <3>2. q.inExponent = r.inExponent /\ q.exponent = h
      BY <3>1 DEF States
    <3>3. ReadChar(q, Char(c)) = [q EXCEPT !.exponent = h2]
      BY <2>2, <2>4, <2>6, <3>2
    <3>4. [q EXCEPT !.exponent = h2] = [r EXCEPT !.exponent = h2]
      BY <3>1 DEF States
    <3> QED
      BY <3>1, <3>3, <3>4 DEF x
  <2>7. CASE ~j
    <3>1. q = [r EXCEPT !.digits = w, !.decimals = p]
          /\ More(r, x, n + 1) = [r EXCEPT !.digits = w2, !.decimals = p2]
      BY <1>3, <2>1, <2>7
    <3>2. q.inExponent = r.inExponent /\ q.digits = w /\ q.decimals = p /\ q.inDecimals = r.inDecimals
      BY <3>1 DEF States
    <3>3. ReadChar(q, Char(c)) = [q EXCEPT !.digits = w2, !.decimals = p2]
      BY <2>2, <2>4, <2>5, <2>7, <3>2
    <3>4. [q EXCEPT !.digits = w2, !.decimals = p2] = [r EXCEPT !.digits = w2, !.decimals = p2]
      BY <3>1 DEF States
    <3> QED
      BY <3>1, <3>3, <3>4 DEF x
  <2> QED
    BY <2>6, <2>7
<1> QED
  BY <1>5, <1>6, <1>7 DEF q

LEMMA CharsRead ==
  ASSUME NEW r \in States, NEW d \in Seq(Cipher)
  PROVE  ReadFrom(r, Chars(d)) = More(r, Value(d), Len(d))
<1> DEFINE
      Right(u, n) == ReadFrom(r, Chars(u)) = More(r, Value(u), n)
      S == {n \in Nat : \A u \in Seq(Cipher) : Len(u) = n => Right(u, n)}
<1>1. 0 \in S
  <2> SUFFICES ASSUME NEW u \in Seq(Cipher), Len(u) = 0 PROVE Right(u, 0)
    OBVIOUS
  <2>1. u = <<>> /\ Chars(u) = <<>>
    BY DEF Chars
  <2>2. Value(u) = 0
    BY <2>1, ValueIs
  <2>3. ReadFrom(r, <<>>) = r
    BY ReadingIs
  <2>4. More(r, 0, 0) = r
    <3>1. 0 \in Nat
      OBVIOUS
    <3> QED
      BY <3>1, MoreIs
  <2> QED
    BY <2>1, <2>2, <2>3, <2>4
<1>2. ASSUME NEW n \in S PROVE n + 1 \in S
  <2>0. n + 1 \in Nat
    OBVIOUS
  <2> SUFFICES ASSUME NEW u \in Seq(Cipher), Len(u) = n + 1 PROVE Right(u, n + 1)
    BY <2>0
  <2>1. u # <<>> /\ n \in Nat
    OBVIOUS
  <2>2. PICK f \in Seq(Cipher), c \in Cipher : u = Append(f, c) /\ Len(f) = Len(u) - 1
    BY <2>1, LastOff
  <2>3. Len(f) = n
    BY <2>1, <2>2
  <2>4. Right(f, n)
    BY <2>3
  <2> DEFINE
        s == Chars(f)
        a == Char(c)
        v == Value(f)
        q == More(r, v, n)
  <2>5. Chars(u) = Append(s, a) /\ s \in Seq(Codes) /\ a \in Codes
    BY <2>2, CharsAre
  <2>6. v \in Nat /\ Value(u) = (10 * v) + c
    BY <2>2, ValueIs
  <2>7. ReadFrom(r, s) = q
    BY <2>4
  <2> HIDE DEF s, v, S, q
  <2>8. ReadFrom(r, Append(s, a)) = ReadChar(ReadFrom(r, s), a)
    <3> HIDE DEF a
    <3> QED
      BY <2>5, ReadingIs
  <2>9. ReadChar(q, a) = More(r, (10 * v) + c, n + 1)
    BY <2>1, <2>2, <2>6, MoreIs DEF q
  <2> HIDE DEF a
  <2> QED
    BY <2>5, <2>6, <2>7, <2>8, <2>9
<1>3. S = Nat
  <2>1. S \in SUBSET Nat
    OBVIOUS
  <2> HIDE DEF S
  <2> QED
    BY <1>1, <1>2, <2>1, NaturalInduction
<1>4. Len(d) \in S
  BY <1>3
<1> QED
  BY <1>4

(* Before the exponent: the digits say v, k of them after the point.        *)
Mantissa(r, x, v, k) ==
    /\ r \in States /\ (r.minus <=> x.num < 0) /\ r.digits = v /\ r.decimals = k
    /\ ~r.inExponent /\ ~r.down /\ r.exponent = 0
InWhole(r, x, v) == Mantissa(r, x, v, 0) /\ ~r.inDecimals
InFraction(r, x, v, k) == Mantissa(r, x, v, k) /\ r.inDecimals

LEMMA OneRead ==
  ASSUME NEW r \in States, NEW c \in Codes
  PROVE  <<c>> \in Seq(Codes) /\ ReadFrom(r, <<c>>) = ReadChar(r, c)
<1>1. <<c>> \in Seq(Codes) /\ <<>> \in Seq(Codes) /\ <<c>> = Append(<<>>, c)
  OBVIOUS
<1>2. ReadFrom(r, Append(<<>>, c)) = ReadChar(ReadFrom(r, <<>>), c) /\ ReadFrom(r, <<>>) = r
  BY <1>1, ReadingIs
<1> QED
  BY <1>1, <1>2

LEMMA SignRead ==
  ASSUME NEW x \in Floats
  PROVE  /\ If(x.num < 0, <<Minus>>) \in Seq(Codes)
         /\ InWhole(ReadFrom(Unread, If(x.num < 0, <<Minus>>)), x, 0)
<1>1. Unread \in States /\ ~Unread.inExponent
  BY DEF Unread, States
<1>2. CASE x.num < 0
  <2>1. If(x.num < 0, <<Minus>>) = <<Minus>>
    BY <1>2 DEF If
  <2>2. Minus \in Codes
    BY DEF Codes
  <2>3. <<Minus>> \in Seq(Codes) /\ ReadFrom(Unread, <<Minus>>) = [Unread EXCEPT !.minus = TRUE]
    BY <1>1, <2>2, OneRead, ReadCharIs
  <2>4. InWhole([Unread EXCEPT !.minus = TRUE], x, 0)
    BY <1>2 DEF InWhole, Mantissa, Unread, States
  <2> QED
    BY <2>1, <2>3, <2>4
<1>3. CASE ~(x.num < 0)
  <2>1. If(x.num < 0, <<Minus>>) = <<>>
    BY <1>3 DEF If
  <2>2. ReadFrom(Unread, <<>>) = Unread
    BY <1>1, ReadingIs
  <2>3. InWhole(Unread, x, 0)
    BY <1>3 DEF InWhole, Mantissa, Unread, States
  <2>4. <<>> \in Seq(Codes)
    OBVIOUS
  <2> QED
    BY <2>1, <2>2, <2>3, <2>4
<1> QED
  BY <1>2, <1>3

LEMMA MantissaRead ==
  ASSUME NEW r, NEW x, NEW v \in Nat, NEW k \in Nat, Mantissa(r, x, v, k), NEW d \in Seq(Cipher)
  PROVE  LET q == ReadFrom(r, Chars(d))
         IN /\ Mantissa(q, x, (v * Ten[Len(d)]) + Value(d), IF r.inDecimals THEN k + Len(d) ELSE k)
            /\ q.inDecimals <=> r.inDecimals
<1> DEFINE
      w == (v * Ten[Len(d)]) + Value(d)
      p == IF r.inDecimals THEN k + Len(d) ELSE k
      q == ReadFrom(r, Chars(d))
<1>1. r \in States /\ ~r.inExponent /\ r.digits = v /\ r.decimals = k
  BY DEF Mantissa
<1>2. q = More(r, Value(d), Len(d))
  BY <1>1, CharsRead
<1>3. More(r, Value(d), Len(d)) = [r EXCEPT !.digits = w, !.decimals = p]
  BY <1>1 DEF More
<1>4. w \in Nat /\ p \in Nat
  <2>1. Len(d) \in Nat
    OBVIOUS
  <2>2. Ten[Len(d)] \in Nat /\ Value(d) \in Nat
    BY <2>1, TenIs, ValueIs
  <2> QED
    BY <2>1, <2>2
<1> HIDE DEF w, p, q
<1>5. q = [r EXCEPT !.digits = w, !.decimals = p]
  BY <1>2, <1>3
<1>6. q \in States
  BY <1>1, <1>4, <1>5 DEF States
<1>7. /\ q.digits = w /\ q.decimals = p /\ q.minus = r.minus /\ q.inExponent = r.inExponent
      /\ q.down = r.down /\ q.exponent = r.exponent /\ q.inDecimals = r.inDecimals
  BY <1>1, <1>5 DEF States
<1>8. Mantissa(q, x, w, p)
  BY <1>6, <1>7 DEF Mantissa
<1> QED
  BY <1>7, <1>8 DEF w, p, q

LEMMA DotRead ==
  ASSUME NEW r, NEW x, NEW v, InWhole(r, x, v)
  PROVE  <<Dot>> \in Seq(Codes) /\ InFraction(ReadFrom(r, <<Dot>>), x, v, 0)
<1>1. r \in States /\ Dot \in Codes
  BY DEF InWhole, Mantissa, Codes
<1>2. <<Dot>> \in Seq(Codes) /\ ReadFrom(r, <<Dot>>) = [r EXCEPT !.inDecimals = TRUE]
  BY <1>1, OneRead, ReadCharIs
<1> DEFINE q == [r EXCEPT !.inDecimals = TRUE]
<1>3. q \in States
  BY <1>1 DEF States
<1>4. /\ q.digits = r.digits /\ q.decimals = r.decimals /\ q.minus = r.minus
      /\ q.inExponent = r.inExponent
      /\ q.down = r.down /\ q.exponent = r.exponent /\ q.inDecimals = TRUE
  BY <1>1 DEF States
<1> HIDE DEF q
<1>5. InFraction(q, x, v, 0)
  BY <1>3, <1>4 DEF InFraction, InWhole, Mantissa
<1> QED
  BY <1>2, <1>5 DEF q

(* Digits, a point unless there are no decimals, and decimals.              *)
LEMMA PlainRead ==
  ASSUME NEW r, NEW x, InWhole(r, x, 0), NEW a \in Seq(Cipher), NEW b \in Seq(Cipher),
         NEW dot \in BOOLEAN, dot \/ b = <<>>
  PROVE  /\ Chars(a) \o If(dot, <<Dot>>) \o Chars(b) \in Seq(Codes)
         /\ Mantissa(ReadFrom(r, Chars(a) \o If(dot, <<Dot>>) \o Chars(b)), x, Value(a \o b), Len(b))
<1> DEFINE
      d == If(dot, <<Dot>>)
      s == Chars(a)
      t == Chars(b)
      r1 == ReadFrom(r, s)
      r2 == ReadFrom(r1, d)
      r3 == ReadFrom(r2, t)
      v == Value(a)
      k == Len(b)
<1>0. r \in States /\ ~r.inDecimals /\ Mantissa(r, x, 0, 0)
  BY DEF InWhole, Mantissa
<1>1. s \in Seq(Codes) /\ t \in Seq(Codes) /\ v \in Nat
  BY CharsAre, ValueIs
<1>2. d \in Seq(Codes) /\ (dot => d = <<Dot>>) /\ (~dot => d = <<>>)
  <2>1. <<>> \in Seq(Codes) /\ <<Dot>> \in Seq(Codes)
    BY DEF Codes
  <2> QED
    BY <2>1 DEF If
<1>3. InWhole(r1, x, v)
  <2> DEFINE w == (0 * Ten[Len(a)]) + Value(a)
  <2>0. 0 \in Nat /\ Len(a) \in Nat
    OBVIOUS
  <2>1. Mantissa(r1, x, w, IF r.inDecimals THEN 0 + Len(a) ELSE 0) /\ (r1.inDecimals <=> r.inDecimals)
    BY <1>0, <2>0, MantissaRead
  <2>2. w = v
    <3>1. Ten[Len(a)] \in Nat
      BY <2>0, TenIs
    <3> QED
      BY <1>1, <3>1
  <2> HIDE DEF w, r1
  <2> QED
    BY <1>0, <2>1, <2>2 DEF InWhole
<1> HIDE DEF s, t, d, r1, v
<1>4. CASE dot
  <2>1. InFraction(r2, x, v, 0)
    BY <1>2, <1>3, <1>4, DotRead
  <2> HIDE DEF r2
  <2> DEFINE w == (v * Ten[Len(b)]) + Value(b)
  <2>2. 0 \in Nat /\ r2.inDecimals /\ Mantissa(r2, x, v, 0)
    BY <2>1 DEF InFraction
  <2>3. Mantissa(r3, x, w, IF r2.inDecimals THEN 0 + Len(b) ELSE 0)
    BY <1>1, <2>2, MantissaRead DEF t
  <2>4. w = Value(a \o b)
    BY ValueConcat DEF v
  <2>5. 0 + Len(b) = Len(b)
    OBVIOUS
  <2> HIDE DEF w, r3
  <2> QED
    <3>1. Mantissa(r3, x, Value(a \o b), Len(b))
      BY <2>2, <2>3, <2>4, <2>5
    <3>2. r1 \in States /\ r2 \in States
      BY <1>3, <2>2 DEF InWhole, Mantissa
    <3>3. s \o d \in Seq(Codes) /\ ReadFrom(r, s \o d) = r2
      BY <1>0, <1>1, <1>2, ReadingIs DEF r1, r2
    <3> DEFINE u == s \o d
    <3>4. u \in Seq(Codes) /\ ReadFrom(r, u) = r2
      BY <3>3
    <3> HIDE DEF u
    <3>5. u \o t \in Seq(Codes) /\ ReadFrom(r, u \o t) = r3
      BY <1>0, <1>1, <3>4, ReadingIs DEF r3
    <3> QED
      BY <3>1, <3>5 DEF u, s, t, d
<1>5. CASE ~dot
  <2>1. b = <<>> /\ t = <<>> /\ d = <<>>
    BY <1>2, <1>5 DEF t, Chars
  <2>2. (s \o d) \o t = s
    BY <1>1, <2>1
  <2>3. a \o b = a /\ Len(b) = 0
    BY <2>1
  <2>4. Mantissa(ReadFrom(r, s), x, Value(a \o b), Len(b))
    BY <1>3, <2>3 DEF InWhole, r1, v
  <2> QED
    BY <1>1, <2>2, <2>4 DEF s, t, d
<1> QED
  BY <1>4, <1>5

LEMMA ExponentRead ==
  ASSUME NEW r, NEW x, NEW v, NEW k, Mantissa(r, x, v, k), NEW e \in Int, NEW d \in Seq(Cipher)
  PROVE  LET q == ReadFrom(r, Exponent(e, d))
         IN /\ Exponent(e, d) \in Seq(Codes)
            /\ (q.minus <=> x.num < 0) /\ q.digits = v /\ q.decimals = k
            /\ (q.down <=> e < 0) /\ q.exponent = Value(d)
<1> DEFINE
      c == IF e < 0 THEN Minus ELSE Plus
      h == <<CharE, c>>
      s == Chars(d)
      r1 == [r EXCEPT !.inExponent = TRUE]
      r2 == ReadChar(r1, c)
      q == ReadFrom(r2, s)
<1>1. /\ r \in States /\ (r.minus <=> x.num < 0) /\ r.digits = v /\ r.decimals = k
      /\ ~r.down /\ r.exponent = 0
  BY DEF Mantissa
<1>2. CharE \in Codes /\ c \in Codes /\ s \in Seq(Codes)
  <2>1. s \in Seq(Codes)
    BY CharsAre
  <2> HIDE DEF s
  <2> QED
    BY <2>1 DEF Codes
<1>3. ReadChar(r, CharE) = r1
  BY <1>1, ReadCharIs
<1>4. /\ r1 \in States /\ r1.inExponent /\ r1.minus = r.minus /\ r1.digits = r.digits
      /\ r1.decimals = r.decimals /\ r1.down = r.down /\ r1.exponent = r.exponent
  BY <1>1 DEF States
<1> HIDE DEF r1
<1>5. (e < 0 => r2 = [r1 EXCEPT !.down = TRUE]) /\ (~(e < 0) => r2 = [r1 EXCEPT !.down = FALSE])
  BY <1>4, ReadCharIs
<1> HIDE DEF r2
<1>6. /\ r2 \in States /\ r2.inExponent /\ r2.minus = r1.minus /\ r2.digits = r1.digits
      /\ r2.decimals = r1.decimals /\ (r2.down <=> e < 0) /\ r2.exponent = r1.exponent
  BY <1>4, <1>5 DEF States
<1>7. q = More(r2, Value(d), Len(d))
  BY <1>6, CharsRead
<1> DEFINE w == (r2.exponent * Ten[Len(d)]) + Value(d)
<1>8. q = [r2 EXCEPT !.exponent = w]
  BY <1>6, <1>7 DEF More
<1>9. w = Value(d)
  <2>1. Len(d) \in Nat
    OBVIOUS
  <2>2. Ten[Len(d)] \in Nat /\ Value(d) \in Nat
    BY <2>1, TenIs, ValueIs
  <2>3. r2.exponent = 0
    BY <1>1, <1>4, <1>6
  <2> QED
    BY <2>2, <2>3
<1> HIDE DEF w, q
<1>10. /\ q.minus = r2.minus /\ q.digits = r2.digits
       /\ q.decimals = r2.decimals /\ (q.down <=> r2.down) /\ q.exponent = Value(d)
  BY <1>6, <1>8, <1>9 DEF States
<1>11. h \in Seq(Codes) /\ ReadFrom(r, h) = r2
  <2> DEFINE g == <<CharE>>
  <2>1. g \in Seq(Codes) /\ ReadFrom(r, g) = r1
    BY <1>1, <1>2, <1>3, OneRead
  <2>2. h = Append(g, c)
    OBVIOUS
  <2> HIDE DEF g, c, h
  <2>3. ReadFrom(r, Append(g, c)) = ReadChar(ReadFrom(r, g), c)
    BY <1>1, <1>2, <2>1, ReadingIs
  <2>4. Append(g, c) \in Seq(Codes)
    BY <1>2, <2>1
  <2> QED
    BY <2>1, <2>2, <2>3, <2>4 DEF r2
<1>12. Exponent(e, d) = h \o s
  BY DEF Exponent
<1> HIDE DEF h, s, c
<1>13. h \o s \in Seq(Codes) /\ ReadFrom(r, h \o s) = q
  BY <1>1, <1>2, <1>11, ReadingIs DEF q
<1> QED
  BY <1>1, <1>4, <1>6, <1>10, <1>12, <1>13

(* A text says v * 10^scale, of the sign of the number.                     *)
Says(s, x, v, scale) ==
    s # <<>> /\ (Reading(s).minus <=> x.num < 0) /\ Reading(s).digits = v /\ Reading(s).scale = scale

LEMMA SignedRead ==
  ASSUME NEW x \in Floats, NEW t \in Seq(Codes), t # <<>>
  PROVE  /\ If(x.num < 0, <<Minus>>) \o t # <<>>
         /\ \E r : /\ InWhole(r, x, 0)
                   /\ ReadFrom(Unread, If(x.num < 0, <<Minus>>) \o t) = ReadFrom(r, t)
<1> DEFINE
      s == If(x.num < 0, <<Minus>>)
      r == ReadFrom(Unread, s)
<1>1. s \in Seq(Codes) /\ InWhole(r, x, 0)
  BY SignRead
<1>2. Unread \in States
  BY DEF Unread, States
<1> HIDE DEF s
<1>3. ReadFrom(Unread, s \o t) = ReadFrom(r, t)
  BY <1>1, <1>2, ReadingIs
<1>4. s \o t # <<>>
  <2>1. Len(s \o t) = Len(s) + Len(t) /\ Len(s) \in Nat /\ Len(t) \in Nat /\ Len(t) # 0
    BY <1>1
  <2>2. Len(s \o t) # 0
    BY <2>1
  <2> QED
    BY <2>2
<1> QED
  BY <1>1, <1>3, <1>4 DEF s

LEMMA PlainText ==
  ASSUME NEW x \in Floats, NEW a \in Seq(Cipher), a # <<>>, NEW b \in Seq(Cipher),
         NEW dot \in BOOLEAN, dot \/ b = <<>>
  PROVE  Says(If(x.num < 0, <<Minus>>) \o (Chars(a) \o If(dot, <<Dot>>) \o Chars(b)),
              x, Value(a \o b), -Len(b))
<1> DEFINE
      t == Chars(a) \o If(dot, <<Dot>>) \o Chars(b)
      s == If(x.num < 0, <<Minus>>) \o t
<1>1. t \in Seq(Codes) /\ t # <<>>
  <2>1. PICK r : InWhole(r, x, 0)
    BY SignRead
  <2>2. t \in Seq(Codes)
    BY <2>1, PlainRead
  <2>3. Len(Chars(a)) = Len(a) /\ Chars(a) \in Seq(Codes) /\ Chars(b) \in Seq(Codes)
    BY CharsAre
  <2>4. If(dot, <<Dot>>) \in Seq(Codes)
    <3>1. <<>> \in Seq(Codes) /\ <<Dot>> \in Seq(Codes)
      BY DEF Codes
    <3> QED
      BY <3>1 DEF If
  <2> DEFINE
        u == Chars(a)
        d == If(dot, <<Dot>>)
        y == Chars(b)
  <2>5. u \in Seq(Codes) /\ d \in Seq(Codes) /\ y \in Seq(Codes) /\ Len(u) # 0
    BY <2>3, <2>4
  <2> HIDE DEF u, d, y
  <2>6. Len(u \o d \o y) = (Len(u) + Len(d)) + Len(y)
    BY <2>5
  <2>7. Len(u) \in Nat /\ Len(d) \in Nat /\ Len(y) \in Nat
    BY <2>5
  <2>8. Len(u \o d \o y) # 0
    BY <2>5, <2>6, <2>7
  <2>9. u \o d \o y # <<>>
    BY <2>8
  <2> QED
    BY <2>2, <2>9 DEF u, d, y
<1>2. s # <<>> /\ \E r : InWhole(r, x, 0) /\ ReadFrom(Unread, s) = ReadFrom(r, t)
  <2> HIDE DEF t
  <2> QED
    BY <1>1, SignedRead
<1>3. PICK r : InWhole(r, x, 0) /\ ReadFrom(Unread, s) = ReadFrom(r, t)
  BY <1>2
<1>4. Mantissa(ReadFrom(r, t), x, Value(a \o b), Len(b))
  BY <1>3, PlainRead
<1> HIDE DEF s, t
<1> DEFINE q == ReadFrom(Unread, s)
<1>5. (q.minus <=> x.num < 0) /\ q.digits = Value(a \o b) /\ q.decimals = Len(b) /\ ~q.down /\ q.exponent = 0
  BY <1>3, <1>4 DEF Mantissa
<1>6. Reading(s) = [minus |-> q.minus, digits |-> q.digits,
                    scale |-> (IF q.down THEN -q.exponent ELSE q.exponent) - q.decimals]
  BY DEF Reading
<1> HIDE DEF q
<1>7. 0 - Len(b) = -Len(b)
  OBVIOUS
<1> QED
  BY <1>2, <1>5, <1>6, <1>7 DEF Says, s, t

LEMMA ScientificText ==
  ASSUME NEW x \in Floats, NEW a \in Seq(Cipher), a # <<>>, NEW b \in Seq(Cipher),
         NEW dot \in BOOLEAN, dot \/ b = <<>>,
         NEW e \in Int, NEW d \in Seq(Cipher), Value(d) = Magnitude(e)
  PROVE  Says(If(x.num < 0, <<Minus>>) \o
                  (Chars(a) \o If(dot, <<Dot>>) \o Chars(b) \o Exponent(e, d)),
              x, Value(a \o b), e - Len(b))
<1> DEFINE
      p == Chars(a) \o If(dot, <<Dot>>) \o Chars(b)
      g == Exponent(e, d)
      t == p \o g
      s == If(x.num < 0, <<Minus>>) \o t
<1>1. p \in Seq(Codes) /\ \A r : InWhole(r, x, 0) => Mantissa(ReadFrom(r, p), x, Value(a \o b), Len(b))
  <2>1. PICK r : InWhole(r, x, 0)
    BY SignRead
  <2> QED
    BY <2>1, PlainRead
<1> HIDE DEF p
<1>2. g \in Seq(Codes)
  <2>1. PICK r : InWhole(r, x, 0)
    BY SignRead
  <2>2. Mantissa(r, x, 0, 0)
    BY <2>1 DEF InWhole
  <2> QED
    BY <2>2, ExponentRead
<1>3. g # <<>>
  <2>1. g = <<CharE, IF e < 0 THEN Minus ELSE Plus>> \o Chars(d) /\ Chars(d) \in Seq(Codes)
    BY CharsAre DEF Exponent
  <2> DEFINE
        h == <<CharE, IF e < 0 THEN Minus ELSE Plus>>
        y == Chars(d)
  <2>2. h \in Seq(Codes) /\ Len(h) = 2
    BY DEF Codes
  <2>3. g = h \o y /\ y \in Seq(Codes)
    BY <2>1
  <2> HIDE DEF h, y, g
  <2>4. Len(h \o y) = Len(h) + Len(y) /\ Len(y) \in Nat
    <3>1. h \in Seq(Codes) /\ y \in Seq(Codes)
      BY <2>2, <2>3
    <3> HIDE DEF s, t
    <3>2. Len(y) \in Nat
      BY <3>1
    <3> QED
      BY <3>1, <3>2, ConcatIs
  <2>5. Len(g) # 0
    BY <2>2, <2>3, <2>4
  <2> QED
    BY <2>5
<1> HIDE DEF g
<1>4. t \in Seq(Codes) /\ t # <<>>
  <2>1. t \in Seq(Codes) /\ Len(t) = Len(p) + Len(g) /\ Len(p) \in Nat /\ Len(g) \in Nat /\ Len(g) # 0
    BY <1>1, <1>2, <1>3
  <2> HIDE DEF t
  <2>2. Len(t) # 0
    BY <2>1
  <2> QED
    BY <2>1, <2>2
<1>5. s # <<>> /\ \E r : InWhole(r, x, 0) /\ ReadFrom(Unread, s) = ReadFrom(r, t)
  <2> HIDE DEF t
  <2> QED
    BY <1>4, SignedRead
<1>6. PICK r : InWhole(r, x, 0) /\ ReadFrom(Unread, s) = ReadFrom(r, t)
  BY <1>5
<1> DEFINE
      r1 == ReadFrom(r, p)
      q == ReadFrom(r1, g)
<1>7. r \in States
  BY <1>6 DEF InWhole, Mantissa
<1>8. ReadFrom(r, t) = q
  BY <1>1, <1>2, <1>7, ReadingIs
<1>9. Mantissa(r1, x, Value(a \o b), Len(b))
  BY <1>1, <1>6
<1> HIDE DEF r1, s
<1>10. /\ (q.minus <=> x.num < 0) /\ q.digits = Value(a \o b) /\ q.decimals = Len(b)
       /\ (q.down <=> e < 0) /\ q.exponent = Value(d)
  BY <1>9, ExponentRead DEF g
<1> HIDE DEF q
<1>11. Reading(s) = [minus |-> q.minus, digits |-> q.digits,
                     scale |-> (IF q.down THEN -q.exponent ELSE q.exponent) - q.decimals]
  BY <1>6, <1>8 DEF Reading
<1>12. (IF q.down THEN -q.exponent ELSE q.exponent) = e
  <2>1. e < 0 => Magnitude(e) = -e /\ -(-e) = e
    BY DEF Magnitude
  <2>2. ~(e < 0) => Magnitude(e) = e
    BY DEF Magnitude
  <2> QED
    BY <1>10, <2>1, <2>2
<1>13. Says(s, x, Value(a \o b), e - Len(b))
  BY <1>5, <1>10, <1>11, <1>12 DEF Says
<1> QED
  BY <1>13 DEF s, t, p, g

-----------------------------------------------------------------------------
(* The three formats.                                                       *)
LEMMA FrontAndBack ==
  ASSUME NEW s \in Seq(Cipher), NEW m \in 0..Len(s)
  PROVE  /\ SubSeq(s, 1, m) \in Seq(Cipher) /\ Len(SubSeq(s, 1, m)) = m
         /\ SubSeq(s, m + 1, Len(s)) \in Seq(Cipher) /\ Len(SubSeq(s, m + 1, Len(s))) = Len(s) - m
         /\ Value(SubSeq(s, 1, m) \o SubSeq(s, m + 1, Len(s))) = Value(s)
         /\ m > 0 => SubSeq(s, 1, m) # <<>>
<1> DEFINE p == SubSeq(s, 1, m)
<1>1. /\ p \in Seq(Cipher) /\ Len(p) = m
      /\ SubSeq(s, m + 1, Len(s)) \in Seq(Cipher) /\ Len(SubSeq(s, m + 1, Len(s))) = Len(s) - m
      /\ s = p \o SubSeq(s, m + 1, Len(s))
  BY PrefixIs
<1> HIDE DEF p
<1>2. m > 0 => p # <<>>
  BY <1>1
<1>3. Value(p \o SubSeq(s, m + 1, Len(s))) = Value(s)
  BY <1>1
<1> QED
  BY <1>1, <1>2, <1>3 DEF p

LEMMA FirstAndTail ==
  ASSUME NEW s \in Seq(Cipher), s # <<>>
  PROVE  /\ <<s[1]>> \in Seq(Cipher) /\ Tail(s) \in Seq(Cipher) /\ Len(Tail(s)) = Len(s) - 1
         /\ Value(<<s[1]>> \o Tail(s)) = Value(s) /\ s[1] \in Cipher
<1>1. <<s[1]>> \in Seq(Cipher) /\ Tail(s) \in Seq(Cipher) /\ Len(Tail(s)) = Len(s) - 1 /\ s[1] \in Cipher
  OBVIOUS
<1>2. <<s[1]>> \o Tail(s) = s
  OBVIOUS
<1> QED
  BY <1>1, <1>2

LEMMA ZeroFirst ==
  ASSUME NEW s \in Seq(Cipher)
  PROVE  /\ <<0>> \in Seq(Cipher) /\ <<0>> # <<>> /\ <<0>> \o s \in Seq(Cipher)
         /\ Value(<<0>> \o s) = Value(s) /\ Chars(<<0>>) = <<Char(0)>>
<1>1. <<0>> \in Seq(Cipher) /\ <<>> \in Seq(Cipher) /\ 0 \in Cipher /\ <<0>> = Append(<<>>, 0) /\ Len(s) \in Nat
  BY DEF Cipher
<1>2. Value(Append(<<>>, 0)) = (10 * Value(<<>>)) + 0 /\ Value(<<>>) = 0
  BY <1>1, ValueIs
<1>3. Value(<<0>> \o s) = (Value(<<0>>) * Ten[Len(s)]) + Value(s)
  BY <1>1, ValueConcat
<1>4. Ten[Len(s)] \in Nat /\ Value(s) \in Nat
  BY <1>1, TenIs, ValueIs
<1>5. Value(<<0>>) = 0
  BY <1>1, <1>2
<1>6. Value(<<0>> \o s) = Value(s)
  BY <1>3, <1>4, <1>5
<1>7. <<0>> # <<>> /\ <<0>> \o s \in Seq(Cipher)
  BY <1>1
<1>8. Chars(<<0>>) = <<Char(0)>>
  BY DEF Chars
<1> QED
  BY <1>1, <1>6, <1>7, <1>8

(* %f: digits, a point, and as many decimals as there are digits left.      *)
LEMMA TextOfF ==
  ASSUME NEW x \in Floats, NEW precision \in Nat, precision > 0, Whole(x) < Ten[Ndig - 1]
  PROVE  LET m == pcc_cvt(x, precision, FALSE)
         IN Says(If(x.num < 0, <<Minus>>) \o conv_f(x, precision),
                 x, Value(m.digits), -(Len(m.digits) - m.point))
<1> DEFINE
      m == pcc_cvt(x, precision, FALSE)
      s == m.digits
      p == m.point
      front == SubSeq(s, 1, p)
      decimals == SubSeq(s, p + 1, Len(s))
      sign == If(x.num < 0, <<Minus>>)
<1>1. s \in Seq(Cipher) /\ p \in Nat /\ Len(s) >= p
  BY CvtF
<1>2. conv_f(x, precision) =
      IF p <= 0
      THEN <<Char(0)>> \o If(precision > 0, <<Dot>> \o Chars(Zeros(-p))) \o Chars(s)
      ELSE Chars(front) \o If(precision > 0, <<Dot>>) \o Chars(decimals)
  BY DEF conv_f
<1>3. \A t : If(precision > 0, t) = t /\ If(TRUE, t) = t
  BY DEF If
<1> HIDE DEF m, s, p, sign
<1>4. CASE p = 0
  <2>1. Zeros(-p) = <<>>
    <3>1. -p \in Int /\ ~(-p > 0)
      BY <1>1, <1>4
    <3> DEFINE n == -p
    <3>2. n \in Int /\ ~(n > 0)
      BY <3>1
    <3> HIDE DEF n
    <3>3. Zeros(n) \in Seq(Cipher) /\ Len(Zeros(n)) = 0
      BY <3>2, ZerosAre
    <3>4. Zeros(n) = <<>>
      BY <3>3
    <3> QED
      BY <3>4 DEF n
  <2>2. <<Dot>> \o Chars(<<>>) = <<Dot>>
    <3>1. Chars(<<>>) = <<>>
      BY DEF Chars
    <3>2. <<Dot>> \in Seq(Codes)
      BY DEF Codes
    <3> DEFINE t == <<Dot>>
    <3>3. t \in Seq(Codes)
      BY <3>2
    <3> HIDE DEF t
    <3>4. t \o <<>> = t
      BY <3>3
    <3> QED
      BY <3>1, <3>4 DEF t
  <2>3. conv_f(x, precision) = Chars(<<0>>) \o If(TRUE, <<Dot>>) \o Chars(s)
    <3>1. Chars(<<0>>) = <<Char(0)>>
      BY <1>1, ZeroFirst
    <3>2. p <= 0
      BY <1>4
    <3> HIDE DEF front, decimals
    <3> QED
      BY <1>2, <1>3, <2>1, <2>2, <3>1, <3>2
  <2>4. Says(sign \o conv_f(x, precision), x, Value(<<0>> \o s), -Len(s))
    <3>1. <<0>> \in Seq(Cipher) /\ <<0>> # <<>> /\ TRUE \in BOOLEAN
      BY <1>1, ZeroFirst
    <3>2. Says(sign \o (Chars(<<0>>) \o If(TRUE, <<Dot>>) \o Chars(s)), x, Value(<<0>> \o s), -Len(s))
      BY <1>1, <3>1, PlainText DEF sign
    <3> QED
      BY <2>3, <3>2
  <2>5. Len(s) - p = Len(s) /\ Value(<<0>> \o s) = Value(s)
    <3>1. Len(s) \in Nat
      BY <1>1
    <3>2. Value(<<0>> \o s) = Value(s)
      BY <1>1, ZeroFirst
    <3> QED
      BY <1>4, <3>1, <3>2
  <2> QED
    BY <2>4, <2>5 DEF s, p, m, sign
<1>5. CASE p # 0
  <2>1. p \in 0..Len(s) /\ p > 0 /\ ~(p <= 0)
    BY <1>1, <1>5
  <2>2. /\ front \in Seq(Cipher) /\ front # <<>>
        /\ decimals \in Seq(Cipher) /\ Len(decimals) = Len(s) - p
        /\ Value(front \o decimals) = Value(s)
    BY <1>1, <2>1, FrontAndBack
  <2> HIDE DEF front, decimals
  <2>3. conv_f(x, precision) = Chars(front) \o If(TRUE, <<Dot>>) \o Chars(decimals)
    BY <1>2, <1>3, <2>1
  <2>4. Says(sign \o conv_f(x, precision), x, Value(front \o decimals), -Len(decimals))
    <3>1. TRUE \in BOOLEAN
      OBVIOUS
    <3>2. Says(sign \o (Chars(front) \o If(TRUE, <<Dot>>) \o Chars(decimals)),
               x, Value(front \o decimals), -Len(decimals))
      BY <2>2, <3>1, PlainText DEF sign
    <3> QED
      BY <2>3, <3>2
  <2> QED
    BY <2>2, <2>4 DEF s, p, m, sign
<1> QED
  BY <1>4, <1>5

LEMMA conv_10Is ==
  ASSUME NEW n \in Nat
  PROVE  conv_10(n) \in Seq(Cipher) /\ Value(conv_10(n)) = n
<1>1. CASE n = 0
  <2>1. conv_10(n) = <<0>>
    BY <1>1 DEF conv_10
  <2>2. <<>> \in Seq(Cipher)
    OBVIOUS
  <2>3. <<0>> \in Seq(Cipher) /\ Value(<<0>> \o <<>>) = Value(<<>>) /\ Value(<<>>) = 0
    BY <2>2, ZeroFirst, ValueIs
  <2>4. <<0>> \o <<>> = <<0>>
    OBVIOUS
  <2> QED
    BY <1>1, <2>1, <2>3, <2>4
<1>2. CASE n # 0
  <2>1. conv_10(n) = Decimal[n]
    BY <1>2 DEF conv_10
  <2> QED
    BY <2>1, DecimalValue
<1> QED
  BY <1>1, <1>2

(* %e: one digit, the others after the point, and the exponent.             *)
LEMMA TextOfE ==
  ASSUME NEW x \in Floats, NEW precision \in Nat
  PROVE  LET m == pcc_cvt(x, precision + 1, TRUE)
         IN Says(If(x.num < 0, <<Minus>>) \o conv_e(x, precision),
                 x, Value(m.digits), m.point - Len(m.digits))
<1> DEFINE
      m == pcc_cvt(x, precision + 1, TRUE)
      s == m.digits
      p == m.point
      e == p - 1
      digits == conv_10(Magnitude(e))
      z == If(Len(digits) = 1, <<0>>)
      sign == If(x.num < 0, <<Minus>>)
      first == <<s[1]>>
      rest == Tail(s)
      dot == precision > 0
<1>1. s \in Seq(Cipher) /\ Len(s) = Capped(precision + 1) /\ Len(s) > 0 /\ p \in Int
  <2>1. precision + 1 \in Nat /\ precision + 1 > 0
    OBVIOUS
  <2> DEFINE k == precision + 1
  <2>2. k \in Nat /\ k > 0
    BY <2>1
  <2> HIDE DEF k
  <2>3. LET y == pcc_cvt(x, k, TRUE)
        IN y.digits \in Seq(Cipher) /\ Len(y.digits) = Capped(k) /\ Capped(k) > 0 /\ y.point \in Int
    BY <2>2, CvtE
  <2> QED
    BY <2>3 DEF k
<1>2. conv_e(x, precision) =
      Chars(<<s[1]>>) \o If(dot, <<Dot>>) \o Chars(Tail(s)) \o Exponent(e, z \o digits)
  BY DEF conv_e
<1>3. dot \/ Len(s) = 1
  <2>1. CASE precision = 0
    <3>1. Capped(precision + 1) = 1
      BY <2>1, TextAssumption DEF Capped
    <3> HIDE DEF s
    <3> QED
      BY <1>1, <3>1
  <2>2. CASE precision # 0
    <3> HIDE DEF m, s, p, sign, digits, first, rest
    <3> QED
      BY <2>2
  <2> QED
    BY <2>1, <2>2
<1> HIDE DEF m, s, p, sign
<1>4. first \in Seq(Cipher) /\ rest \in Seq(Cipher) /\ Len(rest) = Len(s) - 1
      /\ Value(first \o rest) = Value(s) /\ first # <<>> /\ s # <<>>
  <2>1. s # <<>>
    BY <1>1
  <2>2. first # <<>>
    OBVIOUS
  <2> QED
    BY <1>1, <2>1, <2>2, FirstAndTail
<1>5. dot \/ rest = <<>>
  <2>1. Len(s) = 1 => Len(rest) = 0
    BY <1>4
  <2> HIDE DEF rest
  <2> QED
    BY <1>3, <1>4, <2>1
<1>6. e \in Int /\ Magnitude(e) \in Nat
  BY <1>1 DEF Magnitude
<1> HIDE DEF e
<1>7. digits \in Seq(Cipher) /\ Value(digits) = Magnitude(e)
  BY <1>6, conv_10Is
<1> HIDE DEF digits
<1>8. z \o digits \in Seq(Cipher) /\ Value(z \o digits) = Magnitude(e)
  <2>1. CASE Len(digits) = 1
    <3>1. z = <<0>>
      BY <2>1 DEF If
    <3> QED
      BY <1>7, <3>1, ZeroFirst
  <2>2. CASE Len(digits) # 1
    <3>1. z = <<>>
      BY <2>2 DEF If
    <3>2. <<>> \o digits = digits
      BY <1>7
    <3> QED
      BY <1>7, <3>1, <3>2
  <2> QED
    BY <2>1, <2>2
<1> HIDE DEF first, rest, z
<1> DEFINE d == z \o digits
<1>9. d \in Seq(Cipher) /\ Value(d) = Magnitude(e) /\ dot \in BOOLEAN
  BY <1>8
<1> HIDE DEF d, dot
<1>10. Says(sign \o (Chars(first) \o If(dot, <<Dot>>) \o Chars(rest) \o Exponent(e, d)),
            x, Value(first \o rest), e - Len(rest))
  BY <1>4, <1>5, <1>6, <1>9, ScientificText DEF sign
<1>11. e - Len(rest) = p - Len(s)
  <2>1. Len(s) \in Nat
    BY <1>1
  <2> QED
    BY <1>1, <1>4, <2>1 DEF e
<1>12. conv_e(x, precision) = Chars(first) \o If(dot, <<Dot>>) \o Chars(rest) \o Exponent(e, d)
  BY <1>2 DEF first, rest, d
<1>13. Says(sign \o conv_e(x, precision), x, Value(s), p - Len(s))
  BY <1>4, <1>10, <1>11, <1>12
<1> QED
  BY <1>13 DEF sign, s, p, m

(* The digits without the zeros at their end, which is what is shown: a     *)
(* text may put some of the zeros back.                                     *)
Shortened(s, u, used) ==
    /\ used \in 1..Len(s) /\ u = SubSeq(s, 1, used)
    /\ u \in Seq(Cipher) /\ Len(u) = used /\ u # <<>> /\ u[1] = s[1]
    /\ Value(s) = Value(u) * Ten[Len(s) - used]

LEMMA UsedIs ==
  ASSUME NEW s \in Seq(Cipher), s # <<>>
  PROVE  LET used == CHOOSE k \in 1..Len(s) :
                        /\ \A i \in (k + 1)..Len(s) : s[i] = 0
                        /\ k = 1 \/ s[k] # 0
         IN Shortened(s, SubSeq(s, 1, used), used)
<1> DEFINE
      l == Len(s)
      Used(k) == (\A i \in (k + 1)..l : s[i] = 0) /\ (k = 1 \/ s[k] # 0)
      used == CHOOSE k \in 1..l : Used(k)
      u == SubSeq(s, 1, used)
      b == SubSeq(s, used + 1, l)
      z == Zeros(l - used)
<1>1. l \in Nat /\ l >= 1
  OBVIOUS
<1>2. \E k \in 1..l : Used(k)
  <2>1. PICK j \in 0..l : (\A i \in (j + 1)..l : s[i] = 0) /\ (j = 0 \/ s[j] # 0)
    BY LastOther
  <2> HIDE DEF l
  <2>2. CASE j = 0
    <3>1. 1 \in 1..l /\ \A i \in (1 + 1)..l : i \in (j + 1)..l
      BY <1>1, <2>2
    <3>2. Used(1)
      BY <2>1, <3>1
    <3> HIDE DEF Used
    <3> QED
      BY <3>1, <3>2
  <2>3. CASE j # 0
    <3>1. j \in 1..l /\ Used(j)
      BY <1>1, <2>1, <2>3
    <3> HIDE DEF Used
    <3> QED
      BY <3>1
  <2> QED
    BY <2>2, <2>3
<1>3. used \in 1..l /\ Used(used)
  <2> HIDE DEF Used, l
  <2> QED
    BY <1>2
<1>4. used \in 1..l /\ \A i \in (used + 1)..l : s[i] = 0
  BY <1>3
<1> HIDE DEF used, Used
<1>5. /\ u \in Seq(Cipher) /\ Len(u) = used /\ \A i \in 1..used : u[i] = s[i]
      /\ b \in Seq(Cipher) /\ Len(b) = l - used /\ \A i \in 1..(l - used) : b[i] = s[used + i]
      /\ s = u \o b
  <2>1. used \in 0..Len(s)
    BY <1>4
  <2> QED
    BY <2>1, PrefixIs
<1>6. z \in Seq(Cipher) /\ Len(z) = l - used /\ Value(z) = 0 /\ \A i \in 1..(l - used) : z[i] = 0
  <2> DEFINE n == l - used
  <2>1. n \in Int /\ (n > 0 \/ n = 0)
    BY <1>1, <1>4
  <2> HIDE DEF n
  <2>2. /\ Zeros(n) \in Seq(Cipher) /\ Len(Zeros(n)) = n /\ Value(Zeros(n)) = 0
        /\ \A i \in 1..n : Zeros(n)[i] = 0
    BY <2>1, ZerosAre
  <2> QED
    BY <2>2 DEF n
<1> HIDE DEF u, b, z, l
<1>7. b = z
  <2>1. \A i \in 1..(l - used) : used + i \in (used + 1)..l
    BY <1>1, <1>4
  <2>2. \A i \in 1..Len(b) : b[i] = z[i]
    BY <1>4, <1>5, <1>6, <2>1
  <2> QED
    BY <1>5, <1>6, <2>2, SameSequence
<1>8. Value(s) = Value(u) * Ten[l - used]
  <2>1. Value(u \o b) = (Value(u) * Ten[Len(b)]) + Value(b)
    BY <1>5, ValueConcat
  <2>2. l - used \in Nat
    BY <1>1, <1>4
  <2>3. Ten[l - used] \in Nat /\ Value(u) \in Nat
    BY <1>5, <2>2, TenIs, ValueIs
  <2> QED
    BY <1>5, <1>6, <1>7, <2>1, <2>3
<1>9. u # <<>> /\ u[1] = s[1]
  <2>1. 1 \in 1..used /\ Len(u) # 0
    BY <1>4, <1>5
  <2> QED
    BY <1>5, <2>1
<1> QED
  BY <1>4, <1>5, <1>8, <1>9 DEF Shortened, u, l, used, Used

(* u with the zeros that are shown, j of them, at the scale they are shown  *)
(* at.                                                                      *)
Shows(t, x, u, point) ==
    \E j \in Nat : Says(t, x, Value(u) * Ten[j], point - (Len(u) + j))

LEMMA NoZeros ==
  ASSUME NEW t, NEW x, NEW u \in Seq(Cipher), NEW point \in Int, NEW scale,
         Says(t, x, Value(u), scale), scale = point - Len(u)
  PROVE  Shows(t, x, u, point)
<1>1. Ten[0] = 1 /\ Value(u) \in Nat /\ Len(u) \in Nat
  BY TenIs, ValueIs
<1>2. Value(u) * Ten[0] = Value(u) /\ point - (Len(u) + 0) = scale /\ 0 \in Nat
  BY <1>1
<1>3. Says(t, x, Value(u) * Ten[0], point - (Len(u) + 0))
  BY <1>2
<1> QED
  BY <1>2, <1>3 DEF Shows

LEMMA TwoCodes ==
  ASSUME NEW c \in Codes, NEW d \in Codes
  PROVE  <<c>> \o <<d>> = <<c, d>>
<1> DEFINE
      q == <<c>>
      y == <<d>>
      w == <<c, d>>
      z == q \o y
<1>1. q \in Seq(Codes) /\ y \in Seq(Codes)
  OBVIOUS
<1>2. Len(q) = 1 /\ q[1] = c /\ Len(y) = 1 /\ y[1] = d
  OBVIOUS
<1>3. w \in Seq(Codes) /\ Len(w) = 2 /\ w[1] = c /\ w[2] = d
  OBVIOUS
<1> HIDE DEF q, y, w
<1>4. /\ z \in Seq(Codes) /\ Len(z) = Len(q) + Len(y)
      /\ \A i \in 1..Len(q) : z[i] = q[i]
      /\ \A i \in 1..Len(y) : z[Len(q) + i] = y[i]
  BY <1>1, ConcatIs
<1> HIDE DEF z
<1>5. Len(z) = 2 /\ z[1] = c /\ z[2] = d
  <2>1. 1 \in 1..1 /\ 1 + 1 = 2
    OBVIOUS
  <2> QED
    BY <1>2, <1>4, <2>1
<1>6. \A i \in 1..Len(z) : z[i] = w[i]
  <2>1. \A i \in 1..2 : i = 1 \/ i = 2
    OBVIOUS
  <2> QED
    BY <1>3, <1>5, <2>1
<1>7. z = w
  BY <1>3, <1>4, <1>5, <1>6, SameSequence
<1> QED
  BY <1>7 DEF z, w, q, y

(* A text without a point.                                                  *)
LEMMA WholeText ==
  ASSUME NEW x \in Floats, NEW a \in Seq(Cipher), a # <<>>
  PROVE  Says(If(x.num < 0, <<Minus>>) \o Chars(a), x, Value(a), 0)
<1> DEFINE
      t == Chars(a) \o If(FALSE, <<Dot>>) \o Chars(<<>>)
      b == <<>>
      j == -Len(b)
<1>1. b \in Seq(Cipher) /\ Len(b) = 0 /\ a \o b = a /\ FALSE \in BOOLEAN /\ (FALSE \/ b = <<>>)
  OBVIOUS
<1>2. t = Chars(a)
  <2>1. If(FALSE, <<Dot>>) = <<>> /\ Chars(<<>>) = <<>>
    BY DEF If, Chars
  <2>2. Chars(a) \in Seq(Codes)
    BY CharsAre
  <2> DEFINE c == Chars(a)
  <2>3. c \in Seq(Codes)
    BY <2>2
  <2> HIDE DEF c
  <2>4. (c \o <<>>) \o <<>> = c
    BY <2>3
  <2> QED
    BY <2>1, <2>4 DEF c
<1>3. j + Len(b) = 0 /\ j \in Int
  <2> HIDE DEF b
  <2>1. Len(b) \in Nat
    BY <1>1
  <2> QED
    BY <2>1
<1>4. Says(If(x.num < 0, <<Minus>>) \o t, x, Value(a \o b), j)
  <2> HIDE DEF b
  <2>1. Chars(b) = Chars(<<>>)
    BY DEF b
  <2>2. Says(If(x.num < 0, <<Minus>>) \o (Chars(a) \o If(FALSE, <<Dot>>) \o Chars(b)),
             x, Value(a \o b), -Len(b))
    BY <1>1, PlainText
  <2> QED
    BY <2>1, <2>2
<1> HIDE DEF t, j, b
<1>5. j = 0
  BY <1>1, <1>3
<1> QED
  BY <1>1, <1>2, <1>4, <1>5

(* The four forms of the shortest text.                                     *)
LEMMA ShortExponent ==
  ASSUME NEW x \in Floats, NEW u \in Seq(Cipher), u # <<>>, NEW point \in Int, NEW e, e = point - 1
  PROVE  Shows(If(x.num < 0, <<Minus>>) \o
                   (Chars(<<u[1]>>) \o <<Dot>> \o Chars(IF Len(u) = 1 THEN <<0>> ELSE Tail(u))
                    \o Exponent(e, conv_10(Magnitude(e)))),
               x, u, point)
<1> DEFINE
      a == <<u[1]>>
      b == IF Len(u) = 1 THEN <<0>> ELSE Tail(u)
      d == conv_10(Magnitude(e))
      t == If(x.num < 0, <<Minus>>) \o (Chars(a) \o <<Dot>> \o Chars(b) \o Exponent(e, d))
<1>1. e \in Int /\ d \in Seq(Cipher) /\ Value(d) = Magnitude(e)
  <2>1. Magnitude(e) \in Nat
    BY DEF Magnitude
  <2> QED
    BY <2>1, conv_10Is
<1>2. /\ a \in Seq(Cipher) /\ a # <<>> /\ Tail(u) \in Seq(Cipher) /\ Len(Tail(u)) = Len(u) - 1
      /\ Value(a \o Tail(u)) = Value(u)
  BY FirstAndTail
<1>3. <<0>> \in Seq(Cipher)
  BY DEF Cipher
<1>4. b \in Seq(Cipher)
  BY <1>2, <1>3
<1> HIDE DEF a, b, d
<1>5. Says(t, x, Value(a \o b), e - Len(b))
  <2>1. TRUE \in BOOLEAN /\ (TRUE \/ b = <<>>) /\ If(TRUE, <<Dot>>) = <<Dot>>
    BY DEF If
  <2>2. Says(If(x.num < 0, <<Minus>>) \o (Chars(a) \o If(TRUE, <<Dot>>) \o Chars(b) \o Exponent(e, d)),
             x, Value(a \o b), e - Len(b))
    BY <1>1, <1>2, <1>4, <2>1, ScientificText
  <2> QED
    BY <2>1, <2>2
<1> HIDE DEF t
<1>6. CASE Len(u) = 1
  <2>1. b = <<0>> /\ Len(b) = 1
    BY <1>6 DEF b
  <2>2. Tail(u) = <<>> /\ a \o <<>> = a
    <3>1. Len(Tail(u)) = 0
      BY <1>2, <1>6
    <3> DEFINE y == Tail(u)
    <3>2. y \in Seq(Cipher) /\ Len(y) = 0
      BY <1>2, <3>1
    <3> HIDE DEF y
    <3>3. y = <<>>
      BY <3>2
    <3> QED
      BY <1>2, <3>3 DEF y
  <2>3. Value(a) = Value(u) /\ Value(u) \in Nat
    BY <1>2, <2>2, ValueIs
  <2>4. a \o b = Append(a, 0) /\ 0 \in Cipher
    BY <1>2, <2>1 DEF Cipher
  <2>5. Value(Append(a, 0)) = (10 * Value(a)) + 0
    BY <1>2, <2>4, ValueIs
  <2>6. Ten[1] = 10
    <3>1. 0 \in Nat /\ 0 + 1 = 1
      OBVIOUS
    <3>2. Ten[0 + 1] = 10 * Ten[0] /\ Ten[0] = 1
      BY <3>1, TenIs
    <3> QED
      BY <3>1, <3>2
  <2>7. Value(a \o b) = Value(u) * Ten[1]
    BY <2>3, <2>4, <2>5, <2>6
  <2>8. e - Len(b) = point - (Len(u) + 1)
    BY <1>6, <2>1
  <2>9. Says(t, x, Value(u) * Ten[1], point - (Len(u) + 1)) /\ 1 \in Nat
    BY <1>5, <2>7, <2>8
  <2> QED
    BY <2>9 DEF Shows, t, a, b, d
<1>7. CASE Len(u) # 1
  <2>1. b = Tail(u)
    BY <1>7 DEF b
  <2>2. Says(t, x, Value(u), e - Len(b))
    BY <1>2, <1>5, <2>1
  <2>3. e - Len(b) = point - Len(u)
    <3>1. Len(u) \in Nat
      OBVIOUS
    <3> QED
      BY <1>2, <2>1, <3>1
  <2> DEFINE scale == e - Len(b)
  <2>4. Says(t, x, Value(u), scale) /\ scale = point - Len(u)
    BY <2>2, <2>3
  <2> HIDE DEF scale
  <2>5. Shows(t, x, u, point)
    BY <2>4, NoZeros
  <2> QED
    BY <2>5 DEF t, a, b, d
<1> QED
  BY <1>6, <1>7

LEMMA ShortBelowOne ==
  ASSUME NEW x \in Floats, NEW u \in Seq(Cipher), NEW point \in Int, point <= 0
  PROVE  Shows(If(x.num < 0, <<Minus>>) \o (<<Char(0), Dot>> \o Chars(Zeros(-point) \o u)), x, u, point)
<1> DEFINE
      z == Zeros(-point)
      b == z \o u
      t == If(x.num < 0, <<Minus>>) \o (<<Char(0), Dot>> \o Chars(b))
<1>1. z \in Seq(Cipher) /\ Len(z) = -point /\ Value(z) = 0
  <2> DEFINE n == -point
  <2>1. n \in Int /\ (n > 0 \/ n = 0)
    OBVIOUS
  <2> HIDE DEF n
  <2>2. Zeros(n) \in Seq(Cipher) /\ Len(Zeros(n)) = n /\ Value(Zeros(n)) = 0
    BY <2>1, ZerosAre
  <2> QED
    BY <2>2 DEF n
<1>2. Len(u) \in Nat
  OBVIOUS
<1> HIDE DEF z
<1>3. b \in Seq(Cipher) /\ Len(b) = -point + Len(u)
  <2>1. b \in Seq(Cipher) /\ Len(b) = Len(z) + Len(u)
    BY <1>1, ConcatIs
  <2> QED
    BY <1>1, <2>1
<1>4. Value(b) = Value(u)
  <2>1. Value(z \o u) = (Value(z) * Ten[Len(u)]) + Value(u)
    BY <1>1, ValueConcat
  <2>2. Ten[Len(u)] \in Nat /\ Value(u) \in Nat
    BY <1>2, TenIs, ValueIs
  <2> QED
    BY <1>1, <2>1, <2>2
<1> HIDE DEF b
<1>5. <<Char(0), Dot>> = Chars(<<0>>) \o If(TRUE, <<Dot>>)
  <2>1. Chars(<<0>>) = <<Char(0)>>
    BY ZeroFirst
  <2>2. If(TRUE, <<Dot>>) = <<Dot>>
    BY DEF If
  <2>3. <<Char(0)>> \o <<Dot>> = <<Char(0), Dot>>
    <3>1. Char(0) \in Codes /\ Dot \in Codes
      BY DEF Codes, Char
    <3> QED
      BY <3>1, TwoCodes
  <2> QED
    BY <2>1, <2>2, <2>3
<1>6. Says(t, x, Value(<<0>> \o b), -Len(b))
  <2>1. <<0>> \in Seq(Cipher) /\ <<0>> # <<>> /\ TRUE \in BOOLEAN /\ (TRUE \/ b = <<>>)
    BY <1>3, ZeroFirst
  <2>2. Says(If(x.num < 0, <<Minus>>) \o (Chars(<<0>>) \o If(TRUE, <<Dot>>) \o Chars(b)),
             x, Value(<<0>> \o b), -Len(b))
    BY <1>3, <2>1, PlainText
  <2> QED
    BY <1>5, <2>2
<1>7. Value(<<0>> \o b) = Value(u)
  BY <1>3, <1>4, ZeroFirst
<1>8. -Len(b) = point - Len(u)
  BY <1>2, <1>3
<1> HIDE DEF t
<1> DEFINE scale == -Len(b)
<1>9. Says(t, x, Value(u), scale) /\ scale = point - Len(u)
  BY <1>6, <1>7, <1>8
<1> HIDE DEF scale
<1>10. Shows(t, x, u, point)
  BY <1>9, NoZeros
<1> QED
  BY <1>10 DEF t, b, z

LEMMA ShortFromOne ==
  ASSUME NEW x \in Floats, NEW u \in Seq(Cipher), u # <<>>, NEW point \in Int, point > 0
  PROVE  Shows(If(x.num < 0, <<Minus>>) \o
                   (Chars(SubSeq(u \o Zeros(point), 1, point))
                    \o If(Len(u) > point, <<Dot>> \o Chars(SubSeq(u, point + 1, Len(u))))),
               x, u, point)
<1> DEFINE
      l == Len(u)
      z == Zeros(point)
      front == SubSeq(u \o z, 1, point)
      b == SubSeq(u, point + 1, l)
      sign == If(x.num < 0, <<Minus>>)
      t == Chars(front) \o If(l > point, <<Dot>> \o Chars(b))
<1>1. z \in Seq(Cipher) /\ Len(z) = point /\ l \in Nat /\ l >= 1 /\ point \in Nat
  <2>1. point \in Nat
    OBVIOUS
  <2> QED
    BY <2>1, ZerosAre
<1>2. point \in 0..Len(u \o z)
  <2>1. Len(u \o z) = l + point
    BY <1>1
  <2> HIDE DEF l, z
  <2> QED
    BY <1>1, <2>1
<1>3. CASE l > point
  <2>1. front = SubSeq(u, 1, point)
    <3>1. point <= Len(u)
      BY <1>1, <1>3
    <3> HIDE DEF z
    <3> QED
      BY <1>1, <1>2, <3>1, PrefixOfConcat
  <2>2. point \in 0..Len(u)
    BY <1>1, <1>3
  <2>3. /\ SubSeq(u, 1, point) \in Seq(Cipher) /\ SubSeq(u, 1, point) # <<>>
        /\ b \in Seq(Cipher) /\ Len(b) = l - point
        /\ Value(SubSeq(u, 1, point) \o b) = Value(u)
    BY <2>2, FrontAndBack
  <2> HIDE DEF front, b, l, sign
  <2>4. front \in Seq(Cipher) /\ front # <<>> /\ Value(front \o b) = Value(u)
    BY <2>1, <2>3
  <2>5. t = Chars(front) \o If(TRUE, <<Dot>>) \o Chars(b)
    <3> DEFINE
          c == Chars(front)
          d == <<Dot>>
          y == Chars(b)
    <3>1. c \in Seq(Codes) /\ y \in Seq(Codes) /\ d \in Seq(Codes)
      <4>1. d \in Seq(Codes)
        BY DEF Codes
      <4>2. c \in Seq(Codes) /\ y \in Seq(Codes)
        BY <2>3, <2>4, CharsAre
      <4> QED
        BY <4>1, <4>2
    <3>2. t = c \o (d \o y) /\ If(TRUE, <<Dot>>) = d
      BY <1>3 DEF If
    <3> HIDE DEF c, d, y, t
    <3>3. (c \o d) \o y = c \o (d \o y)
      BY <3>1, ConcatAssociative
    <3> QED
      BY <3>2, <3>3 DEF c, d, y
  <2> HIDE DEF t
  <2>6. Says(sign \o t, x, Value(u), -Len(b))
    <3>1. TRUE \in BOOLEAN /\ (TRUE \/ b = <<>>)
      OBVIOUS
    <3>2. Says(sign \o (Chars(front) \o If(TRUE, <<Dot>>) \o Chars(b)), x, Value(front \o b), -Len(b))
      BY <2>3, <2>4, <3>1, PlainText DEF sign
    <3> QED
      BY <2>4, <2>5, <3>2
  <2> DEFINE
        scale == -Len(b)
        w == sign \o t
  <2>7. scale = point - Len(u)
    BY <1>1, <2>3 DEF l
  <2>8. Says(w, x, Value(u), scale)
    BY <2>6
  <2> HIDE DEF scale, w
  <2>9. Shows(w, x, u, point)
    BY <2>7, <2>8, NoZeros
  <2> QED
    BY <2>9 DEF w, sign, t, front, b, l
<1>4. CASE ~(l > point)
  <2> DEFINE
        j == point - l
        y == Zeros(j)
  <2>1. j \in Nat
    BY <1>1, <1>4
  <2>2. y \in Seq(Cipher) /\ Len(y) = j /\ Value(y) = 0
    <3> HIDE DEF j
    <3>1. j \in Int /\ (j > 0 \/ j = 0)
      BY <2>1
    <3> QED
      BY <3>1, ZerosAre
  <2>3. front = u \o y
    <3>1. front = u \o SubSeq(z, 1, j)
      <4>1. point >= Len(u)
        BY <1>1, <1>4
      <4> HIDE DEF z
      <4> QED
        BY <1>1, <1>2, <4>1, PrefixOfConcat
    <3>2. SubSeq(z, 1, j) = y
      <4> DEFINE q == SubSeq(z, 1, j)
      <4>1. j \in 0..Len(z)
        BY <1>1, <2>1
      <4>2. q \in Seq(Cipher) /\ Len(q) = j /\ \A i \in 1..j : q[i] = z[i]
        <5> HIDE DEF z, j
        <5> QED
          BY <1>1, <4>1, PrefixIs
      <4>3. \A i \in 1..j : z[i] = 0 /\ y[i] = 0
        BY <1>1, <2>1 DEF Zeros
      <4> HIDE DEF q, y, z, j
      <4>4. \A i \in 1..Len(q) : q[i] = y[i]
        BY <4>2, <4>3
      <4>5. q = y
        BY <2>2, <4>2, <4>4, SameSequence
      <4> QED
        BY <4>5 DEF q
    <3> QED
      BY <3>1, <3>2
  <2> HIDE DEF front, y, z, sign
  <2>4. front \in Seq(Cipher) /\ front # <<>> /\ Value(front) = Value(u) * Ten[j]
    <3> HIDE DEF j
    <3>1. u \o y \in Seq(Cipher) /\ u \o y # <<>>
      <4>1. u \o y \in Seq(Cipher) /\ Len(u \o y) = Len(u) + Len(y)
        BY <2>2, ConcatIs
      <4>2. Len(u \o y) # 0
        BY <1>1, <2>1, <2>2, <4>1
      <4> QED
        BY <4>1, <4>2
    <3>2. Value(u \o y) = (Value(u) * Ten[j]) + 0
      BY <2>2, ValueConcat
    <3>3. Value(u) \in Nat /\ Ten[j] \in Nat
      BY <2>1, TenIs, ValueIs
    <3> QED
      BY <2>3, <3>1, <3>2, <3>3
  <2>5. t = Chars(front)
    <3>1. If(l > point, <<Dot>> \o Chars(b)) = <<>>
      BY <1>4 DEF If
    <3>2. Chars(front) \in Seq(Codes)
      BY <2>4, CharsAre
    <3> DEFINE c == Chars(front)
    <3>3. c \in Seq(Codes) /\ t = c \o <<>>
      BY <3>1, <3>2
    <3> HIDE DEF c, t
    <3>4. c \o <<>> = c
      BY <3>3
    <3> QED
      BY <3>3, <3>4 DEF c
  <2> HIDE DEF t
  <2>6. Says(sign \o t, x, Value(u) * Ten[j], 0)
    <3>1. Says(sign \o Chars(front), x, Value(front), 0)
      BY <2>4, WholeText DEF sign
    <3> QED
      BY <2>4, <2>5, <3>1
  <2>7. point - (Len(u) + j) = 0
    BY <1>1
  <2> HIDE DEF j
  <2>8. Says(sign \o t, x, Value(u) * Ten[j], point - (Len(u) + j))
    BY <2>6, <2>7
  <2> QED
    BY <2>1, <2>8 DEF Shows, sign, t, front, z, b, l
<1> QED
  BY <1>3, <1>4

LEMMA TextOfG ==
  ASSUME NEW x \in Floats, NEW ndigit \in Nat, ndigit > 0
  PROVE  LET m == pcc_cvt(x, Capped(ndigit), TRUE)
             t == If(x.num < 0, <<Minus>>) \o pcc_gcvt(x, ndigit)
         IN \E used \in Nat, u \in Seq(Cipher) :
               /\ Shortened(m.digits, u, used)
               /\ \/ Shows(t, x, u, m.point)
                  \/ Value(u) = 0 /\ u = <<0>> /\ Says(t, x, 0, 0)
<1> DEFINE
      m == pcc_cvt(x, Capped(ndigit), TRUE)
      sign == If(x.num < 0, <<Minus>>)
      s == m.digits
      point == m.point
      used == CHOOSE k \in 1..Len(s) : (\A i \in (k + 1)..Len(s) : s[i] = 0) /\ (k = 1 \/ s[k] # 0)
      u == SubSeq(s, 1, used)
      e == point - 1
      front == SubSeq(u \o Zeros(point), 1, point)
      b == SubSeq(u, point + 1, used)
      t1 == Chars(<<u[1]>>) \o <<Dot>> \o Chars(IF used = 1 THEN <<0>> ELSE Tail(u))
            \o Exponent(e, conv_10(Magnitude(e)))
      t2 == Chars(u)
      t3 == <<Char(0), Dot>> \o Chars(Zeros(-point) \o u)
      t4 == Chars(front) \o If(used > point, <<Dot>> \o Chars(b))
      t == pcc_gcvt(x, ndigit)
<1>1. s \in Seq(Cipher) /\ s # <<>> /\ point \in Int
  <2> DEFINE k == Capped(ndigit)
  <2>1. k \in Nat /\ k > 0
    BY CappedIs
  <2> HIDE DEF k
  <2>2. LET y == pcc_cvt(x, k, TRUE)
        IN y.digits \in Seq(Cipher) /\ Len(y.digits) = Capped(k) /\ Capped(k) > 0 /\ y.point \in Int
    BY <2>1, CvtE
  <2>3. s \in Seq(Cipher) /\ Len(s) > 0 /\ point \in Int
    BY <2>2 DEF k
  <2> HIDE DEF m, s, point, used, u, e, front, b, t1, t2, t3, t4, t, sign
  <2>4. s # <<>>
    BY <2>3
  <2> QED
    BY <2>3, <2>4
<1>2. t = IF (point >= 0 /\ point - used > 4) \/ point < -3 THEN t1
          ELSE IF u = <<0>> THEN t2
          ELSE IF point <= 0 THEN t3
          ELSE t4
  BY DEF pcc_gcvt
<1> HIDE DEF m, s, point
<1>3. Shortened(s, u, used)
  BY <1>1, UsedIs
<1> HIDE DEF used, u
<1>4. used \in Nat /\ u \in Seq(Cipher) /\ Len(u) = used /\ u # <<>>
  BY <1>1, <1>3 DEF Shortened
<1>5. Shows(sign \o t1, x, u, point)
  <2>1. t1 = Chars(<<u[1]>>) \o <<Dot>> \o Chars(IF Len(u) = 1 THEN <<0>> ELSE Tail(u))
             \o Exponent(e, conv_10(Magnitude(e)))
    BY <1>4
  <2>2. e = point - 1
    OBVIOUS
  <2> HIDE DEF e
  <2>3. Shows(sign \o (Chars(<<u[1]>>) \o <<Dot>> \o Chars(IF Len(u) = 1 THEN <<0>> ELSE Tail(u))
                       \o Exponent(e, conv_10(Magnitude(e)))), x, u, point)
    BY <1>1, <1>4, <2>2, ShortExponent
  <2> HIDE DEF t1
  <2> QED
    BY <2>1, <2>3
<1>6. ASSUME u = << 0 >> PROVE Value(u) = 0 /\ Says(sign \o t2, x, 0, 0)
  <2>1. <<>> \in Seq(Cipher) /\ <<0>> \o <<>> = <<0>>
    OBVIOUS
  <2>2. Value(<<0>>) = 0
    BY <2>1, ValueIs, ZeroFirst
  <2>3. Says(sign \o Chars(u), x, Value(u), 0)
    BY <1>4, WholeText
  <2> QED
    BY <1>6, <2>2, <2>3
<1>7. ASSUME point <= 0 PROVE Shows(sign \o t3, x, u, point)
  BY <1>1, <1>4, <1>7, ShortBelowOne
<1>8. ASSUME point > 0 PROVE Shows(sign \o t4, x, u, point)
  <2>1. t4 = Chars(SubSeq(u \o Zeros(point), 1, point))
             \o If(Len(u) > point, <<Dot>> \o Chars(SubSeq(u, point + 1, Len(u))))
    BY <1>4
  <2>2. Shows(sign \o (Chars(SubSeq(u \o Zeros(point), 1, point))
                       \o If(Len(u) > point, <<Dot>> \o Chars(SubSeq(u, point + 1, Len(u))))),
              x, u, point)
    BY <1>1, <1>4, <1>8, ShortFromOne
  <2> HIDE DEF t4
  <2> QED
    BY <2>1, <2>2
<1> HIDE DEF t, t1, t2, t3, t4, sign
<1>9. ~(point <= 0) => point > 0
  BY <1>1
<1>10. \/ Shows(sign \o t, x, u, point)
       \/ Value(u) = 0 /\ u = <<0>> /\ Says(sign \o t, x, 0, 0)
  BY <1>2, <1>5, <1>6, <1>7, <1>8, <1>9
<1> QED
  BY <1>3, <1>4, <1>10 DEF sign, t, s, point, m

(* A text with l digits, of which used are needed, of a number of n digits. *)
AsShown(u, used, j, n) ==
    /\ Len(Decimal[u * Ten[j]]) = used + j
    /\ (u * Ten[j]) * Up(n - (used + j)) = (u * Ten[n - used]) * Up((used + j) - n)

LEMMA ShownDigits ==
  ASSUME NEW u \in Nat, NEW used \in Nat, NEW j \in Nat, NEW n \in Nat, used > 0, used <= n,
         Ten[used - 1] <= u, u < Ten[used]
  PROVE  AsShown(u, used, j, n)
<1> DEFINE
      l == used + j
      v == u * Ten[j]
      k == u * Ten[n - used]
      t == Ten[j]
<1>1. l \in Nat /\ l > 0 /\ l - 1 \in Nat /\ n - used \in Nat /\ used - 1 \in Nat
      /\ l - 1 = (used - 1) + j
  OBVIOUS
<1>2. t \in Nat \ {0} /\ Ten[l] = Ten[used] * t /\ Ten[l - 1] = Ten[used - 1] * t
  <2>1. Ten[used + j] = Ten[used] * Ten[j] /\ Ten[j] \in Nat \ {0}
    BY TenIs
  <2> DEFINE i == used - 1
  <2>2. i \in Nat /\ l - 1 = i + j
    BY <1>1
  <2> HIDE DEF i, l
  <2>3. Ten[i + j] = Ten[i] * Ten[j]
    BY <2>2, TenIs
  <2> QED
    BY <2>1, <2>2, <2>3 DEF i, l
<1> HIDE DEF l, t
<1>3. v \in Nat /\ Ten[l - 1] <= v /\ v < Ten[l]
  <2> DEFINE
        a == Ten[used - 1]
        b == Ten[used]
  <2>1. a \in Nat /\ b \in Nat /\ a <= u /\ u < b
    BY <1>1, TenIs
  <2> HIDE DEF a, b
  <2>2. u * t \in Nat /\ a * t <= u * t /\ u * t < b * t
    BY <1>2, <2>1, Z3
  <2>3. v = u * t
    BY DEF t
  <2> HIDE DEF v
  <2> QED
    BY <1>2, <2>2, <2>3 DEF a, b
<1>4. Len(Decimal[v]) = l
  <2> HIDE DEF v
  <2> QED
    BY <1>1, <1>3, DecimalLength
<1>5. ASSUME n >= l PROVE v * Up(n - l) = k * Up(l - n)
  <2> DEFINE d == n - l
  <2>1. d \in Nat /\ l - n = -d /\ n - used = j + d
    BY <1>1, <1>5 DEF l
  <2> HIDE DEF d
  <2>2. Ten[j + d] = Ten[j] * Ten[d] /\ Ten[d] \in Nat
    BY <2>1, TenIs
  <2>3. Up(d) = Ten[d] /\ Up(-d) = 1
    <3>1. d \in Int /\ d >= 0 /\ -d \in Int /\ -d <= 0
      BY <2>1
    <3> QED
      BY <3>1, UpIs
  <2> DEFINE w == Ten[d]
  <2>4. w \in Nat /\ k = u * (t * w) /\ v = u * t
    BY <2>1, <2>2 DEF t
  <2> HIDE DEF w, k, v
  <2>5. (u * t) * w = (u * (t * w)) * 1
    BY <1>2, <2>4, Z3
  <2>6. v * Up(d) = k * Up(-d)
    BY <2>3, <2>4, <2>5 DEF w
  <2> QED
    BY <1>4, <2>1, <2>6 DEF v, k, l, d
<1>6. ASSUME ~(n >= l) PROVE v * Up(n - l) = k * Up(l - n)
  <2> DEFINE
        d == l - n
        i == n - used
  <2>1. d \in Nat /\ d > 0 /\ n - l = -d /\ j = i + d /\ i \in Nat
    BY <1>1, <1>6 DEF l
  <2>a. k = u * Ten[i]
    OBVIOUS
  <2> HIDE DEF d, i, k
  <2>2. Ten[i + d] = Ten[i] * Ten[d] /\ Ten[d] \in Nat /\ Ten[i] \in Nat
    BY <2>1, TenIs
  <2>3. Up(d) = Ten[d] /\ Up(-d) = 1
    <3>1. d \in Int /\ d >= 0 /\ -d \in Int /\ -d <= 0
      BY <2>1
    <3> QED
      BY <3>1, UpIs
  <2> DEFINE
        w == Ten[d]
        y == Ten[i]
  <2>4. w \in Nat /\ y \in Nat /\ k = u * y /\ v = u * (y * w)
    BY <2>1, <2>2, <2>a
  <2> HIDE DEF w, y, v
  <2>5. (u * (y * w)) * 1 = (u * y) * w
    BY <2>4, Z3
  <2>6. v * Up(-d) = k * Up(d)
    BY <2>3, <2>4, <2>5 DEF w
  <2> QED
    BY <1>4, <2>1, <2>6 DEF v, k, l, d
<1>7. v * Up(n - l) = k * Up(l - n)
  <2> HIDE DEF v, k, l
  <2> QED
    BY <1>5, <1>6
<1> QED
  BY <1>4, <1>7, Zenon DEF AsShown, l

-----------------------------------------------------------------------------
(* What the property says of one text, and the three formats.               *)
SaysRounded(x, precision, efg, text) ==
    LET read == Reading(text)
        wholes == Len(Decimal[Whole(x)])
        decimals == Capped(precision)
        significant == Capped(IF efg = 0 THEN precision + 1
                              ELSE IF precision = 0 THEN 1 ELSE precision)
        missing == significant - Len(Decimal[read.digits])
    IN /\ read.minus <=> x.num < 0
       /\ IF efg = 1
          THEN IF decimals + wholes < Ndig
               THEN read.scale = -decimals /\ read.digits = RoundedTo(x, decimals)
               ELSE read.scale = wholes + 1 - Ndig /\ read.digits = Floor(x, -read.scale)
          ELSE IF x.num = 0 THEN read.digits = 0
          ELSE /\ efg = 0 => missing = 0
               /\ read.digits * Up(missing) = RoundedTo(x, missing - read.scale) * Up(-missing)

LEMMA FormatF ==
  ASSUME NEW x \in Floats, NEW precision \in Nat, precision > 0, Whole(x) < Ten[Ndig - 1],
         NEW t, t = If(x.num < 0, <<Minus>>) \o conv_f(x, precision)
  PROVE  SaysRounded(x, precision, 1, t)
<1> DEFINE
    m == pcc_cvt(x, precision, FALSE)
    d == Len(m.digits) - m.point
    n == Capped(precision)
    l == Len(Decimal[Whole(x)])
    read == Reading(t)
<1>1. read.minus <=> x.num < 0
  BY TextOfF DEF Says
<1>2. read.digits = Value(m.digits) /\ read.scale = -d
  BY TextOfF DEF Says
<1>3. n \in Nat /\ Ndig \in Nat
  BY CappedIs
<1>4. l \in Nat
  BY WholeDigits
<1>5. /\ n + l < Ndig => d = n /\ Value(m.digits) = RoundedTo(x, n)
      /\ ~(n + l < Ndig) => d = (Ndig - 1) - l /\ Value(m.digits) = Floor(x, (Ndig - 1) - l)
  BY CvtF
<1> HIDE DEF m, n, l, read
<1>6. n + l < Ndig => read.scale = -n /\ read.digits = RoundedTo(x, n)
  <2> HIDE DEF d
  <2> QED
    BY <1>2, <1>5
<1>7. ~(n + l < Ndig) => read.scale = l + 1 - Ndig /\ read.digits = Floor(x, -read.scale)
  <2> SUFFICES ASSUME ~(n + l < Ndig) PROVE read.scale = l + 1 - Ndig /\ read.digits = Floor(x, -read.scale)
    OBVIOUS
  <2>1. d = (Ndig - 1) - l /\ Value(m.digits) = Floor(x, d)
    <3> HIDE DEF d
    <3> QED
      BY <1>5
  <2> HIDE DEF d
  <2>2. -d = l + 1 - Ndig /\ -(-d) = d
    BY <1>3, <1>4, <2>1
  <2> QED
    BY <1>2, <2>1, <2>2
<1>8. /\ Reading(t).minus <=> x.num < 0
      /\ IF Capped(precision) + Len(Decimal[Whole(x)]) < Ndig
         THEN Reading(t).scale = -Capped(precision) /\ Reading(t).digits = RoundedTo(x, Capped(precision))
         ELSE /\ Reading(t).scale = Len(Decimal[Whole(x)]) + 1 - Ndig
              /\ Reading(t).digits = Floor(x, -Reading(t).scale)
  BY <1>1, <1>6, <1>7, Zenon DEF n, l, read
<1> QED
  BY <1>8, Zenon DEF SaysRounded

LEMMA AllDigits ==
  ASSUME NEW s \in Seq(Cipher), NEW n \in Nat, n > 0, Len(s) = n, s[1] # 0,
         NEW point \in Int, NEW scale, scale = point - n
  PROVE  LET missing == n - Len(Decimal[Value(s)])
         IN /\ missing = 0 /\ -missing = 0 /\ missing - scale = n - point
            /\ Value(s) \in Nat /\ Up(missing) = 1 /\ Up(-missing) = 1
<1> DEFINE
    v == Value(s)
    missing == n - Len(Decimal[v])
<1>1. s # <<>>
  BY Len(s) # 0
<1>2. v \in Nat /\ v < Ten[n] /\ v >= Ten[n - 1]
  BY <1>1, ValueBounds
<1>3. n - 1 \in Nat
  OBVIOUS
<1>4. Ten[n - 1] \in Nat
  BY <1>3, TenIs
<1>5. Ten[n - 1] <= v
  <2> HIDE DEF v
  <2> QED
    BY <1>2, <1>4
<1>6. Len(Decimal[v]) = n
  <2> HIDE DEF v
  <2> QED
    BY <1>2, <1>5, DecimalLength
<1>7. missing = 0
  BY <1>6
<1> HIDE DEF missing
<1>8. missing \in Int /\ -missing \in Int /\ -missing = 0 /\ missing - scale = n - point
  <2>1. missing \in Int
    BY <1>7
  <2>3. missing + missing = 0
    BY <1>7
  <2>2. \A i \in Int : i + i = 0 => -i \in Int /\ -i = i /\ i - scale = n - point
    OBVIOUS
  <2> QED
    BY <1>7, <2>1, <2>2, <2>3, Zenon
<1>9. Up(missing) = 1
  BY <1>7, <1>8, UpIs
<1>10. Up(-missing) = 1
  BY <1>7, <1>8, UpIs
<1> QED
  BY <1>2, <1>7, <1>8, <1>9, <1>10 DEF missing, v

LEMMA FormatE ==
  ASSUME NEW x \in Floats, NEW precision \in Nat,
         NEW t, t = If(x.num < 0, <<Minus>>) \o conv_e(x, precision)
  PROVE  SaysRounded(x, precision, 0, t)
<1> DEFINE
    m == pcc_cvt(x, precision + 1, TRUE)
    n == Capped(precision + 1)
    read == Reading(t)
    v == Value(m.digits)
    missing == n - Len(Decimal[v])
<1>1. read.minus <=> x.num < 0
  BY TextOfE DEF Says
<1>2. read.digits = v /\ read.scale = m.point - Len(m.digits)
  BY TextOfE DEF Says
<1>3. precision + 1 \in Nat /\ precision + 1 > 0
  OBVIOUS
<1>4. /\ m.digits \in Seq(Cipher) /\ Len(m.digits) = n /\ n > 0 /\ m.point \in Int
      /\ v = RoundedTo(x, n - m.point)
      /\ x.num # 0 => m.digits[1] # 0
      /\ x.num = 0 => v = 0
  BY <1>3, CvtE
<1>5. n \in Nat
  BY <1>3, CappedIs
<1>6. ASSUME x.num # 0
      PROVE  missing = 0 /\ v * Up(missing) = RoundedTo(x, missing - read.scale) * Up(-missing)
  <2>1. /\ missing = 0 /\ -missing = 0 /\ missing - read.scale = n - m.point
        /\ v \in Nat /\ Up(missing) = 1 /\ Up(-missing) = 1
    <3>1. m.digits[1] # 0 /\ read.scale = m.point - n
      BY <1>2, <1>4, <1>6
    <3> HIDE DEF n, m, read
    <3> QED
      BY <1>4, <1>5, <3>1, AllDigits
  <2>2. v * 1 = v
    <3>1. v \in Nat
      BY <2>1
    <3> HIDE DEF v
    <3> QED
      BY <3>1
  <2> HIDE DEF v, missing, n, m, read
  <2> QED
    BY <1>4, <2>1, <2>2
<1>7. /\ Reading(t).minus <=> x.num < 0
      /\ IF x.num = 0 THEN Reading(t).digits = 0
         ELSE LET k == Capped(precision + 1) - Len(Decimal[Reading(t).digits])
              IN k = 0 /\ Reading(t).digits * Up(k) = RoundedTo(x, k - Reading(t).scale) * Up(-k)
  <2>1. Reading(t).digits = v
    BY <1>2
  <2> HIDE DEF v
  <2> QED
    BY <1>1, <1>4, <1>6, <2>1, Zenon
<1>8. 0 # 1
  OBVIOUS
<1> QED
  BY <1>7, <1>8, Zenon DEF SaysRounded

LEMMA FormatG ==
  ASSUME NEW x \in Floats, NEW precision \in Nat,
         NEW t, t = If(x.num < 0, <<Minus>>) \o pcc_gcvt(x, IF precision = 0 THEN 1 ELSE precision)
  PROVE  SaysRounded(x, precision, 2, t)
<1> DEFINE
    ndigit == IF precision = 0 THEN 1 ELSE precision
    n == Capped(ndigit)
    m == pcc_cvt(x, n, TRUE)
    read == Reading(t)
    v == read.digits
    missing == n - Len(Decimal[v])
<1>1. ndigit \in Nat /\ ndigit > 0
  OBVIOUS
<1>2. n \in Nat /\ n > 0 /\ Capped(n) = n
  <2> HIDE DEF ndigit
  <2> QED
    BY <1>1, CappedIs
<1>3. /\ m.digits \in Seq(Cipher) /\ Len(m.digits) = n /\ m.point \in Int
      /\ Value(m.digits) = RoundedTo(x, n - m.point)
      /\ x.num # 0 => m.digits[1] # 0
      /\ x.num = 0 => Value(m.digits) = 0
  <2> HIDE DEF n
  <2> QED
    BY <1>2, CvtE
<1>4. PICK used \in Nat, u \in Seq(Cipher) :
         /\ Shortened(m.digits, u, used)
         /\ \/ Shows(t, x, u, m.point)
            \/ Value(u) = 0 /\ u = <<0>> /\ Says(t, x, 0, 0)
  <2> HIDE DEF ndigit
  <2>1. n = Capped(ndigit) /\ t = If(x.num < 0, <<Minus>>) \o pcc_gcvt(x, ndigit)
    BY DEF ndigit
  <2> HIDE DEF n
  <2> QED
    BY <1>1, <2>1, TextOfG
<1> HIDE DEF m, n
<1>5. /\ used \in 1..n /\ u # <<>> /\ Len(u) = used /\ u[1] = m.digits[1]
      /\ Value(m.digits) = Value(u) * Ten[n - used]
  BY <1>3, <1>4 DEF Shortened
<1>6. Value(u) \in Nat /\ Value(u) < Ten[used] /\ (u[1] # 0 => Value(u) >= Ten[used - 1])
  BY <1>5, ValueBounds
<1>7. PICK j, scale :
         /\ j \in Nat
         /\ Says(t, x, Value(u) * Ten[j], scale)
         /\ u # <<0>> => scale = m.point - (Len(u) + j)
  <2>1. CASE Shows(t, x, u, m.point)
    BY <2>1 DEF Shows
  <2>2. CASE Value(u) = 0 /\ u = <<0>> /\ Says(t, x, 0, 0)
    <3>1. 0 \in Nat /\ Value(u) * Ten[0] = 0
      BY <2>2, TenIs
    <3> QED
      BY <2>2, <3>1, Zenon
  <2> QED
    BY <1>4, <2>1, <2>2
<1>8. (read.minus <=> x.num < 0) /\ v = Value(u) * Ten[j] /\ read.scale = scale
  BY <1>7 DEF Says
<1> HIDE DEF v, read
<1>9. ASSUME x.num = 0 PROVE v = 0
  <2>1. Ten[n - used] \in Nat \ {0} /\ Ten[j] \in Nat
    <3>1. n - used \in Nat
      BY <1>2, <1>5
    <3> QED
      BY <1>7, <3>1, TenIs
  <2> DEFINE
      a == Value(u)
      k == Ten[n - used]
  <2>2. a \in Nat /\ k \in Nat /\ k > 0 /\ a * k = 0
    BY <1>3, <1>5, <1>6, <1>9, <2>1
  <2> HIDE DEF a, k
  <2>3. a = 0
    BY <2>2, Z3
  <2>4. 0 * Ten[j] = 0
    BY <2>1
  <2> QED
    BY <1>8, <2>3, <2>4 DEF a
<1>10. ASSUME x.num # 0
       PROVE  v * Up(missing) = RoundedTo(x, missing - scale) * Up(-missing)
  <2>1. u[1] # 0 /\ u # <<0>>
    <3>1. u[1] # 0
      BY <1>3, <1>5, <1>10
    <3> QED
      BY <3>1
  <2>2. scale = m.point - (used + j)
    BY <1>5, <1>7, <2>1
  <2>3. used > 0 /\ used <= n /\ used - 1 \in Nat
    BY <1>2, <1>5
  <2>4. Ten[used - 1] <= Value(u) /\ Value(u) < Ten[used]
    <3>1. Ten[used - 1] \in Nat /\ Value(u) >= Ten[used - 1]
      BY <1>6, <2>1, <2>3, TenIs
    <3> QED
      BY <1>6, <3>1
  <2> DEFINE
      l == used + j
      w == Value(u) * Ten[j]
      k == Value(u) * Ten[n - used]
  <2>5. Len(Decimal[w]) = l /\ w * Up(n - l) = k * Up(l - n)
    <3> DEFINE a == Value(u)
    <3>1. a \in Nat /\ Ten[used - 1] <= a /\ a < Ten[used]
      BY <1>6, <2>4
    <3> HIDE DEF a
    <3>2. /\ Len(Decimal[a * Ten[j]]) = used + j
          /\ (a * Ten[j]) * Up(n - (used + j)) = (a * Ten[n - used]) * Up((used + j) - n)
      <4>1. j \in Nat /\ n \in Nat /\ used > 0 /\ used <= n
        BY <1>2, <1>7, <2>3
      <4>2. AsShown(a, used, j, n)
        BY <3>1, <4>1, ShownDigits
      <4> QED
        BY <4>2, Zenon DEF AsShown
    <3> QED
      BY <3>2, Zenon DEF a
  <2>6. l \in Nat
    BY <1>7
  <2>7. v = w /\ k = RoundedTo(x, n - m.point)
    BY <1>3, <1>5, <1>8
  <2> HIDE DEF w, k, l, v, missing
  <2>8. missing = n - l
    BY <2>5, <2>7 DEF missing
  <2>9. -missing = l - n /\ missing - scale = n - m.point
    <3> HIDE DEF l
    <3>1. scale = m.point - l
      BY <2>2 DEF l
    <3>2. m.point \in Int
      BY <1>3
    <3> QED
      BY <1>2, <2>6, <2>8, <3>1, <3>2
  <2> QED
    BY <2>5, <2>7, <2>8, <2>9
<1>11. /\ Reading(t).minus <=> x.num < 0
       /\ IF x.num = 0 THEN Reading(t).digits = 0
          ELSE LET i == Capped(IF precision = 0 THEN 1 ELSE precision) - Len(Decimal[Reading(t).digits])
               IN Reading(t).digits * Up(i) = RoundedTo(x, i - Reading(t).scale) * Up(-i)
  BY <1>8, <1>9, <1>10, Zenon DEF v, missing, n, read
<1>12. 2 # 1 /\ 2 # 0
  OBVIOUS
<1> QED
  BY <1>11, <1>12, Zenon DEF SaysRounded

LEMMA FormatsRound ==
  ASSUME NEW x \in Floats, NEW precision \in Nat, NEW efg \in 0..2,
         efg = 1 => precision > 0 /\ Whole(x) < Ten[Ndig - 1]
  PROVE  SaysRounded(x, precision, efg, phpnum_to_string(x, precision, efg))
<1>1. CASE efg = 0
  <2>1. phpnum_to_string(x, precision, efg) = If(x.num < 0, <<Minus>>) \o conv_e(x, precision)
    BY <1>1 DEF phpnum_to_string
  <2> QED
    BY <1>1, <2>1, FormatE
<1>2. CASE efg = 1
  <2>1. phpnum_to_string(x, precision, efg) = If(x.num < 0, <<Minus>>) \o conv_f(x, precision)
    BY <1>2 DEF phpnum_to_string
  <2> QED
    BY <1>2, <2>1, FormatF
<1>3. CASE efg = 2
  <2>1. phpnum_to_string(x, precision, efg) =
        If(x.num < 0, <<Minus>>) \o pcc_gcvt(x, IF precision = 0 THEN 1 ELSE precision)
    BY <1>3 DEF phpnum_to_string
  <2> QED
    BY <1>3, <2>1, FormatG
<1> QED
  BY <1>1, <1>2, <1>3

(* What was printed last is a number still without text, or with the text   *)
(* of one of the formats, which says the number rounded.                    *)
TextInv ==
    /\ printed = [x |-> printed.x, efg |-> printed.efg,
                  precision |-> printed.precision, text |-> printed.text]
    /\ printed.x \in Numbers
    /\ printed.text # <<>> => SaysRounded(printed.x, printed.precision, printed.efg, printed.text)

(* The inductive invariant of the texts of floats.                          *)
THEOREM TextInductive == TextSpec => []TextInv
<1>1. TextInit => TextInv
  BY DEF TextInit, TextInv
<1>2. TextInv /\ [TextNext]_printed => TextInv'
  <2> SUFFICES ASSUME TextInv, [TextNext]_printed PROVE TextInv'
    OBVIOUS
  <2>1. ASSUME NEW efg \in 0..2, NEW precision \in Precisions, Convert(efg, precision) PROVE TextInv'
    <3> DEFINE
        x == printed.x
        text == phpnum_to_string(x, precision, efg)
    <3>1. x \in Numbers
      BY DEF TextInv
    <3>2. x \in Floats /\ precision \in Nat
      BY <3>1, TextAssumption DEF Floats
    <3>3. SaysRounded(x, precision, efg, text)
      <4>1. efg = 1 => precision > 0 /\ Whole(x) < Ten[Ndig - 1]
        BY <2>1 DEF Convert
      <4> HIDE DEF x
      <4> QED
        BY <3>2, <4>1, FormatsRound
    <3>4. printed' = [printed EXCEPT !.efg = efg, !.precision = precision, !.text = text]
      BY <2>1 DEF Convert
    <3>5. printed' = [x |-> x, efg |-> efg, precision |-> precision, text |-> text]
      <4> HIDE DEF text
      <4> QED
        BY <3>4 DEF TextInv
    <3> HIDE DEF text
    <3>6. /\ printed'.x = x /\ printed'.efg = efg /\ printed'.precision = precision
          /\ printed'.text = text
      BY <3>5
    <3> QED
      BY <3>1, <3>3, <3>5, <3>6, Zenon DEF TextInv
  <2>2. CASE UNCHANGED printed
    BY <2>2 DEF TextInv
  <2> QED
    BY <2>1, <2>2 DEF TextNext
<1> QED
  BY <1>1, <1>2, PTL DEF TextSpec

(* The text of a float, read back, is the number rounded to the digits that *)
(* were asked for, whatever the number and the precision.                   *)
THEOREM TextsAreRounded == TextSpec => []TextIsRounded
<1>1. TextInv => TextIsRounded
  BY Zenon DEF TextInv, TextIsRounded, SaysRounded
<1> QED
  BY <1>1, TextInductive, PTL
=============================================================================
