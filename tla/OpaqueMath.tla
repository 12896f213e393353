----------------------------- MODULE OpaqueMath -----------------------------
(***************************************************************************)
(* Arithmetic of PHP numbers (opaque-math.c): longs of the machine that    *)
(* become floats when a result does not fit.  A long wraps; a float that   *)
(* is a whole number keeps the leading bits of it.  The module is a        *)
(* calculator: one operation after the other on an accumulator.            *)
(***************************************************************************)
EXTENDS Integers

CONSTANTS
    Half,           \* longs are -Half..Half-1: 2^31 or 2^63
    Mant,           \* floats hold whole numbers up to this exactly: 2^53
    OverflowFlag,   \* the multiplication of i386, which looks at the flag
    Operands,       \* the longs that are typed in
    MaxFloat        \* bound: larger results are not calculated with

ASSUME MathAssumption ==
    /\ Half \in Nat \ {0, 1} /\ Mant \in Nat \ {0}
    /\ OverflowFlag \in BOOLEAN
    /\ Operands \subseteq -Half..(Half - 1)
    /\ MaxFloat \in Nat

VARIABLES
    acc,        \* the accumulator
    last        \* the operation it comes from, with its operands

math == <<acc, last>>

LongMin == -Half
LongMax == Half - 1
Longs == LongMin..LongMax

Abs(x) == IF x < 0 THEN -x ELSE x

(* How the machine stores a sum that does not fit.                          *)
Wrap(x) == ((x + Half) % (2 * Half)) - Half

(* The float nearest to a whole number, of two the even one.                *)
Spacing(x) ==
    2 ^ (CHOOSE e \in 0..Abs(x) :
            /\ Abs(x) <= Mant * 2 ^ e
            /\ e > 0 => Abs(x) > Mant * 2 ^ (e - 1))

Nearest(x) ==
    IF Abs(x) <= Mant THEN x
    ELSE LET u == Spacing(x)
             q == x \div u
             r == 2 * (x % u)
         IN IF r < u \/ (r = u /\ q % 2 = 0) THEN q * u ELSE (q + 1) * u

(* Values: a float is a whole number or a fraction of two.                  *)
Long(x) == [is |-> "long", n |-> x, d |-> 1]
Float(x) == [is |-> "float", n |-> Nearest(x), d |-> 1]
Fraction(x, y) == [is |-> "float", n |-> Nearest(x), d |-> Nearest(y)]
Trap == [is |-> "trap", n |-> 0, d |-> 1]       \* SIGFPE

IsLong(v) == v.is = "long"
BothLong(a, b) == IsLong(a) /\ IsLong(b)
AsFloat(v) == Nearest(v.n)

-----------------------------------------------------------------------------
(* phpadd and phpsub look at the sign bits of the operands and of what the  *)
(* machine made of them.  Mutant: the sign of one operand only.              *)
Signed(x) == x < 0

PhpAddOneSign(a, b) ==
    LET lval == Wrap(a.n + b.n)
    IN IF ~BothLong(a, b) THEN Float(AsFloat(a) + AsFloat(b))
       ELSE IF Signed(a.n) # Signed(lval) THEN Float(AsFloat(a) + AsFloat(b))
       ELSE Long(lval)

PhpAdd(a, b) ==
    LET lval == Wrap(a.n + b.n)
    IN IF ~BothLong(a, b) THEN Float(AsFloat(a) + AsFloat(b))
       ELSE IF Signed(a.n) = Signed(b.n) /\ Signed(a.n) # Signed(lval)
            THEN Float(AsFloat(a) + AsFloat(b))
            ELSE Long(lval)

PhpSub(a, b) ==
    LET lval == Wrap(a.n - b.n)
    IN IF ~BothLong(a, b) THEN Float(AsFloat(a) - AsFloat(b))
       ELSE IF Signed(a.n) # Signed(b.n) /\ Signed(a.n) # Signed(lval)
            THEN Float(AsFloat(a) - AsFloat(b))
            ELSE Long(lval)

(* FAST_LONG_MULTIPLY: the flag of the processor, or the product as a float *)
(* against the bounds as floats.                                            *)
PhpMul(a, b) ==
    LET product == Nearest(AsFloat(a) * AsFloat(b))
        tooBig == IF OverflowFlag THEN a.n * b.n \notin Longs
                  ELSE product >= Nearest(LongMax) \/ product <= Nearest(LongMin)
    IN IF ~BothLong(a, b) \/ tooBig THEN Float(AsFloat(a) * AsFloat(b))
       ELSE Long(Wrap(a.n * b.n))

(* C's / and %, towards zero.  The least long by -1 does not fit: a trap.   *)
Quotient(x, y) ==
    IF (x < 0) = (y < 0) THEN Abs(x) \div Abs(y) ELSE -(Abs(x) \div Abs(y))
Remainder(x, y) == x - y * Quotient(x, y)
Traps(x, y) == x = LongMin /\ y = -1

PhpDiv(a, b) ==
    IF BothLong(a, b) /\ Traps(a.n, b.n) THEN Trap
    ELSE IF BothLong(a, b) /\ Remainder(a.n, b.n) = 0 THEN Long(Quotient(a.n, b.n))
    ELSE IF Remainder(AsFloat(a), AsFloat(b)) = 0 THEN Float(Quotient(AsFloat(a), AsFloat(b)))
    ELSE Fraction(AsFloat(a), AsFloat(b))

(* phpnum_to_long: what is too big goes by way of an unsigned long; outside *)
(* of that too the conversion may yield any long.                           *)
ToLong(v) ==
    IF IsLong(v) THEN {v.n}
    ELSE LET x == Quotient(v.n, v.d)
         IN IF x \in Longs THEN {x}
            ELSE IF x > Nearest(LongMax) /\ x < 2 * Half
                 THEN {y \in Longs : (x - y) % (2 * Half) = 0}
            ELSE Longs

PhpMod(a, b) ==
    {IF Traps(x, y) THEN Trap ELSE Long(Remainder(x, y)) :
        x \in ToLong(a), y \in ToLong(b) \ {0}}

(* phpnum_compare: as floats.                                               *)
PhpCompare(a, b) ==
    LET x == AsFloat(a)
        y == AsFloat(b)
    IN Long(IF x = y THEN 0 ELSE IF x > y THEN 1 ELSE -1)

-----------------------------------------------------------------------------
Usable == acc.is # "trap" /\ acc.d = 1 /\ Abs(acc.n) <= MaxFloat

Results(op, a, b) ==
    IF op = "add" THEN {PhpAdd(a, b)}
    ELSE IF op = "sub" THEN {PhpSub(a, b)}
    ELSE IF op = "mul" THEN {PhpMul(a, b)}
    ELSE IF op = "compare" THEN {PhpCompare(a, b)}
    ELSE IF b.n = 0 THEN {}         \* an error, phpnum_fail
    ELSE IF op = "div" THEN {PhpDiv(a, b)}
    ELSE PhpMod(a, b)

MathInit ==
    /\ acc \in {Long(x) : x \in Operands}
    /\ last = [op |-> "none", a |-> acc, b |-> acc]

Calculate(op, b) ==
    /\ Usable
    /\ last' = [op |-> op, a |-> acc, b |-> b]
    /\ acc' \in Results(op, acc, b)

MathNext ==
    \E op \in {"add", "sub", "mul", "div", "mod", "compare"}, x \in Operands :
        Calculate(op, Long(x))

MathSpec == MathInit /\ [][MathNext]_math

-----------------------------------------------------------------------------
(* Of two longs: a sum, a difference or a product that is a long is exact,  *)
(* and it is a float only when it does not fit (or just fits, a product).   *)
Of(op) == last.op = op /\ BothLong(last.a, last.b)

SumsRight ==
    /\ Of("add") => LET t == last.a.n + last.b.n
                    IN IF IsLong(acc) THEN acc.n = t ELSE t \notin Longs
    /\ Of("sub") => LET t == last.a.n - last.b.n
                    IN IF IsLong(acc) THEN acc.n = t ELSE t \notin Longs

ProductsExact == Of("mul") /\ IsLong(acc) => acc.n = last.a.n * last.b.n

ProductsRight ==
    ProductsExact /\ (Of("mul") /\ ~IsLong(acc) => Abs(last.a.n * last.b.n) >= LongMax)

(* Division and modulus agree, the comparison is that of the numbers as far *)
(* as floats hold them.  Nothing else traps, and of the divisions of longs  *)
(* only that of the least one by -1.                                        *)
DivisionsRight ==
    /\ Of("div") /\ IsLong(acc) => last.b.n * acc.n = last.a.n
    /\ Of("div") /\ acc.is = "float" => Remainder(last.a.n, last.b.n) # 0
    /\ Of("mod") /\ IsLong(acc) =>
          /\ (last.a.n - acc.n) % Abs(last.b.n) = 0 /\ Abs(acc.n) < Abs(last.b.n)
          /\ acc.n # 0 => Signed(acc.n) = Signed(last.a.n)
    /\ acc.is = "trap" =>
          /\ last.op = "mod" \/ Of("div")
          /\ BothLong(last.a, last.b) => Traps(last.a.n, last.b.n)
    /\ Of("compare") /\ Abs(last.a.n) <= Mant /\ Abs(last.b.n) <= Mant =>
          (acc.n > 0) = (last.a.n > last.b.n) /\ (acc.n < 0) = (last.a.n < last.b.n)

ResultsRight == SumsRight /\ ProductsRight /\ DivisionsRight
=============================================================================
