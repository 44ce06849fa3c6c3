---------------------------- MODULE SmallField ----------------------------
(***************************************************************************)
(* The prime field of the reductions, and the balanced digits of its       *)
(* elements.  P stands for the Goldilocks prime; the extension field K is  *)
(* taken to be F itself: the formulas of the reductions use K only as a    *)
(* field that contains F.                                                  *)
(***************************************************************************)
EXTENDS Integers, Sequences, SequencesExt

CONSTANT P

ASSUME PrimeField == P \in Nat /\ P > 3 /\ \A d \in 2..(P - 1) : P % d # 0

F == 0..(P - 1)

Neg(x) == (P - x) % P
Sub(x, y) == (x + P - y) % P
Mul(x, y) == (x * y) % P

(***************************************************************************)
(* The multiplicative inverse, x^(P-2) by squaring as a fold over the bits.*)
(***************************************************************************)
Inv(x) ==
    LET pow[e \in 0..P] ==
            IF e = 0 THEN 1
            ELSE LET h == pow[e \div 2] IN
                 IF e % 2 = 0 THEN (h * h) % P ELSE (((h * h) % P) * x) % P
    IN  pow[P - 2]

Power(x, n) == LET pow[e \in 0..n] == IF e = 0 THEN 1 ELSE (pow[e - 1] * x) % P IN pow[n]

(* The sum and the product over 0 .. n-1. *)
SumTo(n, f(_)) == LET s[k \in 0..n] == IF k = 0 THEN 0 ELSE (s[k - 1] + f(k - 1)) % P IN s[n]
ProdTo(n, f(_)) == LET s[k \in 0..n] == IF k = 0 THEN 1 ELSE (s[k - 1] * f(k - 1)) % P IN s[n]

(* The value v; TLC evaluates it to the end here, and not again at each use. *)
Whole(v) == CHOOSE w \in {v} : w = w

Zeros(n) == [i \in 0..(n - 1) |-> 0]
Dot(u, v, n) == SumTo(n, LAMBDA i : u[i] * v[i])

---------------------------------------------------------------------------
(* Integers and field elements *)

FromInt(v) == v % P

(* The centred representative, in -(P-1)/2 .. (P-1)/2. *)
Balanced(x) == IF x <= (P - 1) \div 2 THEN x ELSE x - P

Abs(v) == IF v < 0 THEN -v ELSE v

(* Remainder and quotient that truncate towards zero, as % and / of i64. *)
TruncMod(v, b) == IF v >= 0 THEN v % b ELSE -((-v) % b)
TruncDiv(v, b) == IF v >= 0 THEN v \div b ELSE -((-v) \div b)

(***************************************************************************)
(* One balanced digit and the rest: the remainder is shifted into          *)
(* -(b \div 2) .. b \div 2.                                                *)
(***************************************************************************)
BalancedDivRem(v, b) ==
    LET r == TruncMod(v, b)
        q == TruncDiv(v - r, b)
    IN  IF r > b \div 2 THEN <<r - b, q + 1>>
        ELSE IF r < -(b \div 2) THEN <<r + b, q - 1>>
        ELSE <<r, q>>

(* The code's own version for base 2, by parity and arithmetic shift. *)
BalancedDivRemBase2(v) ==
    IF v % 2 = 0 THEN <<0, v \div 2>>
    ELSE IF v > 0 THEN <<1, (v - 1) \div 2>>
    ELSE <<-1, (v + 1) \div 2>>

DigitStep(v, b) == IF b = 2 THEN BalancedDivRemBase2(v) ELSE BalancedDivRem(v, b)

(***************************************************************************)
(* The first n balanced digits of the integer v and what is left after     *)
(* them.                                                                   *)
(***************************************************************************)
DigitsAndRest(v, b, n) ==
    FoldLeft(LAMBDA acc, i : LET s == DigitStep(acc.rest, b)
                             IN  [digits |-> [acc.digits EXCEPT ![i - 1] = s[1]], rest |-> s[2]],
             [digits |-> Zeros(n), rest |-> v], [i \in 1..n |-> i])

(* is_representable_balanced_fixed_d_digits *)
Representable(x, b, n) == DigitsAndRest(Balanced(x), b, n).rest = 0

(* decompose_balanced_fixed_d_digits_k; asked of representable values only. *)
FixedDigits(x, b, n) ==
    LET d == DigitsAndRest(Balanced(x), b, n).digits
    IN  [i \in 0..(n - 1) |-> FromInt(d[i])]

===========================================================================
