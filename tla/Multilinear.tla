---------------------------- MODULE Multilinear ----------------------------
(***************************************************************************)
(* Multilinear tables as the sum-check oracles keep them.  A table of 2^k  *)
(* entries is a function on 0 .. 2^k - 1; a point is the sequence of its   *)
(* coordinates, coordinate i + 1 for bit i, so that folding a table binds  *)
(* the lowest bit.                                                         *)
(***************************************************************************)
EXTENDS SmallField, FiniteSets

Size(tbl) == Cardinality(DOMAIN tbl)

Bit(mask, i) == (mask \div 2^i) % 2

EqLin(a, b) == ((1 + P - a) * (1 + P - b) + a * b) % P

EqPoints(p, q) == ProdTo(Len(p), LAMBDA i : EqLin(p[i + 1], q[i + 1]))

EqPointsBoolMask(mask, p) ==
    ProdTo(Len(p), LAMBDA i : IF Bit(mask, i) = 1 THEN p[i + 1] ELSE 1 + P - p[i + 1])

(***************************************************************************)
(* chi_tail_weights: every eq weight of the point, by doubling.            *)
(***************************************************************************)
DoubleWeights(w, b) ==
    LET step == Size(w)
    IN  Whole([mask \in 0..(2 * step - 1) |->
                  IF mask < step THEN (w[mask] * (1 + P - b)) % P ELSE (w[mask - step] * b) % P])

ChiTailWeights(bits) == FoldLeft(DoubleWeights, [mask \in {0} |-> 1], bits)

(***************************************************************************)
(* fold_table_inplace, with the order of the interleaved halves as in the  *)
(* code; and the variant that pairs an entry with the one half a table     *)
(* away.                                                                   *)
(***************************************************************************)
Lerp(lo, hi, r) == (lo + (hi + P - lo) * r) % P

FoldTable_halves(tbl, r) ==
    LET half == Size(tbl) \div 2
    IN  Whole([i \in 0..(half - 1) |-> Lerp(tbl[i], tbl[i + half], r)])

FoldTable(tbl, r) ==
    Whole([i \in 0..(Size(tbl) \div 2 - 1) |-> Lerp(tbl[2 * i], tbl[2 * i + 1], r)])

(* The same for a table whose entries are rows of digits. *)
FoldDigitsTable(tbl, r) ==
    Whole([i \in 0..(Size(tbl) \div 2 - 1) |->
              [rho \in DOMAIN tbl[0] |-> Lerp(tbl[2 * i][rho], tbl[2 * i + 1][rho], r)]])

(***************************************************************************)
(* fold_bit_inplace: the entries with this bit clear take the line through *)
(* themselves and their partner, which is zero beyond the last digit; the  *)
(* other entries keep their old values.                                    *)
(***************************************************************************)
FoldBit(digits, bit, a) ==
    LET partner(i) == IF i + 2^bit \in DOMAIN digits THEN digits[i + 2^bit] ELSE 0
    IN  Whole([i \in DOMAIN digits |->
                  IF Bit(i, bit) = 0 THEN Lerp(digits[i], partner(i), a) ELSE digits[i]])

(* The digits with the bits below Len(prefix) bound. *)
FoldPrefix(digits, prefix) ==
    FoldLeft(LAMBDA d, b : FoldBit(d, b - 1, prefix[b]), digits, [b \in 1..Len(prefix) |-> b])

(***************************************************************************)
(* range_product_cached and, for reference, the product it abbreviates.    *)
(***************************************************************************)
RangeProductCached(y, b) ==
    (y * ProdTo(b - 1, LAMBDA t : ((y * y) % P) + P - (t + 1) * (t + 1))) % P

RangeProduct(y, b) == ProdTo(2 * b - 1, LAMBDA t : (y + P + (b - 1) - t) % P)

(***************************************************************************)
(* The tail-weighted sums of one Ajtai round: bind the round's bit at x,   *)
(* then weigh what stands at the heads.                                    *)
(***************************************************************************)
HeadStride(bit) == 2^(bit + 1)

TailWeightedDot(digits, x, bit, tail) ==
    LET d == FoldBit(digits, bit, x)
    IN  SumTo(Size(tail), LAMBDA t :
            IF t * HeadStride(bit) \in DOMAIN d THEN tail[t] * d[t * HeadStride(bit)] ELSE 0)

TailWeightedRange(digits, x, bit, tail, b) ==
    LET d == FoldBit(digits, bit, x)
    IN  SumTo(Size(tail), LAMBDA t :
            IF t * HeadStride(bit) \in DOMAIN d
            THEN tail[t] * RangeProductCached(d[t * HeadStride(bit)], b) ELSE 0)

---------------------------------------------------------------------------
(* The point with the bits of mask, and the inner product that defines the *)
(* value of a multilinear extension.                                       *)
BoolPoint(mask, n) == [i \in 1..n |-> Bit(mask, i - 1)]

MleValue(values, point) ==
    SumTo(2^Len(point), LAMBDA mask :
        IF mask \in DOMAIN values THEN values[mask] * EqPointsBoolMask(mask, point) ELSE 0)

===========================================================================
