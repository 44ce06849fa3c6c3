-------------------------- MODULE CyclotomicRing --------------------------
(***************************************************************************)
(* The ring F[X]/(X^D + X^(D/2) + 1) of neo-math: multiplication by a      *)
(* three-way split and a downward reduction, rotation matrices, and the    *)
(* bar transform that turns an inner product into a constant term.  The    *)
(* code fixes D = 54; here D = 6 * Sixth, which keeps the shape of every   *)
(* formula: the middle exponent is D/2 and a split has D/3 coefficients.   *)
(***************************************************************************)
EXTENDS SmallField

CONSTANT Sixth

ASSUME SplitSize == Sixth \in Nat \ {0}

D == 6 * Sixth
Half == 3 * Sixth
Split == 2 * Sixth
Idx == 0..(D - 1)

RingAdd(a, b) == [i \in Idx |-> (a[i] + b[i]) % P]
RingScale(c, a) == [i \in Idx |-> (c * a[i]) % P]
RingZero == Zeros(D)
RingOne == [i \in Idx |-> IF i = 0 THEN 1 ELSE 0]
Monomial(j) == [i \in Idx |-> IF i = j THEN 1 ELSE 0]
Ct(a) == a[0]

---------------------------------------------------------------------------
(* Multiplication *)

(***************************************************************************)
(* mul_schoolbook_chunk on chunks of Split coefficients.                   *)
(***************************************************************************)
ChunkMul(a, b) ==
    [k \in 0..(2 * Split - 2) |->
        SumTo(Split, LAMBDA i : IF k - i \in 0..(Split - 1) THEN a[i] * b[k - i] ELSE 0)]

(* The three chunks of a, evaluated at the point t. *)
ChunkAt(a, t) ==
    [i \in 0..(Split - 1) |-> (a[i] + t * a[Split + i] + t * t * a[2 * Split + i]) % P]
TopChunk(a) == [i \in 0..(Split - 1) |-> a[2 * Split + i]]

(***************************************************************************)
(* mul_3way_karatsuba_54: the five products at 0, 1, -1, 2 and infinity    *)
(* and, coefficient by coefficient, the interpolation of the five partial  *)
(* products from them.                                                     *)
(***************************************************************************)
ProductAt(a, b, t) == ChunkMul(ChunkAt(a, t), ChunkAt(b, t))

Products(a, b) ==
    Whole([p0 |-> ProductAt(a, b, 0), p1 |-> ProductAt(a, b, 1), pm1 |-> ProductAt(a, b, P - 1),
           p2 |-> ProductAt(a, b, 2), p4 |-> ChunkMul(TopChunk(a), TopChunk(b))])

InvTwo == Inv(2)
InvSix == Inv(6)

Interpolated(p0, p1, pm1, p2, p4) ==
    LET c2 == ((p1 + pm1) * InvTwo + (2 * P - p0 - p4)) % P
        s == ((p1 + P - pm1) * InvTwo) % P
        c3 == ((p2 - p0 - 4 * c2 - 16 * p4 - 2 * s) % P) * InvSix % P
    IN  <<p0, Sub(s, c3), c2, c3, p4>>

PartialProducts(p) ==
    [i \in 0..(2 * Split - 2) |-> Interpolated(p.p0[i], p.p1[i], p.pm1[i], p.p2[i], p.p4[i])]

KaratsubaChunks(a, b) == Whole(PartialProducts(Products(a, b)))

(* The partial products put together, each Split places above the last. *)
AddChunks(c) ==
    [e \in 0..(2 * D - 2) |->
        SumTo(5, LAMBDA k : IF e - k * Split \in 0..(2 * Split - 2)
                            THEN c[e - k * Split][k + 1] ELSE 0)]

MulUnreduced(a, b) == AddChunks(KaratsubaChunks(a, b))

(***************************************************************************)
(* reduce_mod_phi_81: one downward pass; a power at or above D + D/2 is    *)
(* reduced twice at once.                                                  *)
(***************************************************************************)
ReduceStep(c, i) ==
    LET t == c[i]
        low == [c EXCEPT ![i] = 0, ![i - D] = Sub(@, t)]
    IN  IF i - Half < D THEN [low EXCEPT ![i - Half] = Sub(@, t)]
        ELSE [low EXCEPT ![i - Half - D] = (@ + t) % P, ![i - 2 * Half] = (@ + t) % P]

ReduceModPhi(c) == FoldLeft(ReduceStep, c, [k \in 1..(D - 1) |-> 2 * D - 1 - k])

RingMul(a, b) == Restrict(ReduceModPhi(MulUnreduced(a, b)), Idx)

(***************************************************************************)
(* mul_by_monomial: a * X^j for j < D, coefficient by coefficient.         *)
(***************************************************************************)
AddAt(out, i, v) == IF i < D THEN [out EXCEPT ![i] = (@ + v) % P] ELSE out

MonomialStep(a, j, out, i) ==
    LET e == i + j
        t == a[i]
    IN  IF e < D THEN [out EXCEPT ![e] = t]
        ELSE IF e < D + Half THEN AddAt(AddAt(out, e - D, Neg(t)), e - Half, Neg(t))
        ELSE LET low == AddAt(out, e - D, Neg(t))
                 mid == e - Half
             IN  IF mid >= D THEN AddAt(AddAt(low, mid - D, t), mid - D + Half, t)
                 ELSE AddAt(low, mid, Neg(t))

MulByMonomial(a, j) ==
    IF j = 0 THEN a
    ELSE FoldLeft(LAMBDA out, k : MonomialStep(a, j, out, k - 1), RingZero, [k \in 1..D |-> k])

(***************************************************************************)
(* What multiplication means: X^(3D/2) = 1, and a power in D .. 3D/2 - 1   *)
(* is minus the two lower ones.                                            *)
(***************************************************************************)
ProductCoeff(a, b, i) ==
    SumTo(D, LAMBDA k : SumTo(D, LAMBDA l :
        LET e == (k + l) % (3 * Half)
        IN  IF e = i THEN a[k] * b[l]
            ELSE IF e >= D /\ i \in {e - D, e - Half} THEN P * P - a[k] * b[l]
            ELSE 0))

RingProduct(a, b) == [i \in Idx |-> ProductCoeff(a, b, i)]

---------------------------------------------------------------------------
(* Rotation matrices, as functions of row and column *)

PhiCoeffs == [i \in Idx |-> IF i \in {0, Half} THEN 1 ELSE 0]

(* Multiplication by X as the shift of the rotation recurrence; the variant *)
(* reduces the top coefficient to the constant term alone.                  *)
ShiftColumn_noMiddle(col) ==
    [r \in Idx |-> IF r = 0 THEN (col[D - 1] * Neg(PhiCoeffs[0])) % P ELSE col[r - 1]]

ShiftColumn(col) ==
    [r \in Idx |-> IF r = 0 THEN (col[D - 1] * Neg(PhiCoeffs[0])) % P
                   ELSE (col[r - 1] + col[D - 1] * Neg(PhiCoeffs[r])) % P]

(* rot_from_coeffs: the columns, each the shift of the one before. *)
RotFromCoeffs(a) ==
    FoldLeft(LAMBDA cols, j : Append(cols, ShiftColumn(cols[j])), <<a>>, [j \in 1..(D - 1) |-> j])

IsRotationMatrix(cols) == \A j \in 1..(D - 1) : cols[j + 1] = ShiftColumn(cols[j])

(* A rotation matrix applied to the first D entries of a vector. *)
RotApply(cols, v) == [r \in Idx |-> SumTo(D, LAMBDA j : cols[j + 1][r] * v[j])]

---------------------------------------------------------------------------
(* The bar transform *)

CtGram == [i \in Idx |-> [j \in Idx |-> Ct(RingMul(Monomial(i), Monomial(j)))]]

(***************************************************************************)
(* One column of invert_matrix: swap the first row with a pivot into       *)
(* place, scale it, and clear the column in every other row.               *)
(***************************************************************************)
Eliminate(s, col) ==
    LET piv == CHOOSE r \in col..(D - 1) :
                   s.a[r][col] # 0 /\ \A q \in col..(r - 1) : s.a[q][col] = 0
        swap(r) == IF r = col THEN piv ELSE IF r = piv THEN col ELSE r
        scale == Inv(s.a[piv][col])
        row(m, r) == IF r = col THEN [c \in Idx |-> (m[piv][c] * scale) % P]
                     ELSE [c \in Idx |->
                              (m[swap(r)][c] + (P - s.a[swap(r)][col]) * ((m[piv][c] * scale) % P)) % P]
    IN  Whole([a |-> [r \in Idx |-> row(s.a, r)], inv |-> [r \in Idx |-> row(s.inv, r)]])

InvertMatrix(g) ==
    FoldLeft(LAMBDA s, k : Eliminate(s, k - 1),
             [a |-> g, inv |-> [i \in Idx |-> Monomial(i)]], [k \in 1..D |-> k]).inv

BarMatrix == Whole(InvertMatrix(Whole(CtGram)))

BarBlock(v) == [r \in Idx |-> Dot(BarMatrix[r], v, D)]

===========================================================================
