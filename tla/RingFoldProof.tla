--------------------------- MODULE RingFoldProof ---------------------------
(***************************************************************************)
(* The proof that the norm bound of the sampler does what it is for, for   *)
(* every prime, every degree, every alphabet and any number of claims.     *)
(* A field element is small if it is the residue of a small integer: sums  *)
(* and products of small elements are small, the columns of a rotation     *)
(* matrix grow by a factor of two at most, and halving k times leaves      *)
(* nothing of an integer below 2^k.                                        *)
(***************************************************************************)
EXTENDS RingFold, SequenceFacts

MixStep(d, acc, i) == Whole(RingAdd(acc, RotApply(d[1][i], d[2][i])))
ColumnStep(d, cols, j) == Append(cols, ShiftColumn(cols[j]))
DigitsStep(b, acc, i) ==
    LET s == DigitStep(acc.rest, b)
    IN  [digits |-> [acc.digits EXCEPT ![i - 1] = s[1]], rest |-> s[2]]

M == INSTANCE FoldFacts WITH Op <- MixStep
C == INSTANCE FoldFacts WITH Op <- ColumnStep
G == INSTANCE FoldFacts WITH Op <- DigitsStep

-----------------------------------------------------------------------------
(* Small field elements.                                                   *)

\* The modulus, the degree and its half, as numbers.
LEMMA Sizes ==
  /\ P \in Nat \ {0} /\ P > 3 /\ Sixth \in Nat \ {0}
  /\ D \in Nat \ {0} /\ Half \in Nat \ {0} /\ D = Half + Half
  /\ Idx = 0..(D - 1)
BY PrimeField, SplitSize DEF D, Half, Idx

\* A value is the value that TLC computes whole.
LEMMA WholeIs == \A v : Whole(v) = v
BY DEF Whole

\* x is the residue of an integer of magnitude m at most.
Small(x, m) == x \in F /\ \E v \in Int : Abs(v) <= m /\ Congruent(x, v, P)

\* What is congruent to an integer has a residue as small as the integer.
LEMMA ResidueIsSmall ==
  ASSUME NEW u \in Int, NEW v \in Int, NEW m \in Nat, Abs(v) <= m, Congruent(u, v, P)
  PROVE  Small(u % P, m)
<1>1. u % P \in 0..(P - 1)  BY Sizes, DivMod
<1>2. Congruent(u % P, u, P)  BY Sizes, ModTwice
<1>3. Congruent(u % P, v, P)  BY <1>2 DEF Congruent
<1>4. QED  BY <1>1, <1>3 DEF Small, F

\* What is small by a bound is small by a larger one.
LEMMA SmallIsWeaker ==
  ASSUME NEW x, NEW m \in Nat, NEW n \in Nat, m <= n, Small(x, m)
  PROVE  Small(x, n)
<1>1. PICK v \in Int : Abs(v) <= m /\ Congruent(x, v, P)  BY DEF Small
<1>2. Abs(v) <= n  BY <1>1 DEF Abs
<1>3. QED  BY <1>1, <1>2 DEF Small

\* Magnitudes of sums and products.
LEMMA AbsSum ==
  ASSUME NEW v \in Int, NEW w \in Int
  PROVE  Abs(v) \in Nat /\ Abs(v + w) \in Nat /\ Abs(v + w) <= Abs(v) + Abs(w) /\ Abs(-v) = Abs(v)
BY DEF Abs

\* The magnitude of a product is at most the product of the bounds.
LEMMA AbsProduct ==
  ASSUME NEW v \in Int, NEW w \in Int, NEW m \in Nat, NEW n \in Nat, Abs(v) <= m, Abs(w) <= n
  PROVE  Abs(v * w) <= m * n
<1> DEFINE a == Abs(v)
           c == Abs(w)
<1>1. a \in Nat /\ c \in Nat /\ a <= m /\ c <= n  BY DEF Abs
<1>2. Abs(v * w) = a * c
  <2>1. CASE v >= 0 /\ w >= 0  BY <2>1 DEF Abs
  <2>2. CASE v >= 0 /\ w < 0
    <3>1. v * w <= 0 /\ a = v /\ c = -w  BY <2>2 DEF Abs
    <3>2. v * (-w) = -(v * w)  OBVIOUS
    <3>3. QED  BY <3>1, <3>2 DEF Abs
  <2>3. CASE v < 0 /\ w >= 0
    <3>1. v * w <= 0 /\ a = -v /\ c = w  BY <2>3 DEF Abs
    <3>2. (-v) * w = -(v * w)  OBVIOUS
    <3>3. QED  BY <3>1, <3>2 DEF Abs
  <2>4. CASE v < 0 /\ w < 0
    <3>1. v * w >= 0 /\ a = -v /\ c = -w  BY <2>4 DEF Abs
    <3>2. (-v) * (-w) = v * w  OBVIOUS
    <3>3. QED  BY <3>1, <3>2 DEF Abs
  <2>5. QED  BY <2>1, <2>2, <2>3, <2>4
<1> HIDE DEF a, c
<1>3. a * c <= m * c /\ m * c <= m * n
  <2>1. (m - a) * c >= 0 /\ m * (n - c) >= 0  BY <1>1
  <2>2. QED  BY <1>1, <2>1
<1>4. QED  BY <1>1, <1>2, <1>3

\* A product added to a small element.
LEMMA SmallStep ==
  ASSUME NEW s, NEW x, NEW y, NEW m \in Nat, NEW e \in Nat, NEW n \in Nat,
         Small(s, m), Small(x, e), Small(y, n)
  PROVE  Small((s + x * y) % P, m + e * n)
<1>1. PICK u \in Int : Abs(u) <= m /\ Congruent(s, u, P)  BY DEF Small
<1>2. PICK v \in Int : Abs(v) <= e /\ Congruent(x, v, P)  BY DEF Small
<1>3. PICK w \in Int : Abs(w) <= n /\ Congruent(y, w, P)  BY DEF Small
<1>4. P \in Nat \ {0} /\ s \in Int /\ x \in Int /\ y \in Int  BY Sizes DEF Small, F
<1> DEFINE p == x * y
           q == v * w
           k == e * n
<1>5. Congruent(p, q, P) /\ p \in Int /\ q \in Int  BY <1>2, <1>3, <1>4, ProductsCongruent
<1>6. Abs(q) <= k /\ k \in Nat  BY <1>2, <1>3, AbsProduct
<1> HIDE DEF p, q, k
<1>7. Congruent(s + p, u + q, P)  BY <1>1, <1>4, <1>5, SumsCongruent
<1>8. Abs(u + q) <= m + k /\ u + q \in Int /\ s + p \in Int /\ m + k \in Nat
  <2>1. Abs(u + q) <= Abs(u) + Abs(q) /\ Abs(u + q) \in Nat  BY <1>5, AbsSum
  <2>2. Abs(u) \in Nat /\ Abs(q) \in Nat  BY <1>5, AbsSum
  <2>3. QED  BY <1>1, <1>4, <1>5, <1>6, <2>1, <2>2
<1>9. Small((s + p) % P, m + k)  BY <1>7, <1>8, ResidueIsSmall
<1>10. QED  BY <1>9 DEF p, k

\* A sum of small elements.
LEMMA SmallSum ==
  ASSUME NEW x, NEW y, NEW m \in Nat, NEW n \in Nat, Small(x, m), Small(y, n)
  PROVE  Small((x + y) % P, m + n)
<1>1. 1 % P = 1 /\ 1 \in 0..(P - 1)
  <2>1. 1 \in 0..(P - 1) /\ 1 = P * 0 + 1 /\ P \in Nat \ {0}  BY Sizes
  <2>2. QED  BY <2>1, DivModIs
<1>2. Small(1, 1)
  <2>1. Abs(1) <= 1  BY DEF Abs
  <2>2. QED  BY <1>1, <2>1 DEF Small, F, Congruent
<1>3. Small((x + y * 1) % P, m + n * 1)
  <2>1. 1 \in Nat  OBVIOUS
  <2>2. QED  BY <1>2, <2>1, SmallStep
<1>4. y * 1 = y /\ n * 1 = n  BY Sizes DEF Small, F
<1>5. QED  BY <1>3, <1>4

\* The centred representative has the least magnitude of all representatives.
LEMMA BalancedIsLeast ==
  ASSUME NEW x, NEW m \in Nat, Small(x, m)
  PROVE  Balanced(x) \in Int /\ Abs(Balanced(x)) <= m
<1>1. PICK v \in Int : Abs(v) <= m /\ Congruent(x, v, P)  BY DEF Small
<1> DEFINE q == v \div P
<1>2. P \in Nat \ {0} /\ x \in 0..(P - 1) /\ q \in Int /\ v = P * q + x
  <2>1. P \in Nat \ {0} /\ x \in 0..(P - 1)  BY Sizes DEF Small, F
  <2>2. x = v % P  BY <1>1, <2>1, CongruentIs
  <2>3. QED  BY <2>1, <2>2, DivMod
<1> HIDE DEF q
<1>3. q >= 0 => v >= x
  <2>1. q >= 0 => P * q >= 0  BY <1>2
  <2>2. QED  BY <1>2, <2>1
<1>4. q < 0 => v <= x - P
  <2>1. q < 0 => P * q <= -P
    <3>1. q < 0 => P * (-1 - q) >= 0  BY <1>2
    <3>2. P * (-1 - q) = -P - P * q  BY <1>2
    <3>3. QED  BY <1>2, <3>1, <3>2
  <2>2. QED  BY <1>2, <2>1
<1>5. q >= 0 \/ q < 0  BY <1>2
<1> DEFINE h == (P - 1) \div 2
<1>6. h \in Int /\ 2 * h <= P - 1 /\ P - 1 <= 2 * h + 1  BY <1>2
<1>7. Balanced(x) = (IF x <= h THEN x ELSE x - P)  BY DEF Balanced
<1> HIDE DEF h
<1>8. QED  BY <1>1, <1>2, <1>3, <1>4, <1>5, <1>6, <1>7 DEF Abs

-----------------------------------------------------------------------------
(* Rotation matrices.                                                      *)

\* A column of residues c of integers no entry of which, and no difference of two
\* entries half a degree apart, is greater than m.
Within(c, m) ==
  \A i \in 0..(Half - 1) : Abs(c[i]) <= m /\ Abs(c[i + Half]) <= m /\ Abs(c[i] - c[i + Half]) <= m

Residues(col, c) == \A i \in Idx : col[i] \in F /\ Congruent(col[i], c[i], P)

Column(col, m) == \E c \in [Idx -> Int] : Residues(col, c) /\ Within(c, m)

\* Multiplication by X, on integers.
Shifted(c) ==
  [r \in Idx |-> IF r = 0 THEN -c[D - 1] ELSE IF r = Half THEN c[Half - 1] - c[D - 1] ELSE c[r - 1]]

\* An entry of a shifted column is a difference, or the entry before it.
LEMMA ShiftEntries ==
  ASSUME NEW col, NEW r \in Idx
  PROVE  ShiftColumn(col)[r] = IF r = 0 THEN (col[D - 1] * (P - 1)) % P
                               ELSE IF r = Half THEN (col[r - 1] + col[D - 1] * (P - 1)) % P
                               ELSE (col[r - 1] + col[D - 1] * 0) % P
<1>1. Neg(1) = P - 1 /\ Neg(0) = 0
  <2> DEFINE q == P - 1
  <2>1. q = P * 0 + q /\ q \in 0..(P - 1) /\ q \in Int  BY Sizes
  <2> HIDE DEF q
  <2>2. q % P = q  BY <2>1, Sizes, DivModIs
  <2>3. P - 0 = P * 1 + 0 /\ 0 \in 0..(P - 1) /\ P - 0 \in Int  BY Sizes
  <2>4. (P - 0) % P = 0  BY <2>3, Sizes, DivModIs
  <2>5. QED  BY <2>2, <2>4 DEF Neg, q
<1>2. PhiCoeffs[r] = IF r \in {0, Half} THEN 1 ELSE 0  BY DEF PhiCoeffs
<1>3. 0 \in Idx /\ PhiCoeffs[0] = 1  BY Sizes DEF PhiCoeffs
<1>4. QED  BY <1>1, <1>2, <1>3 DEF ShiftColumn

\* Multiplication by X takes residues to residues of the shifted integers.
LEMMA ShiftResidues ==
  ASSUME NEW col, NEW c \in [Idx -> Int], Residues(col, c)
  PROVE  Residues(ShiftColumn(col), Shifted(c))
<1> SUFFICES ASSUME NEW r \in Idx
             PROVE  ShiftColumn(col)[r] \in F /\ Congruent(ShiftColumn(col)[r], Shifted(c)[r], P)
  BY DEF Residues
<1>1. /\ P \in Nat \ {0} /\ D - 1 \in Idx /\ (r # 0 => r - 1 \in Idx) /\ 0 \in Int /\ P - 1 \in Int
      /\ Half - 1 \in Idx /\ Half \in Int /\ Half # 0
  BY Sizes
<1> DEFINE x == col[D - 1]
           v == c[D - 1]
           y == col[r - 1]
           w == c[r - 1]
<1>2. x \in Int /\ v \in Int /\ Congruent(x, v, P)  BY <1>1 DEF Residues, F
<1>3. r # 0 => y \in Int /\ w \in Int /\ Congruent(y, w, P)  BY <1>1 DEF Residues, F
<1>4. ShiftColumn(col)[r] = IF r = 0 THEN (x * (P - 1)) % P
                            ELSE IF r = Half THEN (y + x * (P - 1)) % P
                            ELSE (y + x * 0) % P
  BY ShiftEntries
<1>5. Shifted(c)[r] = IF r = 0 THEN -v ELSE IF r = Half THEN w - v ELSE w
  BY DEF Shifted
<1> HIDE DEF x, v, y, w
<1> DEFINE minus == x * (P - 1)
<1>6. minus \in Int /\ Congruent(minus, -v, P) /\ -v \in Int
  <2>1. Congruent(P - 1, -1, P)
    <3>1. (-1 + P * 1) % P = (-1) % P  BY <1>1, ModShift
    <3>2. -1 + P * 1 = P - 1  BY <1>1
    <3>3. QED  BY <3>1, <3>2 DEF Congruent
  <2>2. -1 \in Int  OBVIOUS
  <2>3. Congruent(x * (P - 1), v * (-1), P)  BY <1>1, <1>2, <2>1, <2>2, ProductsCongruent
  <2>4. v * (-1) = -v /\ x * (P - 1) \in Int /\ -v \in Int  BY <1>1, <1>2
  <2>5. QED  BY <2>3, <2>4
<1> HIDE DEF minus
<1> DEFINE Same(u, z) == u % P \in F /\ Congruent(u % P, z, P)
<1>7. ASSUME NEW u \in Int, NEW z \in Int, Congruent(u, z, P) PROVE Same(u, z)
  <2>1. u % P \in 0..(P - 1)  BY <1>1, DivMod
  <2>2. Congruent(u % P, u, P)  BY <1>1, ModTwice
  <2>3. QED  BY <1>7, <2>1, <2>2 DEF Congruent, F
<1>8. Same(minus, -v)  BY <1>6, <1>7
<1> HIDE DEF Same
<1>9. CASE r = 0  BY <1>4, <1>5, <1>8, <1>9 DEF Same, minus
<1>10. CASE r = Half
  <2>1. r # 0  BY <1>1, <1>10
  <2>2. Congruent(y + minus, w + (-v), P)  BY <1>1, <1>3, <1>6, <2>1, SumsCongruent
  <2>3. y + minus \in Int /\ w + (-v) \in Int /\ w + (-v) = w - v  BY <1>2, <1>3, <1>6, <2>1
  <2>4. Same(y + minus, w + (-v))  BY <1>7, <2>2, <2>3
  <2>5. QED  BY <1>4, <1>5, <1>10, <2>1, <2>3, <2>4 DEF Same, minus
<1>11. CASE r # 0 /\ r # Half
  <2>1. y + x * 0 = y  BY <1>2, <1>3, <1>11
  <2>2. Same(y, w)  BY <1>3, <1>7, <1>11
  <2>3. QED  BY <1>4, <1>5, <1>11, <2>1, <2>2 DEF Same
<1>12. QED  BY <1>9, <1>10, <1>11

\* A pair (p, q) of entries half a degree apart goes to (-q, p - q), that to
\* (q - p, -p) and that back to (p, q): the bound stays.
LEMMA ShiftWithin ==
  ASSUME NEW c \in [Idx -> Int], NEW m \in Nat, Within(c, m)
  PROVE  Shifted(c) \in [Idx -> Int] /\ Within(Shifted(c), m)
<1>1. Shifted(c) \in [Idx -> Int]
  <2>1. ASSUME NEW r \in Idx
        PROVE  (IF r = 0 THEN -c[D - 1] ELSE IF r = Half THEN c[Half - 1] - c[D - 1] ELSE c[r - 1]) \in Int
    <3>1. D - 1 \in Idx /\ Half - 1 \in Idx /\ (r # 0 => r - 1 \in Idx)  BY Sizes
    <3>2. c[D - 1] \in Int /\ c[Half - 1] \in Int /\ (r # 0 => c[r - 1] \in Int)  BY <3>1
    <3>3. QED  BY <3>2
  <2>2. QED  BY <2>1 DEF Shifted
<1>2. ASSUME NEW i \in 0..(Half - 1)
      PROVE  LET e == Shifted(c)
             IN  Abs(e[i]) <= m /\ Abs(e[i + Half]) <= m /\ Abs(e[i] - e[i + Half]) <= m
  <2>1. i \in Idx /\ i + Half \in Idx /\ i + Half # 0 /\ (i + Half = Half <=> i = 0)  BY Sizes
  <2>2. CASE i = 0
    <3> DEFINE p == c[Half - 1]
               q == c[D - 1]
    <3>1. Shifted(c)[i] = -q /\ Shifted(c)[i + Half] = p - q  BY <2>1, <2>2 DEF Shifted
    <3>2. Half - 1 \in 0..(Half - 1) /\ (Half - 1) + Half = D - 1 /\ Half - 1 \in Idx /\ D - 1 \in Idx
      BY Sizes
    <3>3. Abs(p) <= m /\ Abs(q) <= m /\ Abs(p - q) <= m  BY <3>2 DEF Within
    <3>4. p \in Int /\ q \in Int  BY <3>2
    <3> HIDE DEF p, q
    <3>5. Abs(-q) <= m /\ -q - (p - q) = -p /\ Abs(-p) <= m  BY <3>3, <3>4 DEF Abs
    <3>6. QED  BY <3>1, <3>3, <3>5
  <2>3. CASE i # 0
    <3>1. i # Half /\ i - 1 \in 0..(Half - 1) /\ (i - 1) + Half = (i + Half) - 1  BY <2>3, Sizes
    <3>2. Shifted(c)[i] = c[i - 1] /\ Shifted(c)[i + Half] = c[(i - 1) + Half]
      BY <2>1, <2>3, <3>1 DEF Shifted
    <3>3. QED  BY <3>1, <3>2 DEF Within
  <2>4. QED  BY <2>2, <2>3
<1>3. QED  BY <1>1, <1>2 DEF Within

\* So a column stays bounded under the shift.
LEMMA ShiftBounded ==
  ASSUME NEW col, NEW m \in Nat, Column(col, m)
  PROVE  Column(ShiftColumn(col), m)
<1>1. PICK c \in [Idx -> Int] : Residues(col, c) /\ Within(c, m)  BY DEF Column
<1>2. Residues(ShiftColumn(col), Shifted(c))  BY <1>1, ShiftResidues
<1>3. Shifted(c) \in [Idx -> Int] /\ Within(Shifted(c), m)  BY <1>1, ShiftWithin
<1>4. QED  BY <1>2, <1>3 DEF Column

\* The entries of a bounded column are small.
LEMMA ColumnEntries ==
  ASSUME NEW col, NEW m \in Nat, Column(col, m), NEW r \in Idx
  PROVE  Small(col[r], m)
<1>1. PICK c \in [Idx -> Int] : Residues(col, c) /\ Within(c, m)  BY DEF Column
<1>2. Abs(c[r]) <= m
  <2>1. CASE r < Half
    <3>1. r \in 0..(Half - 1)  BY <2>1, Sizes
    <3>2. QED  BY <1>1, <3>1 DEF Within
  <2>2. CASE r >= Half
    <3>1. r - Half \in 0..(Half - 1) /\ (r - Half) + Half = r  BY <2>2, Sizes
    <3>2. QED  BY <1>1, <3>1 DEF Within
  <2>3. QED  BY <2>1, <2>2, Sizes
<1>3. QED  BY <1>1, <1>2 DEF Residues, Small

\* The columns of a rotation matrix are a run of the shift.
LEMMA RotationRun ==
  ASSUME NEW a
  PROVE  \E g : /\ g[0] = <<a>> /\ RotFromCoeffs(a) = g[D - 1]
               /\ \A k \in 1..(D - 1) : g[k] = Append(g[k - 1], ShiftColumn(g[k - 1][k]))
<1> DEFINE s == [j \in 1..(D - 1) |-> j]
<1>1. IsSeq(s) /\ Len(s) = D - 1
  <2>1. s = [j \in 1..(D - 1) |-> s[j]] /\ D - 1 \in Nat  BY Sizes
  <2> HIDE DEF s
  <2>2. QED  BY <2>1, FunctionIsSeq
<1>2. RotFromCoeffs(a) = C!Fold(0, <<a>>, s)
  BY DEF RotFromCoeffs, C!Fold, ColumnStep, FoldLeft, MapThenFoldSet, C!FoldLeft, C!MapThenFoldSet, Max, C!Max
<1>3. C!IsSeq(s)  BY <1>1 DEF IsSeq, C!IsSeq
<1>4. \A k \in 1..(D - 1) : s[k] = k  OBVIOUS
<1> HIDE DEF s
<1>5. PICK g : C!IsRun(0, g, <<a>>, s, Len(s)) /\ C!Fold(0, <<a>>, s) = g[Len(s)]
  BY <1>3, C!FoldIsRun
<1>6. ASSUME NEW k \in 1..(D - 1) PROVE g[k] = Append(g[k - 1], ShiftColumn(g[k - 1][k]))
  <2>1. g[k] = ColumnStep(0, g[k - 1], s[k])  BY <1>1, <1>5 DEF C!IsRun
  <2>2. QED  BY <1>4, <2>1 DEF ColumnStep
<1>7. g[0] = <<a>> /\ RotFromCoeffs(a) = g[D - 1]  BY <1>1, <1>2, <1>5 DEF C!IsRun
<1>8. QED  BY <1>6, <1>7

\* The columns of the rotation matrix of small coefficients are bounded.
LEMMA RotationColumns ==
  ASSUME NEW a \in [Idx -> Int], NEW m \in Nat, \A i \in Idx : Abs(a[i]) <= m
  PROVE  \A j \in 1..D : Column(Rotation(a)[j], 2 * m)
<1> DEFINE first == [i \in Idx |-> FromInt(a[i])]
<1>1. Column(first, 2 * m)
  <2>1. ASSUME NEW i \in Idx PROVE first[i] \in F /\ Congruent(first[i], a[i], P)
    <3>1. a[i] % P \in 0..(P - 1) /\ Congruent(a[i] % P, a[i], P)  BY Sizes, DivMod, ModTwice
    <3>2. first[i] = a[i] % P  BY DEF FromInt
    <3>3. QED  BY <3>1, <3>2 DEF F
  <2>2. ASSUME NEW i \in 0..(Half - 1)
        PROVE  Abs(a[i]) <= 2 * m /\ Abs(a[i + Half]) <= 2 * m /\ Abs(a[i] - a[i + Half]) <= 2 * m
    <3>1. i \in Idx /\ i + Half \in Idx  BY Sizes
    <3>2. a[i] \in Int /\ a[i + Half] \in Int /\ Abs(a[i]) <= m /\ Abs(a[i + Half]) <= m  BY <3>1
    <3>3. QED  BY <3>2 DEF Abs
  <2> HIDE DEF first
  <2>3. Residues(first, a)  BY <2>1 DEF Residues
  <2>4. Within(a, 2 * m)  BY <2>2 DEF Within
  <2>5. QED  BY <2>3, <2>4 DEF Column
<1> HIDE DEF first
<1>2. PICK g : /\ g[0] = <<first>> /\ RotFromCoeffs(first) = g[D - 1]
               /\ \A k \in 1..(D - 1) : g[k] = Append(g[k - 1], ShiftColumn(g[k - 1][k]))
  BY RotationRun
<1> DEFINE S == {k \in 0..(D - 1) : /\ IsSeq(g[k]) /\ Len(g[k]) = k + 1
                                    /\ \A j \in 1..(k + 1) : Column(g[k][j], 2 * m)}
<1>3. 0 \in S
  <2>1. IsSeq(<<first>>) /\ Len(<<first>>) = 1 /\ <<first>>[1] = first
    <3>1. <<first>> \in Seq({first}) /\ Len(<<first>>) = 1 /\ <<first>>[1] = first  OBVIOUS
    <3>2. QED  BY <3>1, IsSeqOfSet
  <2>2. \A j \in 1..(0 + 1) : j = 1  OBVIOUS
  <2>3. 0 \in 0..(D - 1)  BY Sizes
  <2>4. QED  BY <1>1, <1>2, <2>1, <2>2, <2>3
<1>4. ASSUME NEW k \in 0..(D - 1), k \in S /\ k < D - 1 PROVE k + 1 \in S
  <2> DEFINE u == g[k]
             x == ShiftColumn(u[k + 1])
  <2>1. IsSeq(u) /\ Len(u) = k + 1 /\ \A j \in 1..(k + 1) : Column(u[j], 2 * m)  BY <1>4
  <2>2. k + 1 \in 1..(D - 1) /\ (k + 1) - 1 = k /\ k + 1 \in 0..(D - 1) /\ k + 1 \in 1..(k + 1)
    BY <1>4, Sizes
  <2>3. g[k + 1] = Append(u, x)  BY <1>2, <2>2
  <2>4. Column(x, 2 * m)
    <3>1. Column(u[k + 1], 2 * m) /\ 2 * m \in Nat  BY <2>1, <2>2
    <3>2. QED  BY <3>1, ShiftBounded
  <2> HIDE DEF u, x
  <2>5. /\ IsSeq(Append(u, x)) /\ Len(Append(u, x)) = (k + 1) + 1
        /\ \A i \in 1..(k + 1) : Append(u, x)[i] = u[i]
        /\ Append(u, x)[(k + 1) + 1] = x
    BY <2>1, AppendSeq
  <2>6. ASSUME NEW j \in 1..((k + 1) + 1) PROVE Column(Append(u, x)[j], 2 * m)
    <3>1. j \in 1..(k + 1) \/ j = (k + 1) + 1  BY <2>2
    <3>2. QED  BY <2>1, <2>4, <2>5, <3>1
  <2>7. QED  BY <2>2, <2>3, <2>5, <2>6
<1> HIDE DEF S
<1>5. D - 1 \in 0..(D - 1) /\ D - 1 \in Nat /\ (D - 1) + 1 = D  BY Sizes
<1>6. D - 1 \in S
  <2>1. \A n \in 0..(D - 1) : n \in S  BY <1>3, <1>4, <1>5, InductionUpTo
  <2>2. QED  BY <1>5, <2>1
<1>7. \A j \in 1..D : Column(RotFromCoeffs(first)[j], 2 * m)  BY <1>2, <1>5, <1>6 DEF S
<1>8. Rotation(a) = RotFromCoeffs(first)  BY WholeIs DEF Rotation, first
<1>9. QED  BY <1>7, <1>8

\* A sum of products, as the function that the recursion defines.
LEMMA RotSum ==
  ASSUME NEW cols, NEW v, NEW r \in Idx,
         \A j \in Idx : cols[j + 1][r] \in Int /\ v[j] \in Int
  PROVE  \E s : /\ s[0] = 0 /\ RotApply(cols, v)[r] = s[D]
               /\ \A k \in 1..D : s[k] = (s[k - 1] + cols[k][r] * v[k - 1]) % P
<1> DEFINE f(j) == cols[j + 1][r] * v[j]
           IsSum(s) == s = [k \in 0..D |-> IF k = 0 THEN 0 ELSE (s[k - 1] + f(k - 1)) % P]
           step == [k \in 1..D |-> [x \in F |-> (x + f(k - 1)) % P]]
<1>1. 0 \in F /\ D \in Nat  BY Sizes DEF F
<1>2. \A j \in Idx : f(j) \in Int  OBVIOUS
<1>3. \A k \in 1..D : k - 1 \in Idx /\ f(k - 1) = cols[k][r] * v[k - 1]
  <2>1. \A k \in 1..D : k - 1 \in Idx /\ (k - 1) + 1 = k  BY Sizes
  <2>2. QED  BY <2>1
<1> HIDE DEF f
<1>4. step \in [1..D -> [F -> F]]
  <2>1. ASSUME NEW k \in 1..D, NEW x \in F PROVE (x + f(k - 1)) % P \in F
    <3>1. x + f(k - 1) \in Int  BY <1>2, <1>3, Sizes DEF F
    <3>2. QED  BY <3>1, Sizes, DivMod DEF F
  <2>2. QED  BY <2>1
<1>5. \A k \in 1..D : \A x \in F : step[k][x] = (x + f(k - 1)) % P  OBVIOUS
<1> HIDE DEF step
<1>6. PICK h \in [0..D -> F] : h[0] = 0 /\ \A n \in 1..D : h[n] = step[n][h[n - 1]]
  <2> DEFINE start == 0
  <2>1. start \in F /\ D \in Nat  BY <1>1
  <2> HIDE DEF start
  <2>2. \E h \in [0..D -> F] : h[0] = start /\ \A n \in 1..D : h[n] = step[n][h[n - 1]]
    BY <1>4, <2>1, RecursionUpTo
  <2>3. QED  BY <2>2 DEF start
<1>7. IsSum(h)
  <2>1. ASSUME NEW k \in 0..D
        PROVE  h[k] = IF k = 0 THEN 0 ELSE (h[k - 1] + f(k - 1)) % P
    <3>1. k # 0 => k \in 1..D /\ k - 1 \in 0..D  BY <1>1
    <3>2. k # 0 => h[k] = step[k][h[k - 1]] /\ h[k - 1] \in F  BY <1>6, <3>1
    <3>3. QED  BY <1>5, <1>6, <3>1, <3>2
  <2>2. h = [k \in 0..D |-> h[k]]  OBVIOUS
  <2>3. QED  BY <2>1, <2>2
<1> DEFINE s == CHOOSE z : IsSum(z)
<1>8. IsSum(s)  BY <1>7
<1>9. RotApply(cols, v)[r] = s[D]
  <2>1. RotApply(cols, v)[r] = SumTo(D, LAMBDA j : cols[j + 1][r] * v[j])  BY DEF RotApply
  <2>2. QED  BY <2>1 DEF SumTo, f
<1> HIDE DEF s
<1>10. s[0] = 0
  <2>1. 0 \in 0..D  BY <1>1
  <2>2. QED  BY <1>8, <2>1
<1>11. ASSUME NEW k \in 1..D PROVE s[k] = (s[k - 1] + cols[k][r] * v[k - 1]) % P
  <2>1. k \in 0..D /\ k # 0  BY <1>1
  <2>2. s[k] = (s[k - 1] + f(k - 1)) % P  BY <1>8, <2>1
  <2>3. QED  BY <1>3, <2>2
<1>12. QED  BY <1>9, <1>10, <1>11

\* A bounded rotation matrix applied to a vector of small elements.
LEMMA RotApplyIsSmall ==
  ASSUME NEW cols, NEW v, NEW e \in Nat, NEW n \in Nat, NEW r \in Idx,
         \A j \in 1..D : Column(cols[j], e), \A j \in Idx : Small(v[j], n)
  PROVE  Small(RotApply(cols, v)[r], D * (e * n))
<1>1. \A j \in Idx : Small(cols[j + 1][r], e)
  <2>1. \A j \in Idx : j + 1 \in 1..D  BY Sizes
  <2>2. QED  BY <2>1, ColumnEntries
<1>2. \A j \in Idx : cols[j + 1][r] \in Int /\ v[j] \in Int  BY <1>1, Sizes DEF Small, F
<1>3. PICK s : /\ s[0] = 0 /\ RotApply(cols, v)[r] = s[D]
               /\ \A k \in 1..D : s[k] = (s[k - 1] + cols[k][r] * v[k - 1]) % P
  BY <1>2, RotSum
<1> DEFINE w == e * n
           S == {k \in 0..D : Small(s[k], k * w)}
<1>4. w \in Nat /\ D \in Nat  BY Sizes
<1>5. 0 \in S
  <2>1. Abs(0) <= 0 /\ 0 \in F /\ Congruent(0, 0, P)  BY Sizes DEF Abs, F, Congruent
  <2>2. Small(0, 0)  BY <2>1 DEF Small
  <2>3. 0 * w = 0 /\ 0 \in 0..D  BY <1>4
  <2>4. QED  BY <1>3, <2>2, <2>3
<1>6. ASSUME NEW k \in 0..D, k \in S /\ k < D PROVE k + 1 \in S
  <2>1. k + 1 \in 1..D /\ k \in Idx /\ (k + 1) - 1 = k /\ k + 1 \in 0..D  BY <1>4, <1>6, Sizes
  <2> DEFINE m == k * w
             x == cols[k + 1][r]
             y == v[k]
  <2>2. Small(s[k], m) /\ Small(x, e) /\ Small(y, n) /\ m \in Nat  BY <1>1, <1>4, <1>6, <2>1
  <2>3. s[k + 1] = (s[k] + x * y) % P  BY <1>3, <2>1
  <2>4. m + e * n = (k + 1) * w  BY <1>4
  <2> HIDE DEF m, x, y, w
  <2>5. Small((s[k] + x * y) % P, m + e * n)  BY <2>2, SmallStep
  <2>6. QED  BY <2>1, <2>3, <2>4, <2>5
<1> HIDE DEF S
<1>7. \A k \in 0..D : k \in S  BY <1>4, <1>5, <1>6, InductionUpTo
<1>8. D \in 0..D  BY <1>4
<1>9. QED  BY <1>3, <1>7, <1>8 DEF S

-----------------------------------------------------------------------------
(* Mixing.                                                                 *)

\* Mixing is a run of adding one rotated vector after another.
LEMMA MixRun ==
  ASSUME NEW n \in Nat, NEW rs, DOMAIN rs = 1..n, NEW vs
  PROVE  \E g : /\ g[0] = RingZero /\ MixRing(rs, vs) = g[n]
               /\ \A i \in 1..n : g[i] = RingAdd(g[i - 1], RotApply(rs[i], vs[i]))
<1> DEFINE s == [i \in DOMAIN rs |-> i]
           d == <<rs, vs>>
<1>1. IsSeq(s) /\ Len(s) = n
  <2>1. s = [i \in 1..n |-> s[i]]  OBVIOUS
  <2> HIDE DEF s
  <2>2. QED  BY <2>1, FunctionIsSeq
<1>2. d[1] = rs /\ d[2] = vs  OBVIOUS
<1>3. MixRing(rs, vs)
        = FoldLeft(LAMBDA acc, i : Whole(RingAdd(acc, RotApply(d[1][i], d[2][i]))), RingZero, s)
  BY <1>2 DEF MixRing, FoldLeft, MapThenFoldSet, Max
<1>4. \A i \in 1..n : s[i] = i  OBVIOUS
<1> HIDE DEF s, d
<1>5. MixRing(rs, vs) = M!Fold(d, RingZero, s)
  BY <1>3 DEF M!Fold, MixStep, FoldLeft, MapThenFoldSet, M!FoldLeft, M!MapThenFoldSet, Max, M!Max
<1>6. M!IsSeq(s)  BY <1>1 DEF IsSeq, M!IsSeq
<1>7. PICK g : M!IsRun(d, g, RingZero, s, Len(s)) /\ M!Fold(d, RingZero, s) = g[Len(s)]
  BY <1>6, M!FoldIsRun
<1>8. ASSUME NEW i \in 1..n PROVE g[i] = RingAdd(g[i - 1], RotApply(rs[i], vs[i]))
  <2>1. g[i] = MixStep(d, g[i - 1], s[i])  BY <1>1, <1>7 DEF M!IsRun
  <2>2. QED  BY <1>2, <1>4, <2>1, WholeIs DEF MixStep
<1>9. g[0] = RingZero /\ MixRing(rs, vs) = g[n]  BY <1>1, <1>5, <1>7 DEF M!IsRun
<1>10. QED  BY <1>8, <1>9

\* A mixture of n vectors is at most n times as large as one rotated vector.
LEMMA MixIsSmall ==
  ASSUME NEW n \in Nat, NEW rs, DOMAIN rs = 1..n, NEW vs, NEW e \in Nat, NEW m \in Nat, NEW r \in Idx,
         \A i \in 1..n : \A j \in 1..D : Column(rs[i][j], e),
         \A i \in 1..n : \A j \in Idx : Small(vs[i][j], m)
  PROVE  Small(MixRing(rs, vs)[r], n * (D * (e * m)))
<1>1. PICK g : /\ g[0] = RingZero /\ MixRing(rs, vs) = g[n]
               /\ \A i \in 1..n : g[i] = RingAdd(g[i - 1], RotApply(rs[i], vs[i]))
  BY MixRun
<1> DEFINE w == D * (e * m)
           S == {k \in 0..n : Small(g[k][r], k * w)}
<1>2. w \in Nat
  <2>1. e * m \in Nat  OBVIOUS
  <2> DEFINE x == e * m
  <2> HIDE DEF x
  <2>2. D * x \in Nat  BY <2>1, Sizes DEF x
  <2>3. QED  BY <2>2 DEF x
<1>3. \A i \in 1..n : Small(RotApply(rs[i], vs[i])[r], w)  BY RotApplyIsSmall
<1> HIDE DEF w
<1>4. 0 \in S
  <2>1. Abs(0) <= 0 /\ 0 \in F /\ Congruent(0, 0, P)  BY Sizes DEF Abs, F, Congruent
  <2>2. Small(0, 0)  BY <2>1 DEF Small
  <2>3. RingZero[r] = 0  BY DEF RingZero, Zeros, Idx
  <2>4. 0 * w = 0 /\ 0 \in 0..n  BY <1>2
  <2>5. QED  BY <1>1, <2>2, <2>3, <2>4
<1>5. ASSUME NEW k \in 0..n, k \in S /\ k < n PROVE k + 1 \in S
  <2>1. k + 1 \in 1..n /\ (k + 1) - 1 = k /\ k + 1 \in 0..n  BY <1>5
  <2> DEFINE y == RotApply(rs[k + 1], vs[k + 1])[r]
             x == g[k][r]
             b == k * w
  <2>2. Small(x, b) /\ Small(y, w) /\ b \in Nat  BY <1>2, <1>3, <1>5, <2>1
  <2>3. g[k + 1][r] = (x + y) % P
    <3>1. g[k + 1] = RingAdd(g[k], RotApply(rs[k + 1], vs[k + 1]))  BY <1>1, <2>1
    <3>2. QED  BY <3>1 DEF RingAdd
  <2>4. b + w = (k + 1) * w  BY <1>2
  <2> HIDE DEF x, y, b
  <2>5. Small((x + y) % P, b + w)  BY <1>2, <2>2, SmallSum
  <2>6. QED  BY <2>1, <2>3, <2>4, <2>5
<1> HIDE DEF S
<1>6. \A k \in 0..n : k \in S  BY <1>4, <1>5, InductionUpTo
<1>7. n \in 0..n  OBVIOUS
<1>8. QED  BY <1>1, <1>6, <1>7 DEF S, w

-----------------------------------------------------------------------------
(* Powers and digits.                                                      *)

IsPower(pow, b, k) == pow = [e \in 0..k |-> IF e = 0 THEN 1 ELSE pow[e - 1] * b]

\* The recursion of IntPower has a solution, of positive numbers.
LEMMA PowerExists ==
  ASSUME NEW b \in Nat \ {0}, NEW k \in Nat
  PROVE  \E pow \in [0..k -> Nat \ {0}] : IsPower(pow, b, k)
<1> DEFINE N == Nat \ {0}
           start == 1
           step == [e \in 1..k |-> [x \in N |-> x * b]]
<1>1. start \in N  OBVIOUS
<1>2. step \in [1..k -> [N -> N]]  OBVIOUS
<1>3. \A e \in 1..k : \A x \in N : step[e][x] = x * b  OBVIOUS
<1> HIDE DEF N, step, start
<1>4. PICK f \in [0..k -> N] : f[0] = start /\ \A n \in 1..k : f[n] = step[n][f[n - 1]]
  BY <1>1, <1>2, RecursionUpTo
<1>5. ASSUME NEW e \in 0..k PROVE f[e] = IF e = 0 THEN 1 ELSE f[e - 1] * b
  <2>1. e # 0 => e \in 1..k /\ e - 1 \in 0..k  OBVIOUS
  <2>2. e # 0 => f[e] = step[e][f[e - 1]] /\ f[e - 1] \in N  BY <1>4, <2>1
  <2>3. QED  BY <1>3, <1>4, <2>1, <2>2 DEF start
<1>6. f = [e \in 0..k |-> f[e]]  OBVIOUS
<1>7. IsPower(f, b, k)  BY <1>5, <1>6 DEF IsPower
<1>8. QED  BY <1>7 DEF N

\* Powers begin with 1, and each is b times the one before.
LEMMA PowerSteps ==
  ASSUME NEW b \in Nat \ {0}, NEW k \in Nat
  PROVE  IntPower(b, 0) = 1 /\ IntPower(b, k) \in Nat \ {0} /\ IntPower(b, k + 1) = IntPower(b, k) * b
<1> DEFINE pow(n) == CHOOSE p : IsPower(p, b, n)
<1>1. \A n \in Nat : IsPower(pow(n), b, n)  BY PowerExists
<1>2. \A n \in Nat : IntPower(b, n) = pow(n)[n]  BY DEF IntPower, IsPower
<1> HIDE DEF pow
<1>3. ASSUME NEW n \in Nat, NEW p, IsPower(p, b, n)
      PROVE  p[0] = 1 /\ \A e \in 1..n : p[e] = p[e - 1] * b
  <2>1. 0 \in 0..n /\ \A e \in 1..n : e \in 0..n /\ e # 0  OBVIOUS
  <2>2. QED  BY <1>3, <2>1 DEF IsPower
<1>4. ASSUME NEW n \in Nat, NEW m \in Nat, m <= n, NEW p, IsPower(p, b, n), NEW q, IsPower(q, b, m)
      PROVE  p[m] = q[m]
  <2> DEFINE S == {e \in 0..m : p[e] = q[e]}
  <2>1. 0 \in S  BY <1>3, <1>4
  <2>2. ASSUME NEW e \in 0..m, e \in S /\ e < m PROVE e + 1 \in S
    <3>1. e + 1 \in 1..m /\ e + 1 \in 1..n /\ (e + 1) - 1 = e  BY <1>4, <2>2
    <3>2. p[e + 1] = p[e] * b /\ q[e + 1] = q[e] * b  BY <1>3, <1>4, <3>1
    <3>3. QED  BY <2>2, <3>1, <3>2
  <2> HIDE DEF S
  <2>3. m \in S
    <3>1. \A e \in 0..m : e \in S  BY <2>1, <2>2, InductionUpTo
    <3>2. QED  BY <3>1
  <2>4. QED  BY <2>3 DEF S
<1>5. IntPower(b, 0) = 1  BY <1>1, <1>2, <1>3
<1>6. IntPower(b, k) \in Nat \ {0}
  <2>1. PICK p \in [0..k -> Nat \ {0}] : IsPower(p, b, k)  BY PowerExists
  <2>2. pow(k)[k] = p[k]  BY <1>1, <1>4, <2>1
  <2>3. QED  BY <1>2, <2>1, <2>2
<1>7. IntPower(b, k + 1) = IntPower(b, k) * b
  <2>1. k + 1 \in Nat /\ k + 1 \in 1..(k + 1) /\ (k + 1) - 1 = k /\ k <= k + 1  OBVIOUS
  <2>2. pow(k + 1)[k + 1] = pow(k + 1)[k] * b  BY <1>1, <1>3, <2>1
  <2>3. pow(k + 1)[k] = pow(k)[k]  BY <1>1, <1>4, <2>1
  <2>4. QED  BY <1>2, <2>1, <2>2, <2>3
<1>8. QED  BY <1>5, <1>6, <1>7

\* Powers do not fall.
LEMMA PowersGrow ==
  ASSUME NEW b \in Nat \ {0, 1}, NEW k \in Nat, NEW l \in Nat, k <= l
  PROVE  IntPower(b, k) <= IntPower(b, l)
<1> DEFINE S == {n \in Nat : IntPower(b, k) <= IntPower(b, k + n)}
<1>1. 0 \in S
  <2>1. k + 0 = k /\ IntPower(b, k) \in Nat  BY PowerSteps
  <2>2. QED  BY <2>1
<1>2. ASSUME NEW n \in Nat, n \in S PROVE n + 1 \in S
  <2>1. k + n \in Nat /\ k + (n + 1) = (k + n) + 1  OBVIOUS
  <2>2. IntPower(b, k) \in Nat /\ IntPower(b, k + n) \in Nat
        /\ IntPower(b, (k + n) + 1) = IntPower(b, k + n) * b
    BY <2>1, PowerSteps
  <2>3. IntPower(b, k) <= IntPower(b, k + n)  BY <1>2
  <2> DEFINE x == IntPower(b, k + n)
  <2> HIDE DEF x
  <2>4. x \in Nat => x <= x * b
    <3>1. x \in Nat => x * (b - 1) >= 0  OBVIOUS
    <3>2. x \in Nat => x * (b - 1) = x * b - x  OBVIOUS
    <3>3. x \in Nat => x * b \in Nat  OBVIOUS
    <3>4. QED  BY <3>1, <3>2, <3>3
  <2>5. x \in Nat => x * b \in Nat  OBVIOUS
  <2>6. QED  BY <2>1, <2>2, <2>3, <2>4, <2>5 DEF x
<1> HIDE DEF S
<1>3. l - k \in Nat /\ k + (l - k) = l  OBVIOUS
<1>4. l - k \in S  BY <1>1, <1>2, <1>3, InductionInSet
<1>5. QED  BY <1>3, <1>4 DEF S

\* The n-th power is greater than n.
LEMMA PowerExceeds ==
  ASSUME NEW b \in Nat \ {0, 1}, NEW n \in Nat
  PROVE  n < IntPower(b, n)
<1> DEFINE S == {k \in Nat : k < IntPower(b, k)}
<1>1. 0 \in S  BY PowerSteps
<1>2. ASSUME NEW k \in Nat, k \in S PROVE k + 1 \in S
  <2> DEFINE x == IntPower(b, k)
  <2>1. x \in Nat /\ IntPower(b, k + 1) = x * b /\ k < x  BY <1>2, PowerSteps
  <2> HIDE DEF x
  <2>2. x * b >= x + x
    <3>1. x * (b - 2) >= 0  BY <2>1
    <3>2. x * (b - 2) = x * b - (x + x) /\ x * b \in Nat  BY <2>1
    <3>3. QED  BY <2>1, <3>1, <3>2
  <2>3. x * b \in Nat  BY <2>1
  <2>4. QED  BY <2>1, <2>2, <2>3
<1> HIDE DEF S
<1>3. n \in S  BY <1>1, <1>2, InductionInSet
<1>4. QED  BY <1>3 DEF S

\* The exponent that the sampler asks for exists, and its power exceeds the bound.
LEMMA LeastExponentIs ==
  ASSUME NEW b \in Nat \ {0, 1}, NEW bound \in Nat
  PROVE  LeastExponent(b, bound) \in Nat /\ bound < IntPower(b, LeastExponent(b, bound))
<1> DEFINE Q(k) == bound < IntPower(b, k)
           Least(k) == Q(k) /\ \A l \in 0..(k - 1) : ~Q(l)
           S == {n \in Nat : (\E k \in 0..n : Q(k)) => \E k \in 0..n : Least(k)}
<1>1. 0 \in S
  <2>1. \A k \in 0..0 : k = 0  OBVIOUS
  <2>2. 0..(0 - 1) = {} /\ 0 \in 0..0  OBVIOUS
  <2> HIDE DEF Q
  <2>3. QED  BY <2>1, <2>2
<1>2. ASSUME NEW n \in Nat, n \in S PROVE n + 1 \in S
  <2> HIDE DEF Q
  <2>1. CASE \E k \in 0..n : Q(k)
    <3>1. PICK k \in 0..n : Least(k)  BY <1>2, <2>1
    <3>2. k \in 0..(n + 1)  OBVIOUS
    <3>3. QED  BY <3>1, <3>2
  <2>2. CASE ~\E k \in 0..n : Q(k)
    <3>1. \A k \in 0..(n + 1) : k \in 0..n \/ k = n + 1  OBVIOUS
    <3>2. (n + 1) - 1 = n /\ n + 1 \in 0..(n + 1)  OBVIOUS
    <3>3. QED  BY <2>2, <3>1, <3>2
  <2>3. QED  BY <2>1, <2>2
<1>3. Q(bound) /\ bound \in 0..bound  BY PowerExceeds
<1> HIDE DEF S
<1>4. bound \in S  BY <1>1, <1>2, InductionInSet
<1>5. \E k \in 0..bound : Least(k)  BY <1>3, <1>4 DEF S
<1>6. \A k \in 0..bound : \A l \in 0..(k - 1) : ~Q(l) <=> bound >= IntPower(b, l)
  <2>1. ASSUME NEW k \in 0..bound, NEW l \in 0..(k - 1) PROVE IntPower(b, l) \in Nat
    BY PowerSteps
  <2>2. QED  BY <2>1
<1>7. \E k \in 0..bound : /\ bound < IntPower(b, k)
                          /\ \A l \in 0..(k - 1) : bound >= IntPower(b, l)
  BY <1>5, <1>6
<1>8. LeastExponent(b, bound) \in 0..bound /\ bound < IntPower(b, LeastExponent(b, bound))
  BY <1>7 DEF LeastExponent
<1>9. QED  BY <1>8

\* The rest after k digits is the end of a run of one digit after another.
LEMMA RestRun ==
  ASSUME NEW v, NEW b, NEW n \in Nat
  PROVE  \E g : /\ g[0] = v /\ DigitsAndRest(v, b, n).rest = g[n]
               /\ \A i \in 1..n : g[i] = DigitStep(g[i - 1], b)[2]
<1> DEFINE s == [i \in 1..n |-> i]
           base == [digits |-> Zeros(n), rest |-> v]
<1>1. IsSeq(s) /\ Len(s) = n
  <2>1. s = [i \in 1..n |-> s[i]]  OBVIOUS
  <2> HIDE DEF s
  <2>2. QED  BY <2>1, FunctionIsSeq
<1>2. DigitsAndRest(v, b, n) = G!Fold(b, base, s)
  BY DEF DigitsAndRest, G!Fold, DigitsStep, FoldLeft, MapThenFoldSet, G!FoldLeft, G!MapThenFoldSet, Max, G!Max
<1>3. G!IsSeq(s)  BY <1>1 DEF IsSeq, G!IsSeq
<1>4. base.rest = v  OBVIOUS
<1> HIDE DEF s, base
<1>5. PICK h : G!IsRun(b, h, base, s, Len(s)) /\ G!Fold(b, base, s) = h[Len(s)]
  BY <1>3, G!FoldIsRun
<1> DEFINE g == [i \in 0..n |-> h[i].rest]
<1>6. g[0] = v /\ g[n] = DigitsAndRest(v, b, n).rest
  BY <1>1, <1>2, <1>4, <1>5 DEF G!IsRun
<1>7. ASSUME NEW i \in 1..n PROVE g[i] = DigitStep(g[i - 1], b)[2]
  <2>1. i \in 0..n /\ i - 1 \in 0..n  OBVIOUS
  <2>2. h[i] = DigitsStep(b, h[i - 1], s[i])  BY <1>1, <1>5 DEF G!IsRun
  <2>3. h[i].rest = DigitStep(h[i - 1].rest, b)[2]  BY <2>2 DEF DigitsStep
  <2>4. g[i] = h[i].rest /\ g[i - 1] = h[i - 1].rest  BY <2>1
  <2>5. QED  BY <2>3, <2>4
<1> HIDE DEF g
<1>8. QED  BY <1>6, <1>7

\* One digit of base 2 leaves half of the magnitude at most.
LEMMA DigitHalves ==
  ASSUME NEW v \in Int, NEW p \in Nat, Abs(v) < p * 2
  PROVE  DigitStep(v, 2)[2] \in Int /\ Abs(DigitStep(v, 2)[2]) < p
<1>1. DigitStep(v, 2)[2] = IF v % 2 = 0 THEN v \div 2 ELSE IF v > 0 THEN (v - 1) \div 2 ELSE (v + 1) \div 2
  BY DEF DigitStep, BalancedDivRemBase2
<1>2. v % 2 = 0 => 2 * (v \div 2) = v  OBVIOUS
<1>3. v % 2 # 0 => 2 * ((v - 1) \div 2) = v - 1 /\ 2 * ((v + 1) \div 2) = v + 1  OBVIOUS
<1>4. QED  BY <1>1, <1>2, <1>3 DEF Abs

\* An integer below the k-th power of 2 has k binary digits.
LEMMA BinaryDigitsSuffice ==
  ASSUME NEW v \in Int, NEW k \in Nat, Abs(v) < IntPower(2, k)
  PROVE  DigitsAndRest(v, 2, k).rest = 0
<1>1. PICK g : /\ g[0] = v /\ DigitsAndRest(v, 2, k).rest = g[k]
               /\ \A i \in 1..k : g[i] = DigitStep(g[i - 1], 2)[2]
  BY RestRun
<1> DEFINE S == {i \in 0..k : g[i] \in Int /\ Abs(g[i]) < IntPower(2, k - i)}
<1>2. 0 \in S
  <2>1. k - 0 = k /\ 0 \in 0..k  OBVIOUS
  <2>2. QED  BY <1>1, <2>1
<1>3. ASSUME NEW i \in 0..k, i \in S /\ i < k PROVE i + 1 \in S
  <2> DEFINE l == k - (i + 1)
             p == IntPower(2, l)
             x == g[i]
  <2>1. i + 1 \in 1..k /\ (i + 1) - 1 = i /\ l \in Nat /\ k - i = l + 1 /\ i + 1 \in 0..k  BY <1>3
  <2>2. p \in Nat /\ IntPower(2, k - i) = p * 2
    <3>1. 2 \in Nat \ {0}  OBVIOUS
    <3> HIDE DEF l
    <3>2. QED  BY <2>1, <3>1, PowerSteps
  <2>3. x \in Int /\ Abs(x) < p * 2  BY <1>3, <2>2
  <2>4. g[i + 1] = DigitStep(x, 2)[2]  BY <1>1, <2>1
  <2> HIDE DEF p, x
  <2>5. DigitStep(x, 2)[2] \in Int /\ Abs(DigitStep(x, 2)[2]) < p  BY <2>2, <2>3, DigitHalves
  <2>6. QED  BY <2>1, <2>4, <2>5 DEF p
<1> HIDE DEF S
<1>4. k \in S
  <2>1. \A i \in 0..k : i \in S  BY <1>2, <1>3, InductionUpTo
  <2>2. QED  BY <2>1
<1>5. g[k] \in Int /\ Abs(g[k]) < 1
  <2>1. k - k = 0 /\ 2 \in Nat \ {0}  OBVIOUS
  <2>2. IntPower(2, 0) = 1  BY <2>1, PowerSteps
  <2>3. QED  BY <1>4, <2>1, <2>2 DEF S
<1>6. g[k] = 0  BY <1>5 DEF Abs
<1>7. QED  BY <1>1, <1>6

-----------------------------------------------------------------------------
(* The theorem.                                                            *)

\* What was sampled: for each claim the rotation of a drawn vector.
Sampled(rs, start) ==
  /\ DOMAIN rs = DOMAIN start.slots
  /\ \A i \in DOMAIN rs : \E a \in Draws : rs[i] = Rotation(a)

\* What is split is the mixture of the witnesses, under matrices that were sampled
\* after the norm bound was met.
SplitInv ==
  /\ in \in Starts
  /\ pc # "done" => outcome = "none"
  /\ pc = "mix" => NormGuard(in) /\ Sampled(rhos, in)
  /\ pc = "split" => NormGuard(in) /\ Sampled(rhos, in) /\ zmix = MixedWitness(rhos, in.slots)
  /\ NormGuardSuffices

\* The largest magnitude of the alphabet.
Largest == Max({Abs(a) : a \in Alphabet})

\* It is the magnitude of an element, and no element exceeds it.
LEMMA LargestIs == Largest \in Nat /\ \A a \in Alphabet : Abs(a) <= Largest
<1>1. PICK a \in Alphabet : \A c \in Alphabet : Abs(c) <= Abs(a)  BY AlphabetIsBounded
<1>2. \A c \in Alphabet : Abs(c) \in Nat  BY AlphabetIsBounded DEF Abs
<1> DEFINE S == {Abs(c) : c \in Alphabet}
<1>3. \E x \in S : \A y \in S : x >= y  BY <1>1, <1>2
<1>4. Max(S) \in S /\ \A y \in S : Max(S) >= y  BY <1>3 DEF Max
<1>5. QED  BY <1>2, <1>4 DEF Largest

\* The witnesses that the theorem is about: binary digits.
Binary(start) ==
  \A i \in DOMAIN start.slots : \A blk \in BlockIds : \A e \in Idx :
     Abs(Balanced(start.slots[i].z[blk][e])) < 2

\* Sampled mixtures of binary witnesses split.
LEMMA MixtureSplits ==
  ASSUME NEW start \in Starts, NEW rs, Sampled(rs, start), NormGuard(start), Binary(start), start.b = 2
  PROVE  Splits(MixedWitness(rs, start.slots), 2, start.k)
<1> DEFINE n == Len(start.slots)
           mag == Largest
           k == start.k
<1>1. n \in Nat /\ DOMAIN start.slots = 1..n /\ k \in Nat  BY StartsShape
<1>2. mag \in Nat /\ \A a \in Alphabet : Abs(a) <= mag  BY LargestIs
<1>3. DOMAIN rs = 1..n  BY <1>1 DEF Sampled
<1>4. \A i \in 1..n : \A j \in 1..D : Column(rs[i][j], 2 * mag)
  <2> SUFFICES ASSUME NEW i \in 1..n PROVE \A j \in 1..D : Column(rs[i][j], 2 * mag)  OBVIOUS
  <2>1. PICK a \in Draws : rs[i] = Rotation(a)  BY <1>3 DEF Sampled
  <2>2. a \in [Idx -> Int] /\ \A e \in Idx : Abs(a[e]) <= mag
    BY <1>2, DrawsAreSmall, AlphabetIsBounded
  <2> HIDE DEF mag
  <2>3. \A j \in 1..D : Column(Rotation(a)[j], 2 * mag)  BY <1>2, <2>2, RotationColumns
  <2>4. QED  BY <2>1, <2>3
<1> DEFINE total == n * (D * ((2 * mag) * 1))
<1>5. total = n * Expansion * (2 - 1) /\ total \in Nat
  <2>1. Expansion = 2 * D * mag  BY DEF Expansion, Largest
  <2> HIDE DEF mag, n
  <2>2. D \in Nat  BY Sizes
  <2>3. 2 * D * mag \in Nat /\ D * ((2 * mag) * 1) = 2 * D * mag  BY <1>2, <2>2
  <2> DEFINE x == 2 * D * mag
  <2> HIDE DEF x
  <2>4. x \in Nat /\ total = n * x /\ Expansion = x  BY <2>1, <2>3 DEF x
  <2>5. QED  BY <1>1, <2>4
<1>6. total < IntPower(2, k)
  <2>1. NormGuard(start) <=> k >= LeastExponent(2, total)  BY <1>5 DEF NormGuard, MinKRho
  <2> HIDE DEF total, k
  <2>2. 2 \in Nat \ {0, 1} /\ 2 \in Nat \ {0}  OBVIOUS
  <2> DEFINE l == LeastExponent(2, total)
  <2>3. l \in Nat /\ total < IntPower(2, l)  BY <1>5, <2>2, LeastExponentIs
  <2>4. l <= k  BY <1>1, <2>1, <2>3
  <2> HIDE DEF l
  <2>5. IntPower(2, l) <= IntPower(2, k)  BY <1>1, <2>2, <2>3, <2>4, PowersGrow
  <2>6. IntPower(2, l) \in Nat /\ IntPower(2, k) \in Nat  BY <1>1, <2>2, <2>3, PowerSteps
  <2>7. QED  BY <1>5, <2>3, <2>5, <2>6
<1>7. \A i \in 1..n : \A blk \in BlockIds : \A e \in Idx : Small(start.slots[i].z[blk][e], 1)
  <2> SUFFICES ASSUME NEW i \in 1..n, NEW blk \in BlockIds, NEW e \in Idx
               PROVE  Small(start.slots[i].z[blk][e], 1)
    OBVIOUS
  <2> DEFINE x == start.slots[i].z[blk][e]
  <2>1. x \in F
    <3>1. start.slots[i].z \in [BlockIds -> [Idx -> F]]  BY <1>1, StartsShape
    <3>2. QED  BY <3>1
  <2>2. Abs(Balanced(x)) < 2  BY <1>1 DEF Binary
  <2> HIDE DEF x
  <2>3. Balanced(x) \in Int /\ Congruent(x, Balanced(x), P)
    <3>1. x \in Int /\ P \in Nat \ {0}  BY <2>1, Sizes DEF F
    <3>2. Balanced(x) = x \/ Balanced(x) = x - P  BY DEF Balanced
    <3>3. Congruent(x, x - P, P)
      <4>1. PICK q \in Int : q = -1  OBVIOUS
      <4>2. (x + P * q) % P = x % P  BY <3>1, ModShift
      <4>3. x + P * q = x - P  BY <3>1, <4>1
      <4>4. QED  BY <4>2, <4>3 DEF Congruent
    <3>4. Congruent(x, x, P)  BY DEF Congruent
    <3>5. QED  BY <3>1, <3>2, <3>3, <3>4
  <2>4. Abs(Balanced(x)) <= 1  BY <2>2, <2>3 DEF Abs
  <2>5. QED  BY <2>1, <2>3, <2>4 DEF Small, x
<1>8. ASSUME NEW blk \in BlockIds, NEW e \in Idx
      PROVE  Fits(MixedWitness(rs, start.slots)[blk][e], 2, k)
  <2> DEFINE vs == [i \in DOMAIN rs |-> start.slots[i].z[blk]]
             x == MixRing(rs, vs)[e]
  <2>1. MixedWitness(rs, start.slots)[blk][e] = x  BY DEF MixedWitness
  <2>2. \A i \in 1..n : \A j \in Idx : Small(vs[i][j], 1)  BY <1>3, <1>7
  <2>3. Small(x, total)
    <3>1. 2 * mag \in Nat /\ 1 \in Nat  BY <1>2
    <3> HIDE DEF vs, n, mag
    <3>2. QED  BY <1>1, <1>3, <1>4, <2>2, <3>1, MixIsSmall
  <2> HIDE DEF total, x
  <2>4. Balanced(x) \in Int /\ Abs(Balanced(x)) <= total  BY <1>5, <2>3, BalancedIsLeast
  <2> DEFINE v == Balanced(x)
  <2>5. Abs(v) < IntPower(2, k)
    <3>1. IntPower(2, k) \in Nat
      <4>1. 2 \in Nat \ {0}  OBVIOUS
      <4>2. QED  BY <1>1, <4>1, PowerSteps
    <3>2. Abs(v) \in Nat  BY <2>4 DEF Abs
    <3> HIDE DEF v
    <3>3. QED  BY <1>5, <1>6, <2>4, <3>1, <3>2 DEF v
  <2>6. DigitsAndRest(v, 2, k).rest = 0
    <3> HIDE DEF k, v
    <3>1. v \in Int  BY <2>4 DEF v
    <3>2. QED  BY <1>1, <2>5, <3>1, BinaryDigitsSuffice
  <2>7. QED  BY <2>1, <2>5, <2>6 DEF Fits
<1>9. QED  BY <1>8 DEF Splits

\* Nothing is sampled at first.
LEMMA InitSplit == Init => SplitInv
BY DEF Init, SplitInv, NormGuardSuffices

\* Refusing the split is the step that matters: the witnesses are not binary then.
LEMMA NextSplit == SplitInv /\ [Next]_vars => SplitInv'
<1> SUFFICES ASSUME SplitInv, [Next]_vars PROVE SplitInv'
  OBVIOUS
<1> USE DEF SplitInv
<1>1. CASE Sample
  <2>1. Sampled(rhos', in)
    <3>1. PICK drawn \in [DOMAIN in.slots -> Draws] : rhos' = [i \in DOMAIN drawn |-> Rotation(drawn[i])]
      BY <1>1 DEF Sample
    <3>2. QED  BY <3>1 DEF Sampled
  <2>2. QED  BY <1>1, <2>1 DEF Sample, Sampled, NormGuardSuffices, NormGuard
<1>2. CASE RefuseCount  BY <1>2 DEF RefuseCount, Refuse, NormGuardSuffices
<1>3. CASE Mix  BY <1>3 DEF Mix, NormGuardSuffices, NormGuard, Sampled, MixedWitness
<1>4. CASE RefuseInputs  BY <1>4 DEF RefuseInputs, Refuse, NormGuardSuffices
<1>5. CASE SplitMix  BY <1>5 DEF SplitMix, NormGuardSuffices
<1>6. CASE RefuseSplit
  <2>1. in \in Starts /\ Sampled(rhos, in) /\ NormGuard(in)  BY <1>6 DEF RefuseSplit
  <2>2. in.b = 2 => ~Binary(in)
    <3>1. SUFFICES ASSUME in.b = 2, Binary(in) PROVE FALSE  OBVIOUS
    <3>2. Splits(MixedWitness(rhos, in.slots), 2, in.k)  BY <2>1, <3>1, MixtureSplits
    <3>3. QED  BY <1>6, <3>1, <3>2 DEF RefuseSplit
  <2>3. ~Binary(in) => in.b # 2 \/ \E i \in DOMAIN in.slots, blk \in BlockIds, e \in Idx :
                                        Abs(Balanced(in.slots[i].z[blk][e])) >= in.b
    <3>1. SUFFICES ASSUME ~Binary(in), in.b = 2
                   PROVE  \E i \in DOMAIN in.slots, blk \in BlockIds, e \in Idx :
                             Abs(Balanced(in.slots[i].z[blk][e])) >= 2
      OBVIOUS
    <3>2. PICK i \in DOMAIN in.slots, blk \in BlockIds, e \in Idx :
             ~(Abs(Balanced(in.slots[i].z[blk][e])) < 2)
      BY <3>1 DEF Binary
    <3> DEFINE x == in.slots[i].z[blk][e]
    <3>3. Balanced(x) \in Int
      <4>1. in.slots[i].z \in [BlockIds -> [Idx -> F]]  BY StartsShape
      <4>2. x \in F /\ P \in Nat  BY <4>1, Sizes
      <4> HIDE DEF x
      <4>3. QED  BY <4>2 DEF Balanced, F
    <3>4. Abs(Balanced(x)) \in Int  BY <3>3 DEF Abs
    <3>5. QED  BY <3>2, <3>4
  <2>4. QED  BY <1>6, <2>2, <2>3 DEF RefuseSplit, Refuse, NormGuardSuffices
<1>7. CASE Decompose
  <2>1. outcome = "none" /\ in' = in
    BY <1>7 DEF Decompose, Refuse
  <2>2. (pc' = "made" /\ outcome' = outcome) \/ (pc' = "done" /\ outcome' = "checks")
    BY <1>7 DEF Decompose, Refuse
  <2>3. QED  BY <2>1, <2>2 DEF NormGuardSuffices
<1>8. CASE Deliver  BY <1>8 DEF Deliver, NormGuardSuffices
<1>9. CASE Verify  BY <1>9 DEF Verify, NormGuardSuffices
<1>10. CASE UNCHANGED vars
  BY <1>10 DEF vars, NormGuardSuffices, NormGuard, Sampled, MixedWitness
<1>11. QED  BY <1>1, <1>2, <1>3, <1>4, <1>5, <1>6, <1>7, <1>8, <1>9, <1>10 DEF Next

\* The norm bound does what it is for: whatever the prime, the degree, the alphabet, the
\* number of claims and the draws, a mixture of binary witnesses that passed
\* min_k_rho_for_rlc_count splits into k digits.
THEOREM BinaryMixturesSplit == Spec => []NormGuardSuffices
<1>1. SplitInv => NormGuardSuffices  BY DEF SplitInv
<1>2. QED  BY InitSplit, NextSplit, <1>1, PTL DEF Spec
=============================================================================
