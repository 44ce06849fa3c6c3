------------------------------ MODULE Rv64Proof ------------------------------
(***************************************************************************)
(* Proofs about the RV64IM front end, for every width of words, every      *)
(* register file, every program and every number of steps: the arithmetic, *)
(* the executor, the lowering, and what the checks make of the rows of one *)
(* step.                                                                   *)
(***************************************************************************)
EXTENDS Rv64Pipeline, SequenceFacts

-----------------------------------------------------------------------------
(* Powers of two.                                                          *)

IsTwoTo(pow, n) == pow = [k \in 0..n |-> IF k = 0 THEN 1 ELSE 2 * pow[k - 1]]

\* The recursion of TwoTo has a solution, of positive numbers.
LEMMA TwoToExists ==
  ASSUME NEW n \in Nat
  PROVE  \E pow \in [0..n -> Nat \ {0}] : IsTwoTo(pow, n)
<1> DEFINE N == Nat \ {0}
           start == 1
           step == [e \in 1..n |-> [x \in N |-> 2 * x]]
<1>1. start \in N  OBVIOUS
<1>2. step \in [1..n -> [N -> N]]  OBVIOUS
<1>3. \A e \in 1..n : \A x \in N : step[e][x] = 2 * x  OBVIOUS
<1> HIDE DEF N, step, start
<1>4. PICK f \in [0..n -> N] : f[0] = start /\ \A k \in 1..n : f[k] = step[k][f[k - 1]]
  BY <1>1, <1>2, RecursionUpTo
<1>5. ASSUME NEW e \in 0..n PROVE f[e] = IF e = 0 THEN 1 ELSE 2 * f[e - 1]
  <2>1. e # 0 => e \in 1..n /\ e - 1 \in 0..n  OBVIOUS
  <2>2. e # 0 => f[e] = step[e][f[e - 1]] /\ f[e - 1] \in N  BY <1>4, <2>1
  <2>3. QED  BY <1>3, <1>4, <2>1, <2>2 DEF start
<1>6. f = [e \in 0..n |-> f[e]]  OBVIOUS
<1>7. IsTwoTo(f, n)  BY <1>5, <1>6 DEF IsTwoTo
<1>8. QED  BY <1>7 DEF N

\* Powers of two begin with 1, and each is twice the one before.
LEMMA TwoToSteps ==
  ASSUME NEW n \in Nat
  PROVE  TwoTo(0) = 1 /\ TwoTo(n) \in Nat \ {0} /\ TwoTo(n + 1) = 2 * TwoTo(n)
<1> DEFINE pow(k) == CHOOSE p : IsTwoTo(p, k)
<1>1. \A k \in Nat : IsTwoTo(pow(k), k)  BY TwoToExists
<1>2. \A k \in Nat : TwoTo(k) = pow(k)[k]  BY DEF TwoTo, IsTwoTo
<1> HIDE DEF pow
<1>3. ASSUME NEW k \in Nat, NEW p, IsTwoTo(p, k)
      PROVE  p[0] = 1 /\ \A e \in 1..k : p[e] = 2 * p[e - 1]
  <2>1. 0 \in 0..k /\ \A e \in 1..k : e \in 0..k /\ e # 0  OBVIOUS
  <2>2. QED  BY <1>3, <2>1 DEF IsTwoTo
<1>4. ASSUME NEW k \in Nat, NEW m \in Nat, m <= k, NEW p, IsTwoTo(p, k), NEW q, IsTwoTo(q, m)
      PROVE  p[m] = q[m]
  <2> DEFINE S == {e \in 0..m : p[e] = q[e]}
  <2>1. 0 \in S  BY <1>3, <1>4
  <2>2. ASSUME NEW e \in 0..m, e \in S /\ e < m PROVE e + 1 \in S
    <3>1. e + 1 \in 1..m /\ e + 1 \in 1..k /\ (e + 1) - 1 = e  BY <1>4, <2>2
    <3>2. p[e + 1] = 2 * p[e] /\ q[e + 1] = 2 * q[e]  BY <1>3, <1>4, <3>1
    <3>3. QED  BY <2>2, <3>1, <3>2
  <2> HIDE DEF S
  <2>3. m \in S
    <3>1. \A e \in 0..m : e \in S  BY <2>1, <2>2, InductionUpTo
    <3>2. QED  BY <3>1
  <2>4. QED  BY <2>3 DEF S
<1>5. TwoTo(0) = 1  BY <1>1, <1>2, <1>3
<1>6. TwoTo(n) \in Nat \ {0}
  <2>1. PICK p \in [0..n -> Nat \ {0}] : IsTwoTo(p, n)  BY TwoToExists
  <2>2. pow(n)[n] = p[n]  BY <1>1, <1>4, <2>1
  <2>3. QED  BY <1>2, <2>1, <2>2
<1>7. TwoTo(n + 1) = 2 * TwoTo(n)
  <2>1. n + 1 \in Nat /\ n + 1 \in 1..(n + 1) /\ (n + 1) - 1 = n /\ n <= n + 1  OBVIOUS
  <2>2. pow(n + 1)[n + 1] = 2 * pow(n + 1)[n]  BY <1>1, <1>3, <2>1
  <2>3. pow(n + 1)[n] = pow(n)[n]  BY <1>1, <1>4, <2>1
  <2>4. QED  BY <1>2, <2>1, <2>2, <2>3
<1>8. QED  BY <1>5, <1>6, <1>7

\* Powers of a sum are products.
LEMMA TwoToSum ==
  ASSUME NEW n \in Nat, NEW m \in Nat
  PROVE  TwoTo(n + m) = TwoTo(n) * TwoTo(m)
<1> DEFINE S == {k \in Nat : TwoTo(n + k) = TwoTo(n) * TwoTo(k)}
<1>1. 0 \in S
  <2>1. n + 0 = n /\ TwoTo(n) \in Nat /\ TwoTo(0) = 1  BY TwoToSteps
  <2>2. QED  BY <2>1
<1>2. ASSUME NEW k \in Nat, k \in S PROVE k + 1 \in S
  <2>1. n + k \in Nat /\ n + (k + 1) = (n + k) + 1  OBVIOUS
  <2>2. TwoTo((n + k) + 1) = 2 * TwoTo(n + k) /\ TwoTo(k + 1) = 2 * TwoTo(k)
        /\ TwoTo(n) \in Nat /\ TwoTo(k) \in Nat
    BY <2>1, TwoToSteps
  <2> DEFINE x == TwoTo(n)
             y == TwoTo(k)
  <2> HIDE DEF x, y
  <2>3. x \in Nat /\ y \in Nat => x * (2 * y) = 2 * (x * y)  OBVIOUS
  <2>4. QED  BY <1>2, <2>1, <2>2, <2>3 DEF x, y
<1> HIDE DEF S
<1>3. m \in S  BY <1>1, <1>2, InductionInSet
<1>4. QED  BY <1>3 DEF S

-----------------------------------------------------------------------------
(* The sizes.                                                              *)

\* The four sizes as numbers: the sign bit is half of a word, and a low word goes
\* into half a word without remainder.
LEMMA Sizes ==
  /\ XLEN \in Nat /\ WLEN \in Nat /\ 0 < WLEN /\ WLEN < XLEN
  /\ SignBit \in Nat \ {0} /\ WordSize = 2 * SignBit
  /\ LowSign \in Nat \ {0} /\ LowSize = 2 * LowSign
  /\ \E h \in Nat \ {0} : SignBit = LowSize * h /\ WordSize = LowSize * (2 * h)
<1>1. /\ XLEN \in Nat /\ WLEN \in Nat /\ 0 < WLEN /\ WLEN < XLEN
      /\ XLEN - 1 \in Nat /\ WLEN - 1 \in Nat /\ (XLEN - 1) + 1 = XLEN /\ (WLEN - 1) + 1 = WLEN
  BY WidthAssumption
<1>2. SignBit \in Nat \ {0} /\ WordSize = 2 * SignBit  BY <1>1, TwoToSteps DEF SignBit, WordSize
<1>3. LowSign \in Nat \ {0} /\ LowSize = 2 * LowSign  BY <1>1, TwoToSteps DEF LowSign, LowSize
<1>4. \E h \in Nat \ {0} : SignBit = LowSize * h /\ WordSize = LowSize * (2 * h)
  <2> DEFINE d == (XLEN - 1) - WLEN
  <2>1. d \in Nat /\ WLEN + d = XLEN - 1  BY <1>1
  <2> DEFINE h == TwoTo(d)
  <2>2. h \in Nat \ {0}  BY <2>1, TwoToSteps
  <2>3. SignBit = LowSize * h  BY <1>1, <2>1, TwoToSum DEF SignBit, LowSize
  <2> HIDE DEF h
  <2>4. LowSize \in Nat  BY <1>3
  <2>5. \A x \in Nat : 2 * (x * h) = x * (2 * h)  BY <2>2
  <2>6. QED  BY <1>2, <2>2, <2>3, <2>4, <2>5
<1>5. QED  BY <1>1, <1>2, <1>3, <1>4

\* Words and their size.
LEMMA WordIs ==
  /\ WordSize \in Nat \ {0, 1} /\ MaxWord \in Word /\ MaxWord = WordSize - 1
  /\ \A x : x \in Word <=> x \in Nat /\ x < WordSize
  /\ 0 \in Word /\ 1 \in Word
BY Sizes DEF Word, MaxWord

\* Wrapping makes a word that is congruent to the number, and leaves words alone.
LEMMA WrapIs ==
  ASSUME NEW x \in Int
  PROVE  /\ Wrap(x) \in Word /\ Congruent(Wrap(x), x, WordSize)
         /\ x \in Word => Wrap(x) = x
<1>1. WordSize \in Nat \ {0}  BY WordIs
<1>2. x % WordSize \in 0..(WordSize - 1)  BY <1>1, DivMod
<1>3. Congruent(x % WordSize, x, WordSize)  BY <1>1, ModTwice
<1>4. ASSUME x \in Word PROVE x % WordSize = x
  <2>1. x \in 0..(WordSize - 1) /\ x = WordSize * 0 + x /\ 0 \in Int  BY <1>1, <1>4 DEF Word
  <2>2. QED  BY <1>1, <2>1, DivModIs
<1>5. QED  BY <1>2, <1>3, <1>4 DEF Wrap, Word

\* Wrapped numbers are equal when the numbers are congruent.
LEMMA WrapSame ==
  ASSUME NEW x \in Int, NEW y \in Int, Congruent(x, y, WordSize)
  PROVE  Wrap(x) = Wrap(y)
BY DEF Congruent, Wrap

\* What is congruent by words is congruent by low words.
LEMMA WordToLow ==
  ASSUME NEW x \in Int, NEW y \in Int, Congruent(x, y, WordSize)
  PROVE  Congruent(x, y, LowSize)
<1>1. PICK h \in Nat \ {0} : WordSize = LowSize * (2 * h)  BY Sizes
<1>2. WordSize \in Nat \ {0} /\ LowSize \in Nat \ {0}  BY Sizes, WordIs
<1>3. PICK q \in Int : x = y + WordSize * q  BY <1>2, ModWitness DEF Congruent
<1> DEFINE k == 2 * h
<1>4. k \in Nat  OBVIOUS
<1> HIDE DEF k
<1>5. WordSize * q = LowSize * (k * q) /\ k * q \in Int  BY <1>1, <1>2, <1>4 DEF k
<1>6. x = y + LowSize * (k * q)  BY <1>3, <1>5
<1>7. QED  BY <1>2, <1>5, <1>6, ModWitness DEF Congruent

\* The signed reading of a word.
LEMMA SignedIs ==
  ASSUME NEW x \in Word
  PROVE  /\ Signed(x) \in Int /\ Congruent(Signed(x), x, WordSize)
         /\ -SignBit <= Signed(x) /\ Signed(x) < SignBit
         /\ Signed(x) < 0 <=> x >= SignBit
         /\ Signed(x) = IF x >= SignBit THEN x - WordSize ELSE x
<1>1. x \in Nat /\ x < WordSize /\ WordSize \in Nat \ {0}  BY WordIs
<1>2. Congruent(x - WordSize, x, WordSize)
  <2>1. PICK q \in Int : q = -1  OBVIOUS
  <2>2. x \in Int  BY <1>1
  <2>3. (x + WordSize * q) % WordSize = x % WordSize  BY ONLY <1>1, <2>2, q \in Int, ModShift
  <2>4. x + WordSize * q = x - WordSize  BY <1>1, <2>1
  <2>5. QED  BY <2>3, <2>4 DEF Congruent
<1>3. Congruent(x, x, WordSize)  BY DEF Congruent
<1>4. QED  BY <1>1, <1>2, <1>3, Sizes DEF Signed

\* The low word of a number and its signed reading.
LEMMA LowIs ==
  ASSUME NEW x \in Int
  PROVE  /\ Low(x) \in Nat /\ Low(x) < LowSize /\ Congruent(Low(x), x, LowSize)
         /\ SignedLow(x) \in Int /\ Congruent(SignedLow(x), x, LowSize)
         /\ -LowSign <= SignedLow(x) /\ SignedLow(x) < LowSign
         /\ SignedLow(x) = 0 <=> Low(x) = 0
<1>1. LowSize \in Nat \ {0}  BY Sizes
<1>2. Low(x) \in 0..(LowSize - 1) /\ Congruent(Low(x), x, LowSize)
  BY <1>1, DivMod, ModTwice DEF Low
<1> DEFINE l == Low(x)
<1>3. l \in Nat /\ l < LowSize  BY <1>1, <1>2
<1> HIDE DEF l
<1>4. Congruent(l - LowSize, l, LowSize)
  <2>1. PICK q \in Int : q = -1  OBVIOUS
  <2>2. (l + LowSize * q) % LowSize = l % LowSize  BY <1>1, <1>3, ModShift
  <2>3. l + LowSize * q = l - LowSize  BY <1>1, <1>3, <2>1
  <2>4. QED  BY <2>2, <2>3 DEF Congruent
<1>5. SignedLow(x) = IF l >= LowSign THEN l - LowSize ELSE l  BY DEF SignedLow, l
<1>6. Congruent(SignedLow(x), x, LowSize)  BY <1>2, <1>4, <1>5 DEF Congruent, l
<1>7. QED  BY <1>2, <1>3, <1>5, <1>6, Sizes DEF l

\* They depend on the residue only, and so does the sign extension, which is a word
\* with the same residue and the same signed reading.
LEMMA SameLow ==
  ASSUME NEW x \in Int, NEW y \in Int, Congruent(x, y, LowSize)
  PROVE  Low(x) = Low(y) /\ SignedLow(x) = SignedLow(y) /\ SignExtendWord(x) = SignExtendWord(y)
BY DEF Congruent, Low, SignedLow, SignExtendWord

\* The sign extension of the low half is a word congruent to the value modulo the half.
LEMMA SignExtendIs ==
  ASSUME NEW x \in Int
  PROVE  SignExtendWord(x) \in Word /\ Congruent(SignExtendWord(x), x, LowSize)
<1>1. SignedLow(x) \in Int /\ Congruent(SignedLow(x), x, LowSize)  BY LowIs
<1> DEFINE y == SignedLow(x)
<1> HIDE DEF y
<1>2. Wrap(y) \in Word /\ Congruent(Wrap(y), y, WordSize)  BY <1>1, WrapIs DEF y
<1>3. Wrap(y) \in Int  BY <1>2, WordIs
<1>4. Congruent(Wrap(y), y, LowSize)  BY <1>1, <1>2, <1>3, WordToLow DEF y
<1>5. QED  BY <1>1, <1>2, <1>4 DEF Congruent, SignExtendWord, y

\* A low word wraps to itself, and the signed numbers that fit a low word are
\* their own signed reading.
LEMMA SignedLowSame ==
  ASSUME NEW x \in Int, -LowSign <= x, x < LowSign
  PROVE  SignedLow(x) = x
<1>1. LowSize \in Nat \ {0} /\ LowSize = 2 * LowSign /\ LowSign \in Nat  BY Sizes
<1>2. CASE x >= 0
  <2>1. x = LowSize * 0 + x /\ 0 \in Int /\ x \in 0..(LowSize - 1)  BY <1>1, <1>2
  <2>2. Low(x) = x  BY <1>1, <2>1, DivModIs DEF Low
  <2>3. QED  BY <1>1, <2>2 DEF SignedLow
<1>3. CASE x < 0
  <2> DEFINE r == x + LowSize
  <2>1. PICK q \in Int : q = -1  OBVIOUS
  <2>2. x = LowSize * q + r /\ r \in 0..(LowSize - 1)  BY <1>1, <1>3, <2>1
  <2>3. r >= LowSign /\ r - LowSize = x  BY <1>1, <1>3
  <2> HIDE DEF r
  <2>4. Low(x) = r  BY <1>1, <2>2, DivModIs DEF Low
  <2>5. QED  BY <2>3, <2>4 DEF SignedLow
<1>4. QED  BY <1>2, <1>3

-----------------------------------------------------------------------------
(* Words and their bits.                                                   *)

IsSum(sum, bits, n) ==
  sum = [k \in 0..n |-> IF k = 0 THEN 0 ELSE sum[k - 1] + bits[k - 1] * TwoTo(k - 1)]

Bits == [0..(XLEN - 1) -> {0, 1}]

\* A word from bits is the end of a run of sums.
LEMMA OfBitsIsSum ==
  ASSUME NEW bits \in Bits
  PROVE  \E sum \in [0..XLEN -> Int] :
            /\ sum[0] = 0 /\ OfBits(bits) = sum[XLEN]
            /\ \A k \in 0..(XLEN - 1) : sum[k + 1] = sum[k] + bits[k] * TwoTo(k)
<1> DEFINE n == XLEN
           N == Int
           start == 0
           step == [k \in 1..n |-> [x \in N |-> x + bits[k - 1] * TwoTo(k - 1)]]
<1>1. n \in Nat  BY Sizes
<1>2. \A k \in 1..n : bits[k - 1] * TwoTo(k - 1) \in Int
  <2> SUFFICES ASSUME NEW k \in 1..n PROVE bits[k - 1] * TwoTo(k - 1) \in Int  OBVIOUS
  <2>1. k - 1 \in Nat /\ k - 1 \in 0..(XLEN - 1)  BY <1>1
  <2>2. bits[k - 1] \in {0, 1} /\ TwoTo(k - 1) \in Nat  BY <2>1, TwoToSteps DEF Bits
  <2>3. QED  BY <2>2
<1>3. start \in N /\ step \in [1..n -> [N -> N]]  BY <1>2
<1>4. \A k \in 1..n : \A x \in N : step[k][x] = x + bits[k - 1] * TwoTo(k - 1)  OBVIOUS
<1> HIDE DEF step, start, N
<1>5. PICK f \in [0..n -> N] : f[0] = start /\ \A k \in 1..n : f[k] = step[k][f[k - 1]]
  BY <1>1, <1>3, RecursionUpTo
<1>6. ASSUME NEW k \in 0..n PROVE f[k] = IF k = 0 THEN 0 ELSE f[k - 1] + bits[k - 1] * TwoTo(k - 1)
  <2>1. k # 0 => k \in 1..n /\ k - 1 \in 0..n  BY <1>1
  <2>2. k # 0 => f[k] = step[k][f[k - 1]] /\ f[k - 1] \in N  BY <1>5, <2>1
  <2>3. QED  BY <1>4, <1>5, <2>1, <2>2 DEF start
<1>7. f = [k \in 0..n |-> f[k]]  OBVIOUS
<1>8. IsSum(f, bits, n)  BY <1>6, <1>7 DEF IsSum
<1> DEFINE g == CHOOSE sum : IsSum(sum, bits, n)
<1>9. IsSum(g, bits, n)  BY <1>8
<1>10. OfBits(bits) = g[n]  BY DEF OfBits, IsSum
<1> HIDE DEF g
<1>11. \A sum : IsSum(sum, bits, n) =>
         sum[0] = 0 /\ \A k \in 0..(n - 1) : sum[k + 1] = sum[k] + bits[k] * TwoTo(k)
  <2> SUFFICES ASSUME NEW sum, IsSum(sum, bits, n)
               PROVE  sum[0] = 0 /\ \A k \in 0..(n - 1) : sum[k + 1] = sum[k] + bits[k] * TwoTo(k)
    OBVIOUS
  <2>1. 0 \in 0..n /\ \A k \in 0..(n - 1) : k + 1 \in 0..n /\ k + 1 # 0 /\ (k + 1) - 1 = k  BY <1>1
  <2>2. QED  BY <2>1 DEF IsSum
<1>12. g[n] = f[n]
  <2> DEFINE S == {k \in 0..n : g[k] = f[k]}
  <2>1. 0 \in S  BY <1>1, <1>8, <1>9, <1>11
  <2>2. ASSUME NEW k \in 0..n, k \in S /\ k < n PROVE k + 1 \in S
    <3>1. k \in 0..(n - 1) /\ k + 1 \in 0..n  BY <1>1, <2>2
    <3>2. QED  BY <1>8, <1>9, <1>11, <2>2, <3>1
  <2> HIDE DEF S
  <2>3. \A k \in 0..n : k \in S  BY <1>1, <2>1, <2>2, InductionUpTo
  <2>4. n \in S  BY <1>1, <2>3
  <2>5. QED  BY <2>4 DEF S
<1>13. QED  BY <1>8, <1>10, <1>11, <1>12 DEF N

\* The sum of bits stays below the power; what has all bits of x is x, and opposite
\* bits make the opposite word.
LEMMA OfBitsIsWord ==
  ASSUME NEW bits \in Bits
  PROVE  OfBits(bits) \in Word
<1>1. PICK s \in [0..XLEN -> Int] :
        /\ s[0] = 0 /\ OfBits(bits) = s[XLEN]
        /\ \A k \in 0..(XLEN - 1) : s[k + 1] = s[k] + bits[k] * TwoTo(k)
  BY OfBitsIsSum
<1> DEFINE n == XLEN
           S == {k \in 0..n : 0 <= s[k] /\ s[k] < TwoTo(k)}
<1>2. n \in Nat  BY Sizes
<1>3. 0 \in S
  <2>1. TwoTo(0) = 1  BY <1>2, TwoToSteps
  <2>2. 0 \in 0..n  BY <1>2
  <2>3. QED  BY <1>1, <2>1, <2>2
<1>4. ASSUME NEW k \in 0..n, k \in S /\ k < n PROVE k + 1 \in S
  <2>1. k \in Nat /\ k \in 0..(n - 1) /\ k + 1 \in 0..n  BY <1>2, <1>4
  <2>2. TwoTo(k) \in Nat /\ TwoTo(k + 1) = 2 * TwoTo(k)  BY <2>1, TwoToSteps
  <2>3. bits[k] * TwoTo(k) = 0 \/ bits[k] * TwoTo(k) = TwoTo(k)
    <3>1. bits[k] \in {0, 1}  BY <2>1 DEF Bits
    <3>2. QED  BY <2>2, <3>1
  <2>4. s[k] \in Int /\ s[k + 1] = s[k] + bits[k] * TwoTo(k) /\ 0 <= s[k] /\ s[k] < TwoTo(k)
    BY <1>1, <1>4, <2>1
  <2>5. QED  BY <2>1, <2>2, <2>3, <2>4
<1> HIDE DEF S
<1>5. \A k \in 0..n : k \in S  BY <1>2, <1>3, <1>4, InductionUpTo
<1>6. n \in S  BY <1>2, <1>5
<1>7. QED  BY <1>1, <1>2, <1>6, WordIs DEF S, WordSize

\* A remainder by twice m is the remainder by m and one more bit.
LEMMA ModDouble ==
  ASSUME NEW x \in Nat, NEW m \in Nat \ {0}
  PROVE  x % (2 * m) = (x % m) + ((x \div m) % 2) * m
<1> DEFINE q == x \div m
           r == x % m
           h == q \div 2
           e == q % 2
<1>1. r \in 0..(m - 1) /\ q \in Int /\ x = m * q + r  BY DivMod
<1>2. e \in 0..1 /\ h \in Int /\ q = 2 * h + e
  <2> HIDE DEF q
  <2>1. 2 \in Nat \ {0} /\ q \in Int  BY <1>1
  <2>2. QED  BY <2>1, DivMod
<1> HIDE DEF q, r, h, e
<1> DEFINE t == r + e * m
           w == 2 * m
<1>3. t \in 0..(w - 1) /\ w \in Nat \ {0} /\ t \in Int
  <2>1. e * m = 0 \/ e * m = m  BY <1>2
  <2>2. QED  BY <1>1, <2>1
<1>4. x = w * h + t
  <2>1. m * (2 * h + e) = (2 * m) * h + e * m  BY <1>2
  <2>2. e * m \in Int /\ (2 * m) * h \in Int  BY <1>2
  <2>3. QED  BY <1>1, <1>2, <2>1, <2>2
<1> HIDE DEF t, w
<1>5. x % w = t  BY <1>2, <1>3, <1>4, DivModIs
<1>6. QED  BY <1>5 DEF t, w, q, r, e

BitsOf(x) == [i \in 0..(XLEN - 1) |-> Bit(x, i)]

\* Bits are zeros and ones.
LEMMA BitIs ==
  ASSUME NEW x \in Nat, NEW i \in Nat
  PROVE  Bit(x, i) \in {0, 1}
<1>1. TwoTo(i) \in Nat \ {0}  BY TwoToSteps
<1>2. x \div TwoTo(i) \in Int  BY <1>1, DivMod
<1> DEFINE q == x \div TwoTo(i)
<1> HIDE DEF q
<1>3. 2 \in Nat \ {0}  OBVIOUS
<1>4. q % 2 \in 0..1  BY <1>2, <1>3, DivMod DEF q
<1>5. QED  BY <1>4 DEF Bit, q

\* What has the bits of a word is the word.
LEMMA OfBitsOf ==
  ASSUME NEW x \in Word
  PROVE  BitsOf(x) \in Bits /\ OfBits(BitsOf(x)) = x
<1>1. XLEN \in Nat /\ x \in Nat /\ x < WordSize  BY Sizes, WordIs
<1>2. BitsOf(x) \in Bits
  <2>1. \A i \in 0..(XLEN - 1) : i \in Nat  BY <1>1
  <2>2. QED  BY <1>1, <2>1, BitIs DEF BitsOf, Bits
<1> DEFINE bits == BitsOf(x)
           n == XLEN
<1>3. \A k \in 0..(XLEN - 1) : bits[k] = Bit(x, k)  BY DEF BitsOf
<1> HIDE DEF bits
<1>4. PICK s \in [0..XLEN -> Int] :
        /\ s[0] = 0 /\ OfBits(bits) = s[XLEN]
        /\ \A k \in 0..(XLEN - 1) : s[k + 1] = s[k] + bits[k] * TwoTo(k)
  BY <1>2, OfBitsIsSum DEF bits
<1> DEFINE S == {k \in 0..n : s[k] = x % TwoTo(k)}
<1>5. 0 \in S
  <2>1. TwoTo(0) = 1 /\ 0 \in 0..n  BY <1>1, TwoToSteps
  <2>2. x % 1 = 0
    <3>1. 1 \in Nat \ {0}  OBVIOUS
    <3>2. x % 1 \in 0..0  BY <1>1, <3>1, DivMod
    <3>3. QED  BY <3>2
  <2>3. QED  BY <1>4, <2>1, <2>2
<1>6. ASSUME NEW k \in 0..n, k \in S /\ k < n PROVE k + 1 \in S
  <2>1. k \in Nat /\ k \in 0..(n - 1) /\ k + 1 \in 0..n  BY <1>1, <1>6
  <2>2. TwoTo(k) \in Nat \ {0} /\ TwoTo(k + 1) = 2 * TwoTo(k)  BY <2>1, TwoToSteps
  <2>3. s[k + 1] = s[k] + bits[k] * TwoTo(k) /\ bits[k] = Bit(x, k) /\ s[k] = x % TwoTo(k)
    BY <1>3, <1>4, <1>6, <2>1
  <2>4. x % (2 * TwoTo(k)) = (x % TwoTo(k)) + ((x \div TwoTo(k)) % 2) * TwoTo(k)
    BY <1>1, <2>2, ModDouble
  <2>5. s[k + 1] = x % TwoTo(k + 1)  BY <2>2, <2>3, <2>4 DEF Bit
  <2>6. QED  BY <2>1, <2>5
<1> HIDE DEF S
<1>7. \A k \in 0..n : k \in S  BY <1>1, <1>5, <1>6, InductionUpTo
<1>8. n \in S  BY <1>1, <1>7
<1>9. s[XLEN] = Wrap(x)  BY <1>8 DEF S, Wrap, WordSize
<1>10. Wrap(x) = x  BY <1>1, WrapIs
<1>11. QED  BY <1>2, <1>4, <1>9, <1>10 DEF bits

\* Opposite bits make the opposite word.
LEMMA OppositeBits ==
  ASSUME NEW x \in Word, NEW bits \in Bits, \A i \in 0..(XLEN - 1) : bits[i] = 1 - Bit(x, i)
  PROVE  OfBits(bits) = MaxWord - x
<1>1. XLEN \in Nat /\ x \in Nat  BY Sizes, WordIs
<1>2. BitsOf(x) \in Bits /\ OfBits(BitsOf(x)) = x  BY OfBitsOf
<1> DEFINE n == XLEN
<1>3. PICK s \in [0..XLEN -> Int] :
        /\ s[0] = 0 /\ OfBits(bits) = s[XLEN]
        /\ \A k \in 0..(XLEN - 1) : s[k + 1] = s[k] + bits[k] * TwoTo(k)
  BY OfBitsIsSum
<1>4. PICK t \in [0..XLEN -> Int] :
        /\ t[0] = 0 /\ OfBits(BitsOf(x)) = t[XLEN]
        /\ \A k \in 0..(XLEN - 1) : t[k + 1] = t[k] + BitsOf(x)[k] * TwoTo(k)
  BY <1>2, OfBitsIsSum
<1> DEFINE S == {k \in 0..n : s[k] + t[k] = TwoTo(k) - 1}
<1>5. 0 \in S
  <2>1. TwoTo(0) = 1  BY <1>1, TwoToSteps
  <2>2. 0 \in 0..n  BY <1>1
  <2>3. QED  BY <1>3, <1>4, <2>1, <2>2
<1>6. ASSUME NEW k \in 0..n, k \in S /\ k < n PROVE k + 1 \in S
  <2>1. k \in Nat /\ k \in 0..(n - 1) /\ k + 1 \in 0..n  BY <1>1, <1>6
  <2>2. TwoTo(k) \in Nat \ {0} /\ TwoTo(k + 1) = 2 * TwoTo(k)  BY <2>1, TwoToSteps
  <2>3. Bit(x, k) \in {0, 1} /\ BitsOf(x)[k] = Bit(x, k) /\ bits[k] = 1 - Bit(x, k)
    BY <1>1, <2>1, BitIs DEF BitsOf
  <2> DEFINE u == bits[k] * TwoTo(k)
             v == BitsOf(x)[k] * TwoTo(k)
  <2>4. u + v = TwoTo(k) /\ u \in Int /\ v \in Int
    <3>1. \A b \in {0, 1} : \A p \in Nat : (1 - b) * p + b * p = p /\ (1 - b) * p \in Int /\ b * p \in Int
      OBVIOUS
    <3>2. QED  BY <2>2, <2>3, <3>1
  <2>5. s[k] \in Int /\ t[k] \in Int /\ s[k] + t[k] = TwoTo(k) - 1
        /\ s[k + 1] = s[k] + u /\ t[k + 1] = t[k] + v
    BY <1>3, <1>4, <1>6, <2>1
  <2> HIDE DEF u, v
  <2>6. s[k + 1] + t[k + 1] = TwoTo(k + 1) - 1
    <3> DEFINE p == TwoTo(k)
    <3>1. p \in Nat /\ TwoTo(k + 1) = 2 * p /\ u + v = p /\ s[k] + t[k] = p - 1  BY <2>2, <2>4, <2>5
    <3> HIDE DEF p
    <3>2. QED  BY <2>4, <2>5, <3>1
  <2>7. QED  BY <2>1, <2>6
<1> HIDE DEF S
<1>7. \A k \in 0..n : k \in S  BY <1>1, <1>5, <1>6, InductionUpTo
<1>8. n \in S  BY <1>1, <1>7
<1>9. s[XLEN] + t[XLEN] = WordSize - 1 /\ s[XLEN] \in Int /\ t[XLEN] \in Int
  BY <1>1, <1>8 DEF S, WordSize
<1>10. QED  BY <1>2, <1>3, <1>4, <1>9 DEF MaxWord

\* The bits of zero, of all ones and of one.
LEMMA BitsOfSome ==
  ASSUME NEW i \in 0..(XLEN - 1)
  PROVE  Bit(0, i) = 0 /\ Bit(MaxWord, i) = 1 /\ Bit(1, i) = IF i = 0 THEN 1 ELSE 0
<1>1. XLEN \in Nat /\ i \in Nat /\ i < XLEN  BY Sizes
<1>2. TwoTo(i) \in Nat \ {0}  BY <1>1, TwoToSteps
<1> DEFINE m == TwoTo(i)
<1>3. Bit(0, i) = 0
  <2> HIDE DEF m
  <2>1. PICK z \in Int : z = 0  OBVIOUS
  <2>2. z = m * z + z /\ z \in 0..(m - 1) /\ m \in Nat \ {0}  BY <1>2, <2>1 DEF m
  <2>3. z \div m = z  BY <2>2, DivModIs
  <2>4. z = 2 * z + z /\ z \in 0..(2 - 1) /\ 2 \in Nat \ {0}  BY <2>1
  <2>5. z % 2 = z  BY <2>4, DivModIs
  <2>6. QED  BY <2>1, <2>3, <2>5 DEF Bit, m
<1>4. Bit(MaxWord, i) = 1
  <2> DEFINE d == (XLEN - i) - 1
  <2>1. d \in Nat /\ XLEN = i + (d + 1)  BY <1>1
  <2>2. TwoTo(d) \in Nat \ {0} /\ TwoTo(d + 1) = 2 * TwoTo(d)  BY <2>1, TwoToSteps
  <2>3. WordSize = m * (2 * TwoTo(d))
    <3>1. d + 1 \in Nat  BY <2>1
    <3>2. QED  BY <1>1, <2>1, <2>2, <3>1, TwoToSum DEF WordSize
  <2> DEFINE h == TwoTo(d)
             q == 2 * h - 1
             r == m - 1
  <2> HIDE DEF h, m
  <2>4. h \in Nat \ {0} /\ m \in Nat \ {0} /\ WordSize = m * (2 * h)  BY <1>2, <2>2, <2>3 DEF h, m
  <2>5. MaxWord = m * q + r
    <3>1. m * (2 * h - 1) = m * (2 * h) - m /\ m * (2 * h) \in Int  BY <2>4
    <3>2. QED  BY <2>4, <3>1 DEF MaxWord
  <2>6. q \in Int /\ r \in 0..(m - 1) /\ MaxWord \in Int  BY <2>4, WordIs
  <2>7. q = 2 * (h - 1) + 1 /\ h - 1 \in Int  BY <2>4
  <2> DEFINE g == h - 1
  <2> HIDE DEF q, r, g
  <2>8. MaxWord \div m = q  BY <2>4, <2>5, <2>6, DivModIs
  <2>9. q % 2 = 1
    <3>1. 2 \in Nat \ {0} /\ 1 \in 0..(2 - 1) /\ g \in Int /\ q = 2 * g + 1  BY <2>7 DEF g
    <3>2. QED  BY <2>6, <3>1, DivModIs
  <2>10. QED  BY <2>8, <2>9 DEF Bit, m
<1>5. Bit(1, i) = IF i = 0 THEN 1 ELSE 0
  <2>1. CASE i = 0
    <3>1. TwoTo(0) = 1  BY <1>1, TwoToSteps
    <3>2. PICK o \in Nat : o = 1  OBVIOUS
    <3>3. o = o * o + 0 /\ o \in Nat \ {0} /\ 0 \in 0..(o - 1)  BY <3>2
    <3>4. o \div o = o  BY <3>3, DivModIs
    <3>5. o = 2 * 0 + o /\ o \in 0..(2 - 1) /\ 2 \in Nat \ {0} /\ 0 \in Int  BY <3>2
    <3>6. o % 2 = o  BY <3>5, DivModIs
    <3>7. QED  BY <2>1, <3>1, <3>2, <3>4, <3>6 DEF Bit
  <2>2. CASE i # 0
    <3> DEFINE e == i - 1
    <3>1. e \in Nat /\ i = e + 1  BY <1>1, <2>2
    <3>2. m = 2 * TwoTo(e) /\ TwoTo(e) \in Nat \ {0}  BY <3>1, TwoToSteps
    <3> HIDE DEF m
    <3>3. PICK o \in Nat : o = 1  OBVIOUS
    <3>4. PICK z \in Int : z = 0  OBVIOUS
    <3>5. o = m * z + o /\ m \in Nat \ {0} /\ o \in 0..(m - 1)  BY <3>2, <3>3, <3>4
    <3>6. o \div m = z  BY <3>5, DivModIs
    <3>7. z = 2 * z + z /\ z \in 0..(2 - 1) /\ 2 \in Nat \ {0}  BY <3>4
    <3>8. z % 2 = z  BY <3>7, DivModIs
    <3>9. QED  BY <2>2, <3>3, <3>4, <3>6, <3>8 DEF Bit, m
  <2>3. QED  BY <2>1, <2>2
<1>6. QED  BY <1>3, <1>4, <1>5

\* Bit operations make words; xor with zero and with all ones, and the last bit.
LEMMA BitOpsAreWords ==
  ASSUME NEW a \in Word, NEW b \in Word
  PROVE  BitAnd(a, b) \in Word /\ BitOr(a, b) \in Word /\ BitXor(a, b) \in Word
<1>1. \A i \in 0..(XLEN - 1) : Bit(a, i) \in {0, 1} /\ Bit(b, i) \in {0, 1}
  <2>1. a \in Nat /\ b \in Nat /\ \A i \in 0..(XLEN - 1) : i \in Nat  BY WordIs, Sizes
  <2>2. QED  BY <2>1, BitIs
<1>2. \A i \in 0..(XLEN - 1) : Bit(a, i) * Bit(b, i) \in {0, 1}
  <2>1. \A x \in {0, 1} : \A y \in {0, 1} : x * y \in {0, 1}  OBVIOUS
  <2>2. QED  BY <1>1, <2>1
<1>3. /\ [i \in 0..(XLEN - 1) |-> Bit(a, i) * Bit(b, i)] \in Bits
      /\ [i \in 0..(XLEN - 1) |-> IF Bit(a, i) = 1 THEN 1 ELSE Bit(b, i)] \in Bits
      /\ [i \in 0..(XLEN - 1) |-> IF Bit(a, i) = Bit(b, i) THEN 0 ELSE 1] \in Bits
  BY <1>1, <1>2 DEF Bits
<1>4. QED  BY <1>3, OfBitsIsWord DEF BitAnd, BitOr, BitXor

\* The exclusive or with zero is the word.
LEMMA XorZero ==
  ASSUME NEW a \in Word
  PROVE  BitXor(a, 0) = a
<1>1. \A i \in 0..(XLEN - 1) : Bit(a, i) \in {0, 1} /\ Bit(0, i) = 0
  <2>1. a \in Nat /\ \A i \in 0..(XLEN - 1) : i \in Nat  BY WordIs, Sizes
  <2>2. QED  BY <2>1, BitIs, BitsOfSome
<1>2. [i \in 0..(XLEN - 1) |-> IF Bit(a, i) = Bit(0, i) THEN 0 ELSE 1] = BitsOf(a)
  BY <1>1 DEF BitsOf
<1>3. QED  BY <1>2, OfBitsOf DEF BitXor

\* The exclusive or with all ones is the complement.
LEMMA XorOnes ==
  ASSUME NEW a \in Word
  PROVE  BitXor(a, MaxWord) = MaxWord - a
<1>1. \A i \in 0..(XLEN - 1) : Bit(a, i) \in {0, 1} /\ Bit(MaxWord, i) = 1
  <2>1. a \in Nat /\ \A i \in 0..(XLEN - 1) : i \in Nat  BY WordIs, Sizes
  <2>2. QED  BY <2>1, BitIs, BitsOfSome
<1> DEFINE bits == [i \in 0..(XLEN - 1) |-> IF Bit(a, i) = Bit(MaxWord, i) THEN 0 ELSE 1]
<1>2. bits \in Bits /\ \A i \in 0..(XLEN - 1) : bits[i] = 1 - Bit(a, i)
  BY <1>1 DEF Bits
<1>3. BitXor(a, MaxWord) = OfBits(bits)  BY DEF BitXor
<1> HIDE DEF bits
<1>4. QED  BY <1>2, <1>3, OppositeBits

\* The lowest bits of all ones and of zero.
LEMMA AndOne ==
  BitAnd(MaxWord, 1) = 1 /\ BitAnd(0, 1) = 0
<1>1. \A i \in 0..(XLEN - 1) : Bit(0, i) = 0 /\ Bit(MaxWord, i) = 1 /\ Bit(1, i) \in {0, 1}
  BY BitsOfSome
<1>2. [i \in 0..(XLEN - 1) |-> Bit(MaxWord, i) * Bit(1, i)] = BitsOf(1)
  <2>1. \A x \in {0, 1} : 1 * x = x  OBVIOUS
  <2>2. \A i \in 0..(XLEN - 1) : Bit(MaxWord, i) * Bit(1, i) = Bit(1, i)  BY <1>1, <2>1
  <2>3. QED  BY <2>2 DEF BitsOf
<1>3. [i \in 0..(XLEN - 1) |-> Bit(0, i) * Bit(1, i)] = BitsOf(0)
  <2>1. \A x \in {0, 1} : 0 * x = 0  OBVIOUS
  <2>2. \A i \in 0..(XLEN - 1) : Bit(0, i) * Bit(1, i) = Bit(0, i)  BY <1>1, <2>1
  <2>3. QED  BY <2>2 DEF BitsOf
<1>4. 0 \in Word /\ 1 \in Word  BY WordIs
<1>5. QED  BY <1>2, <1>3, <1>4, OfBitsOf DEF BitAnd

-----------------------------------------------------------------------------
(* Arithmetic on words.                                                    *)

\* A quotient of a number below n * m by m is below n.
LEMMA QuotientBelow ==
  ASSUME NEW x \in Int, NEW m \in Nat \ {0}, NEW n \in Int, NEW k \in Int, k * m <= x, x < n * m
  PROVE  x \div m \in Int /\ k <= x \div m /\ x \div m < n
<1> DEFINE q == x \div m
           r == x % m
<1>1. r \in 0..(m - 1) /\ q \in Int /\ x = m * q + r  BY DivMod
<1> HIDE DEF q, r
<1>2. q < n
  <2>1. SUFFICES ASSUME q >= n PROVE FALSE  BY <1>1
  <2>2. m * (q - n) >= 0  BY <1>1, <2>1
  <2>3. m * (q - n) = m * q - n * m /\ m * q \in Int /\ n * m \in Int  BY <1>1
  <2>4. QED  BY <1>1, <2>2, <2>3
<1>3. k <= q
  <2>1. SUFFICES ASSUME q <= k - 1 PROVE FALSE  BY <1>1
  <2>2. m * (k - 1 - q) >= 0  BY <1>1, <2>1
  <2>3. m * (k - 1 - q) = k * m - m - m * q /\ m * q \in Int /\ k * m \in Int  BY <1>1
  <2>4. QED  BY <1>1, <2>2, <2>3
<1>4. QED  BY <1>1, <1>2, <1>3 DEF q

\* The quotient does not exceed the dividend.
LEMMA QuotientNotAbove ==
  ASSUME NEW x \in Nat, NEW m \in Nat \ {0}
  PROVE  x \div m \in Nat /\ x \div m <= x
<1>1. PICK k \in Int : k = 0  OBVIOUS
<1>2. k * m <= x  BY <1>1
<1> DEFINE n == x + 1
<1>3. x < n * m
  <2>1. x * (m - 1) >= 0 /\ x * (m - 1) = x * m - x /\ n * m = x * m + m /\ x * m \in Int  OBVIOUS
  <2>2. QED  BY <2>1
<1>4. n \in Int /\ x \in Int  OBVIOUS
<1> HIDE DEF n
<1>5. x \div m \in Int /\ k <= x \div m /\ x \div m < n  BY <1>2, <1>3, <1>4, QuotientBelow
<1>6. QED  BY <1>1, <1>5 DEF n

\* Truncated division: the quotient times the divisor and the remainder make the
\* dividend, and neither is larger in magnitude than the dividend.
LEMMA TruncIs ==
  ASSUME NEW x \in Int, NEW y \in Int, y # 0
  PROVE  /\ TruncDiv(x, y) \in Int /\ TruncRem(x, y) \in Int
         /\ TruncRem(x, y) = x - y * TruncDiv(x, y)
         /\ Magnitude(TruncDiv(x, y)) <= Magnitude(x)
<1>1. Magnitude(x) \in Nat /\ Magnitude(y) \in Nat \ {0}  BY DEF Magnitude
<1> DEFINE q == Magnitude(x) \div Magnitude(y)
<1>2. q \in Nat /\ q <= Magnitude(x)  BY <1>1, QuotientNotAbove
<1>3. TruncDiv(x, y) = IF (x < 0) = (y < 0) THEN q ELSE -q  BY DEF TruncDiv
<1> HIDE DEF q
<1>4. TruncDiv(x, y) \in Int /\ Magnitude(TruncDiv(x, y)) <= Magnitude(x)
  <2>1. TruncDiv(x, y) = q \/ TruncDiv(x, y) = -q  BY <1>3
  <2>2. QED  BY <1>1, <1>2, <2>1 DEF Magnitude
<1> DEFINE t == TruncDiv(x, y)
<1> HIDE DEF t
<1>5. x - y * t \in Int  BY <1>4 DEF t
<1>6. QED  BY <1>4, <1>5 DEF TruncRem, t

\* A number that is congruent to a word by words wraps to that word.
LEMMA WrapTo ==
  ASSUME NEW x \in Int, NEW w \in Word, Congruent(x, w, WordSize)
  PROVE  Wrap(x) = w
<1>1. w \in Int  BY WordIs
<1>2. Wrap(x) = Wrap(w) /\ Wrap(w) = w  BY <1>1, WrapSame, WrapIs
<1>3. QED  BY <1>2

\* Congruences go both ways and in a chain.
LEMMA CongruenceOrder ==
  ASSUME NEW m
  PROVE  /\ \A x, y : Congruent(x, y, m) => Congruent(y, x, m)
         /\ \A x, y, z : Congruent(x, y, m) /\ Congruent(y, z, m) => Congruent(x, z, m)
         /\ \A x : Congruent(x, x, m)
BY DEF Congruent

\* Shifting a word down or a signed number down stays within words.
LEMMA ShiftsAreWords ==
  ASSUME NEW a \in Word, NEW n \in Nat
  PROVE  a \div TwoTo(n) \in Word /\ Signed(a) \div TwoTo(n) \in Int /\ a * TwoTo(n) \in Int
<1>1. TwoTo(n) \in Nat \ {0} /\ a \in Nat /\ a < WordSize /\ Signed(a) \in Int
  BY TwoToSteps, WordIs, SignedIs
<1>2. a \div TwoTo(n) \in Nat /\ a \div TwoTo(n) <= a  BY <1>1, QuotientNotAbove
<1>3. Signed(a) \div TwoTo(n) \in Int  BY <1>1, DivMod
<1>4. QED  BY <1>1, <1>2, <1>3, WordIs

\* The high half of a product is a word.
LEMMA MulHighIsWord ==
  ASSUME NEW a \in Word, NEW b \in Word
  PROVE  MulHighUnsigned(a, b) \in Word /\ a * b \in Nat
<1>1. a \in Nat /\ b \in Nat /\ a < WordSize /\ b < WordSize /\ WordSize \in Nat \ {0}  BY WordIs
<1> DEFINE m == WordSize
           x == a * b
<1>2. 0 * m <= x /\ x < m * m /\ x \in Nat
  <2> HIDE DEF m
  <2>1. a <= m - 1 /\ b <= m - 1 /\ m \in Nat \ {0}  BY <1>1 DEF m
  <2>2. x <= (m - 1) * b /\ (m - 1) * b <= (m - 1) * (m - 1) /\ x \in Nat
    <3>1. (m - 1 - a) * b >= 0 /\ (m - 1) * (m - 1 - b) >= 0  BY <1>1, <2>1
    <3>2. (m - 1 - a) * b = (m - 1) * b - x /\ (m - 1) * (m - 1 - b) = (m - 1) * (m - 1) - (m - 1) * b
          /\ (m - 1) * b \in Int /\ (m - 1) * (m - 1) \in Int /\ x \in Nat
      BY <1>1, <2>1
    <3>3. QED  BY <3>1, <3>2
  <2>3. (m - 1) * (m - 1) = m * m - m - m + 1 /\ m * m \in Int /\ (m - 1) * b \in Int  BY <1>1, <2>1
  <2>4. QED  BY <2>1, <2>2, <2>3
<1> HIDE DEF x
<1>3. PICK k \in Int : k = 0  OBVIOUS
<1>4. k * m <= x /\ x < m * m /\ x \in Int /\ m \in Int  BY <1>1, <1>2, <1>3
<1>5. x \div m \in Int /\ k <= x \div m /\ x \div m < m  BY <1>1, <1>4, QuotientBelow
<1>6. QED  BY <1>2, <1>3, <1>5, WordIs DEF MulHighUnsigned, x

\* Division and remainder make words.
LEMMA DivisionsAreWords ==
  ASSUME NEW a \in Word, NEW b \in Word
  PROVE  /\ DivSigned(a, b) \in Word /\ RemSigned(a, b) \in Word
         /\ DivUnsigned(a, b) \in Word /\ RemUnsigned(a, b) \in Word
         /\ DivWordSigned(a, b) \in Word /\ RemWordSigned(a, b) \in Word
         /\ DivWordUnsigned(a, b) \in Word /\ RemWordUnsigned(a, b) \in Word
<1>1. a \in Nat /\ b \in Nat /\ a < WordSize /\ b < WordSize /\ MaxWord \in Word /\ 0 \in Word
  BY WordIs
<1>2. \A x \in Int : Wrap(x) \in Word /\ SignExtendWord(x) \in Word  BY WrapIs, SignExtendIs
<1>3. b # 0 => DivSigned(a, b) \in Word /\ RemSigned(a, b) \in Word
  <2>1. Signed(a) \in Int /\ Signed(b) \in Int  BY SignedIs
  <2>2. b # 0 => Signed(b) # 0  BY <1>1, SignedIs
  <2>3. b # 0 => TruncDiv(Signed(a), Signed(b)) \in Int /\ TruncRem(Signed(a), Signed(b)) \in Int
    BY <2>1, <2>2, TruncIs
  <2>4. QED  BY <1>1, <1>2, <2>3 DEF DivSigned, RemSigned
<1>4. b = 0 => DivSigned(a, b) \in Word /\ RemSigned(a, b) \in Word  BY <1>1 DEF DivSigned, RemSigned
<1>5. DivUnsigned(a, b) \in Word /\ RemUnsigned(a, b) \in Word
  <2>1. b # 0 => a \div b \in Nat /\ a \div b <= a  BY <1>1, QuotientNotAbove
  <2>2. b # 0 => a % b \in 0..(b - 1)  BY <1>1, DivMod
  <2>3. b # 0 => a \div b \in Word /\ a % b \in Word  BY <1>1, <2>1, <2>2, WordIs
  <2>4. QED  BY <1>1, <2>3 DEF DivUnsigned, RemUnsigned
<1>6. DivWordSigned(a, b) \in Word /\ RemWordSigned(a, b) \in Word
  <2>1. SignedLow(a) \in Int /\ SignedLow(b) \in Int /\ (Low(b) # 0 => SignedLow(b) # 0)  BY <1>1, LowIs
  <2>2. Low(b) # 0 => /\ TruncDiv(SignedLow(a), SignedLow(b)) \in Int
                      /\ TruncRem(SignedLow(a), SignedLow(b)) \in Int
    BY <2>1, TruncIs
  <2>3. SignExtendWord(a) \in Word  BY <1>1, <1>2
  <2>4. QED  BY <1>1, <1>2, <2>2, <2>3 DEF DivWordSigned, RemWordSigned
<1>7. DivWordUnsigned(a, b) \in Word /\ RemWordUnsigned(a, b) \in Word
  <2>1. Low(a) \in Nat /\ Low(b) \in Nat  BY <1>1, LowIs
  <2>2. Low(b) # 0 => Low(a) \div Low(b) \in Int /\ Low(a) % Low(b) \in Int
    <3>1. ASSUME NEW y \in Nat \ {0}, NEW x \in Nat PROVE x \div y \in Int /\ x % y \in Int
      <4>1. x % y \in 0..(y - 1) /\ x \div y \in Int  BY DivMod
      <4>2. QED  BY <4>1
    <3>2. QED  BY <2>1, <3>1
  <2>3. a \in Int  BY <1>1
  <2>4. Low(b) # 0 => SignExtendWord(Low(a) \div Low(b)) \in Word /\ SignExtendWord(Low(a) % Low(b)) \in Word
    BY <1>2, <2>2
  <2>5. SignExtendWord(a) \in Word  BY <1>2, <2>3
  <2>6. QED  BY <1>1, <2>4, <2>5 DEF DivWordUnsigned, RemWordUnsigned
<1>8. QED  BY <1>3, <1>4, <1>5, <1>6, <1>7

\* Every arithmetic instruction computes a word.
LEMMA AluIsWord ==
  ASSUME NEW op \in AluOps, NEW a \in Word, NEW b \in Word
  PROVE  Alu(op, a, b) \in Word
<1>1. a \in Nat /\ b \in Nat /\ a \in Int /\ b \in Int /\ 0 \in Word /\ 1 \in Word  BY WordIs
<1>2. \A x \in Int : Wrap(x) \in Word /\ SignExtendWord(x) \in Word  BY WrapIs, SignExtendIs
<1>3. b % XLEN \in Nat /\ b % WLEN \in Nat
  <2>1. XLEN \in Nat \ {0} /\ WLEN \in Nat \ {0}  BY Sizes
  <2>2. b % XLEN \in 0..(XLEN - 1) /\ b % WLEN \in 0..(WLEN - 1)  BY <1>1, <2>1, DivMod
  <2>3. QED  BY <2>2
<1>4. a + b \in Int /\ a - b \in Int /\ a * b \in Int  BY <1>1
<1>5. Wrap(a * TwoTo(b % XLEN)) \in Word /\ SignExtendWord(a * TwoTo(b % WLEN)) \in Word
      /\ a \div TwoTo(b % XLEN) \in Word /\ Wrap(Signed(a) \div TwoTo(b % XLEN)) \in Word
  BY <1>2, <1>3, ShiftsAreWords
<1>6. SignExtendWord(Low(a) \div TwoTo(b % WLEN)) \in Word
      /\ SignExtendWord(SignedLow(a) \div TwoTo(b % WLEN)) \in Word
  <2>1. TwoTo(b % WLEN) \in Nat \ {0} /\ Low(a) \in Int /\ SignedLow(a) \in Int
    BY <1>1, <1>3, TwoToSteps, LowIs
  <2>2. Low(a) \div TwoTo(b % WLEN) \in Int /\ SignedLow(a) \div TwoTo(b % WLEN) \in Int
    BY <2>1, DivMod
  <2>3. QED  BY <1>2, <2>2
<1>7. MulHighSigned(a, b) \in Word /\ MulHighSignedUnsigned(a, b) \in Word /\ MulHighUnsigned(a, b) \in Word
      /\ MulWord(a, b) \in Word
  <2>1. Signed(a) \in Int /\ Signed(b) \in Int /\ SignedLow(a) \in Int /\ SignedLow(b) \in Int
    BY <1>1, SignedIs, LowIs
  <2>2. \A x \in Int, y \in Int : x * y \in Int  OBVIOUS
  <2>3. \A x \in Int : x \div WordSize \in Int  BY WordIs, DivMod
  <2>4. QED  BY <1>1, <1>2, <2>1, <2>2, <2>3, MulHighIsWord DEF MulHighSigned, MulHighSignedUnsigned, MulWord
<1>8. BitAnd(a, b) \in Word /\ BitOr(a, b) \in Word /\ BitXor(a, b) \in Word  BY BitOpsAreWords
<1>9. Wrap(a + b) \in Word /\ SignExtendWord(a + b) \in Word /\ Wrap(a - b) \in Word
      /\ SignExtendWord(a - b) \in Word /\ Wrap(a * b) \in Word
  BY <1>2, <1>4
<1>10. Bool(Signed(a) < Signed(b)) \in Word /\ Bool(a < b) \in Word  BY <1>1 DEF Bool
<1>11. /\ DivSigned(a, b) \in Word /\ RemSigned(a, b) \in Word
       /\ DivUnsigned(a, b) \in Word /\ RemUnsigned(a, b) \in Word
       /\ DivWordSigned(a, b) \in Word /\ RemWordSigned(a, b) \in Word
       /\ DivWordUnsigned(a, b) \in Word /\ RemWordUnsigned(a, b) \in Word
  BY DivisionsAreWords
<1>12. CASE op \in {"Addi", "Add", "Addiw", "Addw", "Sub", "Subw", "Andi", "And", "Ori", "Or",
                    "Xori", "Xor", "Slti", "Slt", "Sltiu", "Sltu"}
  BY <1>8, <1>9, <1>10, <1>12 DEF Alu
<1>13. CASE op \in {"Slli", "Sll", "Slliw", "Sllw", "Srli", "Srl", "Srliw", "Srlw",
                    "Srai", "Sra", "Sraiw", "Sraw"}
  BY <1>5, <1>6, <1>13 DEF Alu
<1>14. CASE op \in {"Mul", "Mulh", "Mulhsu", "Mulhu", "Mulw", "Div", "Divu", "Rem", "Remu",
                    "Divw", "Divuw", "Remw", "Remuw"}
  BY <1>7, <1>9, <1>11, <1>14 DEF Alu
<1>15. QED  BY <1>12, <1>13, <1>14 DEF AluOps

-----------------------------------------------------------------------------
(* What the expanded sequences compute.                                    *)

\* A multiple of the divisor adds to the quotient.
LEMMA DivShift ==
  ASSUME NEW x \in Int, NEW m \in Nat \ {0}, NEW q \in Int
  PROVE  (x + m * q) \div m = (x \div m) + q
<1> DEFINE s == x \div m
           t == x % m
           y == x + m * q
<1>1. t \in 0..(m - 1) /\ s \in Int /\ x = m * s + t  BY DivMod
<1> HIDE DEF s, t
<1>2. y = m * (s + q) + t /\ s + q \in Int /\ y \in Int  BY <1>1
<1> HIDE DEF y
<1>3. y \div m = s + q  BY <1>1, <1>2, DivModIs
<1>4. QED  BY <1>3 DEF s, y

\* One for a negative word: its signed reading is less by so many word sizes, and its
\* sign mask is congruent to minus so many.
Negative(x) == IF Signed(x) < 0 THEN 1 ELSE 0

\* The sign mask of a word is all ones exactly when the word is negative.
LEMMA SignMaskIs ==
  ASSUME NEW x \in Word
  PROVE  /\ Negative(x) \in {0, 1} /\ SignMask(x) \in Word
         /\ Signed(x) = x - WordSize * Negative(x)
         /\ SignMask(x) = IF Negative(x) = 1 THEN MaxWord ELSE 0
         /\ \A y \in Int : Congruent(SignMask(x) * y, -(Negative(x) * y), WordSize)
<1>1. /\ x \in Nat /\ x < WordSize /\ WordSize \in Nat \ {0} /\ MaxWord = WordSize - 1
      /\ MaxWord \in Word /\ 0 \in Word
  BY WordIs
<1>2. Signed(x) < 0 <=> x >= SignBit  BY SignedIs
<1>3. Signed(x) = IF x >= SignBit THEN x - WordSize ELSE x  BY SignedIs
<1>4. ASSUME NEW y \in Int PROVE Congruent(SignMask(x) * y, -(Negative(x) * y), WordSize)
  <2>1. CASE Signed(x) < 0
    <3>1. SignMask(x) = WordSize - 1 /\ Negative(x) = 1  BY <1>1, <2>1 DEF SignMask, Negative
    <3> DEFINE z == -(1 * y)
    <3>2. (WordSize - 1) * y = z + WordSize * y /\ z \in Int  BY <1>1
    <3> HIDE DEF z
    <3>3. (z + WordSize * y) % WordSize = z % WordSize  BY <1>1, <3>2, ModShift
    <3>4. Congruent((WordSize - 1) * y, z, WordSize)  BY <3>2, <3>3 DEF Congruent
    <3>5. QED  BY <3>1, <3>4 DEF z
  <2>2. CASE ~(Signed(x) < 0)
    <3>1. SignMask(x) = 0 /\ Negative(x) = 0  BY <2>2 DEF SignMask, Negative
    <3>2. 0 * y = -(0 * y)  OBVIOUS
    <3>3. QED  BY <3>1, <3>2 DEF Congruent
  <2>3. QED  BY <2>1, <2>2
<1>5. QED  BY <1>1, <1>2, <1>3, <1>4 DEF SignMask, Negative

\* The Mulh sequence: the unsigned high half, corrected by the other operand for each
\* negative one.
LEMMA MulhRows ==
  ASSUME NEW a \in Word, NEW b \in Word
  PROVE  Wrap(Wrap(MulHighUnsigned(a, b) + Wrap(SignMask(a) * b)) + Wrap(SignMask(b) * a)) = MulHighSigned(a, b)
<1> DEFINE m == WordSize
           h == MulHighUnsigned(a, b)
           j == Negative(a)
           k == Negative(b)
           u == Wrap(SignMask(a) * b)
           v == Wrap(SignMask(b) * a)
           w == Wrap(h + u)
<1>1. a \in Int /\ b \in Int /\ m \in Nat \ {0} /\ h \in Int /\ h \in Word
  BY WordIs, MulHighIsWord
<1>2. j \in {0, 1} /\ Signed(a) = a - m * j /\ k \in {0, 1} /\ Signed(b) = b - m * k  BY SignMaskIs
<1>3. SignMask(a) * b \in Int /\ SignMask(b) * a \in Int  BY <1>1, SignMaskIs, WordIs
<1>4. u \in Int /\ Congruent(u, -(j * b), m)
  <2>1. u \in Word /\ Congruent(u, SignMask(a) * b, m)  BY <1>3, WrapIs
  <2>2. Congruent(SignMask(a) * b, -(j * b), m)  BY <1>1, SignMaskIs
  <2>3. QED  BY <2>1, <2>2, WordIs, CongruenceOrder
<1>5. v \in Int /\ Congruent(v, -(k * a), m)
  <2>1. v \in Word /\ Congruent(v, SignMask(b) * a, m)  BY <1>3, WrapIs
  <2>2. Congruent(SignMask(b) * a, -(k * a), m)  BY <1>1, SignMaskIs
  <2>3. QED  BY <2>1, <2>2, WordIs, CongruenceOrder
<1>6. w \in Int /\ Congruent(w, h + u, m)
  <2>1. h + u \in Int  BY <1>1, <1>4
  <2>2. QED  BY <2>1, WrapIs, WordIs
<1> DEFINE q == -(j * b) - k * a + m * (j * k)
<1>7. Signed(a) * Signed(b) = a * b + m * q /\ q \in Int /\ a * b \in Int
  <2> HIDE DEF j, k, m
  <2>1. j \in Int /\ k \in Int /\ m \in Int  BY <1>1, <1>2
  <2>2. (a - m * j) * (b - m * k) = a * b + m * (-(j * b) - k * a + m * (j * k))  BY <1>1, <2>1
  <2>3. j * b \in Int /\ k * a \in Int /\ j * k \in Int /\ a * b \in Int  BY <1>1, <2>1
  <2>4. m * (j * k) \in Int  BY <2>1, <2>3
  <2>5. QED  BY <1>2, <2>2, <2>3, <2>4
<1>8. (Signed(a) * Signed(b)) \div m = h + q
  <2> HIDE DEF q, m, h
  <2>1. (a * b + m * q) \div m = ((a * b) \div m) + q  BY <1>1, <1>7, DivShift
  <2>2. QED  BY <1>7, <2>1 DEF h, MulHighUnsigned, m
<1> HIDE DEF m, h, j, k, u, v, w
<1>9. Congruent(w + v, h + q, m)
  <2> DEFINE x == -(j * b)
             y == -(k * a)
  <2>1. x \in Int /\ y \in Int /\ h + u \in Int /\ h + x \in Int /\ Congruent(h, h, m)
    BY <1>1, <1>2, <1>4 DEF Congruent
  <2>2. Congruent(u, x, m) /\ Congruent(v, y, m)  BY <1>4, <1>5
  <2>3. q = x + y + m * (j * k) /\ j * k \in Int
    <3>1. j \in Int /\ k \in Int  BY <1>2
    <3>2. QED  BY <1>1, <3>1
  <2> HIDE DEF x, y, q
  <2>4. Congruent(h + u, h + x, m)  BY <1>1, <1>4, <2>1, <2>2, SumsCongruent
  <2>5. Congruent(w, h + x, m)  BY <1>6, <2>4, CongruenceOrder
  <2>6. Congruent(w + v, (h + x) + y, m)  BY <1>1, <1>5, <1>6, <2>1, <2>2, <2>5, SumsCongruent
  <2>7. Congruent(((h + x) + y) + m * (j * k), (h + x) + y, m)
    <3>1. (h + x) + y \in Int  BY <1>1, <2>1
    <3>2. QED  BY <1>1, <2>3, <3>1, ModShift DEF Congruent
  <2>8. h + q = ((h + x) + y) + m * (j * k)
    <3> DEFINE z == m * (j * k)
    <3>1. z \in Int  BY <1>1, <2>3
    <3> HIDE DEF z
    <3>2. q = x + y + z  BY <2>3 DEF z
    <3>3. h + q = ((h + x) + y) + z  BY <1>1, <2>1, <3>1, <3>2
    <3>4. QED  BY <3>3 DEF z
  <2>9. QED  BY <2>6, <2>7, <2>8, CongruenceOrder
<1>10. Wrap(w + v) = Wrap(h + q)
  <2>1. w + v \in Int /\ h + q \in Int  BY <1>1, <1>5, <1>6, <1>7
  <2>2. QED  BY <1>9, <2>1, WrapSame DEF m
<1>11. QED  BY <1>8, <1>10 DEF MulHighSigned, m, w, u, v, h

\* The Mulw sequence: the low word of the product of the low words.
LEMMA MulwRows ==
  ASSUME NEW a \in Word, NEW b \in Word
  PROVE  SignExtendWord(Wrap(a * b)) = MulWord(a, b)
<1>1. a \in Int /\ b \in Int /\ LowSize \in Nat \ {0}  BY WordIs, Sizes
<1>2. SignedLow(a) \in Int /\ Congruent(SignedLow(a), a, LowSize)
      /\ SignedLow(b) \in Int /\ Congruent(SignedLow(b), b, LowSize)
  BY <1>1, LowIs
<1>3. Congruent(SignedLow(a) * SignedLow(b), a * b, LowSize)  BY <1>1, <1>2, ProductsCongruent
<1>4. a * b \in Int /\ SignedLow(a) * SignedLow(b) \in Int  BY <1>1, <1>2
<1>5. Wrap(a * b) \in Int /\ Congruent(Wrap(a * b), a * b, LowSize)
  <2>1. Wrap(a * b) \in Word /\ Congruent(Wrap(a * b), a * b, WordSize)  BY <1>4, WrapIs
  <2>2. Wrap(a * b) \in Int  BY <2>1, WordIs
  <2>3. QED  BY <1>4, <2>1, <2>2, WordToLow
<1>6. Congruent(Wrap(a * b), SignedLow(a) * SignedLow(b), LowSize)  BY <1>3, <1>5, CongruenceOrder
<1>7. QED  BY <1>4, <1>5, <1>6, SameLow DEF MulWord

\* The Mulhsu sequence: it multiplies the magnitude of the signed operand, and negates
\* both halves of the product by complementing them and adding one, with the carry out
\* of the low half.
LEMMA MulhsuRows ==
  ASSUME NEW a \in Word, NEW b \in Word,
         NEW mask, mask = SignMask(a), NEW one, one = BitAnd(mask, 1),
         NEW n, n = Wrap(BitXor(a, mask) + one),
         NEW high, high = BitXor(MulHighUnsigned(n, b), mask),
         NEW low, low = BitXor(Wrap(n * b), mask)
  PROVE  Wrap(high + Bool(Wrap(low + one) < low)) = MulHighSignedUnsigned(a, b)
<1> DEFINE m == WordSize
           h == MulHighUnsigned(n, b)
           l == Wrap(n * b)
<1>1. a \in Nat /\ b \in Nat /\ a < m /\ b < m /\ m \in Nat \ {0, 1} /\ MaxWord = m - 1 /\ m \in Int
  BY WordIs
<1>2. Negative(a) \in {0, 1} /\ Signed(a) = a - m * Negative(a)
      /\ mask = IF Negative(a) = 1 THEN MaxWord ELSE 0
  BY SignMaskIs
<1>3. Signed(a) < 0 <=> a >= SignBit  BY SignedIs
<1>4. Negative(a) = 1 => a # 0  BY <1>3, Sizes DEF Negative
<1>5. \A x \in Word : Wrap(x) = x /\ x \in Nat /\ x < m  BY WrapIs, WordIs
<1>6. h \in Word /\ l \in Word /\ n * b = m * h + l /\ n * b \in Int
  <2> SUFFICES n \in Word => h \in Word /\ l \in Word /\ n * b = m * h + l /\ n * b \in Int
    <3>1. n \in Word
      <4>1. mask \in Word  BY SignMaskIs
      <4>2. BitXor(a, mask) \in Word /\ 1 \in Word  BY <4>1, BitOpsAreWords, WordIs
      <4>3. one \in Word  BY <4>1, <4>2, BitOpsAreWords
      <4>4. BitXor(a, mask) + one \in Int  BY <4>2, <4>3, WordIs
      <4>5. QED  BY <4>4, WrapIs
    <3>2. QED  BY <3>1
  <2>1. HAVE n \in Word
  <2>2. h \in Word /\ n * b \in Nat  BY <2>1, MulHighIsWord
  <2>3. l \in Word  BY <2>2, WrapIs
  <2> DEFINE p == n * b
  <2> HIDE DEF p, m
  <2>4. p \in Int /\ m \in Nat \ {0}  BY <1>1, <2>2 DEF p
  <2>5. p = m * (p \div m) + (p % m)  BY <2>4, DivMod
  <2>6. QED  BY <2>2, <2>3, <2>4, <2>5 DEF p, MulHighUnsigned, Wrap, m
<1>7. h \in Word /\ l \in Word /\ n * b = m * h + l /\ n * b \in Int /\ h \in Int /\ l \in Nat /\ l < m
  BY <1>5, <1>6, WordIs
<1>8. CASE Negative(a) = 0
  <2>1. mask = 0 /\ one = 0 /\ Signed(a) = a  BY <1>1, <1>2, <1>8, AndOne
  <2>2. BitXor(a, mask) = a  BY <2>1, XorZero
  <2>3. n = a  BY <1>1, <1>5, <2>1, <2>2
  <2>4. high = h /\ low = l  BY <1>7, <2>1, XorZero
  <2>5. Bool(Wrap(low + one) < low) = 0
    <3>1. low + one = l  BY <1>7, <2>1, <2>4
    <3>2. Wrap(low + one) = l  BY <1>5, <1>7, <3>1
    <3>3. ~(l < l)  BY <1>7
    <3>4. QED  BY <2>4, <3>2, <3>3 DEF Bool
  <2>6. high + Bool(Wrap(low + one) < low) = h  BY <1>7, <2>4, <2>5
  <2>7. (Signed(a) * b) \div m = h  BY <2>1, <2>3 DEF MulHighUnsigned
  <2>8. QED  BY <2>6, <2>7 DEF MulHighSignedUnsigned
<1>9. CASE Negative(a) = 1
  <2>1. mask = MaxWord /\ one = 1 /\ Signed(a) = a - m /\ 0 < a  BY <1>1, <1>2, <1>4, <1>9, AndOne
  <2>2. n = m - a
    <3>1. BitXor(a, mask) = MaxWord - a  BY <2>1, XorOnes
    <3>2. BitXor(a, mask) + one = m - a  BY <1>1, <2>1, <3>1
    <3>3. m - a \in Word  BY <1>1, <2>1, WordIs
    <3>4. QED  BY <1>5, <3>2, <3>3
  <2>3. high = m - 1 - h /\ low = m - 1 - l  BY <1>1, <1>7, <2>1, XorOnes
  <2>4. CASE l = 0
    <3>1. low = m - 1 /\ low + one = m  BY <1>1, <2>1, <2>3, <2>4
    <3>2. Wrap(low + one) = 0
      <4> HIDE DEF m
      <4>1. PICK o \in Int : o = 1  OBVIOUS
      <4>2. PICK z \in Int : z = 0  OBVIOUS
      <4>3. m = m * o + z /\ z \in 0..(m - 1) /\ m \in Nat \ {0} /\ m \in Int  BY <1>1, <4>1, <4>2
      <4>4. m % m = z  BY <4>3, DivModIs
      <4>5. QED  BY <3>1, <4>2, <4>4 DEF Wrap, m
    <3>3. Bool(Wrap(low + one) < low) = 1  BY <1>1, <3>1, <3>2 DEF Bool
    <3>4. high + Bool(Wrap(low + one) < low) = m - h  BY <1>1, <1>7, <2>3, <3>3
    <3>5. (Signed(a) * b) \div m = -h
      <4> DEFINE x == Signed(a) * b
                 q == -h
      <4>1. x = m * q + 0 /\ q \in Int /\ x \in Int
        <5>1. n * b = m * h /\ n * b \in Int  BY <1>1, <1>7, <2>4
        <5> HIDE DEF m
        <5>2. (a - m) * b = -((m - a) * b) /\ (a - m) * b \in Int  BY <1>1
        <5>3. m * (-h) = -(m * h) /\ -h \in Int  BY <1>1, <1>7
        <5>4. QED  BY <2>1, <2>2, <5>1, <5>2, <5>3
      <4> HIDE DEF x, q, m
      <4>2. PICK z \in Int : z = 0  OBVIOUS
      <4>3. x = m * q + z /\ z \in 0..(m - 1) /\ m \in Nat \ {0}  BY <1>1, <4>1, <4>2
      <4>4. x \div m = q  BY <4>1, <4>3, DivModIs
      <4>5. QED  BY <4>4 DEF x, q
    <3>6. Wrap(m - h) = Wrap(-h)
      <4> DEFINE g == -h
      <4>1. g \in Int /\ m - h = g + m * 1  BY <1>1, <1>7
      <4> HIDE DEF g
      <4>2. PICK o \in Int : o = 1  OBVIOUS
      <4>3. (g + m * o) % m = g % m  BY <1>1, <4>1, <4>2, ModShift
      <4>4. QED  BY <4>1, <4>2, <4>3 DEF Wrap, g
    <3>7. QED  BY <3>4, <3>5, <3>6 DEF MulHighSignedUnsigned
  <2>5. CASE l # 0
    <3>1. low + one = m - l /\ m - l \in Word  BY <1>1, <1>7, <2>1, <2>3, <2>5, WordIs
    <3>2. Wrap(low + one) = m - l  BY <1>5, <3>1
    <3>3. ~(m - l < m - 1 - l)  BY <1>1, <1>7
    <3>4. Bool(Wrap(low + one) < low) = 0  BY <2>3, <3>2, <3>3 DEF Bool
    <3>5. high + Bool(Wrap(low + one) < low) = m - 1 - h  BY <1>1, <1>7, <2>3, <3>4
    <3>6. (Signed(a) * b) \div m = -h - 1
      <4> DEFINE x == Signed(a) * b
                 q == -h - 1
                 r == m - l
      <4>1. x = m * q + r /\ q \in Int /\ x \in Int
        <5>1. n * b = m * h + l /\ n * b \in Int  BY <1>7
        <5> HIDE DEF m, h, l
        <5>2. (a - m) * b = -((m - a) * b) /\ (a - m) * b \in Int  BY <1>1
        <5>3. m * (-h - 1) = -(m * h) - m /\ -h - 1 \in Int /\ m * h \in Int  BY <1>1, <1>7
        <5> DEFINE y == (a - m) * b
                   z == m * h
                   w == m * (-h - 1)
        <5>4. y = -(n * b) /\ n * b = z + l /\ w = -z - m /\ z \in Int /\ y \in Int /\ Signed(a) * b = y
          BY <2>1, <2>2, <5>1, <5>2, <5>3
        <5> HIDE DEF y, z, w
        <5>5. y = w + (m - l)  BY <1>1, <1>7, <5>4
        <5>6. QED  BY <1>1, <5>3, <5>4, <5>5 DEF w
      <4>2. r \in 0..(m - 1) /\ m \in Nat \ {0}  BY <1>1, <1>7, <2>5
      <4> HIDE DEF x, q, r, m
      <4>3. x \div m = q  BY <4>1, <4>2, DivModIs
      <4>4. QED  BY <4>3 DEF x, q
    <3>7. Wrap(m - 1 - h) = Wrap(-h - 1)
      <4> DEFINE g == -h - 1
      <4>1. g \in Int /\ m - 1 - h = g + m * 1  BY <1>1, <1>7
      <4> HIDE DEF g
      <4>2. PICK o \in Int : o = 1  OBVIOUS
      <4>3. (g + m * o) % m = g % m  BY <1>1, <4>1, <4>2, ModShift
      <4>4. QED  BY <4>1, <4>2, <4>3 DEF Wrap, g
    <3>8. QED  BY <3>5, <3>6, <3>7 DEF MulHighSignedUnsigned
  <2>6. QED  BY <2>4, <2>5
<1>10. QED  BY <1>2, <1>8, <1>9

-----------------------------------------------------------------------------
(* Divisions: the quotient and the remainder as numbers, of which the      *)
(* instructions keep a word or the sign extension of a low word.           *)

QuotientOf(op, a, b) ==
  IF Dividend(op, b) = 0 THEN -1
  ELSE IF Overflows(op, a, b) THEN Dividend(op, a) ELSE TruncDiv(Dividend(op, a), Dividend(op, b))

RemainderOf(op, a, b) ==
  IF Dividend(op, b) = 0 THEN Dividend(op, a)
  ELSE IF Overflows(op, a, b) THEN 0 ELSE TruncRem(Dividend(op, a), Dividend(op, b))

Fit(op, x) == IF op \in WordOps THEN SignExtendWord(x) ELSE Wrap(x)

Modulus(op) == IF op \in WordOps THEN LowSize ELSE WordSize

DivRemOps == DivOps \cup RemOps

\* The operands as the division reads them.
LEMMA DividendIs ==
  ASSUME NEW op \in DivRemOps, NEW x \in Word
  PROVE  /\ Dividend(op, x) \in Int /\ Congruent(Dividend(op, x), x, Modulus(op))
         /\ Modulus(op) \in Nat \ {0}
<1>1. x \in Int /\ WordSize \in Nat \ {0} /\ LowSize \in Nat \ {0}  BY WordIs, Sizes
<1>2. /\ SignedLow(x) \in Int /\ Congruent(SignedLow(x), x, LowSize)
      /\ Low(x) \in Nat /\ Congruent(Low(x), x, LowSize)
  BY <1>1, LowIs
<1>3. Signed(x) \in Int /\ Congruent(Signed(x), x, WordSize)  BY SignedIs
<1>4. Congruent(x, x, WordSize)  BY DEF Congruent
<1>5. CASE op \in WordOps
  <2>1. Modulus(op) = LowSize /\ (Dividend(op, x) = SignedLow(x) \/ Dividend(op, x) = Low(x))
    BY <1>5 DEF Modulus, Dividend, WordOps, SignedOps
  <2>2. QED  BY <1>1, <1>2, <2>1
<1>6. CASE op \notin WordOps
  <2>1. Modulus(op) = WordSize /\ (Dividend(op, x) = Signed(x) \/ Dividend(op, x) = x)
    BY <1>6 DEF Modulus, Dividend, WordOps, SignedOps, DivRemOps, DivOps, RemOps
  <2>2. QED  BY <1>1, <1>3, <1>4, <2>1
<1>7. QED  BY <1>5, <1>6

\* The quotient and the remainder are numbers.
LEMMA QuotientsAreInts ==
  ASSUME NEW op \in DivRemOps, NEW a \in Word, NEW b \in Word
  PROVE  QuotientOf(op, a, b) \in Int /\ RemainderOf(op, a, b) \in Int
<1>1. Dividend(op, a) \in Int /\ Dividend(op, b) \in Int  BY DividendIs
<1>2. Dividend(op, b) # 0 => /\ TruncDiv(Dividend(op, a), Dividend(op, b)) \in Int
                             /\ TruncRem(Dividend(op, a), Dividend(op, b)) \in Int
  BY <1>1, TruncIs
<1>3. -1 \in Int /\ 0 \in Int  OBVIOUS
<1>4. QED  BY <1>1, <1>2, <1>3 DEF QuotientOf, RemainderOf

\* All ones is minus one.
LEMMA AllOnes ==
  /\ Wrap(-1) = MaxWord /\ SignExtendWord(-1) = MaxWord /\ Wrap(0) = 0 /\ SignExtendWord(0) = 0
  /\ Congruent(MaxWord, -1, WordSize) /\ Congruent(MaxWord, -1, LowSize)
  /\ Congruent(LowSize - 1, -1, LowSize) /\ LowSize - 1 \in Word
<1>1. PICK o \in Int : o = -1  OBVIOUS
<1>2. PICK l \in Int : l = 1  OBVIOUS
<1>3. WordSize \in Nat \ {0, 1} /\ MaxWord \in Word /\ MaxWord = WordSize - 1 /\ MaxWord \in Int
  BY WordIs
<1>4. LowSize \in Nat \ {0} /\ LowSize = 2 * LowSign /\ LowSign \in Nat \ {0}  BY Sizes
<1>5. Congruent(MaxWord, o, WordSize)
  <2>1. MaxWord = o + WordSize * l  BY <1>1, <1>2, <1>3
  <2>2. QED  BY <1>3, <2>1, ModShift DEF Congruent
<1>6. Wrap(o) = MaxWord
  <2>1. Congruent(o, MaxWord, WordSize)  BY <1>5, CongruenceOrder
  <2>2. QED  BY <1>3, <2>1, WrapTo
<1>7. Congruent(MaxWord, o, LowSize)  BY <1>3, <1>5, WordToLow
<1>8. SignExtendWord(o) = MaxWord
  <2>1. SignedLow(o) = o  BY <1>1, <1>4, SignedLowSame
  <2>2. QED  BY <1>6, <2>1 DEF SignExtendWord
<1>9. Congruent(LowSize - 1, o, LowSize)
  <2>1. LowSize - 1 = o + LowSize * l  BY <1>1, <1>2, <1>4
  <2>2. LowSize \in Nat \ {0}  BY <1>4
  <2>3. (o + LowSize * l) % LowSize = o % LowSize  BY ONLY o \in Int, l \in Int, <2>2, ModShift
  <2>4. QED  BY <2>1, <2>3 DEF Congruent
<1>10. Wrap(0) = 0 /\ SignExtendWord(0) = 0
  <2>1. PICK z \in Int : z = 0  OBVIOUS
  <2>2. z \in Word  BY <2>1, WordIs
  <2>3. Wrap(z) = z  BY <2>2, WrapIs
  <2>4. SignedLow(z) = z  BY <1>4, <2>1, SignedLowSame
  <2>5. QED  BY <2>1, <2>3, <2>4 DEF SignExtendWord
<1>11. LowSize - 1 \in Word
  <2>1. PICK h \in Nat \ {0} : WordSize = LowSize * (2 * h)  BY Sizes
  <2>2. LowSize <= WordSize
    <3>1. LowSize * (2 * h - 1) >= 0 /\ LowSize * (2 * h - 1) = LowSize * (2 * h) - LowSize
          /\ LowSize * (2 * h) \in Int
      BY <1>4
    <3>2. QED  BY <1>3, <1>4, <2>1, <3>1
  <2>3. QED  BY <1>3, <1>4, <2>2, WordIs
<1>12. QED  BY <1>1, <1>5, <1>6, <1>7, <1>8, <1>9, <1>10, <1>11

\* On natural numbers the truncated division is the plain one.
LEMMA TruncNat ==
  ASSUME NEW x \in Nat, NEW y \in Nat \ {0}
  PROVE  TruncDiv(x, y) = x \div y /\ TruncRem(x, y) = x % y
<1>1. Magnitude(x) = x /\ Magnitude(y) = y /\ ~(x < 0) /\ ~(y < 0)  BY DEF Magnitude
<1>2. TruncDiv(x, y) = x \div y  BY <1>1 DEF TruncDiv
<1> DEFINE q == x \div y
           r == x % y
<1>3. r \in 0..(y - 1) /\ q \in Int /\ x = y * q + r  BY DivMod
<1> HIDE DEF q, r
<1>4. x - y * q = r  BY <1>3
<1>5. QED  BY <1>2, <1>4 DEF TruncRem, q, r

\* Every division instruction keeps its part of the quotient or the remainder.
LEMMA DivisionAlu ==
  ASSUME NEW op \in DivRemOps, NEW a \in Word, NEW b \in Word
  PROVE  Alu(op, a, b) = Fit(op, IF op \in DivOps THEN QuotientOf(op, a, b) ELSE RemainderOf(op, a, b))
<1>1. a \in Nat /\ b \in Nat /\ a \in Int /\ b \in Int /\ Wrap(a) = a  BY WordIs, WrapIs
<1>2. CASE op \in {"Div", "Rem"}
  <2>1. Dividend(op, a) = Signed(a) /\ Dividend(op, b) = Signed(b)
    BY <1>2 DEF Dividend, SignedOps, WordOps
  <2>2. Overflows(op, a, b) <=> Signed(a) = SignedMin /\ Signed(b) = -1
    BY <1>2, <2>1 DEF Overflows, SignedOps, WordOps
  <2>3. Signed(b) = 0 <=> b = 0
    <3>1. WordSize \in Nat /\ b < WordSize  BY WordIs
    <3>2. Signed(b) = IF b >= SignBit THEN b - WordSize ELSE b  BY SignedIs
    <3>3. SignBit \in Nat \ {0}  BY Sizes
    <3>4. QED  BY <1>1, <3>1, <3>2, <3>3
  <2>4. Wrap(Signed(a)) = a  BY SignedIs, WrapTo
  <2>5. \A x : Fit(op, x) = Wrap(x)  BY <1>2 DEF Fit, WordOps
  <2>6. Wrap(QuotientOf(op, a, b)) = DivSigned(a, b)
    BY <2>1, <2>2, <2>3, <2>4, AllOnes DEF QuotientOf, DivSigned
  <2>7. Wrap(RemainderOf(op, a, b)) = RemSigned(a, b)
    BY <2>1, <2>2, <2>3, <2>4, AllOnes DEF RemainderOf, RemSigned
  <2>8. QED  BY <1>2, <2>5, <2>6, <2>7 DEF Alu, DivOps
<1>3. CASE op \in {"Divu", "Remu"}
  <2>1. Dividend(op, a) = a /\ Dividend(op, b) = b /\ ~Overflows(op, a, b)
    BY <1>3 DEF Dividend, SignedOps, WordOps, Overflows
  <2>2. \A x : Fit(op, x) = Wrap(x)  BY <1>3 DEF Fit, WordOps
  <2>3. b # 0 => TruncDiv(a, b) = a \div b /\ TruncRem(a, b) = a % b  BY <1>1, TruncNat
  <2>4. DivUnsigned(a, b) \in Word /\ RemUnsigned(a, b) \in Word  BY DivisionsAreWords
  <2>5. Wrap(DivUnsigned(a, b)) = DivUnsigned(a, b) /\ Wrap(RemUnsigned(a, b)) = RemUnsigned(a, b)
    BY <2>4, WrapIs, WordIs
  <2>6. Wrap(QuotientOf(op, a, b)) = DivUnsigned(a, b)
    BY <2>1, <2>3, <2>5, AllOnes DEF QuotientOf, DivUnsigned
  <2>7. Wrap(RemainderOf(op, a, b)) = RemUnsigned(a, b)
    BY <1>1, <2>1, <2>3, <2>5 DEF RemainderOf, RemUnsigned
  <2>8. QED  BY <1>3, <2>2, <2>6, <2>7 DEF Alu, DivOps
<1>4. CASE op \in {"Divw", "Remw"}
  <2>1. Dividend(op, a) = SignedLow(a) /\ Dividend(op, b) = SignedLow(b)
    BY <1>4 DEF Dividend, SignedOps, WordOps
  <2>2. Overflows(op, a, b) <=> SignedLow(a) = SignedLowMin /\ SignedLow(b) = -1
    BY <1>4, <2>1 DEF Overflows, SignedOps, WordOps
  <2>3. SignedLow(b) = 0 <=> Low(b) = 0  BY <1>1, LowIs
  <2>4. SignExtendWord(SignedLow(a)) = SignExtendWord(a)
    <3>1. SignedLow(a) \in Int /\ Congruent(SignedLow(a), a, LowSize)  BY <1>1, LowIs
    <3>2. QED  BY <1>1, <3>1, SameLow
  <2>5. \A x : Fit(op, x) = SignExtendWord(x)  BY <1>4 DEF Fit, WordOps
  <2>6. SignExtendWord(QuotientOf(op, a, b)) = DivWordSigned(a, b)
    BY <2>1, <2>2, <2>3, <2>4, AllOnes DEF QuotientOf, DivWordSigned
  <2>7. SignExtendWord(RemainderOf(op, a, b)) = RemWordSigned(a, b)
    BY <2>1, <2>2, <2>3, <2>4, AllOnes DEF RemainderOf, RemWordSigned
  <2>8. QED  BY <1>4, <2>5, <2>6, <2>7 DEF Alu, DivOps
<1>5. CASE op \in {"Divuw", "Remuw"}
  <2>1. Dividend(op, a) = Low(a) /\ Dividend(op, b) = Low(b) /\ ~Overflows(op, a, b)
    BY <1>5 DEF Dividend, SignedOps, WordOps, Overflows
  <2>2. \A x : Fit(op, x) = SignExtendWord(x)  BY <1>5 DEF Fit, WordOps
  <2>3. Low(b) # 0 => TruncDiv(Low(a), Low(b)) = Low(a) \div Low(b)
                      /\ TruncRem(Low(a), Low(b)) = Low(a) % Low(b)
    <3>1. Low(a) \in Nat /\ Low(b) \in Nat  BY <1>1, LowIs
    <3>2. QED  BY <3>1, TruncNat
  <2>4. SignExtendWord(Low(a)) = SignExtendWord(a)
    <3>1. Low(a) \in Int /\ Congruent(Low(a), a, LowSize)  BY <1>1, LowIs
    <3>2. QED  BY <1>1, <3>1, SameLow
  <2>5. SignExtendWord(QuotientOf(op, a, b)) = DivWordUnsigned(a, b)
    BY <2>1, <2>3, AllOnes DEF QuotientOf, DivWordUnsigned
  <2>6. SignExtendWord(RemainderOf(op, a, b)) = RemWordUnsigned(a, b)
    BY <2>1, <2>3, <2>4 DEF RemainderOf, RemWordUnsigned
  <2>7. QED  BY <1>5, <2>2, <2>5, <2>6 DEF Alu, DivOps
<1>6. QED  BY <1>2, <1>3, <1>4, <1>5 DEF DivRemOps, DivOps, RemOps

\* The divisor that the rows multiply with: the effective divisor of the signed
\* divisions, and rs2 itself for the others.
RowDivisor(op, a, b) == IF op \in SignedOps THEN EffectiveDivisor(op, a, b) ELSE b

\* The hints are words; the quotient hint is congruent to the quotient, and the
\* divisor to the divisor, or to one when the division overflows.
LEMMA HintsAre ==
  ASSUME NEW op \in DivRemOps, NEW a \in Word, NEW b \in Word
  PROVE  /\ Quotient(op, a, b) \in Word /\ EffectiveDivisor(op, a, b) \in Word
         /\ Congruent(Quotient(op, a, b), QuotientOf(op, a, b), Modulus(op))
         /\ RowDivisor(op, a, b) \in Word
         /\ Congruent(RowDivisor(op, a, b), IF Overflows(op, a, b) THEN 1 ELSE Dividend(op, b), Modulus(op))
<1> DEFINE n == Dividend(op, a)
           d == Dividend(op, b)
           m == Modulus(op)
           e == IF Overflows(op, a, b) THEN 1 ELSE d
           t == IF Overflows(op, a, b) THEN n ELSE TruncDiv(n, d)
<1>1. n \in Int /\ d \in Int /\ m \in Nat \ {0} /\ Congruent(d, b, m)  BY DividendIs
<1>2. ASSUME NEW x \in Int PROVE Wrap(x) \in Word /\ Congruent(Wrap(x), x, m)
  <2>1. Wrap(x) \in Word /\ Congruent(Wrap(x), x, WordSize)  BY WrapIs
  <2>2. Wrap(x) \in Int  BY <2>1, WordIs
  <2>3. Congruent(Wrap(x), x, LowSize)  BY <2>1, <2>2, WordToLow
  <2>4. QED  BY <2>1, <2>3 DEF Modulus
<1>3. e \in Int /\ (d # 0 => t \in Int)
  <2>1. d # 0 => TruncDiv(n, d) \in Int  BY <1>1, TruncIs
  <2>2. QED  BY <1>1, <2>1
<1>4. d = 0 => /\ QuotientOf(op, a, b) = -1
               /\ \/ Quotient(op, a, b) = LowSize - 1 /\ m = LowSize
                  \/ Quotient(op, a, b) = MaxWord
  BY DEF QuotientOf, Quotient, Modulus, WordOps
<1>5. d # 0 => QuotientOf(op, a, b) = t /\ Quotient(op, a, b) = Wrap(t)  BY DEF QuotientOf, Quotient
<1>6. m \in {LowSize, WordSize}  BY DEF Modulus
<1>7. d = 0 => Quotient(op, a, b) \in Word /\ Congruent(Quotient(op, a, b), -1, m)
  BY <1>4, <1>6, AllOnes, WordIs
<1>8. EffectiveDivisor(op, a, b) = Wrap(e)  BY DEF EffectiveDivisor
<1>9. op \notin SignedOps => e = d  BY DEF Overflows
<1> HIDE DEF n, d, m, e, t
<1>10. Quotient(op, a, b) \in Word /\ Congruent(Quotient(op, a, b), QuotientOf(op, a, b), m)
  <2>1. CASE d = 0  BY <1>4, <1>7, <2>1
  <2>2. CASE d # 0  BY <1>2, <1>3, <1>5, <2>2
  <2>3. QED  BY <2>1, <2>2
<1>11. EffectiveDivisor(op, a, b) \in Word /\ Congruent(EffectiveDivisor(op, a, b), e, m)
  BY <1>2, <1>3, <1>8
<1>12. op \notin SignedOps => Congruent(b, e, m)  BY <1>1, <1>9, CongruenceOrder
<1>13. QED  BY <1>10, <1>11, <1>12 DEF RowDivisor, e, m, d

\* The row that subtracts the product computes the remainder: N = Q * D + R.
LEMMA DivisionRows ==
  ASSUME NEW op \in DivRemOps, NEW a \in Word, NEW b \in Word
  PROVE  Congruent(Wrap(a - Wrap(Quotient(op, a, b) * RowDivisor(op, a, b))), RemainderOf(op, a, b), Modulus(op))
<1> DEFINE n == Dividend(op, a)
           d == Dividend(op, b)
           m == Modulus(op)
           e == IF Overflows(op, a, b) THEN 1 ELSE d
           q == Quotient(op, a, b)
           v == RowDivisor(op, a, b)
           t == QuotientOf(op, a, b)
           p == q * v
           x == Wrap(p)
           y == a - x
<1>1. n \in Int /\ d \in Int /\ m \in Nat \ {0} /\ Congruent(n, a, m)  BY DividendIs
<1>2. q \in Int /\ v \in Int /\ Congruent(q, t, m) /\ Congruent(v, e, m) /\ t \in Int
  BY HintsAre, QuotientsAreInts, WordIs
<1>3. e \in Int  BY <1>1
<1>4. a \in Int  BY WordIs
<1>5. n - t * e = RemainderOf(op, a, b)
  <2>1. CASE d = 0
    <3>1. RemainderOf(op, a, b) = n  BY <2>1 DEF RemainderOf
    <3>2. ~Overflows(op, a, b)  BY <2>1 DEF Overflows
    <3>3. e = 0 /\ \A i \in Int : i * 0 = 0  BY <2>1, <3>2
    <3> HIDE DEF n, t, e
    <3>4. t * e = 0  BY <1>2, <3>3
    <3>5. QED  BY <1>1, <3>1, <3>4
  <2>2. CASE d # 0 /\ Overflows(op, a, b)
    <3>1. RemainderOf(op, a, b) = 0 /\ t = n /\ e = 1  BY <2>2 DEF RemainderOf, QuotientOf
    <3> HIDE DEF n, t, e
    <3>2. n * 1 = n  BY <1>1
    <3>3. QED  BY <1>1, <3>1, <3>2
  <2>3. CASE d # 0 /\ ~Overflows(op, a, b)
    <3>1. RemainderOf(op, a, b) = TruncRem(n, d) /\ t = TruncDiv(n, d) /\ e = d
      BY <2>3 DEF RemainderOf, QuotientOf
    <3>2. TruncRem(n, d) = n - d * TruncDiv(n, d)  BY <1>1, <2>3, TruncIs
    <3> HIDE DEF n, d, t, e
    <3>3. d * t = t * d  BY <1>1, <1>2
    <3>4. QED  BY <3>1, <3>2, <3>3
  <2>4. QED  BY <2>1, <2>2, <2>3
<1>6. ASSUME NEW i \in Int PROVE Wrap(i) \in Int /\ Congruent(Wrap(i), i, m)
  <2>1. Wrap(i) \in Word /\ Congruent(Wrap(i), i, WordSize)  BY WrapIs
  <2>2. Wrap(i) \in Int  BY <2>1, WordIs
  <2>3. Congruent(Wrap(i), i, LowSize)  BY <2>1, <2>2, WordToLow
  <2>4. QED  BY <2>1, <2>2, <2>3 DEF Modulus
<1> HIDE DEF n, d, m, e, q, v, t
<1>7. Congruent(p, t * e, m) /\ p \in Int /\ t * e \in Int  BY <1>1, <1>2, <1>3, ProductsCongruent
<1>8. x \in Int /\ Congruent(x, t * e, m)
  <2>1. x \in Int /\ Congruent(x, p, m)  BY <1>6, <1>7
  <2>2. QED  BY <1>7, <2>1, CongruenceOrder
<1> HIDE DEF p, x
<1>9. Congruent(y, n - t * e, m) /\ y \in Int
  <2> DEFINE w == t * e
             o == -x
             u == -w
  <2>1. PICK i \in Int : i = -1  BY <1>1
  <2>2. w \in Int  BY <1>7
  <2>3. Congruent(i, i, m) /\ Congruent(x, w, m) /\ Congruent(a, n, m)  BY <1>1, <1>8, CongruenceOrder
  <2> HIDE DEF w
  <2>4. Congruent(i * x, i * w, m)  BY <1>1, <1>8, <2>1, <2>2, <2>3, ProductsCongruent
  <2>5. i * x = -x /\ i * w = -w  BY <1>8, <2>1, <2>2
  <2>6. Congruent(o, u, m) /\ o \in Int /\ u \in Int  BY <1>8, <2>2, <2>4, <2>5
  <2> HIDE DEF o, u
  <2>7. Congruent(a + o, n + u, m)  BY <1>1, <1>4, <2>3, <2>6, SumsCongruent
  <2>8. a + o = y /\ n + u = n - w  BY <1>1, <1>4, <1>8, <2>2 DEF o, u
  <2>9. QED  BY <1>4, <1>8, <2>7, <2>8 DEF w
<1>10. Congruent(Wrap(y), n - t * e, m)  BY <1>6, <1>9, CongruenceOrder
<1>11. QED  BY <1>5, <1>10 DEF y, x, p, q, v, m

\* A number keeps its fit through its remainder: of a word, or of a low word.
LEMMA FitIs ==
  ASSUME NEW op, NEW x \in Int, NEW y \in Int, Congruent(x, y, Modulus(op))
  PROVE  Fit(op, x) = Fit(op, y) /\ Fit(op, x) \in Word /\ Congruent(Fit(op, x), x, Modulus(op))
<1>1. CASE op \in WordOps
  <2>1. Congruent(x, y, LowSize) /\ Modulus(op) = LowSize  BY <1>1 DEF Modulus
  <2>2. SignExtendWord(x) \in Word /\ Congruent(SignExtendWord(x), x, LowSize)  BY SignExtendIs
  <2>3. SignExtendWord(x) = SignExtendWord(y)  BY <2>1, SameLow
  <2>4. QED  BY <1>1, <2>1, <2>2, <2>3 DEF Fit
<1>2. CASE op \notin WordOps
  <2>1. Congruent(x, y, WordSize) /\ Modulus(op) = WordSize  BY <1>2 DEF Modulus
  <2>2. Wrap(x) \in Word /\ Congruent(Wrap(x), x, WordSize)  BY WrapIs
  <2>3. Wrap(x) = Wrap(y)  BY <2>1, WrapSame
  <2>4. QED  BY <1>2, <2>1, <2>2, <2>3 DEF Fit
<1>3. QED  BY <1>1, <1>2

\* The quotient hint and the difference, made to fit, are what the instructions compute,
\* and the difference is the remainder of the same operands.
LEMMA DivisionResults ==
  ASSUME NEW op \in DivRemOps, NEW a \in Word, NEW b \in Word,
         NEW q, q = Quotient(op, a, b), NEW r, r = Wrap(a - Wrap(q * RowDivisor(op, a, b)))
  PROVE  /\ q \in Word /\ r \in Word
         /\ op \in DivOps => Fit(op, q) = Alu(op, a, b)
         /\ op \in RemOps => Fit(op, r) = Alu(op, a, b)
         /\ IF op \in WordOps THEN Low(r) = Low(Alu(Remainder(op), a, b))
                              ELSE r = Alu(Remainder(op), a, b)
<1> DEFINE v == RowDivisor(op, a, b)
           m == Modulus(op)
<1>1. q \in Word /\ v \in Word /\ q \in Int /\ v \in Int /\ a \in Int  BY HintsAre, WordIs
<1>2. QuotientOf(op, a, b) \in Int /\ RemainderOf(op, a, b) \in Int  BY QuotientsAreInts
<1>3. r \in Word /\ r \in Int
  <2> HIDE DEF v
  <2>1. q * v \in Int  BY <1>1
  <2>2. Wrap(q * v) \in Word  BY <2>1, WrapIs
  <2>3. a - Wrap(q * v) \in Int  BY <1>1, <2>2, WordIs
  <2>4. QED  BY <2>3, WrapIs, WordIs DEF v
<1>4. Congruent(q, QuotientOf(op, a, b), m) /\ Congruent(r, RemainderOf(op, a, b), m)
  BY HintsAre, DivisionRows
<1> HIDE DEF m, v
<1>5. Fit(op, q) = Fit(op, QuotientOf(op, a, b)) /\ Fit(op, r) = Fit(op, RemainderOf(op, a, b))
  BY <1>1, <1>2, <1>3, <1>4, FitIs DEF m
<1>6. op \in DivOps => Fit(op, q) = Alu(op, a, b)  BY <1>5, DivisionAlu
<1>7. op \in RemOps => Fit(op, r) = Alu(op, a, b)
  <2>1. op \in RemOps => op \notin DivOps  BY DEF RemOps, DivOps
  <2>2. QED  BY <1>5, <2>1, DivisionAlu
<1> DEFINE s == Remainder(op)
<1>8. s \in DivRemOps /\ s \notin DivOps /\ (s \in WordOps <=> op \in WordOps)
      /\ RemainderOf(s, a, b) = RemainderOf(op, a, b)
  BY DEF Remainder, DivRemOps, DivOps, RemOps, WordOps, RemainderOf, Dividend, SignedOps, Overflows
<1> HIDE DEF s
<1>9. Alu(s, a, b) = Fit(op, r)
  <2>1. Alu(s, a, b) = Fit(s, RemainderOf(op, a, b))  BY <1>8, DivisionAlu
  <2>2. QED  BY <1>5, <1>8, <2>1 DEF Fit
<1>10. IF op \in WordOps THEN Low(r) = Low(Alu(s, a, b)) ELSE r = Alu(s, a, b)
  <2>1. CASE op \in WordOps
    <3>1. Fit(op, r) = SignExtendWord(r) /\ m = LowSize  BY <2>1 DEF Fit, m, Modulus
    <3>2. SignExtendWord(r) \in Int /\ Congruent(SignExtendWord(r), r, LowSize)
      BY <1>3, SignExtendIs, WordIs
    <3>3. Low(SignExtendWord(r)) = Low(r)  BY <1>3, <3>2, SameLow
    <3>4. QED  BY <1>9, <2>1, <3>1, <3>3
  <2>2. CASE op \notin WordOps
    <3>1. Fit(op, r) = r  BY <1>3, <2>2, WrapIs DEF Fit
    <3>2. QED  BY <1>9, <2>2, <3>1
  <2>3. QED  BY <2>1, <2>2
<1>11. QED  BY <1>1, <1>3, <1>6, <1>7, <1>10 DEF s

-----------------------------------------------------------------------------
(* Inline sequences: the register file after each of their rows.           *)

AllRegs == Regs \cup ScratchRegs

RowResult(spec, regs) == TraceResult(spec, regs[spec.rs1], regs[spec.rs2])

\* trace[k] is the register file after k rows of the sequence.
IsTrace(trace, step, steps) ==
  /\ trace = [k \in 0..Len(steps) |-> trace[k]]
  /\ trace[0] = TraceRegs(step)
  /\ \A k \in 1..Len(steps) :
        trace[k] = WriteReg(trace[k - 1], steps[k].rd, RowResult(steps[k], trace[k - 1]))

PushRow(d, acc, spec) ==
  LET row == InlineRow(d[1], d[2], Len(acc.rows), d[3], acc.regs)
  IN  [rows |-> Append(acc.rows, row), regs |-> WriteReg(acc.regs, spec.rd, row.alu_result)]

Pushing == INSTANCE FoldFacts WITH Op <- PushRow

\* InlineRows makes one row for each instruction of the plan, from the registers that
\* the rows before it leave.
LEMMA InlineRowsAre ==
  ASSUME NEW step, NEW plan, IsSeq(plan.steps), NEW ti
  PROVE  \E trace :
            /\ IsTrace(trace, step, plan.steps)
            /\ IsSeq(InlineRows(step, plan, ti)) /\ Len(InlineRows(step, plan, ti)) = Len(plan.steps)
            /\ \A k \in 1..Len(plan.steps) :
                  InlineRows(step, plan, ti)[k] = InlineRow(step, plan, k - 1, ti, trace[k - 1])
<1> DEFINE d == <<step, plan, ti>>
           s == plan.steps
           n == Len(s)
           base == [rows |-> <<>>, regs |-> TraceRegs(step)]
<1>1. d[1] = step /\ d[2] = plan /\ d[3] = ti  OBVIOUS
<1>2. InlineRows(step, plan, ti)
        = FoldLeft(LAMBDA acc, spec :
             [rows |-> Append(acc.rows, InlineRow(d[1], d[2], Len(acc.rows), d[3], acc.regs)),
              regs |-> WriteReg(acc.regs, spec.rd,
                                InlineRow(d[1], d[2], Len(acc.rows), d[3], acc.regs).alu_result)],
             base, s).rows
  BY <1>1 DEF InlineRows, FoldLeft, MapThenFoldSet, Max
<1> HIDE DEF d
<1>3. InlineRows(step, plan, ti) = Pushing!Fold(d, base, s).rows
  BY <1>2 DEF Pushing!Fold, PushRow, FoldLeft, MapThenFoldSet, Pushing!FoldLeft,
              Pushing!MapThenFoldSet, Max, Pushing!Max
<1>4. Pushing!IsSeq(s) /\ n \in Nat  BY IsSeqLen DEF IsSeq, Pushing!IsSeq
<1>5. PICK g : Pushing!IsRun(d, g, base, s, n) /\ Pushing!Fold(d, base, s) = g[n]
  BY <1>4, Pushing!FoldIsRun
<1> DEFINE trace == [k \in 0..n |-> g[k].regs]
           row(k) == InlineRow(step, plan, k - 1, ti, trace[k - 1])
           S == {k \in 0..n : IsSeq(g[k].rows) /\ Len(g[k].rows) = k /\ \A i \in 1..k : g[k].rows[i] = row(i)}
<1>6. g[0] = base /\ \A k \in 1..n : g[k] = PushRow(d, g[k - 1], s[k])  BY <1>5 DEF Pushing!IsRun
<1>7. \A k \in 0..n : trace[k] = g[k].regs  OBVIOUS
<1> HIDE DEF trace
<1>8. 0 \in S
  <2>1. g[0].rows = <<>>  BY <1>6
  <2>2. QED  BY <1>4, <2>1, EmptyIsSeq
<1>9. ASSUME NEW k \in 0..n, k \in S /\ k < n PROVE k + 1 \in S
  <2>1. k + 1 \in 1..n /\ k + 1 \in 0..n /\ (k + 1) - 1 = k  BY <1>4, <1>9
  <2>2. Len(g[k].rows) = k /\ IsSeq(g[k].rows) /\ \A i \in 1..k : g[k].rows[i] = row(i)  BY <1>9
  <2>3. g[k + 1] = PushRow(d, g[k], s[k + 1])  BY <1>6, <2>1
  <2>4. g[k + 1].rows = Append(g[k].rows, InlineRow(step, plan, k, ti, g[k].regs))
    BY <1>1, <2>2, <2>3 DEF PushRow
  <2>5. row(k + 1) = InlineRow(step, plan, k, ti, g[k].regs)  BY <1>7, <2>1
  <2> HIDE DEF row
  <2>6. /\ IsSeq(g[k + 1].rows) /\ Len(g[k + 1].rows) = k + 1
        /\ \A i \in 1..k : g[k + 1].rows[i] = g[k].rows[i]
        /\ g[k + 1].rows[k + 1] = row(k + 1)
    BY <2>2, <2>4, <2>5, AppendSeq
  <2>7. \A i \in 1..(k + 1) : i \in 1..k \/ i = k + 1  OBVIOUS
  <2>8. \A i \in 1..(k + 1) : g[k + 1].rows[i] = row(i)  BY <2>2, <2>6, <2>7
  <2>9. QED  BY <2>1, <2>6, <2>8
<1> HIDE DEF S, row
<1>10. \A k \in 0..n : k \in S  BY <1>4, <1>8, <1>9, InductionUpTo
<1>11. n \in S  BY <1>4, <1>10
<1>12. InlineRows(step, plan, ti) = g[n].rows  BY <1>3, <1>5
<1>13. /\ IsSeq(InlineRows(step, plan, ti)) /\ Len(InlineRows(step, plan, ti)) = n
       /\ \A k \in 1..n : InlineRows(step, plan, ti)[k] = row(k)
  BY <1>11, <1>12 DEF S
<1>14. IsTrace(trace, step, s)
  <2>1. trace = [k \in 0..n |-> trace[k]]  BY DEF trace
  <2>2. trace[0] = TraceRegs(step)  BY <1>4, <1>6, <1>7
  <2>3. ASSUME NEW k \in 1..n PROVE trace[k] = WriteReg(trace[k - 1], s[k].rd, RowResult(s[k], trace[k - 1]))
    <3>1. k - 1 \in 0..n /\ k \in 0..n /\ k - 1 \in S /\ k - 1 \in Nat /\ (k - 1) + 1 = k  BY <1>4, <1>10
    <3>2. Len(g[k - 1].rows) = k - 1  BY <3>1 DEF S
    <3>3. g[k] = PushRow(d, g[k - 1], s[k])  BY <1>6
    <3>4. g[k].regs = WriteReg(g[k - 1].regs, s[k].rd, InlineRow(step, plan, k - 1, ti, g[k - 1].regs).alu_result)
      BY <1>1, <3>2, <3>3 DEF PushRow
    <3>5. InlineRow(step, plan, k - 1, ti, g[k - 1].regs).alu_result = RowResult(s[k], g[k - 1].regs)
      BY <3>1 DEF InlineRow, RowResult
    <3>6. QED  BY <1>7, <3>1, <3>4, <3>5
  <2> HIDE DEF n, s
  <2>4. QED  BY <2>1, <2>2, <2>3 DEF IsTrace, n, s
<1>15. QED  BY <1>13, <1>14 DEF row

\* One row changes its own destination, and x0 never.
LEMMA TraceStep ==
  ASSUME NEW trace, NEW step, NEW steps, Len(steps) \in Nat, IsTrace(trace, step, steps),
         \A k \in 1..Len(steps) : steps[k].rd \in AllRegs, step.prev.regs[0] = 0
  PROVE  /\ \A k \in 0..Len(steps) : DOMAIN trace[k] = AllRegs /\ trace[k][0] = 0
                                     /\ trace[k] = [r \in AllRegs |-> trace[k][r]]
         /\ \A k \in 1..Len(steps) : \A r \in AllRegs :
               trace[k][r] = IF r = steps[k].rd /\ r # 0 THEN RowResult(steps[k], trace[k - 1])
                             ELSE trace[k - 1][r]
<1> DEFINE n == Len(steps)
           Is(k) == DOMAIN trace[k] = AllRegs /\ trace[k][0] = 0 /\ trace[k] = [r \in AllRegs |-> trace[k][r]]
           S == {k \in 0..n : Is(k)}
<1>1. 0 \in AllRegs  BY RegsAssumption DEF AllRegs
<1>2. 0 \in S
  <2>1. trace[0] = TraceRegs(step) /\ 0 \in 0..n  BY DEF IsTrace
  <2>2. QED  BY <1>1, <2>1, RegsAssumption DEF TraceRegs, AllRegs
<1>3. ASSUME NEW k \in 1..n, Is(k - 1)
      PROVE  Is(k) /\ \A r \in AllRegs :
               trace[k][r] = IF r = steps[k].rd /\ r # 0 THEN RowResult(steps[k], trace[k - 1])
                             ELSE trace[k - 1][r]
  <2>1. trace[k] = WriteReg(trace[k - 1], steps[k].rd, RowResult(steps[k], trace[k - 1]))
        /\ steps[k].rd \in AllRegs
    BY DEF IsTrace
  <2>2. QED  BY <1>1, <1>3, <2>1 DEF WriteReg
<1>4. ASSUME NEW k \in 0..n, k \in S /\ k < n PROVE k + 1 \in S
  <2>1. k + 1 \in 1..n /\ (k + 1) - 1 = k /\ k + 1 \in 0..n  BY <1>4
  <2>2. Is((k + 1) - 1)  BY <1>4, <2>1
  <2> HIDE DEF Is
  <2>3. Is(k + 1)  BY <1>3, <2>1, <2>2
  <2>4. QED  BY <2>1, <2>3
<1> HIDE DEF S
<1>5. \A k \in 0..n : k \in S  BY <1>2, <1>4, InductionUpTo
<1>6. \A k \in 0..n : Is(k)  BY <1>5 DEF S
<1>7. \A k \in 1..n : k - 1 \in 0..n  OBVIOUS
<1>8. QED  BY <1>3, <1>6, <1>7

\* A register that no row writes keeps its value.
LEMMA TraceKeeps ==
  ASSUME NEW trace, NEW step, NEW steps, Len(steps) \in Nat, IsTrace(trace, step, steps),
         \A k \in 1..Len(steps) : steps[k].rd \in AllRegs, step.prev.regs[0] = 0,
         NEW r \in AllRegs, NEW m \in 0..Len(steps), \A k \in 1..m : steps[k].rd # r
  PROVE  trace[m][r] = trace[0][r]
<1> DEFINE n == Len(steps)
           S == {k \in 0..m : trace[k][r] = trace[0][r]}
<1>1. \A k \in 1..n : \A q \in AllRegs :
        trace[k][q] = IF q = steps[k].rd /\ q # 0 THEN RowResult(steps[k], trace[k - 1]) ELSE trace[k - 1][q]
  BY TraceStep
<1>2. 0 \in S  OBVIOUS
<1>3. ASSUME NEW k \in 0..m, k \in S /\ k < m PROVE k + 1 \in S
  <2>1. k + 1 \in 1..n /\ k + 1 \in 1..m /\ (k + 1) - 1 = k /\ k + 1 \in 0..m  BY <1>3
  <2>2. trace[k + 1][r] = IF r = steps[k + 1].rd /\ r # 0 THEN RowResult(steps[k + 1], trace[(k + 1) - 1])
                          ELSE trace[(k + 1) - 1][r]
    BY <1>1, <2>1
  <2>3. steps[k + 1].rd # r  BY <2>1
  <2>4. QED  BY <1>3, <2>1, <2>2, <2>3
<1> HIDE DEF S
<1>4. m \in Nat  OBVIOUS
<1>5. \A k \in 0..m : k \in S  BY <1>2, <1>3, <1>4, InductionUpTo
<1>6. m \in S  BY <1>4, <1>5
<1>7. QED  BY <1>6 DEF S

-----------------------------------------------------------------------------
(* The plans.                                                              *)

RowOps == (AluOps \ InlineOps) \cup VirtualOps

ReadsRs2Ops == (BinaryAluOps \ InlineOps) \cup {"Advice", "ChangeDivisor"}

\* What is common to the rows of the plans: which registers they use, that they read
\* no scratch register before a row writes it, and that their hints are those that the
\* verifier computes, from operands that the rows before have left alone.
IsRow(s, k, op, a, b, rs1, rs2, rd) ==
  LET operands == {0, rs1, rs2, rd} \cup ScratchRegs
  IN  /\ s[k].op \in RowOps
      /\ s[k].rd \in {rd} \cup ScratchRegs /\ s[k].rs1 \in operands /\ s[k].rs2 \in operands
      /\ s[k].rs1 \in ScratchRegs => \E j \in 1..(k - 1) : s[j].rd = s[k].rs1
      /\ s[k].rs2 \in ScratchRegs /\ s[k].op \in ReadsRs2Ops => \E j \in 1..(k - 1) : s[j].rd = s[k].rs2
      /\ s[k].op \in {"Advice", "ChangeDivisor"} =>
            /\ s[k].rs1 = rs1 /\ s[k].rs2 = rs2 /\ s[k].hint = ExpectedHint(op, s[k], a, b)
            /\ \A j \in 1..(k - 1) : s[j].rd \in ScratchRegs

IsPlan(plan, op, a, b, rs1, rs2, rd) ==
  /\ IsSeq(plan.steps) /\ Len(plan.steps) \in Nat \ {0}
  /\ plan.effect_index \in 0..(Len(plan.steps) - 1)
  /\ \A k \in 1..Len(plan.steps) : IsRow(plan.steps, k, op, a, b, rs1, rs2, rd)

\* The kinds of rows.
LEMMA RowOpsAre ==
  /\ {"Mul", "Mulhu", "Add", "Sub", "Xor", "Sltu", "Andi", "Movsign", "Advice", "ChangeDivisor",
      "Move", "SignExtendWord"} \subseteq RowOps
  /\ {"Andi", "Movsign", "Move", "SignExtendWord"} \cap ReadsRs2Ops = {}
BY DEF RowOps, ReadsRs2Ops, AluOps, InlineOps, DivOps, RemOps, VirtualOps, BinaryAluOps, ImmediateOps

\* Scratch registers are none of the architecture's.
LEMMA ScratchIs ==
  /\ \A r \in Regs : r \in 0..31 /\ r \notin ScratchRegs /\ r \in Int
  /\ 0 \in Regs /\ 0 \notin ScratchRegs
  /\ \A i \in 0..7 : Scratch(i) \in ScratchRegs /\ Scratch(i) \notin Regs /\ Scratch(i) = 40 + i
BY RegsAssumption DEF ScratchRegs, Scratch

\* A plan is one when its rows are.
LEMMA PlanFromRows ==
  ASSUME NEW plan, NEW s, NEW n \in Nat \ {0}, NEW e \in 0..(n - 1), NEW op, NEW a, NEW b,
         NEW rs1, NEW rs2, NEW rd, plan.steps = s, plan.effect_index = e, IsSeq(s), Len(s) = n,
         \A k \in 1..n : IsRow(s, k, op, a, b, rs1, rs2, rd)
  PROVE  IsPlan(plan, op, a, b, rs1, rs2, rd)
BY DEF IsPlan

\* The plan of Mulw.
LEMMA MulwPlanIs ==
  ASSUME NEW a, NEW b, NEW rs1 \in Regs, NEW rs2 \in Regs, NEW rd \in Regs
  PROVE  IsPlan(MulwPlan(rs1, rs2, rd), "Mulw", a, b, rs1, rs2, rd)
<1> DEFINE x1 == Real("Mul", rd, rs1, rs2)
           x2 == Unary("SignExtendWord", rd, rd)
           s == <<x1, x2>>
<1>1. /\ x1.op = "Mul" /\ x1.rd = rd /\ x1.rs1 = rs1 /\ x1.rs2 = rs2
      /\ x2.op = "SignExtendWord" /\ x2.rd = rd /\ x2.rs1 = rd /\ x2.rs2 = 0
  BY DEF Real, Unary, Spec
<1>2. MulwPlan(rs1, rs2, rd).steps = s /\ MulwPlan(rs1, rs2, rd).effect_index = 1  BY DEF MulwPlan, Plan
<1> HIDE DEF x1, x2
<1>3. IsSeq(s) /\ Len(s) = 2 /\ s[1] = x1 /\ s[2] = x2  BY DEF IsSeq
<1> HIDE DEF s
<1>4. \A k \in 1..2 : k = 1 \/ k = 2  OBVIOUS
<1>5. QED  BY <1>1, <1>2, <1>3, <1>4, ScratchIs, RowOpsAre DEF IsPlan, IsRow

\* The plan of Mulh.
LEMMA MulhPlanIs ==
  ASSUME NEW a, NEW b, NEW rs1 \in Regs, NEW rs2 \in Regs, NEW rd \in Regs
  PROVE  IsPlan(MulhPlan(rs1, rs2, rd), "Mulh", a, b, rs1, rs2, rd)
<1> DEFINE v0 == Scratch(0)
           v1 == Scratch(1)
           v2 == Scratch(2)
           x1 == Unary("Movsign", v0, rs1)
           x2 == Unary("Movsign", v1, rs2)
           x3 == Real("Mul", v0, v0, rs2)
           x4 == Real("Mul", v1, v1, rs1)
           x5 == Real("Mulhu", v2, rs1, rs2)
           x6 == Real("Add", v2, v2, v0)
           x7 == Real("Add", rd, v2, v1)
           s == <<x1, x2, x3, x4, x5, x6, x7>>
<1>1. /\ x1.op = "Movsign" /\ x1.rd = v0 /\ x1.rs1 = rs1 /\ x1.rs2 = 0
      /\ x2.op = "Movsign" /\ x2.rd = v1 /\ x2.rs1 = rs2 /\ x2.rs2 = 0
      /\ x3.op = "Mul" /\ x3.rd = v0 /\ x3.rs1 = v0 /\ x3.rs2 = rs2
      /\ x4.op = "Mul" /\ x4.rd = v1 /\ x4.rs1 = v1 /\ x4.rs2 = rs1
      /\ x5.op = "Mulhu" /\ x5.rd = v2 /\ x5.rs1 = rs1 /\ x5.rs2 = rs2
      /\ x6.op = "Add" /\ x6.rd = v2 /\ x6.rs1 = v2 /\ x6.rs2 = v0
      /\ x7.op = "Add" /\ x7.rd = rd /\ x7.rs1 = v2 /\ x7.rs2 = v1
  BY DEF Real, Unary, Spec
<1>2. MulhPlan(rs1, rs2, rd) = FinalizeInline(s)  BY DEF MulhPlan
<1> HIDE DEF x1, x2, x3, x4, x5, x6, x7
<1>3. /\ IsSeq(s) /\ Len(s) = 7
      /\ s[1] = x1 /\ s[2] = x2 /\ s[3] = x3 /\ s[4] = x4 /\ s[5] = x5 /\ s[6] = x6 /\ s[7] = x7
  BY DEF IsSeq
<1>4. v0 \in ScratchRegs /\ v1 \in ScratchRegs /\ v2 \in ScratchRegs
      /\ \A r \in Regs : r \notin ScratchRegs
  BY ScratchIs
<1> HIDE DEF s, v0, v1, v2
<1>5. \A k \in 1..7 : k = 1 \/ k = 2 \/ k = 3 \/ k = 4 \/ k = 5 \/ k = 6 \/ k = 7  OBVIOUS
<1>6. IsRow(s, 1, "Mulh", a, b, rs1, rs2, rd) /\ IsRow(s, 2, "Mulh", a, b, rs1, rs2, rd)
      /\ IsRow(s, 5, "Mulh", a, b, rs1, rs2, rd)
  BY <1>1, <1>3, <1>4, ScratchIs, RowOpsAre DEF IsRow
<1>7. IsRow(s, 3, "Mulh", a, b, rs1, rs2, rd) /\ IsRow(s, 4, "Mulh", a, b, rs1, rs2, rd)
  BY <1>1, <1>3, <1>4, ScratchIs, RowOpsAre DEF IsRow
<1>8. IsRow(s, 6, "Mulh", a, b, rs1, rs2, rd) /\ IsRow(s, 7, "Mulh", a, b, rs1, rs2, rd)
  BY <1>1, <1>3, <1>4, ScratchIs, RowOpsAre DEF IsRow
<1>9. \A k \in 1..7 : IsRow(s, k, "Mulh", a, b, rs1, rs2, rd)  BY <1>5, <1>6, <1>7, <1>8
<1>10. MulhPlan(rs1, rs2, rd).steps = s /\ MulhPlan(rs1, rs2, rd).effect_index = 6
  BY <1>2, <1>3 DEF FinalizeInline, Plan
<1>11. 6 \in 0..(7 - 1) /\ 7 \in Nat \ {0}  OBVIOUS
<1>12. QED  BY <1>3, <1>9, <1>10, <1>11, PlanFromRows

\* The plan of Mulhsu.
LEMMA MulhsuPlanIs ==
  ASSUME NEW a, NEW b, NEW rs1 \in Regs, NEW rs2 \in Regs, NEW rd \in Regs
  PROVE  IsPlan(MulhsuPlan(rs1, rs2, rd), "Mulhsu", a, b, rs1, rs2, rd)
<1> DEFINE v0 == Scratch(0)
           v1 == Scratch(1)
           v2 == Scratch(2)
           v3 == Scratch(3)
           x1 == Unary("Movsign", v0, rs1)
           x2 == Spec("Andi", v1, v0, 0, 1, None)
           x3 == Real("Xor", v2, rs1, v0)
           x4 == Real("Add", v2, v2, v1)
           x5 == Real("Mulhu", v3, v2, rs2)
           x6 == Real("Mul", v2, v2, rs2)
           x7 == Real("Xor", v3, v3, v0)
           x8 == Real("Xor", v2, v2, v0)
           x9 == Real("Add", v0, v2, v1)
           x10 == Real("Sltu", v0, v0, v2)
           x11 == Real("Add", rd, v3, v0)
           s == <<x1, x2, x3, x4, x5, x6, x7, x8, x9, x10, x11>>
<1>1. /\ x1.op = "Movsign" /\ x1.rd = v0 /\ x1.rs1 = rs1 /\ x1.rs2 = 0
      /\ x2.op = "Andi" /\ x2.rd = v1 /\ x2.rs1 = v0 /\ x2.rs2 = 0
      /\ x3.op = "Xor" /\ x3.rd = v2 /\ x3.rs1 = rs1 /\ x3.rs2 = v0
      /\ x4.op = "Add" /\ x4.rd = v2 /\ x4.rs1 = v2 /\ x4.rs2 = v1
      /\ x5.op = "Mulhu" /\ x5.rd = v3 /\ x5.rs1 = v2 /\ x5.rs2 = rs2
      /\ x6.op = "Mul" /\ x6.rd = v2 /\ x6.rs1 = v2 /\ x6.rs2 = rs2
      /\ x7.op = "Xor" /\ x7.rd = v3 /\ x7.rs1 = v3 /\ x7.rs2 = v0
      /\ x8.op = "Xor" /\ x8.rd = v2 /\ x8.rs1 = v2 /\ x8.rs2 = v0
      /\ x9.op = "Add" /\ x9.rd = v0 /\ x9.rs1 = v2 /\ x9.rs2 = v1
      /\ x10.op = "Sltu" /\ x10.rd = v0 /\ x10.rs1 = v0 /\ x10.rs2 = v2
      /\ x11.op = "Add" /\ x11.rd = rd /\ x11.rs1 = v3 /\ x11.rs2 = v0
  BY DEF Real, Unary, Spec
<1>2. MulhsuPlan(rs1, rs2, rd) = FinalizeInline(s)  BY DEF MulhsuPlan
<1> HIDE DEF x1, x2, x3, x4, x5, x6, x7, x8, x9, x10, x11
<1>3. /\ IsSeq(s) /\ Len(s) = 11
      /\ s[1] = x1 /\ s[2] = x2 /\ s[3] = x3 /\ s[4] = x4 /\ s[5] = x5 /\ s[6] = x6 /\ s[7] = x7
      /\ s[8] = x8 /\ s[9] = x9 /\ s[10] = x10 /\ s[11] = x11
  BY DEF IsSeq
<1>4. v0 \in ScratchRegs /\ v1 \in ScratchRegs /\ v2 \in ScratchRegs /\ v3 \in ScratchRegs
      /\ \A r \in Regs : r \notin ScratchRegs
  BY ScratchIs
<1> HIDE DEF s, v0, v1, v2, v3
<1> DEFINE Is(k) == IsRow(s, k, "Mulhsu", a, b, rs1, rs2, rd)
<1>5. \A k \in 1..11 : k = 1 \/ k = 2 \/ k = 3 \/ k = 4 \/ k = 5 \/ k = 6 \/ k = 7 \/ k = 8 \/ k = 9
                       \/ k = 10 \/ k = 11
  OBVIOUS
<1>6. Is(1) /\ Is(2) /\ Is(3)  BY <1>1, <1>3, <1>4, ScratchIs, RowOpsAre DEF IsRow
<1>7. Is(4) /\ Is(5) /\ Is(6)  BY <1>1, <1>3, <1>4, ScratchIs, RowOpsAre DEF IsRow
<1>8. Is(7) /\ Is(8) /\ Is(9)  BY <1>1, <1>3, <1>4, ScratchIs, RowOpsAre DEF IsRow
<1>9. Is(10) /\ Is(11)  BY <1>1, <1>3, <1>4, ScratchIs, RowOpsAre DEF IsRow
<1> HIDE DEF Is
<1>10. \A k \in 1..11 : Is(k)  BY <1>5, <1>6, <1>7, <1>8, <1>9
<1>11. MulhsuPlan(rs1, rs2, rd).steps = s /\ MulhsuPlan(rs1, rs2, rd).effect_index = 10
  BY <1>2, <1>3 DEF FinalizeInline, Plan
<1>12. 10 \in 0..(11 - 1) /\ 11 \in Nat \ {0}  OBVIOUS
<1>13. QED  BY <1>3, <1>10, <1>11, <1>12, PlanFromRows DEF Is

\* How many rows put the divisor in a scratch register, and how many extend a sign.
SignedRows(op) == IF op \in SignedOps THEN 1 ELSE 0
SignRows(op)   == IF op \in WordOps THEN 1 ELSE 0

\* The rows that a division starts with.
LEMMA DivisorRowsAre ==
  ASSUME NEW op, NEW rs1, NEW rs2, NEW a, NEW b
  PROVE  /\ IsSeq(DivisorRows(op, rs1, rs2, a, b))
         /\ Len(DivisorRows(op, rs1, rs2, a, b)) = SignedRows(op)
         /\ SignedRows(op) = 1 => DivisorRows(op, rs1, rs2, a, b)[1]
                       = Hinted("ChangeDivisor", Scratch(0), rs1, rs2, EffectiveDivisor(op, a, b))
<1>1. CASE op \in SignedOps
  <2> DEFINE x == Hinted("ChangeDivisor", Scratch(0), rs1, rs2, EffectiveDivisor(op, a, b))
  <2>1. DivisorRows(op, rs1, rs2, a, b) = <<x>>  BY <1>1 DEF DivisorRows
  <2> HIDE DEF x
  <2>2. IsSeq(<<x>>) /\ Len(<<x>>) = 1 /\ <<x>>[1] = x  BY DEF IsSeq
  <2>3. QED  BY <1>1, <2>1, <2>2 DEF x, SignedRows
<1>2. CASE op \notin SignedOps
  <2>1. DivisorRows(op, rs1, rs2, a, b) = <<>>  BY <1>2 DEF DivisorRows
  <2>2. QED  BY <1>2, <2>1, EmptyIsSeq DEF SignedRows
<1>3. QED  BY <1>1, <1>2

\* The row that a sequence of a word instruction ends with.
LEMMA WordRowsAre ==
  ASSUME NEW op, NEW rd
  PROVE  /\ IsSeq(WordRows(op, rd)) /\ Len(WordRows(op, rd)) = SignRows(op)
         /\ SignRows(op) = 1 => WordRows(op, rd)[1] = Unary("SignExtendWord", rd, rd)
<1>1. CASE op \in WordOps
  <2> DEFINE x == Unary("SignExtendWord", rd, rd)
  <2>1. WordRows(op, rd) = <<x>>  BY <1>1 DEF WordRows
  <2> HIDE DEF x
  <2>2. IsSeq(<<x>>) /\ Len(<<x>>) = 1 /\ <<x>>[1] = x  BY DEF IsSeq
  <2>3. QED  BY <1>1, <2>1, <2>2 DEF x, SignRows
<1>2. CASE op \notin WordOps
  <2>1. WordRows(op, rd) = <<>>  BY <1>2 DEF WordRows
  <2>2. QED  BY <1>2, <2>1, EmptyIsSeq DEF SignRows
<1>3. QED  BY <1>1, <1>2

\* The rows of a division: the divisor, the quotient, the product, the difference, and
\* what is left to do when rd is an operand (aliased) or the result a word's low half.
IsDivision(steps, op, a, b, rs1, rs2, rd, q, m, t) ==
  LET s == SignedRows(op)
      w == SignRows(op)
      v == IF q # rd /\ t # rd THEN 1 ELSE 0
  IN  /\ IsSeq(steps) /\ Len(steps) = s + 3 + v + w
      /\ s = 1 => steps[1] = Hinted("ChangeDivisor", Scratch(0), rs1, rs2, EffectiveDivisor(op, a, b))
      /\ steps[s + 1] = Hinted("Advice", q, rs1, rs2, Quotient(op, a, b))
      /\ steps[s + 2] = Real("Mul", m, q, DivisorReg(op, rs2))
      /\ steps[s + 3] = Real("Sub", t, rs1, m)
      /\ v = 1 => steps[s + 4] = Unary("Move", rd, q)
      /\ w = 1 => steps[s + 3 + v + w] = Unary("SignExtendWord", rd, rd)

\* One sequence after another.
Joins(x, y, all) ==
  /\ IsSeq(all) /\ Len(all) = Len(x) + Len(y)
  /\ \A i \in 1..Len(x) : all[i] = x[i]
  /\ \A i \in 1..Len(y) : all[Len(x) + i] = y[i]

\* A concatenation is one.
LEMMA JoinOf ==
  ASSUME NEW x, NEW y, IsSeq(x), IsSeq(y)
  PROVE  Joins(x, y, x \o y)
BY ConcatSeq DEF Joins

\* Four sequences of s, 3, v and e entries, one after another.
FourJoined(w, x, y, z, s, v, e, all) ==
  /\ IsSeq(all) /\ Len(all) = s + 3 + v + e
  /\ \A i \in 1..s : all[i] = w[i]
  /\ \A i \in 1..3 : all[s + i] = x[i]
  /\ \A i \in 1..v : all[s + 3 + i] = y[i]
  /\ \A i \in 1..e : all[s + 3 + v + i] = z[i]

\* The four parts of a plan of a division, in a row.
LEMMA FourParts ==
  ASSUME NEW w, NEW x, NEW y, NEW z, IsSeq(w), IsSeq(x), IsSeq(y), IsSeq(z),
         NEW s \in Nat, NEW v \in Nat, NEW e \in Nat, Len(w) = s, Len(x) = 3, Len(y) = v, Len(z) = e,
         NEW all, all = w \o x \o y \o z
  PROVE  FourJoined(w, x, y, z, s, v, e, all)
<1> DEFINE p == w \o x
           q == p \o y
<1>1. Joins(w, x, p)  BY JoinOf
<1> HIDE DEF p
<1>2. /\ IsSeq(p) /\ Len(p) = s + 3 /\ \A i \in 1..s : p[i] = w[i]
      /\ \A i \in 1..3 : p[s + i] = x[i]
  BY <1>1 DEF Joins
<1>3. Joins(p, y, q)  BY <1>2, JoinOf
<1>4. all = q \o z  BY DEF p
<1>5. Joins(q, z, all)
  <2>1. IsSeq(q)  BY <1>3 DEF Joins
  <2> HIDE DEF q
  <2>2. QED  BY <1>4, <2>1, JoinOf
<1> HIDE DEF q
<1>6. /\ IsSeq(q) /\ Len(q) = s + 3 + v /\ \A i \in 1..(s + 3) : q[i] = p[i]
      /\ \A i \in 1..v : q[s + 3 + i] = y[i]
  BY <1>2, <1>3 DEF Joins
<1>7. /\ IsSeq(all) /\ Len(all) = s + 3 + v + e /\ \A i \in 1..(s + 3 + v) : all[i] = q[i]
      /\ \A i \in 1..e : all[s + 3 + v + i] = z[i]
  BY <1>6, <1>5 DEF Joins
<1>8. \A i \in 1..s : i \in 1..(s + 3) /\ i \in 1..(s + 3 + v)  OBVIOUS
<1>9. \A i \in 1..3 : s + i \in 1..(s + 3) /\ s + i \in 1..(s + 3 + v)  OBVIOUS
<1>10. \A i \in 1..v : s + 3 + i \in 1..(s + 3 + v)  OBVIOUS
<1>11. QED  BY <1>2, <1>6, <1>7, <1>8, <1>9, <1>10 DEF FourJoined

\* The plan of a quotient.
LEMMA DivPlanRows ==
  ASSUME NEW op \in DivOps, NEW a, NEW b, NEW rs1 \in Regs, NEW rs2 \in Regs, NEW rd \in Regs,
         NEW s, s = SignedRows(op),
         NEW q, q = IF rd = rs1 \/ rd = rs2 THEN Scratch(s + 2) ELSE rd
  PROVE  /\ IsDivision(DivPlan(op, a, b, rs1, rs2, rd).steps, op, a, b, rs1, rs2, rd, q,
                       Scratch(s), Scratch(s + 1))
         /\ DivPlan(op, a, b, rs1, rs2, rd).effect_index
              = IF rd = rs1 \/ rd = rs2 \/ op \in WordOps
                THEN Len(DivPlan(op, a, b, rs1, rs2, rd).steps) - 1 ELSE s
<1> DEFINE e == SignRows(op)
           v == IF rd = rs1 \/ rd = rs2 THEN 1 ELSE 0
           W == DivisorRows(op, rs1, rs2, a, b)
           x1 == Hinted("Advice", q, rs1, rs2, Quotient(op, a, b))
           x2 == Real("Mul", Scratch(s), q, DivisorReg(op, rs2))
           x3 == Real("Sub", Scratch(s + 1), rs1, Scratch(s))
           X == <<x1, x2, x3>>
           y1 == Unary("Move", rd, q)
           Y == IF rd = rs1 \/ rd = rs2 THEN <<y1>> ELSE <<>>
           Z == WordRows(op, rd)
           all == W \o X \o Y \o Z
           P == DivPlan(op, a, b, rs1, rs2, rd)
<1>1. IsSeq(W) /\ Len(W) = s /\ (s = 1 => W[1] = Hinted("ChangeDivisor", Scratch(0), rs1, rs2, EffectiveDivisor(op, a, b)))
  BY DivisorRowsAre
<1>2. P = IF (rd = rs1 \/ rd = rs2) \/ op \in WordOps THEN FinalizeInline(all) ELSE Plan(all, s)
  BY <1>1 DEF DivPlan, RdAliasesInputs
<1>3. P.steps = all
      /\ P.effect_index = IF rd = rs1 \/ rd = rs2 \/ op \in WordOps THEN Len(all) - 1 ELSE s
  BY <1>2 DEF FinalizeInline, Plan
<1>4. IsSeq(Z) /\ Len(Z) = e /\ (e = 1 => Z[1] = Unary("SignExtendWord", rd, rd))  BY WordRowsAre
<1> HIDE DEF W, Z, x1, x2, x3, y1, P
<1>5. IsSeq(X) /\ Len(X) = 3 /\ X[1] = x1 /\ X[2] = x2 /\ X[3] = x3  BY DEF IsSeq
<1>6. IsSeq(Y) /\ Len(Y) = v /\ (v = 1 => Y[1] = y1)
  <2>1. CASE rd = rs1 \/ rd = rs2
    <3>1. Y = <<y1>> /\ v = 1  BY <2>1
    <3>2. IsSeq(<<y1>>) /\ Len(<<y1>>) = 1 /\ <<y1>>[1] = y1  BY DEF IsSeq
    <3>3. QED  BY <3>1, <3>2
  <2>2. CASE ~(rd = rs1 \/ rd = rs2)
    <3>1. Y = <<>> /\ v = 0  BY <2>2
    <3>2. QED  BY <3>1, EmptyIsSeq
  <2>3. QED  BY <2>1, <2>2
<1>7. s \in {0, 1} /\ v \in {0, 1} /\ e \in {0, 1} /\ s \in Nat /\ v \in Nat /\ e \in Nat
  BY DEF SignedRows, SignRows
<1>8. v = IF q # rd /\ Scratch(s + 1) # rd THEN 1 ELSE 0
  <2>1. Scratch(s + 2) \in ScratchRegs /\ Scratch(s + 1) \in ScratchRegs /\ rd \notin ScratchRegs
    BY <1>7, ScratchIs
  <2>2. QED  BY <2>1
<1>9. e = SignRows(op)  OBVIOUS
<1> HIDE DEF X, Y, e, v
<1>10. FourJoined(W, X, Y, Z, s, v, e, all)  BY <1>1, <1>4, <1>5, <1>6, <1>7, FourParts
<1> HIDE DEF all
<1>11. /\ IsSeq(all) /\ Len(all) = s + 3 + v + e
       /\ s = 1 => all[1] = W[1]
       /\ all[s + 1] = x1 /\ all[s + 2] = x2 /\ all[s + 3] = x3
       /\ v = 1 => all[s + 4] = y1
       /\ e = 1 => all[s + 3 + v + e] = Z[1]
  BY <1>5, <1>6, <1>7, <1>10 DEF FourJoined
<1>12. IsDivision(all, op, a, b, rs1, rs2, rd, q, Scratch(s), Scratch(s + 1))
  BY <1>1, <1>4, <1>8, <1>9, <1>11 DEF IsDivision, x1, x2, x3, y1
<1>13. QED  BY <1>3, <1>12 DEF P

\* The plan of a remainder.
LEMMA RemPlanRows ==
  ASSUME NEW op \in RemOps, NEW a, NEW b, NEW rs1 \in Regs, NEW rs2 \in Regs, NEW rd \in Regs,
         NEW s, s = SignedRows(op)
  PROVE  /\ IsDivision(RemPlan(op, a, b, rs1, rs2, rd).steps, op, a, b, rs1, rs2, rd, Scratch(s),
                       Scratch(s + 1), rd)
         /\ RemPlan(op, a, b, rs1, rs2, rd).effect_index
              = Len(RemPlan(op, a, b, rs1, rs2, rd).steps) - 1
<1> DEFINE e == SignRows(op)
           W == DivisorRows(op, rs1, rs2, a, b)
           x1 == Hinted("Advice", Scratch(s), rs1, rs2, Quotient(op, a, b))
           x2 == Real("Mul", Scratch(s + 1), Scratch(s), DivisorReg(op, rs2))
           x3 == Real("Sub", rd, rs1, Scratch(s + 1))
           X == <<x1, x2, x3>>
           Y == <<>>
           Z == WordRows(op, rd)
           all == W \o X \o Z
           P == RemPlan(op, a, b, rs1, rs2, rd)
<1>1. IsSeq(W) /\ Len(W) = s /\ (s = 1 => W[1] = Hinted("ChangeDivisor", Scratch(0), rs1, rs2, EffectiveDivisor(op, a, b)))
  BY DivisorRowsAre
<1>2. P = FinalizeInline(all)
  BY <1>1 DEF RemPlan
<1>3. P.steps = all /\ P.effect_index = Len(all) - 1
  BY <1>2 DEF FinalizeInline, Plan
<1>4. IsSeq(Z) /\ Len(Z) = e /\ (e = 1 => Z[1] = Unary("SignExtendWord", rd, rd))  BY WordRowsAre
<1> HIDE DEF W, Z, x1, x2, x3, P
<1>5. IsSeq(X) /\ Len(X) = 3 /\ X[1] = x1 /\ X[2] = x2 /\ X[3] = x3  BY DEF IsSeq
<1>6. IsSeq(Y) /\ Len(Y) = 0  BY EmptyIsSeq
<1>7. s \in {0, 1} /\ e \in {0, 1} /\ s \in Nat /\ e \in Nat  BY DEF SignedRows, SignRows
<1>8. e = SignRows(op)  OBVIOUS
<1> HIDE DEF X, e
<1>9. all = W \o X \o Y \o Z
  <2>1. IsSeq(W \o X) /\ Len(W \o X) \in Nat  BY <1>1, <1>5, <1>7, ConcatSeq
  <2> DEFINE U == W \o X
  <2> HIDE DEF U
  <2>2. IsSeq(U)  BY <2>1 DEF U
  <2>3. U \o Y = U
    <3> HIDE DEF Y
    <3>1. IsSeq(U \o Y) /\ Len(U \o Y) = Len(U) + Len(Y) /\ \A i \in 1..Len(U) : (U \o Y)[i] = U[i]
      BY <1>6, <2>2, ConcatSeq
    <3>2. Len(U \o Y) = Len(U)  BY <1>6, <2>2, <3>1, IsSeqLen
    <3>3. QED  BY <2>2, <3>1, <3>2, SameSeq
  <2>4. QED  BY <2>3 DEF U
<1> HIDE DEF Y
<1>10. FourJoined(W, X, Y, Z, s, 0, e, all)
  <2>1. 0 \in Nat  OBVIOUS
  <2> HIDE DEF all
  <2>2. QED  BY <1>1, <1>4, <1>5, <1>6, <1>7, <1>9, <2>1, FourParts
<1> HIDE DEF all
<1>11. /\ IsSeq(all) /\ Len(all) = s + 3 + 0 + e
       /\ s = 1 => all[1] = W[1]
       /\ all[s + 1] = x1 /\ all[s + 2] = x2 /\ all[s + 3] = x3
       /\ e = 1 => all[s + 3 + 0 + e] = Z[1]
  BY <1>5, <1>6, <1>7, <1>10 DEF FourJoined
<1>12. IsDivision(all, op, a, b, rs1, rs2, rd, Scratch(s), Scratch(s + 1), rd)
  BY <1>1, <1>4, <1>8, <1>11 DEF IsDivision, x1, x2, x3
<1>13. QED  BY <1>3, <1>12 DEF P

\* Where the rows of a division may write.
LEMMA DivisionIs ==
  ASSUME NEW steps, NEW op \in DivOps \cup RemOps, NEW a, NEW b,
         NEW rs1 \in Regs, NEW rs2 \in Regs, NEW rd \in Regs,
         NEW q \in {rd} \cup ScratchRegs, NEW m \in ScratchRegs, NEW t \in {rd} \cup ScratchRegs,
         IsDivision(steps, op, a, b, rs1, rs2, rd, q, m, t),
         NEW n, n = Len(steps)
  PROVE  n \in Nat \ {0} /\ \A k \in 1..n : IsRow(steps, k, op, a, b, rs1, rs2, rd)
<1> DEFINE s == SignedRows(op)
           w == SignRows(op)
           v == IF q # rd /\ t # rd THEN 1 ELSE 0
           D == DivisorReg(op, rs2)
           Is(k) == IsRow(steps, k, op, a, b, rs1, rs2, rd)
<1>1. s \in {0, 1} /\ w \in {0, 1} /\ v \in {0, 1}  BY DEF SignedRows, SignRows
<1>2. /\ n = s + 3 + v + w
      /\ s = 1 => /\ steps[1].op = "ChangeDivisor" /\ steps[1].rd = Scratch(0) /\ steps[1].rs1 = rs1
                  /\ steps[1].rs2 = rs2 /\ steps[1].hint = EffectiveDivisor(op, a, b)
      /\ steps[s + 1].op = "Advice" /\ steps[s + 1].rd = q /\ steps[s + 1].rs1 = rs1
      /\ steps[s + 1].rs2 = rs2 /\ steps[s + 1].hint = Quotient(op, a, b)
      /\ steps[s + 2].op = "Mul" /\ steps[s + 2].rd = m /\ steps[s + 2].rs1 = q /\ steps[s + 2].rs2 = D
      /\ steps[s + 3].op = "Sub" /\ steps[s + 3].rd = t /\ steps[s + 3].rs1 = rs1 /\ steps[s + 3].rs2 = m
      /\ v = 1 => /\ steps[s + 4].op = "Move" /\ steps[s + 4].rd = rd /\ steps[s + 4].rs1 = q
                  /\ steps[s + 4].rs2 = 0
      /\ w = 1 => /\ steps[n].op = "SignExtendWord" /\ steps[n].rd = rd /\ steps[n].rs1 = rd
                  /\ steps[n].rs2 = 0
  BY DEF IsDivision, Hinted, Real, Unary, Spec
<1>3. s = 1 <=> op \in SignedOps  BY DEF SignedRows
<1>4. D = IF s = 1 THEN Scratch(0) ELSE rs2  BY <1>3 DEF DivisorReg
<1>5. Scratch(0) \in ScratchRegs /\ \A r \in Regs : r \notin ScratchRegs  BY ScratchIs
<1>6. v = 1 => q \in ScratchRegs  OBVIOUS
<1> HIDE DEF s, w, v, D
<1>7. s = 1 => Is(1)
  <2> HAVE s = 1
  <2>1. steps[1].hint = ExpectedHint(op, steps[1], a, b)  BY <1>2, <1>3 DEF ExpectedHint
  <2>2. \A j \in 1..(1 - 1) : FALSE  OBVIOUS
  <2>3. QED  BY <1>2, <1>5, <2>1, <2>2, RowOpsAre DEF IsRow
<1>8. Is(s + 1)
  <2>1. steps[s + 1].hint = ExpectedHint(op, steps[s + 1], a, b)  BY <1>2 DEF ExpectedHint
  <2>2. \A j \in 1..((s + 1) - 1) : s = 1 /\ j = 1  BY <1>1
  <2>3. \A j \in 1..((s + 1) - 1) : steps[j].rd \in ScratchRegs  BY <1>2, <1>5, <2>2
  <2>4. QED  BY <1>2, <1>5, <2>1, <2>3, RowOpsAre DEF IsRow
<1>9. Is(s + 2)
  <2>1. s + 1 \in 1..((s + 2) - 1) /\ (s = 1 => 1 \in 1..((s + 2) - 1))  BY <1>1
  <2>2. q \in ScratchRegs => \E j \in 1..((s + 2) - 1) : steps[j].rd = q  BY <1>2, <2>1
  <2>3. D \in ScratchRegs => \E j \in 1..((s + 2) - 1) : steps[j].rd = D  BY <1>2, <1>4, <1>5, <2>1
  <2>4. D \in {0, rs1, rs2, rd} \cup ScratchRegs  BY <1>4, <1>5
  <2>5. "Mul" \in RowOps /\ "Mul" \notin {"Advice", "ChangeDivisor"}  BY RowOpsAre
  <2>6. QED  BY <1>2, <1>5, <2>2, <2>3, <2>4, <2>5 DEF IsRow
<1>10. Is(s + 3)
  <2>1. s + 2 \in 1..((s + 3) - 1)  BY <1>1
  <2>2. "Sub" \in RowOps /\ "Sub" \notin {"Advice", "ChangeDivisor"}  BY RowOpsAre
  <2>3. QED  BY <1>2, <1>5, <2>1, <2>2 DEF IsRow
<1>11. v = 1 => Is(s + 4)
  <2> HAVE v = 1
  <2>1. s + 1 \in 1..((s + 4) - 1)  BY <1>1
  <2>2. "Move" \in RowOps /\ "Move" \notin {"Advice", "ChangeDivisor"} \cup ReadsRs2Ops  BY RowOpsAre
  <2>3. 0 \in {0, rs1, rs2, rd} \cup ScratchRegs /\ 0 \notin ScratchRegs  BY ScratchIs
  <2>4. QED  BY <1>2, <1>5, <1>6, <2>1, <2>2, <2>3 DEF IsRow
<1>12. w = 1 => Is(n)
  <2> HAVE w = 1
  <2>1. "SignExtendWord" \in RowOps /\ "SignExtendWord" \notin {"Advice", "ChangeDivisor"} \cup ReadsRs2Ops
    BY RowOpsAre
  <2>2. 0 \in {0, rs1, rs2, rd} \cup ScratchRegs /\ 0 \notin ScratchRegs  BY ScratchIs
  <2>3. QED  BY <1>2, <1>5, <2>1, <2>2 DEF IsRow
<1>13. \A k \in 1..n : \/ (s = 1 /\ k = 1) \/ k = s + 1 \/ k = s + 2 \/ k = s + 3
                       \/ (v = 1 /\ k = s + 4) \/ (w = 1 /\ k = n)
  BY <1>1, <1>2
<1>14. n \in Nat \ {0}  BY <1>1, <1>2
<1> HIDE DEF Is
<1>15. \A k \in 1..n : Is(k)  BY <1>7, <1>8, <1>9, <1>10, <1>11, <1>12, <1>13
<1>16. QED  BY <1>14, <1>15 DEF Is

\* The plans of the divisions.
LEMMA DivPlanIs ==
  ASSUME NEW op \in DivOps, NEW a, NEW b, NEW rs1 \in Regs, NEW rs2 \in Regs, NEW rd \in Regs
  PROVE  IsPlan(DivPlan(op, a, b, rs1, rs2, rd), op, a, b, rs1, rs2, rd)
<1> DEFINE P == DivPlan(op, a, b, rs1, rs2, rd)
           s == SignedRows(op)
           q == IF rd = rs1 \/ rd = rs2 THEN Scratch(s + 2) ELSE rd
           t == Scratch(s + 1)
           m == Scratch(s)
           n == Len(P.steps)
<1>1. /\ IsDivision(P.steps, op, a, b, rs1, rs2, rd, q, m, t)
      /\ P.effect_index = IF rd = rs1 \/ rd = rs2 \/ op \in WordOps THEN n - 1 ELSE s
  BY DivPlanRows
<1>2. s \in {0, 1} /\ SignRows(op) \in {0, 1}  BY DEF SignedRows, SignRows
<1>3. q \in {rd} \cup ScratchRegs /\ m \in ScratchRegs /\ t \in {rd} \cup ScratchRegs  BY <1>2, ScratchIs
<1>4. IsSeq(P.steps) /\ (n = s + 3 + SignRows(op) \/ n = s + 4 + SignRows(op))
  BY <1>1, <1>2 DEF IsDivision
<1> HIDE DEF P, s, q, t, m, n
<1>5. n \in Nat \ {0} /\ \A k \in 1..n : IsRow(P.steps, k, op, a, b, rs1, rs2, rd)
  BY <1>1, <1>3, DivisionIs DEF n
<1>6. P.effect_index \in 0..(n - 1)  BY <1>1, <1>2, <1>4
<1>7. QED  BY <1>4, <1>5, <1>6, PlanFromRows DEF P, n

\* The plan of a remainder is well formed.
LEMMA RemPlanIs ==
  ASSUME NEW op \in RemOps, NEW a, NEW b, NEW rs1 \in Regs, NEW rs2 \in Regs, NEW rd \in Regs
  PROVE  IsPlan(RemPlan(op, a, b, rs1, rs2, rd), op, a, b, rs1, rs2, rd)
<1> DEFINE P == RemPlan(op, a, b, rs1, rs2, rd)
           s == SignedRows(op)
           q == Scratch(s)
           m == Scratch(s + 1)
           n == Len(P.steps)
<1>1. /\ IsDivision(P.steps, op, a, b, rs1, rs2, rd, q, m, rd)
      /\ P.effect_index = n - 1
  BY RemPlanRows
<1>2. s \in {0, 1}  BY DEF SignedRows
<1>3. q \in {rd} \cup ScratchRegs /\ m \in ScratchRegs /\ rd \in {rd} \cup ScratchRegs  BY <1>2, ScratchIs
<1>4. IsSeq(P.steps)  BY <1>1 DEF IsDivision
<1> HIDE DEF P, s, q, m, n
<1>5. n \in Nat \ {0} /\ \A k \in 1..n : IsRow(P.steps, k, op, a, b, rs1, rs2, rd)
  BY <1>1, <1>3, DivisionIs DEF n
<1>6. P.effect_index \in 0..(n - 1)  BY <1>1, <1>5
<1>7. QED  BY <1>4, <1>5, <1>6, PlanFromRows DEF P, n

-----------------------------------------------------------------------------
(* What the sequences compute.                                             *)

\* What the rows of the plans compute.
LEMMA TraceResults ==
  ASSUME NEW spec, NEW x, NEW y
  PROVE  /\ spec.op = "Mul" => TraceResult(spec, x, y) = Wrap(x * y)
         /\ spec.op = "Mulhu" => TraceResult(spec, x, y) = MulHighUnsigned(x, y)
         /\ spec.op = "Add" => TraceResult(spec, x, y) = Wrap(x + y)
         /\ spec.op = "Sub" => TraceResult(spec, x, y) = Wrap(x - y)
         /\ spec.op = "Xor" => TraceResult(spec, x, y) = BitXor(x, y)
         /\ spec.op = "Sltu" => TraceResult(spec, x, y) = Bool(x < y)
         /\ spec.op = "Andi" => TraceResult(spec, x, y) = BitAnd(x, spec.imm)
         /\ spec.op = "Movsign" => TraceResult(spec, x, y) = SignMask(x)
         /\ spec.op \in {"Advice", "ChangeDivisor"} => TraceResult(spec, x, y) = spec.hint
         /\ spec.op = "Move" => TraceResult(spec, x, y) = x
         /\ spec.op = "SignExtendWord" => TraceResult(spec, x, y) = SignExtendWord(x)
<1>1. spec.op = "Mul" => TraceResult(spec, x, y) = Wrap(x * y)  BY DEF TraceResult, Alu
<1>2. spec.op = "Mulhu" => TraceResult(spec, x, y) = MulHighUnsigned(x, y)  BY DEF TraceResult, Alu
<1>3. spec.op = "Add" => TraceResult(spec, x, y) = Wrap(x + y)  BY DEF TraceResult, Alu
<1>4. spec.op = "Sub" => TraceResult(spec, x, y) = Wrap(x - y)  BY DEF TraceResult, Alu
<1>5. spec.op = "Xor" => TraceResult(spec, x, y) = BitXor(x, y)  BY DEF TraceResult, Alu
<1>6. spec.op = "Sltu" => TraceResult(spec, x, y) = Bool(x < y)  BY DEF TraceResult, Alu
<1>7. spec.op = "Andi" => TraceResult(spec, x, y) = BitAnd(x, spec.imm)  BY DEF TraceResult, Alu
<1>8. /\ spec.op = "Movsign" => TraceResult(spec, x, y) = SignMask(x)
      /\ spec.op \in {"Advice", "ChangeDivisor"} => TraceResult(spec, x, y) = spec.hint
      /\ spec.op = "Move" => TraceResult(spec, x, y) = x
      /\ spec.op = "SignExtendWord" => TraceResult(spec, x, y) = SignExtendWord(x)
  BY DEF TraceResult
<1>9. QED  BY <1>1, <1>2, <1>3, <1>4, <1>5, <1>6, <1>7, <1>8

\* The last row leaves the architectural result in rd, and so does the effect row, which
\* computes it.
Computes(trace, steps, e, rd, value) ==
  /\ trace[Len(steps)][rd] = value
  /\ steps[e + 1].rd = rd /\ RowResult(steps[e + 1], trace[e]) = value /\ trace[e + 1][rd] = value

\* The registers after k rows of a sequence, in the order of the rows.
Runs(trace, steps, n) ==
  \A k \in 1..n : \A r \in AllRegs :
     trace[k][r] = IF r = steps[k].rd /\ r # 0 THEN RowResult(steps[k], trace[k - 1]) ELSE trace[k - 1][r]

\* Running the plan of Mulw gives the low half of the product, sign extended.
LEMMA MulwComputes ==
  ASSUME NEW trace, NEW a \in Word, NEW b \in Word, NEW rs1 \in Regs, NEW rs2 \in Regs, NEW rd \in Regs, rd # 0,
         Runs(trace, MulwPlan(rs1, rs2, rd).steps, 2), trace[0][rs1] = a, trace[0][rs2] = b
  PROVE  Computes(trace, MulwPlan(rs1, rs2, rd).steps, MulwPlan(rs1, rs2, rd).effect_index, rd, Alu("Mulw", a, b))
<1> DEFINE x1 == Real("Mul", rd, rs1, rs2)
           x2 == Unary("SignExtendWord", rd, rd)
           s == <<x1, x2>>
<1>1. /\ x1.op = "Mul" /\ x1.rd = rd /\ x1.rs1 = rs1 /\ x1.rs2 = rs2
      /\ x2.op = "SignExtendWord" /\ x2.rd = rd /\ x2.rs1 = rd /\ x2.rs2 = 0
  BY DEF Real, Unary, Spec
<1>2. MulwPlan(rs1, rs2, rd).steps = s /\ MulwPlan(rs1, rs2, rd).effect_index = 1  BY DEF MulwPlan, Plan
<1> HIDE DEF x1, x2
<1>3. Len(s) = 2 /\ s[1] = x1 /\ s[2] = x2  OBVIOUS
<1> HIDE DEF s
<1>4. rd \in AllRegs  BY DEF AllRegs
<1>5. trace[1][rd] = Wrap(a * b)
  <2>1. trace[1][rd] = RowResult(x1, trace[0])  BY <1>1, <1>2, <1>3, <1>4 DEF Runs
  <2>2. QED  BY <1>1, <2>1, TraceResults DEF RowResult
<1>6. RowResult(x2, trace[1]) = SignExtendWord(Wrap(a * b))  BY <1>1, <1>5, TraceResults DEF RowResult
<1>7. SignExtendWord(Wrap(a * b)) = Alu("Mulw", a, b)
  <2>1. Alu("Mulw", a, b) = MulWord(a, b)  BY DEF Alu
  <2>2. QED  BY <2>1, MulwRows
<1>8. trace[2][rd] = RowResult(x2, trace[1])  BY <1>1, <1>2, <1>3, <1>4 DEF Runs
<1>9. QED  BY <1>1, <1>2, <1>3, <1>6, <1>7, <1>8 DEF Computes

\* Running the plan of Mulh gives the upper word of the signed product.
LEMMA MulhComputes ==
  ASSUME NEW trace, NEW a \in Word, NEW b \in Word, NEW rs1 \in Regs, NEW rs2 \in Regs, NEW rd \in Regs, rd # 0,
         Runs(trace, MulhPlan(rs1, rs2, rd).steps, 7), trace[0][rs1] = a, trace[0][rs2] = b
  PROVE  Computes(trace, MulhPlan(rs1, rs2, rd).steps, MulhPlan(rs1, rs2, rd).effect_index, rd, Alu("Mulh", a, b))
<1> DEFINE v0 == Scratch(0)
           v1 == Scratch(1)
           v2 == Scratch(2)
           x1 == Unary("Movsign", v0, rs1)
           x2 == Unary("Movsign", v1, rs2)
           x3 == Real("Mul", v0, v0, rs2)
           x4 == Real("Mul", v1, v1, rs1)
           x5 == Real("Mulhu", v2, rs1, rs2)
           x6 == Real("Add", v2, v2, v0)
           x7 == Real("Add", rd, v2, v1)
           s == <<x1, x2, x3, x4, x5, x6, x7>>
<1>1. /\ x1.op = "Movsign" /\ x1.rd = v0 /\ x1.rs1 = rs1
      /\ x2.op = "Movsign" /\ x2.rd = v1 /\ x2.rs1 = rs2
      /\ x3.op = "Mul" /\ x3.rd = v0 /\ x3.rs1 = v0 /\ x3.rs2 = rs2
      /\ x4.op = "Mul" /\ x4.rd = v1 /\ x4.rs1 = v1 /\ x4.rs2 = rs1
      /\ x5.op = "Mulhu" /\ x5.rd = v2 /\ x5.rs1 = rs1 /\ x5.rs2 = rs2
      /\ x6.op = "Add" /\ x6.rd = v2 /\ x6.rs1 = v2 /\ x6.rs2 = v0
      /\ x7.op = "Add" /\ x7.rd = rd /\ x7.rs1 = v2 /\ x7.rs2 = v1
  BY DEF Real, Unary, Spec
<1>2. MulhPlan(rs1, rs2, rd) = FinalizeInline(s)  BY DEF MulhPlan
<1> HIDE DEF x1, x2, x3, x4, x5, x6, x7
<1>3. Len(s) = 7 /\ s[1] = x1 /\ s[2] = x2 /\ s[3] = x3 /\ s[4] = x4 /\ s[5] = x5 /\ s[6] = x6 /\ s[7] = x7
  OBVIOUS
<1>4. MulhPlan(rs1, rs2, rd).steps = s /\ MulhPlan(rs1, rs2, rd).effect_index = 6
  BY <1>2, <1>3 DEF FinalizeInline, Plan
<1>5. /\ {rs1, rs2, rd, v0, v1, v2} \subseteq AllRegs
      /\ v0 \notin {0, rs1, rs2, rd, v1, v2} /\ v1 \notin {0, rs1, rs2, rd, v2} /\ v2 \notin {0, rs1, rs2, rd}
  BY ScratchIs DEF AllRegs
<1> HIDE DEF s, v0, v1, v2
<1> DEFINE T(k, r) == trace[k][r]
<1>6. \A k \in 1..7 : \A r \in AllRegs :
        T(k, r) = IF r = s[k].rd /\ r # 0 THEN RowResult(s[k], trace[k - 1]) ELSE T(k - 1, r)
  BY <1>4 DEF Runs
<1>7. \A k \in 1..7 : RowResult(s[k], trace[k - 1]) = TraceResult(s[k], T(k - 1, s[k].rs1), T(k - 1, s[k].rs2))
  BY DEF RowResult
<1>8. T(0, rs1) = a /\ T(0, rs2) = b  OBVIOUS
<1> HIDE DEF T
<1>9. T(1, v0) = SignMask(a) /\ T(1, rs1) = a /\ T(1, rs2) = b
  <2>1. TraceResult(s[1], T(0, s[1].rs1), T(0, s[1].rs2)) = SignMask(a)  BY <1>1, <1>3, <1>8, TraceResults
  <2>2. QED  BY <1>1, <1>3, <1>5, <1>6, <1>7, <1>8, <2>1
<1>10. T(2, v1) = SignMask(b) /\ T(2, v0) = SignMask(a) /\ T(2, rs1) = a /\ T(2, rs2) = b
  <2>1. TraceResult(s[2], T(1, s[2].rs1), T(1, s[2].rs2)) = SignMask(b)  BY <1>1, <1>3, <1>9, TraceResults
  <2>2. QED  BY <1>1, <1>3, <1>5, <1>6, <1>7, <1>9, <2>1
<1>11. T(3, v0) = Wrap(SignMask(a) * b) /\ T(3, v1) = SignMask(b) /\ T(3, rs1) = a /\ T(3, rs2) = b
  <2>1. TraceResult(s[3], T(2, s[3].rs1), T(2, s[3].rs2)) = Wrap(SignMask(a) * b)
    BY <1>1, <1>3, <1>10, TraceResults
  <2>2. QED  BY <1>1, <1>3, <1>5, <1>6, <1>7, <1>10, <2>1
<1>12. /\ T(4, v1) = Wrap(SignMask(b) * a) /\ T(4, v0) = Wrap(SignMask(a) * b)
       /\ T(4, rs1) = a /\ T(4, rs2) = b
  <2>1. TraceResult(s[4], T(3, s[4].rs1), T(3, s[4].rs2)) = Wrap(SignMask(b) * a)
    BY <1>1, <1>3, <1>11, TraceResults
  <2>2. QED  BY <1>1, <1>3, <1>5, <1>6, <1>7, <1>11, <2>1
<1>13. /\ T(5, v2) = MulHighUnsigned(a, b) /\ T(5, v1) = Wrap(SignMask(b) * a)
       /\ T(5, v0) = Wrap(SignMask(a) * b)
  <2>1. TraceResult(s[5], T(4, s[5].rs1), T(4, s[5].rs2)) = MulHighUnsigned(a, b)
    BY <1>1, <1>3, <1>12, TraceResults
  <2>2. QED  BY <1>1, <1>3, <1>5, <1>6, <1>7, <1>12, <2>1
<1>14. T(6, v2) = Wrap(MulHighUnsigned(a, b) + Wrap(SignMask(a) * b)) /\ T(6, v1) = Wrap(SignMask(b) * a)
  <2>1. TraceResult(s[6], T(5, s[6].rs1), T(5, s[6].rs2)) = Wrap(MulHighUnsigned(a, b) + Wrap(SignMask(a) * b))
    BY <1>1, <1>3, <1>13, TraceResults
  <2>2. QED  BY <1>1, <1>3, <1>5, <1>6, <1>7, <1>13, <2>1
<1>15. RowResult(s[7], trace[6]) = Alu("Mulh", a, b)
  <2>1. TraceResult(s[7], T(6, s[7].rs1), T(6, s[7].rs2))
          = Wrap(Wrap(MulHighUnsigned(a, b) + Wrap(SignMask(a) * b)) + Wrap(SignMask(b) * a))
    BY <1>1, <1>3, <1>14, TraceResults
  <2>2. Alu("Mulh", a, b) = MulHighSigned(a, b)  BY DEF Alu
  <2>3. RowResult(s[7], trace[6]) = TraceResult(s[7], T(6, s[7].rs1), T(6, s[7].rs2))
    BY DEF RowResult, T
  <2>4. QED  BY <2>1, <2>2, <2>3, MulhRows
<1>16. T(7, rd) = Alu("Mulh", a, b)  BY <1>1, <1>3, <1>5, <1>6, <1>15
<1>17. Computes(trace, s, 6, rd, Alu("Mulh", a, b))  BY <1>1, <1>3, <1>15, <1>16 DEF Computes, T
<1>18. QED  BY <1>4, <1>17

\* Running the plan of Mulhsu gives the upper word of the product of a signed and an unsigned word.
LEMMA MulhsuComputes ==
  ASSUME NEW trace, NEW a \in Word, NEW b \in Word, NEW rs1 \in Regs, NEW rs2 \in Regs, NEW rd \in Regs, rd # 0,
         Runs(trace, MulhsuPlan(rs1, rs2, rd).steps, 11), trace[0][rs1] = a, trace[0][rs2] = b
  PROVE  Computes(trace, MulhsuPlan(rs1, rs2, rd).steps, MulhsuPlan(rs1, rs2, rd).effect_index, rd,
                  Alu("Mulhsu", a, b))
<1> DEFINE v0 == Scratch(0)
           v1 == Scratch(1)
           v2 == Scratch(2)
           v3 == Scratch(3)
           x1 == Unary("Movsign", v0, rs1)
           x2 == Spec("Andi", v1, v0, 0, 1, None)
           x3 == Real("Xor", v2, rs1, v0)
           x4 == Real("Add", v2, v2, v1)
           x5 == Real("Mulhu", v3, v2, rs2)
           x6 == Real("Mul", v2, v2, rs2)
           x7 == Real("Xor", v3, v3, v0)
           x8 == Real("Xor", v2, v2, v0)
           x9 == Real("Add", v0, v2, v1)
           x10 == Real("Sltu", v0, v0, v2)
           x11 == Real("Add", rd, v3, v0)
           s == <<x1, x2, x3, x4, x5, x6, x7, x8, x9, x10, x11>>
<1>1. /\ x1.op = "Movsign" /\ x1.rd = v0 /\ x1.rs1 = rs1
      /\ x2.op = "Andi" /\ x2.rd = v1 /\ x2.rs1 = v0 /\ x2.imm = 1
      /\ x3.op = "Xor" /\ x3.rd = v2 /\ x3.rs1 = rs1 /\ x3.rs2 = v0
      /\ x4.op = "Add" /\ x4.rd = v2 /\ x4.rs1 = v2 /\ x4.rs2 = v1
      /\ x5.op = "Mulhu" /\ x5.rd = v3 /\ x5.rs1 = v2 /\ x5.rs2 = rs2
      /\ x6.op = "Mul" /\ x6.rd = v2 /\ x6.rs1 = v2 /\ x6.rs2 = rs2
      /\ x7.op = "Xor" /\ x7.rd = v3 /\ x7.rs1 = v3 /\ x7.rs2 = v0
      /\ x8.op = "Xor" /\ x8.rd = v2 /\ x8.rs1 = v2 /\ x8.rs2 = v0
      /\ x9.op = "Add" /\ x9.rd = v0 /\ x9.rs1 = v2 /\ x9.rs2 = v1
      /\ x10.op = "Sltu" /\ x10.rd = v0 /\ x10.rs1 = v0 /\ x10.rs2 = v2
      /\ x11.op = "Add" /\ x11.rd = rd /\ x11.rs1 = v3 /\ x11.rs2 = v0
  BY DEF Real, Unary, Spec
<1>2. MulhsuPlan(rs1, rs2, rd) = FinalizeInline(s)  BY DEF MulhsuPlan
<1> HIDE DEF x1, x2, x3, x4, x5, x6, x7, x8, x9, x10, x11
<1>3. /\ Len(s) = 11
      /\ s[1] = x1 /\ s[2] = x2 /\ s[3] = x3 /\ s[4] = x4 /\ s[5] = x5 /\ s[6] = x6 /\ s[7] = x7
      /\ s[8] = x8 /\ s[9] = x9 /\ s[10] = x10 /\ s[11] = x11
  OBVIOUS
<1>4. MulhsuPlan(rs1, rs2, rd).steps = s /\ MulhsuPlan(rs1, rs2, rd).effect_index = 10
  BY <1>2, <1>3 DEF FinalizeInline, Plan
<1>5. /\ {rs1, rs2, rd, v0, v1, v2, v3} \subseteq AllRegs
      /\ v0 \notin {0, rs1, rs2, rd, v1, v2, v3} /\ v1 \notin {0, rs1, rs2, rd, v2, v3}
      /\ v2 \notin {0, rs1, rs2, rd, v3} /\ v3 \notin {0, rs1, rs2, rd}
  BY ScratchIs DEF AllRegs
<1> HIDE DEF s, v0, v1, v2, v3
<1> DEFINE T(k, r) == trace[k][r]
           mask == SignMask(a)
           one == BitAnd(mask, 1)
           neg == Wrap(BitXor(a, mask) + one)
           high == BitXor(MulHighUnsigned(neg, b), mask)
           low == BitXor(Wrap(neg * b), mask)
<1>6. \A k \in 1..11 : \A r \in AllRegs :
        T(k, r) = IF r = s[k].rd /\ r # 0 THEN RowResult(s[k], trace[k - 1]) ELSE T(k - 1, r)
  BY <1>4 DEF Runs
<1>7. \A k \in 1..11 : RowResult(s[k], trace[k - 1]) = TraceResult(s[k], T(k - 1, s[k].rs1), T(k - 1, s[k].rs2))
  BY DEF RowResult
<1>8. T(0, rs1) = a /\ T(0, rs2) = b  OBVIOUS
<1> HIDE DEF T
<1>9. T(1, v0) = mask /\ T(1, rs1) = a /\ T(1, rs2) = b
  <2>1. TraceResult(s[1], T(0, s[1].rs1), T(0, s[1].rs2)) = mask  BY <1>1, <1>3, <1>8, TraceResults
  <2> HIDE DEF mask
  <2>2. QED  BY <1>1, <1>3, <1>5, <1>6, <1>7, <1>8, <2>1
<1>10. T(2, v1) = one /\ T(2, v0) = mask /\ T(2, rs1) = a /\ T(2, rs2) = b
  <2> HIDE DEF mask
  <2>1. TraceResult(s[2], T(1, s[2].rs1), T(1, s[2].rs2)) = one  BY <1>1, <1>3, <1>9, TraceResults
  <2> HIDE DEF one
  <2>2. QED  BY <1>1, <1>3, <1>5, <1>6, <1>7, <1>9, <2>1
<1>11. T(3, v2) = BitXor(a, mask) /\ T(3, v1) = one /\ T(3, v0) = mask /\ T(3, rs2) = b
  <2> HIDE DEF mask, one
  <2>1. TraceResult(s[3], T(2, s[3].rs1), T(2, s[3].rs2)) = BitXor(a, mask)
    BY <1>1, <1>3, <1>10, TraceResults
  <2>2. QED  BY <1>1, <1>3, <1>5, <1>6, <1>7, <1>10, <2>1
<1>12. T(4, v2) = neg /\ T(4, v1) = one /\ T(4, v0) = mask /\ T(4, rs2) = b
  <2> HIDE DEF mask, one
  <2>1. TraceResult(s[4], T(3, s[4].rs1), T(3, s[4].rs2)) = neg
    BY <1>1, <1>3, <1>11, TraceResults
  <2> HIDE DEF neg
  <2>2. QED  BY <1>1, <1>3, <1>5, <1>6, <1>7, <1>11, <2>1
<1>13. T(5, v3) = MulHighUnsigned(neg, b) /\ T(5, v2) = neg /\ T(5, v1) = one /\ T(5, v0) = mask /\ T(5, rs2) = b
  <2> HIDE DEF mask, one, neg
  <2>1. TraceResult(s[5], T(4, s[5].rs1), T(4, s[5].rs2)) = MulHighUnsigned(neg, b)
    BY <1>1, <1>3, <1>12, TraceResults
  <2>2. QED  BY <1>1, <1>3, <1>5, <1>6, <1>7, <1>12, <2>1
<1>14. T(6, v2) = Wrap(neg * b) /\ T(6, v3) = MulHighUnsigned(neg, b) /\ T(6, v1) = one /\ T(6, v0) = mask
  <2> HIDE DEF mask, one, neg
  <2>1. TraceResult(s[6], T(5, s[6].rs1), T(5, s[6].rs2)) = Wrap(neg * b)
    BY <1>1, <1>3, <1>13, TraceResults
  <2>2. QED  BY <1>1, <1>3, <1>5, <1>6, <1>7, <1>13, <2>1
<1>15. T(7, v3) = high /\ T(7, v2) = Wrap(neg * b) /\ T(7, v1) = one /\ T(7, v0) = mask
  <2> HIDE DEF mask, one, neg
  <2>1. TraceResult(s[7], T(6, s[7].rs1), T(6, s[7].rs2)) = high
    BY <1>1, <1>3, <1>14, TraceResults
  <2> HIDE DEF high
  <2>2. QED  BY <1>1, <1>3, <1>5, <1>6, <1>7, <1>14, <2>1
<1>16. T(8, v2) = low /\ T(8, v3) = high /\ T(8, v1) = one
  <2> HIDE DEF mask, one, neg, high
  <2>1. TraceResult(s[8], T(7, s[8].rs1), T(7, s[8].rs2)) = low
    BY <1>1, <1>3, <1>15, TraceResults
  <2> HIDE DEF low
  <2>2. QED  BY <1>1, <1>3, <1>5, <1>6, <1>7, <1>15, <2>1
<1>17. T(9, v0) = Wrap(low + one) /\ T(9, v2) = low /\ T(9, v3) = high
  <2> HIDE DEF mask, one, neg, high, low
  <2>1. TraceResult(s[9], T(8, s[9].rs1), T(8, s[9].rs2)) = Wrap(low + one)
    BY <1>1, <1>3, <1>16, TraceResults
  <2>2. QED  BY <1>1, <1>3, <1>5, <1>6, <1>7, <1>16, <2>1
<1>18. T(10, v0) = Bool(Wrap(low + one) < low) /\ T(10, v3) = high
  <2> HIDE DEF mask, one, neg, high, low
  <2>1. TraceResult(s[10], T(9, s[10].rs1), T(9, s[10].rs2)) = Bool(Wrap(low + one) < low)
    BY <1>1, <1>3, <1>17, TraceResults
  <2>2. QED  BY <1>1, <1>3, <1>5, <1>6, <1>7, <1>17, <2>1
<1>19. RowResult(s[11], trace[10]) = Alu("Mulhsu", a, b)
  <2>1. Wrap(high + Bool(Wrap(low + one) < low)) = MulHighSignedUnsigned(a, b)
    <3> HIDE DEF mask, one, neg, high, low
    <3>1. mask = SignMask(a) /\ one = BitAnd(mask, 1) /\ neg = Wrap(BitXor(a, mask) + one)  BY DEF mask, one, neg
    <3>2. high = BitXor(MulHighUnsigned(neg, b), mask)  BY DEF high
    <3>3. low = BitXor(Wrap(neg * b), mask)  BY DEF low
    <3>4. QED  BY <3>1, <3>2, <3>3, MulhsuRows
  <2> HIDE DEF mask, one, neg, high, low
  <2>2. TraceResult(s[11], T(10, s[11].rs1), T(10, s[11].rs2)) = Wrap(high + Bool(Wrap(low + one) < low))
    BY <1>1, <1>3, <1>18, TraceResults
  <2>3. Alu("Mulhsu", a, b) = MulHighSignedUnsigned(a, b)  BY DEF Alu
  <2>4. RowResult(s[11], trace[10]) = TraceResult(s[11], T(10, s[11].rs1), T(10, s[11].rs2))
    BY DEF RowResult, T
  <2>5. QED  BY <2>1, <2>2, <2>3, <2>4
<1> HIDE DEF mask, one, neg, high, low
<1>20. T(11, rd) = Alu("Mulhsu", a, b)  BY <1>1, <1>3, <1>5, <1>6, <1>19
<1>21. Computes(trace, s, 10, rd, Alu("Mulhsu", a, b))  BY <1>1, <1>3, <1>19, <1>20 DEF Computes, T
<1>22. QED  BY <1>4, <1>21

\* What the property of the division rows asks of a sequence.
Reconciles(trace, steps, op, a, b) ==
  \A k \in 1..Len(steps) : steps[k].op = "Sub" =>
     LET r == RowResult(steps[k], trace[k - 1])
     IN  IF op \in WordOps THEN Low(r) = Low(Alu(Remainder(op), a, b)) ELSE r = Alu(Remainder(op), a, b)

\* Which registers may hold the quotient, the product and the difference.
Apart(op, rs1, rs2, rd, q, m, t) ==
  /\ q \in {rd} \cup ScratchRegs /\ m \in ScratchRegs /\ t \in {rd} \cup ScratchRegs
  /\ q # m /\ q # t /\ m # t /\ q \notin {rs1, rs2, DivisorReg(op, rs2)} /\ m # DivisorReg(op, rs2)
  /\ op \in RemOps => t = rd
  /\ op \in DivOps => t # rd

\* The rows of a division leave the quotient in q and the remainder in t; a Move takes the
\* quotient to rd when it had to wait, and the word instructions extend the sign.
LEMMA DivisionComputes ==
  ASSUME NEW trace, NEW steps, NEW op \in DivRemOps, NEW a \in Word, NEW b \in Word,
         NEW rs1 \in Regs, NEW rs2 \in Regs, NEW rd \in Regs, rd # 0, NEW q, NEW m, NEW t, NEW e,
         IsDivision(steps, op, a, b, rs1, rs2, rd, q, m, t), Apart(op, rs1, rs2, rd, q, m, t),
         Runs(trace, steps, Len(steps)), trace[0][rs1] = a, trace[0][rs2] = b,
         e = IF q = rd /\ op \in DivOps \ WordOps THEN SignedRows(op) ELSE Len(steps) - 1
  PROVE  Computes(trace, steps, e, rd, Alu(op, a, b)) /\ Reconciles(trace, steps, op, a, b)
<1> DEFINE s == SignedRows(op)
           w == SignRows(op)
           v == IF q # rd /\ t # rd THEN 1 ELSE 0
           D == DivisorReg(op, rs2)
           n == Len(steps)
           Q == Quotient(op, a, b)
           B == RowDivisor(op, a, b)
           R == Wrap(a - Wrap(Q * B))
           X == Alu(op, a, b)
           T(k, r) == trace[k][r]
<1>1. /\ q \in {rd} \cup ScratchRegs /\ m \in ScratchRegs /\ t \in {rd} \cup ScratchRegs
      /\ q # m /\ q # t /\ m # t /\ q \notin {rs1, rs2, D} /\ m # D
      /\ op \in RemOps => t = rd
      /\ op \in DivOps => t # rd
  BY DEF Apart
<1>2. s \in {0, 1} /\ w \in {0, 1} /\ v \in {0, 1}  BY DEF SignedRows, SignRows
<1>3. /\ n = s + 3 + v + w
      /\ s = 1 => /\ steps[1].op = "ChangeDivisor" /\ steps[1].rd = Scratch(0) /\ steps[1].rs1 = rs1
                  /\ steps[1].rs2 = rs2 /\ steps[1].hint = EffectiveDivisor(op, a, b)
      /\ steps[s + 1].op = "Advice" /\ steps[s + 1].rd = q /\ steps[s + 1].rs1 = rs1
      /\ steps[s + 1].rs2 = rs2 /\ steps[s + 1].hint = Q
      /\ steps[s + 2].op = "Mul" /\ steps[s + 2].rd = m /\ steps[s + 2].rs1 = q /\ steps[s + 2].rs2 = D
      /\ steps[s + 3].op = "Sub" /\ steps[s + 3].rd = t /\ steps[s + 3].rs1 = rs1 /\ steps[s + 3].rs2 = m
      /\ v = 1 => /\ steps[s + 4].op = "Move" /\ steps[s + 4].rd = rd /\ steps[s + 4].rs1 = q
                  /\ steps[s + 4].rs2 = 0
      /\ w = 1 => /\ steps[n].op = "SignExtendWord" /\ steps[n].rd = rd /\ steps[n].rs1 = rd
                  /\ steps[n].rs2 = 0
  BY DEF IsDivision, Hinted, Real, Unary, Spec
<1>4. s = 1 <=> op \in SignedOps  BY DEF SignedRows
<1>5. D = (IF s = 1 THEN Scratch(0) ELSE rs2) /\ B = (IF s = 1 THEN EffectiveDivisor(op, a, b) ELSE b)
  BY <1>4 DEF DivisorReg, RowDivisor
<1>6. /\ {rs1, rs2, rd, q, m, t, D, Scratch(0)} \subseteq AllRegs
      /\ Scratch(0) \notin {0, rs1, rs2, rd} /\ m \notin {0, rs1, rs2, rd} /\ q # 0 /\ t # 0
  BY <1>1, <1>5, ScratchIs DEF AllRegs
<1>7. \A k \in 1..n : \A r \in AllRegs :
        T(k, r) = IF r = steps[k].rd /\ r # 0 THEN RowResult(steps[k], trace[k - 1]) ELSE T(k - 1, r)
  BY DEF Runs
<1>8. \A k \in 1..n : RowResult(steps[k], trace[k - 1])
                        = TraceResult(steps[k], T(k - 1, steps[k].rs1), T(k - 1, steps[k].rs2))
  BY DEF RowResult
<1>9. T(0, rs1) = a /\ T(0, rs2) = b  OBVIOUS
<1>10. /\ Q \in Word /\ R \in Word
       /\ op \in DivOps => Fit(op, Q) = X
       /\ op \in RemOps => Fit(op, R) = X
       /\ IF op \in WordOps THEN Low(R) = Low(Alu(Remainder(op), a, b)) ELSE R = Alu(Remainder(op), a, b)
  BY DivisionResults
<1>11. v = 1 <=> op \in DivOps /\ q # rd  BY <1>1 DEF DivRemOps
<1>12. w = 1 <=> op \in WordOps  BY DEF SignRows
<1>13. e = IF q = rd /\ op \in DivOps /\ w = 0 THEN s ELSE n - 1  BY <1>2, <1>12
<1> HIDE DEF T, s, w, v, n, D, Q, B, X
<1>14. T(s, rs1) = a /\ T(s, D) = B
  <2>1. CASE s = 0
    <3>1. QED  BY <1>5, <1>9, <2>1
  <2>2. CASE s = 1
    <3>1. TraceResult(steps[1], T(0, steps[1].rs1), T(0, steps[1].rs2)) = EffectiveDivisor(op, a, b)
      BY <1>3, <2>2, TraceResults
    <3>2. 1 \in 1..n /\ 1 - 1 = 0  BY <1>2, <1>3
    <3>3. QED  BY <1>3, <1>5, <1>6, <1>7, <1>8, <1>9, <2>2, <3>1, <3>2
  <2>3. QED  BY <1>2, <2>1, <2>2
<1>15. s + 1 \in 1..n /\ s + 2 \in 1..n /\ s + 3 \in 1..n
       /\ (s + 1) - 1 = s /\ (s + 2) - 1 = s + 1 /\ (s + 3) - 1 = s + 2
  BY <1>2, <1>3
<1>16. T(s + 1, q) = Q /\ T(s + 1, rs1) = a /\ T(s + 1, D) = B /\ RowResult(steps[s + 1], trace[s]) = Q
  <2>1. TraceResult(steps[s + 1], T(s, steps[s + 1].rs1), T(s, steps[s + 1].rs2)) = Q
    BY <1>3, TraceResults
  <2>2. q \notin {rs1, D}  BY <1>1
  <2>3. QED  BY <1>3, <1>6, <1>7, <1>8, <1>14, <1>15, <2>1, <2>2
<1>17. T(s + 2, m) = Wrap(Q * B) /\ T(s + 2, rs1) = a /\ T(s + 2, q) = Q
  <2>1. TraceResult(steps[s + 2], T(s + 1, steps[s + 2].rs1), T(s + 1, steps[s + 2].rs2)) = Wrap(Q * B)
    BY <1>3, <1>16, TraceResults
  <2>2. QED  BY <1>1, <1>3, <1>6, <1>7, <1>8, <1>15, <1>16, <2>1
<1>18. RowResult(steps[s + 3], trace[s + 2]) = R /\ T(s + 3, t) = R /\ T(s + 3, q) = Q
  <2>1. TraceResult(steps[s + 3], T(s + 2, steps[s + 3].rs1), T(s + 2, steps[s + 3].rs2)) = R
    BY <1>3, <1>17, TraceResults
  <2> HIDE DEF R
  <2>2. QED  BY <1>1, <1>3, <1>6, <1>7, <1>8, <1>15, <1>17, <2>1
<1> HIDE DEF R
<1> DEFINE Y == IF op \in DivOps THEN Q ELSE R
<1>19. T(s + 3 + v, rd) = Y /\ (v = 1 => RowResult(steps[s + 4], trace[s + 3]) = Q)
  <2>1. CASE v = 1
    <3>1. TraceResult(steps[s + 4], T(s + 3, steps[s + 4].rs1), T(s + 3, steps[s + 4].rs2)) = Q
      BY <1>3, <1>18, <2>1, TraceResults
    <3>2. s + 4 \in 1..n /\ (s + 4) - 1 = s + 3 /\ s + 3 + v = s + 4  BY <1>2, <1>3, <2>1
    <3>3. QED  BY <1>3, <1>6, <1>7, <1>8, <1>11, <2>1, <3>1, <3>2
  <2>2. CASE v = 0 /\ op \in DivOps
    <3>1. q = rd /\ s + 3 + v = s + 3  BY <1>2, <1>11, <2>2
    <3>2. QED  BY <1>18, <2>2, <3>1
  <2>3. CASE v = 0 /\ op \notin DivOps
    <3>1. t = rd /\ s + 3 + v = s + 3  BY <1>1, <1>2, <2>3 DEF DivRemOps
    <3>2. QED  BY <1>18, <2>3, <3>1
  <2>4. QED  BY <1>2, <2>1, <2>2, <2>3
<1>20. Fit(op, Y) = X /\ Y \in Word  BY <1>10 DEF DivRemOps
<1> HIDE DEF Y
<1>21. ASSUME w = 1 PROVE Computes(trace, steps, e, rd, X)
  <2>1. TraceResult(steps[n], T(n - 1, steps[n].rs1), T(n - 1, steps[n].rs2)) = SignExtendWord(Y)
    <3>1. n - 1 = s + 3 + v  BY <1>2, <1>3, <1>21
    <3>2. QED  BY <1>3, <1>19, <1>21, <3>1, TraceResults
  <2>2. SignExtendWord(Y) = X  BY <1>12, <1>20, <1>21 DEF Fit
  <2>3. n \in 1..n /\ e = n - 1 /\ e + 1 = n  BY <1>2, <1>3, <1>13, <1>21
  <2>4. RowResult(steps[n], trace[n - 1]) = X  BY <1>8, <2>1, <2>2, <2>3
  <2>5. T(n, rd) = X  BY <1>3, <1>6, <1>7, <1>21, <2>3, <2>4
  <2>6. Computes(trace, steps, e, rd, X)  BY <1>3, <1>21, <2>3, <2>4, <2>5 DEF Computes, T, n
  <2>7. QED  BY <2>6
<1>22. ASSUME w = 0 PROVE Computes(trace, steps, e, rd, X)
  <2>1. Y = X
    <3>1. Fit(op, Y) = Wrap(Y) /\ Y \in Int  BY <1>12, <1>20, <1>22, WordIs DEF Fit
    <3>2. QED  BY <1>20, <3>1, WrapIs
  <2>2. T(n, rd) = X
    <3>1. n = s + 3 + v  BY <1>2, <1>3, <1>22
    <3>2. QED  BY <1>19, <2>1, <3>1
  <2>3. CASE q = rd /\ op \in DivOps
    <3>1. e = s  BY <1>13, <1>22, <2>3
    <3>2. Y = Q  BY <2>3 DEF Y
    <3>3. steps[e + 1].rd = rd /\ RowResult(steps[e + 1], trace[e]) = X /\ T(e + 1, rd) = X
      BY <1>3, <1>16, <2>1, <2>3, <3>1, <3>2
    <3>4. QED  BY <2>2, <3>3 DEF Computes, T, n
  <2>4. CASE ~(q = rd /\ op \in DivOps)
    <3>1. e = n - 1 /\ e + 1 = n  BY <1>2, <1>3, <1>13, <1>22, <2>4
    <3>2. CASE op \in DivOps
      <4>1. v = 1 /\ n = s + 4 /\ e = s + 3 /\ Y = Q  BY <1>2, <1>3, <1>11, <1>22, <2>4, <3>1, <3>2 DEF Y
      <4>2. steps[e + 1].rd = rd /\ RowResult(steps[e + 1], trace[e]) = X /\ T(e + 1, rd) = X
        BY <1>3, <1>19, <2>1, <2>2, <3>1, <4>1
      <4>3. QED  BY <2>2, <4>2 DEF Computes, T, n
    <3>3. CASE op \notin DivOps
      <4>1. v = 0 /\ n = s + 3 /\ e = s + 2 /\ Y = R /\ t = rd
        BY <1>1, <1>2, <1>3, <1>11, <1>22, <3>1, <3>3 DEF Y, DivRemOps
      <4>2. steps[e + 1].rd = rd /\ RowResult(steps[e + 1], trace[e]) = X /\ T(e + 1, rd) = X
        BY <1>3, <1>18, <2>1, <2>2, <3>1, <4>1
      <4>3. QED  BY <2>2, <4>2 DEF Computes, T, n
    <3>4. QED  BY <3>2, <3>3
  <2>5. Computes(trace, steps, e, rd, X)  BY <2>3, <2>4
  <2>6. QED  BY <2>5
<1>23. Computes(trace, steps, e, rd, X)  BY <1>2, <1>21, <1>22
<1>24. \A k \in 1..n : \/ (s = 1 /\ k = 1) \/ k = s + 1 \/ k = s + 2 \/ k = s + 3
                       \/ (v = 1 /\ k = s + 4) \/ (w = 1 /\ k = n)
  BY <1>2, <1>3
<1>25. \A k \in 1..n : steps[k].op = "Sub" => k = s + 3  BY <1>3, <1>24
<1>26. \A k \in 1..n : steps[k].op = "Sub" => RowResult(steps[k], trace[k - 1]) = R
  BY <1>15, <1>18, <1>25
<1>27. QED  BY <1>10, <1>23, <1>26 DEF X, n, Reconciles

\* Every plan is a plan of its instruction.
LEMMA PlanIs ==
  ASSUME NEW op \in InlineOps, NEW a, NEW b, NEW rs1 \in Regs, NEW rs2 \in Regs, NEW rd \in Regs
  PROVE  IsPlan(CanonicalTracePlan(op, a, b, rs1, rs2, rd), op, a, b, rs1, rs2, rd)
<1>1. CASE op = "Mulw"
  <2>1. CanonicalTracePlan(op, a, b, rs1, rs2, rd) = MulwPlan(rs1, rs2, rd)  BY <1>1 DEF CanonicalTracePlan, DivOps, RemOps
  <2>2. QED  BY <1>1, <2>1, MulwPlanIs
<1>2. CASE op = "Mulh"
  <2>1. CanonicalTracePlan(op, a, b, rs1, rs2, rd) = MulhPlan(rs1, rs2, rd)  BY <1>2 DEF CanonicalTracePlan, DivOps, RemOps
  <2>2. QED  BY <1>2, <2>1, MulhPlanIs
<1>3. CASE op = "Mulhsu"
  <2>1. CanonicalTracePlan(op, a, b, rs1, rs2, rd) = MulhsuPlan(rs1, rs2, rd)  BY <1>3 DEF CanonicalTracePlan, DivOps, RemOps
  <2>2. QED  BY <1>3, <2>1, MulhsuPlanIs
<1>4. CASE op \in DivOps
  <2>1. CanonicalTracePlan(op, a, b, rs1, rs2, rd) = DivPlan(op, a, b, rs1, rs2, rd)
    BY <1>4 DEF CanonicalTracePlan, DivOps, RemOps
  <2>2. QED  BY <1>4, <2>1, DivPlanIs
<1>5. CASE op \in RemOps
  <2>1. CanonicalTracePlan(op, a, b, rs1, rs2, rd) = RemPlan(op, a, b, rs1, rs2, rd)
    BY <1>5 DEF CanonicalTracePlan, DivOps, RemOps
  <2>2. QED  BY <1>5, <2>1, RemPlanIs
<1>6. QED  BY <1>1, <1>2, <1>3, <1>4, <1>5 DEF InlineOps

\* Running the plan of a division gives the quotient, and its reconciling row the remainder.
LEMMA DivPlanComputes ==
  ASSUME NEW op \in DivOps, NEW trace, NEW a \in Word, NEW b \in Word,
         NEW rs1 \in Regs, NEW rs2 \in Regs, NEW rd \in Regs, rd # 0,
         NEW plan, plan = DivPlan(op, a, b, rs1, rs2, rd),
         Runs(trace, plan.steps, Len(plan.steps)), trace[0][rs1] = a, trace[0][rs2] = b
  PROVE  /\ Computes(trace, plan.steps, plan.effect_index, rd, Alu(op, a, b))
         /\ Reconciles(trace, plan.steps, op, a, b)
<1> DEFINE s == SignedRows(op)
           q == IF rd = rs1 \/ rd = rs2 THEN Scratch(s + 2) ELSE rd
           t == Scratch(s + 1)
           m == Scratch(s)
           D == DivisorReg(op, rs2)
<1>1. /\ IsDivision(plan.steps, op, a, b, rs1, rs2, rd, q, m, t)
      /\ plan.effect_index = IF rd = rs1 \/ rd = rs2 \/ op \in WordOps THEN Len(plan.steps) - 1 ELSE s
  BY DivPlanRows
<1>2. s \in {0, 1} /\ op \in DivRemOps /\ op \notin RemOps  BY DEF SignedRows, DivRemOps, DivOps, RemOps
<1>3. q \in {rd} \cup ScratchRegs /\ m \in ScratchRegs /\ t \in {rd} \cup ScratchRegs
  <2>1. s \in 0..7 /\ s + 1 \in 0..7 /\ s + 2 \in 0..7  BY <1>2
  <2>2. QED  BY <2>1, ScratchIs
<1>4. D = IF s = 1 THEN Scratch(0) ELSE rs2  BY DEF SignedRows, DivisorReg
<1>5. q # m /\ q # t /\ m # t /\ q \notin {rs1, rs2, D} /\ m # D /\ t # rd
  BY <1>2, <1>4, ScratchIs
<1>6. plan.effect_index = IF q = rd /\ op \in DivOps \ WordOps THEN s ELSE Len(plan.steps) - 1
  BY <1>1, <1>2, <1>5, ScratchIs
<1>7. (op \in RemOps => t = rd) /\ (op \in DivOps => t # rd)  BY <1>2, <1>5
<1>8. Apart(op, rs1, rs2, rd, q, m, t)  BY <1>2, <1>3, <1>5, <1>7 DEF Apart
<1> HIDE DEF q, t, m, s, D
<1>9. QED  BY <1>1, <1>2, <1>6, <1>8, DivisionComputes DEF s

\* Running the plan of a remainder gives the remainder, and so does its reconciling row.
LEMMA RemPlanComputes ==
  ASSUME NEW op \in RemOps, NEW trace, NEW a \in Word, NEW b \in Word,
         NEW rs1 \in Regs, NEW rs2 \in Regs, NEW rd \in Regs, rd # 0,
         NEW plan, plan = RemPlan(op, a, b, rs1, rs2, rd),
         Runs(trace, plan.steps, Len(plan.steps)), trace[0][rs1] = a, trace[0][rs2] = b
  PROVE  /\ Computes(trace, plan.steps, plan.effect_index, rd, Alu(op, a, b))
         /\ Reconciles(trace, plan.steps, op, a, b)
<1> DEFINE s == SignedRows(op)
           q == Scratch(s)
           m == Scratch(s + 1)
           D == DivisorReg(op, rs2)
<1>1. /\ IsDivision(plan.steps, op, a, b, rs1, rs2, rd, q, m, rd)
      /\ plan.effect_index = Len(plan.steps) - 1
  BY RemPlanRows
<1>2. s \in {0, 1} /\ op \in DivRemOps /\ op \notin DivOps  BY DEF SignedRows, DivRemOps, DivOps, RemOps
<1>3. q \in {rd} \cup ScratchRegs /\ m \in ScratchRegs /\ rd \in {rd} \cup ScratchRegs
  BY <1>2, ScratchIs
<1>4. D = IF s = 1 THEN Scratch(0) ELSE rs2  BY DEF SignedRows, DivisorReg
<1>5. q # m /\ q # rd /\ m # rd /\ q \notin {rs1, rs2, D} /\ m # D
  BY <1>2, <1>4, ScratchIs
<1>6. plan.effect_index = IF q = rd /\ op \in DivOps \ WordOps THEN s ELSE Len(plan.steps) - 1
  BY <1>1, <1>2
<1>7. Apart(op, rs1, rs2, rd, q, m, rd)  BY <1>2, <1>3, <1>5 DEF Apart
<1> HIDE DEF q, m, s, D
<1>8. QED  BY <1>1, <1>2, <1>6, <1>7, DivisionComputes DEF s

\* Every sequence computes what its instruction does.
LEMMA PlanComputes ==
  ASSUME NEW op \in InlineOps, NEW trace, NEW a \in Word, NEW b \in Word,
         NEW rs1 \in Regs, NEW rs2 \in Regs, NEW rd \in Regs, rd # 0,
         NEW plan, plan = CanonicalTracePlan(op, a, b, rs1, rs2, rd),
         Runs(trace, plan.steps, Len(plan.steps)), trace[0][rs1] = a, trace[0][rs2] = b
  PROVE  /\ Computes(trace, plan.steps, plan.effect_index, rd, Alu(op, a, b))
         /\ op \in DivRemOps => Reconciles(trace, plan.steps, op, a, b)
<1>1. {"Mulw", "Mulh", "Mulhsu"} \cap DivRemOps = {}  BY DEF DivRemOps, DivOps, RemOps
<1>2. CASE op = "Mulw"
  <2>1. plan = MulwPlan(rs1, rs2, rd)  BY <1>2 DEF CanonicalTracePlan, DivOps, RemOps
  <2>2. Len(plan.steps) = 2  BY <2>1 DEF MulwPlan, Plan
  <2>3. QED  BY <1>1, <1>2, <2>1, <2>2, MulwComputes
<1>3. CASE op = "Mulh"
  <2>1. plan = MulhPlan(rs1, rs2, rd)  BY <1>3 DEF CanonicalTracePlan, DivOps, RemOps
  <2>2. Len(plan.steps) = 7  BY <2>1 DEF MulhPlan, Plan, FinalizeInline
  <2>3. QED  BY <1>1, <1>3, <2>1, <2>2, MulhComputes
<1>4. CASE op = "Mulhsu"
  <2>1. plan = MulhsuPlan(rs1, rs2, rd)  BY <1>4 DEF CanonicalTracePlan, DivOps, RemOps
  <2>2. Len(plan.steps) = 11  BY <2>1 DEF MulhsuPlan, Plan, FinalizeInline
  <2>3. QED  BY <1>1, <1>4, <2>1, <2>2, MulhsuComputes
<1>5. CASE op \in DivOps
  <2>1. plan = DivPlan(op, a, b, rs1, rs2, rd)  BY <1>5 DEF CanonicalTracePlan, DivOps, RemOps
  <2>2. QED  BY <1>5, <2>1, DivPlanComputes
<1>6. CASE op \in RemOps
  <2>1. plan = RemPlan(op, a, b, rs1, rs2, rd)  BY <1>6 DEF CanonicalTracePlan, DivOps, RemOps
  <2>2. QED  BY <1>6, <2>1, RemPlanComputes
<1>7. QED  BY <1>2, <1>3, <1>4, <1>5, <1>6 DEF InlineOps

-----------------------------------------------------------------------------
(* Parts of memory words.                                                  *)

\* The width of a narrow access, and where it lies in the memory word.
LEMMA NarrowIs ==
  ASSUME NEW op \in NarrowOps, NEW addr \in Nat
  PROVE  /\ NarrowBytes(op) \in {1, 2, 4} /\ ByteBits \in Nat /\ 8 * ByteBits <= XLEN
         /\ ByteOffset(addr) \in 0..7
         /\ NarrowBytes(op) * ByteBits \in Nat /\ ByteOffset(addr) * ByteBits \in Nat
<1>1. NarrowBytes(op) \in {1, 2, 4}
  BY DEF NarrowOps, NarrowLoads, NarrowStores, NarrowBytes
<1>2. ByteBits \in Nat /\ 8 * ByteBits <= XLEN  BY Sizes DEF ByteBits
<1>3. ByteOffset(addr) \in 0..7  BY DEF ByteOffset
<1> DEFINE u == ByteBits
           w == NarrowBytes(op)
           o == ByteOffset(addr)
<1> HIDE DEF u, w, o
<1>4. w * u \in Nat /\ o * u \in Nat
  <2>1. u \in Nat /\ w \in Nat /\ o \in Nat  BY <1>1, <1>2, <1>3 DEF u, w, o
  <2>2. QED  BY <2>1
<1>5. QED  BY <1>1, <1>2, <1>3, <1>4 DEF u, w, o

\* What a narrow load reads is a word.
LEMMA ExtractIsWord ==
  ASSUME NEW op \in NarrowOps, NEW addr \in Nat, NEW word \in Word
  PROVE  ExtractNarrow(word, addr, op) \in Word
<1> DEFINE bits == NarrowBytes(op) * ByteBits
           m == TwoTo(bits)
           scale == TwoTo(ByteOffset(addr) * ByteBits)
           part == word \div scale
           raw == part % m
<1>1. m \in Nat \ {0} /\ scale \in Nat \ {0}  BY NarrowIs, TwoToSteps
<1> HIDE DEF m, scale
<1>2. word \in Nat /\ part \in Nat /\ part <= word  BY <1>1, WordIs, QuotientNotAbove
<1> HIDE DEF part
<1>3. raw \in Nat /\ raw <= part
  <2>1. raw \in 0..(m - 1) /\ part \div m \in Int /\ part = m * (part \div m) + raw  BY <1>1, <1>2, DivMod
  <2>2. part \div m \in Nat  BY <1>1, <1>2, QuotientNotAbove
  <2> DEFINE k == part \div m
             z == m * k
  <2>3. z \in Nat /\ part = z + raw  BY <1>1, <2>1, <2>2
  <2> HIDE DEF z, raw
  <2>4. QED  BY <2>1, <2>3
<1> HIDE DEF raw
<1>4. raw \in Word /\ raw - m \in Int  BY <1>1, <1>2, <1>3, WordIs
<1>5. Wrap(raw - m) \in Word  BY <1>4, WrapIs
<1>6. ExtractNarrow(word, addr, op)
        = IF NarrowSigned(op) /\ raw >= TwoTo(bits - 1) THEN Wrap(raw - m) ELSE raw
  BY DEF ExtractNarrow, raw, part, m, scale
<1>7. QED  BY <1>4, <1>5, <1>6

\* A product of two factors, the first of which grows by one at least.
LEMMA NextMultiple ==
  ASSUME NEW h \in Nat, NEW k \in Nat, h < k, NEW m \in Nat
  PROVE  h * m + m <= k * m
<1>1. PICK d \in Nat : k = h + 1 + d
  <2>1. k - h - 1 \in Nat /\ k = h + 1 + (k - h - 1)  OBVIOUS
  <2>2. QED  BY <2>1
<1>2. k * m = h * m + m + d * m /\ d * m \in Nat /\ h * m \in Nat /\ k * m \in Nat  BY <1>1
<1> DEFINE x == h * m
           y == k * m
           z == d * m
<1> HIDE DEF x, y, z
<1>3. y = x + m + z /\ z \in Nat /\ x \in Nat /\ y \in Nat  BY <1>2 DEF x, y, z
<1>4. x + m <= y  BY <1>3
<1>5. QED  BY <1>4 DEF x, y

\* The word that a narrow store writes is a word.
LEMMA BlendIsWord ==
  ASSUME NEW op \in NarrowOps, NEW addr \in Nat, Aligned(op, addr), NEW word \in Word, NEW value \in Word
  PROVE  BlendNarrow(word, addr, op, value) \in Word
<1> DEFINE u == ByteBits
           w == NarrowBytes(op)
           o == ByteOffset(addr)
           bits == w * u
           shift == o * u
           m == TwoTo(bits)
           scale == TwoTo(shift)
           part == word \div scale
           old == part % m
           new == value % m
           k == TwoTo(XLEN - (bits + shift))
<1>1. bits \in Nat /\ shift \in Nat /\ bits + shift <= XLEN /\ XLEN - (bits + shift) \in Nat /\ XLEN \in Nat
  <2>1. w \in Nat /\ u \in Nat /\ o \in Nat /\ o + w <= 8 /\ 8 * u <= XLEN /\ XLEN \in Nat
        /\ bits \in Nat /\ shift \in Nat
    BY NarrowIs, Sizes DEF Aligned
  <2> HIDE DEF w, u, o
  <2>2. PICK d \in Nat : o + w + d = 8
    <3>1. 8 - (o + w) \in Nat /\ o + w + (8 - (o + w)) = 8  BY <2>1
    <3>2. QED  BY <3>1
  <2>3. bits + shift + d * u = 8 * u /\ d * u \in Nat
    <3>1. w * u + o * u + d * u = (o + w + d) * u  BY <2>1
    <3>2. QED  BY <2>1, <2>2, <3>1
  <2> DEFINE z == d * u
  <2> HIDE DEF bits, shift, z
  <2>4. bits + shift + z = 8 * u /\ z \in Nat  BY <2>3 DEF z
  <2>5. QED  BY <2>1, <2>4
<1> HIDE DEF bits, shift, w, u, o
<1>2. m \in Nat \ {0} /\ scale \in Nat \ {0} /\ k \in Nat \ {0}  BY <1>1, TwoToSteps
<1>3. WordSize = k * (m * scale)
  <2>1. TwoTo(bits + shift) = m * scale  BY <1>1, TwoToSum
  <2>2. bits + shift \in Nat /\ XLEN = (XLEN - (bits + shift)) + (bits + shift)  BY <1>1
  <2>3. TwoTo(XLEN) = k * TwoTo(bits + shift)  BY <1>1, <2>2, TwoToSum
  <2>4. QED  BY <2>1, <2>3 DEF WordSize
<1> HIDE DEF k, m, scale
<1>4. word \in Nat /\ value \in Nat /\ word < k * (m * scale)  BY <1>3, WordIs
<1> DEFINE low == word % scale
           hi == part \div m
           ms == m * scale
<1>5. low \in 0..(scale - 1) /\ part \in Nat /\ word = scale * part + low
  <2>1. word \in Int /\ word \in Nat /\ scale \in Nat \ {0}  BY <1>2, <1>4
  <2>2. word % scale \in 0..(scale - 1) /\ word = scale * (word \div scale) + (word % scale)
    BY <2>1, DivMod
  <2>3. word \div scale \in Nat  BY <2>1, QuotientNotAbove
  <2>4. QED  BY <2>2, <2>3
<1> HIDE DEF low, part
<1>6. old \in 0..(m - 1) /\ hi \in Nat /\ part = m * hi + old
  <2>1. part \in Int /\ part \in Nat /\ m \in Nat \ {0}  BY <1>2, <1>5
  <2>2. part % m \in 0..(m - 1) /\ part = m * (part \div m) + (part % m)  BY <2>1, DivMod
  <2>3. part \div m \in Nat  BY <2>1, QuotientNotAbove
  <2>4. QED  BY <2>2, <2>3
<1>7. new \in 0..(m - 1)  BY <1>2, <1>4, DivMod
<1> HIDE DEF old, hi, new
<1>8. word = hi * ms + old * scale + low
  <2>1. scale * (m * hi + old) = hi * (m * scale) + old * scale  BY <1>2, <1>6
  <2>2. QED  BY <1>5, <1>6, <2>1
<1>9. word + (new - old) * scale = hi * ms + new * scale + low
  <2> DEFINE x == old * scale
             y == new * scale
             z == hi * ms
  <2>1. (new - old) * scale = y - x  BY <1>2, <1>6, <1>7
  <2>2. x \in Int /\ y \in Int /\ z \in Int /\ word = z + x + low /\ low \in Int
    BY <1>2, <1>5, <1>6, <1>7, <1>8
  <2> HIDE DEF x, y, z
  <2>3. word + (y - x) = z + y + low  BY <2>2
  <2>4. QED  BY <2>1, <2>3 DEF y, z
<1>10. ms \in Nat \ {0} /\ new * scale + low \in Nat /\ new * scale + low < ms
  <2>1. new \in Nat /\ new < m /\ scale \in Nat /\ m \in Nat  BY <1>2, <1>7
  <2>2. new * scale + scale <= m * scale  BY <2>1, NextMultiple
  <2>3. new * scale \in Nat /\ m * scale \in Nat  BY <2>1
  <2> DEFINE x == new * scale
  <2> HIDE DEF x, ms
  <2>4. x + scale <= ms /\ x \in Nat /\ ms \in Nat  BY <2>2, <2>3 DEF x, ms
  <2>5. x + low \in Nat /\ x + low < ms /\ ms # 0  BY <1>2, <1>5, <2>4
  <2>6. QED  BY <2>4, <2>5 DEF x
<1>11. hi < k
  <2>1. SUFFICES ASSUME k <= hi PROVE FALSE  BY <1>2, <1>6
  <2> HIDE DEF ms
  <2>2. k * ms <= hi * ms
    <3>1. CASE k = hi  BY <1>2, <1>6, <1>10, <3>1
    <3>2. CASE k < hi
      <4>1. k * ms + ms <= hi * ms  BY <1>2, <1>6, <1>10, <3>2, NextMultiple
      <4>2. k * ms \in Nat /\ hi * ms \in Nat /\ ms \in Nat  BY <1>2, <1>6, <1>10
      <4> DEFINE x == k * ms
                 y == hi * ms
      <4> HIDE DEF x, y
      <4>3. x + ms <= y /\ x \in Nat /\ y \in Nat  BY <4>1, <4>2 DEF x, y
      <4>4. x <= y  BY <4>2, <4>3
      <4>5. QED  BY <4>4 DEF x, y
    <3>3. QED  BY <1>2, <1>6, <2>1, <3>1, <3>2
  <2> DEFINE x == hi * ms
             y == k * ms
             z == old * scale
  <2>3. x \in Nat /\ y \in Nat /\ z \in Nat /\ word = x + z + low /\ word < y /\ y <= x
    BY <1>2, <1>4, <1>6, <1>8, <1>10, <2>2 DEF ms
  <2> HIDE DEF x, y, z
  <2>4. QED  BY <1>5, <2>3
<1>12. BlendNarrow(word, addr, op, value) = word + (new - old) * scale
  BY DEF BlendNarrow, new, old, part, scale, m, bits, shift, w, u, o
<1>13. hi * ms + new * scale + low \in Nat /\ hi * ms + new * scale + low < k * ms
  <2> HIDE DEF ms
  <2>1. hi * ms + ms <= k * ms  BY <1>2, <1>6, <1>10, <1>11, NextMultiple
  <2>2. hi * ms \in Nat /\ k * ms \in Nat /\ new * scale \in Nat  BY <1>2, <1>6, <1>7, <1>10
  <2> DEFINE x == hi * ms
             y == k * ms
             z == new * scale
  <2> HIDE DEF x, y, z
  <2>3. x + ms <= y /\ x \in Nat /\ y \in Nat /\ z \in Nat /\ z + low \in Nat /\ z + low < ms
    BY <1>10, <2>1, <2>2 DEF x, y, z
  <2>4. x + z + low \in Nat /\ x + z + low < y  BY <1>5, <1>10, <2>3
  <2>5. QED  BY <2>4 DEF x, y, z
<1>14. word + (new - old) * scale \in Nat /\ word + (new - old) * scale < WordSize
  BY <1>3, <1>9, <1>13
<1>15. QED  BY <1>12, <1>14, WordIs

-----------------------------------------------------------------------------
(* The steps that the machine records.                                     *)

LoadOps  == NarrowLoads \cup {"Ld"}
StoreOps == NarrowStores \cup {"Sd"}

IsMachineState(s) ==
  /\ s = [pc |-> s.pc, regs |-> s.regs, mem |-> s.mem, halted |-> s.halted]
  /\ s.pc \in Nat /\ s.halted \in BOOLEAN
  /\ s.regs \in [Regs -> Word] /\ s.regs[0] = 0
  /\ IsMemory(s.mem)

ImmOf(e)  == Wrap(e.decoded.imm)
AddrOf(e) == Wrap(e.rs1_value + ImmOf(e))
TakenBy(e) == Taken(e.decoded.op, e.rs1_value, e.rs2_value)

Retired(s, rd, value) == [s EXCEPT !.pc = @ + 4, !.regs = WriteReg(@, rd, value)]

Accesses(e, addr, before, after) ==
  e.effective_addr = addr /\ e.memory_before = before /\ e.memory_after = after

IsAluStep(e) ==
  /\ e.decoded.op \in AluOps
  /\ e.alu_result = Alu(e.decoded.op, e.rs1_value, IF e.decoded.op \in ImmediateOps THEN ImmOf(e) ELSE e.rs2_value)
  /\ e.next = Retired(e.prev, e.decoded.rd, e.alu_result)
  /\ Accesses(e, None, None, None)

IsUpperStep(e) ==
  /\ e.decoded.op \in {"Lui", "Auipc"}
  /\ e.alu_result = IF e.decoded.op = "Lui" THEN ImmOf(e) ELSE Wrap(e.prev.pc + ImmOf(e))
  /\ e.next = Retired(e.prev, e.decoded.rd, e.alu_result)
  /\ Accesses(e, None, None, None)

AccessIsAligned(e) ==
  IF e.decoded.op \in NarrowOps THEN Aligned(e.decoded.op, AddrOf(e)) ELSE AddrOf(e) % 8 = 0

IsLoadStep(e) ==
  LET word == ReadMem(e.prev.mem, BackingAddr(AddrOf(e)))
  IN  /\ e.decoded.op \in LoadOps /\ AccessIsAligned(e)
      /\ e.alu_result = IF e.decoded.op = "Ld" THEN word ELSE ExtractNarrow(word, AddrOf(e), e.decoded.op)
      /\ e.next = Retired(e.prev, e.decoded.rd, e.alu_result)
      /\ Accesses(e, AddrOf(e), word, word)

IsStoreStep(e) ==
  LET addr == BackingAddr(AddrOf(e))
      word == ReadMem(e.prev.mem, addr)
  IN  /\ e.decoded.op \in StoreOps /\ AccessIsAligned(e)
      /\ e.alu_result = IF e.decoded.op = "Sd" THEN e.rs2_value
                        ELSE BlendNarrow(word, AddrOf(e), e.decoded.op, e.rs2_value)
      /\ e.next = [e.prev EXCEPT !.pc = @ + 4, !.mem = WriteMem(@, addr, e.alu_result)]
      /\ Accesses(e, AddrOf(e), word, e.alu_result)

IsJumpStep(e) ==
  /\ e.decoded.op \in {"Jal", "Jalr"}
  /\ e.decoded.op = "Jalr" => (2 * (AddrOf(e) \div 2)) % 4 = 0
  /\ e.alu_result = e.prev.pc + 4
  /\ e.next = [e.prev EXCEPT !.pc = IF e.decoded.op = "Jal" THEN Wrap(e.prev.pc + ImmOf(e))
                                                           ELSE 2 * (AddrOf(e) \div 2),
                             !.regs = WriteReg(@, e.decoded.rd, e.alu_result)]
  /\ Accesses(e, None, None, None)

IsBranchStep(e) ==
  /\ e.decoded.op \in BranchOps
  /\ TakenBy(e) => Wrap(e.prev.pc + ImmOf(e)) % 4 = 0
  /\ e.alu_result = Bool(TakenBy(e))
  /\ e.next = [e.prev EXCEPT !.pc = IF TakenBy(e) THEN Wrap(e.prev.pc + ImmOf(e)) ELSE @ + 4]
  /\ Accesses(e, None, None, None)

IsFenceStep(e) ==
  /\ e.decoded.op = "Fence" /\ e.alu_result = 0
  /\ e.next = [e.prev EXCEPT !.pc = @ + 4]
  /\ Accesses(e, None, None, None)

IsEcallStep(e) ==
  /\ e.decoded.op = "Ecall" /\ e.alu_result = 0
  /\ e.next = [e.prev EXCEPT !.pc = @ + 4, !.halted = TRUE]
  /\ Accesses(e, None, None, None)

IsOutcome(e) == \/ IsAluStep(e) \/ IsUpperStep(e) \/ IsLoadStep(e) \/ IsStoreStep(e)
                \/ IsJumpStep(e) \/ IsBranchStep(e) \/ IsFenceStep(e) \/ IsEcallStep(e)

StepRecord(n, i, prev, next, result, addr, before, after) ==
  [step_index |-> n, decoded |-> i, prev |-> prev, next |-> next,
   rs1_value |-> prev.regs[i.rs1], rs2_value |-> prev.regs[i.rs2], rd_before |-> prev.regs[i.rd],
   alu_result |-> result, effective_addr |-> addr, memory_before |-> before, memory_after |-> after]

\* An executed step, of the n-th instruction that the machine executes.
IsStep(e, n) ==
  /\ e = StepRecord(n, e.decoded, e.prev, e.next, e.alu_result, e.effective_addr, e.memory_before, e.memory_after)
  /\ n \in Nat
  /\ e.decoded \in Instructions /\ IsMachineState(e.prev) /\ ~e.prev.halted
  /\ e.prev.pc + 4 < WordSize
  /\ IsOutcome(e)

\* The fields of a step.
LEMMA StepFields ==
  ASSUME NEW e, NEW n, IsStep(e, n)
  PROVE  /\ e.step_index = n /\ n \in Nat
         /\ e.rs1_value = e.prev.regs[e.decoded.rs1] /\ e.rs2_value = e.prev.regs[e.decoded.rs2]
         /\ e.rd_before = e.prev.regs[e.decoded.rd]
         /\ e.decoded.op \in Opcodes /\ e.decoded.rd \in Regs /\ e.decoded.rs1 \in Regs
         /\ e.decoded.rs2 \in Regs /\ e.decoded.imm \in Int
         /\ e.rs1_value \in Word /\ e.rs2_value \in Word /\ e.rd_before \in Word
         /\ e.prev.regs \in [Regs -> Word] /\ e.prev.regs[0] = 0
         /\ e.prev.pc \in Nat /\ e.prev.pc + 4 < WordSize /\ e.prev.pc \in Word /\ e.prev.pc + 4 \in Word
         /\ IsMemory(e.prev.mem)
<1>1. e = StepRecord(n, e.decoded, e.prev, e.next, e.alu_result, e.effective_addr, e.memory_before, e.memory_after)
  BY DEF IsStep
<1>2. /\ e.step_index = n /\ e.rs1_value = e.prev.regs[e.decoded.rs1]
      /\ e.rs2_value = e.prev.regs[e.decoded.rs2] /\ e.rd_before = e.prev.regs[e.decoded.rd]
  BY <1>1 DEF StepRecord
<1>3. /\ e.decoded.op \in Opcodes /\ e.decoded.rd \in Regs /\ e.decoded.rs1 \in Regs
      /\ e.decoded.rs2 \in Regs /\ e.decoded.imm \in Int
  BY DEF IsStep, Instructions
<1>4. /\ e.prev.regs \in [Regs -> Word] /\ e.prev.regs[0] = 0 /\ e.prev.pc \in Nat
      /\ e.prev.pc + 4 < WordSize /\ IsMemory(e.prev.mem) /\ n \in Nat
  BY DEF IsStep, IsMachineState
<1>5. e.prev.pc \in Word /\ e.prev.pc + 4 \in Word  BY <1>4, WordIs
<1>6. QED  BY <1>2, <1>3, <1>4, <1>5

\* A backing address is that of a word in memory, the address's own when it is aligned.
LEMMA BackingIs ==
  ASSUME NEW addr \in Word
  PROVE  /\ BackingAddr(addr) \in Word /\ BackingAddr(addr) % 8 = 0
         /\ addr % 8 = 0 => BackingAddr(addr) = addr
<1>1. addr \in Nat /\ addr < WordSize /\ WordSize \in Nat  BY WordIs
<1>2. BackingAddr(addr) \in Nat /\ BackingAddr(addr) <= addr /\ BackingAddr(addr) % 8 = 0
      /\ (addr % 8 = 0 => BackingAddr(addr) = addr)
  BY <1>1 DEF BackingAddr
<1>3. QED  BY <1>1, <1>2, WordIs

\* Memory reads a word wherever it is.
LEMMA ReadIsWord ==
  ASSUME NEW mem, IsMemory(mem), NEW addr
  PROVE  ReadMem(mem, addr) \in Word
BY WordIs DEF IsMemory, ReadMem

\* Memory after a write.
LEMMA WriteIs ==
  ASSUME NEW mem, IsMemory(mem), NEW addr \in Word, NEW word \in Word
  PROVE  /\ IsMemory(WriteMem(mem, addr, word))
         /\ \A x : ReadMem(WriteMem(mem, addr, word), x) = IF x = addr THEN word ELSE ReadMem(mem, x)
BY DEF IsMemory, WriteMem, ReadMem

\* A write to a register.
LEMMA RegsAfter ==
  ASSUME NEW regs \in [Regs -> Word], regs[0] = 0, NEW rd \in Regs, NEW value \in Word
  PROVE  /\ WriteReg(regs, rd, value) \in [Regs -> Word] /\ WriteReg(regs, rd, value)[0] = 0
         /\ \A r \in Regs : WriteReg(regs, rd, value)[r] = IF r = rd /\ r # 0 THEN value ELSE regs[r]
BY WordIs, RegsAssumption DEF WriteReg

\* The address of a step and its immediate are words.
LEMMA StepWords ==
  ASSUME NEW e, NEW n, IsStep(e, n)
  PROVE  ImmOf(e) \in Word /\ AddrOf(e) \in Word /\ Wrap(e.prev.pc + ImmOf(e)) \in Word
<1>1. ImmOf(e) \in Word  BY StepFields, WrapIs DEF ImmOf
<1>2. e.rs1_value + ImmOf(e) \in Int /\ e.prev.pc + ImmOf(e) \in Int  BY <1>1, StepFields, WordIs
<1>3. QED  BY <1>1, <1>2, WrapIs DEF AddrOf

\* The kinds of instructions.
LEMMA OpsApart ==
  /\ AluOps \subseteq WritingOps /\ {"Lui", "Auipc", "Jal", "Jalr"} \subseteq WritingOps
  /\ LoadOps \subseteq WritingOps
  /\ \A op \in StoreOps \cup BranchOps \cup {"Fence", "Ecall"} : op \notin WritingOps
  /\ \A op \in WritingOps \cup BranchOps \cup {"Fence", "Ecall"} : op \notin StoreOps
  /\ \A op \in WritingOps \cup BranchOps \cup StoreOps \cup {"Fence"} : op # "Ecall"
  /\ \A op \in AluOps \cup BranchOps \cup {"Lui", "Auipc", "Jal", "Jalr", "Fence", "Ecall"} : op \notin LoadOps
<1>1. /\ AluOps \subseteq WritingOps /\ {"Lui", "Auipc", "Jal", "Jalr"} \subseteq WritingOps
      /\ LoadOps \subseteq WritingOps
  BY DEF WritingOps, LoadOps
<1>2. \A op \in WritingOps : op \notin StoreOps \cup BranchOps \cup {"Fence", "Ecall"}
  BY DEF WritingOps, StoreOps, BranchOps, AluOps, NarrowLoads, NarrowStores
<1>3. \A op \in BranchOps \cup {"Fence", "Ecall"} : op \notin StoreOps
  BY DEF StoreOps, BranchOps, NarrowStores
<1>4. \A op \in BranchOps \cup StoreOps \cup {"Fence"} : op # "Ecall"
  BY DEF StoreOps, BranchOps, NarrowStores
<1>5. \A op \in LoadOps : op \notin AluOps \cup BranchOps \cup {"Lui", "Auipc", "Jal", "Jalr", "Fence", "Ecall"}
  BY DEF LoadOps, NarrowLoads, BranchOps, AluOps
<1>6. QED  BY <1>1, <1>2, <1>3, <1>4, <1>5

\* What a step does to the machine.
StepDoes(e) ==
  /\ e.alu_result \in Word
  /\ e.next.regs = IF e.decoded.op \in WritingOps THEN WriteReg(e.prev.regs, e.decoded.rd, e.alu_result)
                   ELSE e.prev.regs
  /\ e.next.mem = IF e.decoded.op \in StoreOps
                  THEN WriteMem(e.prev.mem, BackingAddr(AddrOf(e)), e.alu_result) ELSE e.prev.mem
  /\ e.next.halted = (e.decoded.op = "Ecall")
  /\ e.next.pc \in Word
  /\ IsMachineState(e.next)

\* The state e leads to, field by field.
Reaches(e, pc, regs, mem, halted) ==
  e.next = [pc |-> pc, regs |-> regs, mem |-> mem, halted |-> halted]

RegsOf(e) == IF e.decoded.op \in WritingOps THEN WriteReg(e.prev.regs, e.decoded.rd, e.alu_result)
             ELSE e.prev.regs
MemOf(e)  == IF e.decoded.op \in StoreOps THEN WriteMem(e.prev.mem, BackingAddr(AddrOf(e)), e.alu_result)
             ELSE e.prev.mem

\* A step that reaches the state its instruction asks for does what a step does.
LEMMA ReachesDoes ==
  ASSUME NEW e, NEW n, IsStep(e, n), e.alu_result \in Word, NEW pc \in Word,
         Reaches(e, pc, RegsOf(e), MemOf(e), e.decoded.op = "Ecall")
  PROVE  StepDoes(e)
<1> DEFINE r == RegsOf(e)
           m == MemOf(e)
           h == (e.decoded.op = "Ecall")
           old == e.prev.regs
           rd == e.decoded.rd
           v == e.alu_result
<1>1. old \in [Regs -> Word] /\ old[0] = 0 /\ rd \in Regs /\ IsMemory(e.prev.mem)  BY StepFields
<1>2. r \in [Regs -> Word] /\ r[0] = 0
  <2>1. r = IF e.decoded.op \in WritingOps THEN WriteReg(old, rd, v) ELSE old  BY DEF RegsOf
  <2> HIDE DEF r, old, rd, v
  <2>2. v \in Word  BY DEF v
  <2>3. WriteReg(old, rd, v) \in [Regs -> Word] /\ WriteReg(old, rd, v)[0] = 0  BY <1>1, <2>2, RegsAfter
  <2>4. QED  BY <1>1, <2>1, <2>3
<1>3. IsMemory(m)
  <2> DEFINE a == BackingAddr(AddrOf(e))
  <2>1. a \in Word  BY StepWords, BackingIs
  <2>2. m = IF e.decoded.op \in StoreOps THEN WriteMem(e.prev.mem, a, v) ELSE e.prev.mem  BY DEF MemOf
  <2> HIDE DEF a, m, v
  <2>3. v \in Word  BY DEF v
  <2>4. IsMemory(WriteMem(e.prev.mem, a, v))  BY <1>1, <2>1, <2>3, WriteIs
  <2>5. QED  BY <1>1, <2>2, <2>4
<1>4. h \in BOOLEAN /\ pc \in Nat  BY WordIs
<1> HIDE DEF r, m, h
<1>5. e.next = [pc |-> pc, regs |-> r, mem |-> m, halted |-> h]  BY DEF Reaches, r, m, h
<1>6. IsMachineState(e.next)  BY <1>2, <1>3, <1>4, <1>5 DEF IsMachineState
<1>7. e.next.pc = pc /\ e.next.regs = r /\ e.next.mem = m /\ e.next.halted = h  BY <1>5
<1>8. QED  BY <1>6, <1>7 DEF StepDoes, r, m, h, RegsOf, MemOf

\* The updates of a machine state that instructions make, field by field.
Retires(e, pc) == e.next = [e.prev EXCEPT !.pc = pc, !.regs = WriteReg(@, e.decoded.rd, e.alu_result)]
Stores(e, pc)  == e.next = [e.prev EXCEPT !.pc = pc, !.mem = MemOf(e)]
Moves(e, pc)   == e.next = [e.prev EXCEPT !.pc = pc]
Halts(e, pc)   == e.next = [e.prev EXCEPT !.pc = pc, !.halted = TRUE]

StateFields == {"pc", "regs", "mem", "halted"}

\* Each of these updates, as the state it reaches.
LEMMA UpdatesAre ==
  ASSUME NEW e, NEW n, IsStep(e, n), NEW pc
  PROVE  /\ Retires(e, pc) => Reaches(e, pc, WriteReg(e.prev.regs, e.decoded.rd, e.alu_result), e.prev.mem, FALSE)
         /\ Stores(e, pc) => Reaches(e, pc, e.prev.regs, MemOf(e), FALSE)
         /\ Moves(e, pc) => Reaches(e, pc, e.prev.regs, e.prev.mem, FALSE)
         /\ Halts(e, pc) => Reaches(e, pc, e.prev.regs, e.prev.mem, TRUE)
<1> DEFINE p == e.prev
           a == p.pc
           b == p.regs
           c == p.mem
           w == WriteReg(b, e.decoded.rd, e.alu_result)
           m == MemOf(e)
<1>1. p = [pc |-> a, regs |-> b, mem |-> c, halted |-> FALSE]
  <2>1. p = [pc |-> a, regs |-> b, mem |-> c, halted |-> p.halted] /\ p.halted = FALSE
    BY DEF IsStep, IsMachineState
  <2> HIDE DEF p, a, b, c
  <2>2. QED  BY <2>1
<1>2. /\ Retires(e, pc) <=> e.next = [p EXCEPT !.pc = pc, !.regs = w]
      /\ Stores(e, pc) <=> e.next = [p EXCEPT !.pc = pc, !.mem = m]
      /\ Moves(e, pc) <=> e.next = [p EXCEPT !.pc = pc]
      /\ Halts(e, pc) <=> e.next = [p EXCEPT !.pc = pc, !.halted = TRUE]
  BY DEF Retires, Stores, Moves, Halts
<1> HIDE DEF w, m
<1>3. DOMAIN p = StateFields
  <2> HIDE DEF p, a, b, c
  <2>1. QED  BY <1>1 DEF StateFields
<1>4. ASSUME e.next = [p EXCEPT !.pc = pc, !.regs = w]
      PROVE  e.next = [pc |-> pc, regs |-> w, mem |-> c, halted |-> FALSE]
  <2> DEFINE q == e.next
  <2> HIDE DEF p, a, b, c, q
  <2>1. q = [p EXCEPT !.pc = pc, !.regs = w]  BY <1>4 DEF q
  <2>2. /\ q.pc = pc /\ q.regs = w /\ q.mem = p.mem /\ q.halted = p.halted
        /\ q = [f \in StateFields |-> q[f]]
    BY <1>3, <2>1 DEF StateFields
  <2>3. q.pc = pc /\ q.regs = w /\ q.mem = c /\ q.halted = FALSE  BY <1>1, <2>2
  <2>4. q = [pc |-> pc, regs |-> w, mem |-> c, halted |-> FALSE]  BY <2>2, <2>3 DEF StateFields
  <2>5. QED  BY <2>4 DEF q
<1>5. ASSUME e.next = [p EXCEPT !.pc = pc, !.mem = m]
      PROVE  e.next = [pc |-> pc, regs |-> b, mem |-> m, halted |-> FALSE]
  <2> DEFINE q == e.next
  <2> HIDE DEF p, a, b, c, q
  <2>1. q = [p EXCEPT !.pc = pc, !.mem = m]  BY <1>5 DEF q
  <2>2. /\ q.pc = pc /\ q.regs = p.regs /\ q.mem = m /\ q.halted = p.halted
        /\ q = [f \in StateFields |-> q[f]]
    BY <1>3, <2>1 DEF StateFields
  <2>3. q.pc = pc /\ q.regs = b /\ q.mem = m /\ q.halted = FALSE  BY <1>1, <2>2
  <2>4. q = [pc |-> pc, regs |-> b, mem |-> m, halted |-> FALSE]  BY <2>2, <2>3 DEF StateFields
  <2>5. QED  BY <2>4 DEF q
<1>6. ASSUME e.next = [p EXCEPT !.pc = pc]
      PROVE  e.next = [pc |-> pc, regs |-> b, mem |-> c, halted |-> FALSE]
  <2> DEFINE q == e.next
  <2> HIDE DEF p, a, b, c, q
  <2>1. q = [p EXCEPT !.pc = pc]  BY <1>6 DEF q
  <2>2. /\ q.pc = pc /\ q.regs = p.regs /\ q.mem = p.mem /\ q.halted = p.halted
        /\ q = [f \in StateFields |-> q[f]]
    BY <1>3, <2>1 DEF StateFields
  <2>3. q.pc = pc /\ q.regs = b /\ q.mem = c /\ q.halted = FALSE  BY <1>1, <2>2
  <2>4. q = [pc |-> pc, regs |-> b, mem |-> c, halted |-> FALSE]  BY <2>2, <2>3 DEF StateFields
  <2>5. QED  BY <2>4 DEF q
<1>7. ASSUME e.next = [p EXCEPT !.pc = pc, !.halted = TRUE]
      PROVE  e.next = [pc |-> pc, regs |-> b, mem |-> c, halted |-> TRUE]
  <2> DEFINE q == e.next
  <2> HIDE DEF p, a, b, c, q
  <2>1. q = [p EXCEPT !.pc = pc, !.halted = TRUE]  BY <1>7 DEF q
  <2>2. /\ q.pc = pc /\ q.regs = p.regs /\ q.mem = p.mem /\ q.halted = TRUE
        /\ q = [f \in StateFields |-> q[f]]
    BY <1>3, <2>1 DEF StateFields
  <2>3. q.pc = pc /\ q.regs = b /\ q.mem = c /\ q.halted = TRUE  BY <1>1, <2>2
  <2>4. q = [pc |-> pc, regs |-> b, mem |-> c, halted |-> TRUE]  BY <2>2, <2>3 DEF StateFields
  <2>5. QED  BY <2>4 DEF q
<1>8. /\ Retires(e, pc) => e.next = [pc |-> pc, regs |-> w, mem |-> c, halted |-> FALSE]
      /\ Stores(e, pc) => e.next = [pc |-> pc, regs |-> b, mem |-> m, halted |-> FALSE]
      /\ Moves(e, pc) => e.next = [pc |-> pc, regs |-> b, mem |-> c, halted |-> FALSE]
      /\ Halts(e, pc) => e.next = [pc |-> pc, regs |-> b, mem |-> c, halted |-> TRUE]
  <2> HIDE DEF p, a, b, c
  <2>1. QED  BY <1>2, <1>4, <1>5, <1>6, <1>7
<1>9. QED  BY <1>8 DEF Reaches, w, m

\* Every step leads from a state of the machine to another.
LEMMA StepKeeps ==
  ASSUME NEW e, NEW n, IsStep(e, n)
  PROVE  StepDoes(e)
<1> DEFINE p == e.prev
           op == e.decoded.op
           v == e.alu_result
           w == WriteReg(p.regs, e.decoded.rd, v)
           next == e.prev.pc + 4
           m == MemOf(e)
<1>1. /\ p = [pc |-> p.pc, regs |-> p.regs, mem |-> p.mem, halted |-> p.halted] /\ p.halted = FALSE
      /\ IsMemory(p.mem)
  BY DEF IsStep, IsMachineState
<1>2. /\ e.rs1_value \in Word /\ e.rs2_value \in Word /\ next \in Word /\ p.pc \in Word
      /\ ImmOf(e) \in Word /\ AddrOf(e) \in Word /\ Wrap(p.pc + ImmOf(e)) \in Word
  BY StepFields, StepWords
<1>3. ASSUME op \in WritingOps, v \in Word, NEW pc \in Word, Retires(e, pc)
      PROVE  StepDoes(e)
  <2>1. op \notin StoreOps /\ op # "Ecall"  BY <1>3, OpsApart
  <2>2. RegsOf(e) = w /\ MemOf(e) = p.mem /\ (op = "Ecall") = FALSE  BY <1>3, <2>1 DEF RegsOf, MemOf
  <2>3. Reaches(e, pc, w, p.mem, FALSE)  BY <1>3, UpdatesAre DEF w
  <2>4. Reaches(e, pc, RegsOf(e), MemOf(e), op = "Ecall")  BY <2>2, <2>3
  <2>5. QED  BY <1>3, <2>4, ReachesDoes
<1>4. ASSUME op \notin WritingOps, v \in Word, NEW pc \in Word,
             Reaches(e, pc, p.regs, m, op = "Ecall")
      PROVE  StepDoes(e)
  <2>1. RegsOf(e) = p.regs  BY <1>4 DEF RegsOf
  <2>2. Reaches(e, pc, RegsOf(e), MemOf(e), op = "Ecall")  BY <1>4, <2>1
  <2>3. QED  BY <1>4, <2>2, ReachesDoes
<1>5. CASE IsAluStep(e)
  <2>1. v \in Word /\ op \in WritingOps  BY <1>2, <1>5, AluIsWord, OpsApart DEF IsAluStep
  <2>2. Retires(e, next)  BY <1>5 DEF IsAluStep, Retired, Retires
  <2> HIDE DEF next
  <2>3. QED  BY <1>2, <1>3, <2>1, <2>2
<1>6. CASE IsUpperStep(e)
  <2>1. v \in Word /\ op \in WritingOps  BY <1>2, <1>6, OpsApart DEF IsUpperStep
  <2>2. Retires(e, next)  BY <1>6 DEF IsUpperStep, Retired, Retires
  <2> HIDE DEF next
  <2>3. QED  BY <1>2, <1>3, <2>1, <2>2
<1>7. CASE IsLoadStep(e)
  <2>1. v \in Word /\ op \in WritingOps
    <3> DEFINE word == ReadMem(p.mem, BackingAddr(AddrOf(e)))
    <3>1. word \in Word /\ AddrOf(e) \in Nat  BY <1>1, <1>2, ReadIsWord, WordIs
    <3> HIDE DEF word
    <3>2. op # "Ld" => op \in NarrowOps  BY <1>7 DEF IsLoadStep, LoadOps, NarrowOps
    <3>3. op # "Ld" => ExtractNarrow(word, AddrOf(e), op) \in Word  BY <3>1, <3>2, ExtractIsWord
    <3>4. v = IF op = "Ld" THEN word ELSE ExtractNarrow(word, AddrOf(e), op)
      BY <1>7 DEF IsLoadStep, word
    <3>5. op \in WritingOps  BY <1>7, OpsApart DEF IsLoadStep
    <3>6. QED  BY <3>1, <3>3, <3>4, <3>5
  <2>2. Retires(e, next)  BY <1>7 DEF IsLoadStep, Retired, Retires
  <2> HIDE DEF next
  <2>3. QED  BY <1>2, <1>3, <2>1, <2>2
<1>8. CASE IsStoreStep(e)
  <2> DEFINE addr == BackingAddr(AddrOf(e))
             word == ReadMem(p.mem, addr)
  <2>1. word \in Word /\ AddrOf(e) \in Nat  BY <1>1, <1>2, ReadIsWord, WordIs
  <2>2. v = IF op = "Sd" THEN e.rs2_value ELSE BlendNarrow(word, AddrOf(e), op, e.rs2_value)
    BY <1>8 DEF IsStoreStep
  <2>3. v \in Word
    <3> HIDE DEF word
    <3>1. op # "Sd" => op \in NarrowOps /\ Aligned(op, AddrOf(e))
      BY <1>8 DEF IsStoreStep, StoreOps, NarrowOps, AccessIsAligned
    <3>2. op # "Sd" => BlendNarrow(word, AddrOf(e), op, e.rs2_value) \in Word
      BY <1>2, <2>1, <3>1, BlendIsWord
    <3>3. QED  BY <1>2, <2>2, <3>2
  <2>4. op \in StoreOps /\ op \notin WritingOps /\ (op = "Ecall") = FALSE  BY <1>8, OpsApart DEF IsStoreStep
  <2>5. m = WriteMem(p.mem, addr, v)  BY <2>4 DEF MemOf
  <2>6. Stores(e, next)  BY <1>8, <2>5 DEF IsStoreStep, Stores
  <2> HIDE DEF next
  <2>7. Reaches(e, next, p.regs, m, op = "Ecall")
    <3>1. Reaches(e, next, p.regs, m, FALSE)  BY <2>6, UpdatesAre
    <3>2. QED  BY <2>4, <3>1
  <2>8. QED  BY <1>2, <1>4, <2>3, <2>4, <2>7
<1>9. CASE IsJumpStep(e)
  <2> DEFINE pc == IF op = "Jal" THEN Wrap(p.pc + ImmOf(e)) ELSE 2 * (AddrOf(e) \div 2)
  <2>1. pc \in Word
    <3>1. \A x \in Nat : 2 * (x \div 2) \in Nat /\ 2 * (x \div 2) <= x  OBVIOUS
    <3>2. 2 * (AddrOf(e) \div 2) \in Word  BY <1>2, <3>1, WordIs
    <3>3. QED  BY <1>2, <3>2
  <2>2. v \in Word /\ op \in WritingOps  BY <1>2, <1>9, OpsApart DEF IsJumpStep
  <2>3. Retires(e, pc)  BY <1>9 DEF IsJumpStep, Retires
  <2> HIDE DEF pc
  <2>4. QED  BY <1>3, <2>1, <2>2, <2>3
<1>10. CASE IsBranchStep(e)
  <2> DEFINE pc == IF TakenBy(e) THEN Wrap(p.pc + ImmOf(e)) ELSE next
  <2>1. pc \in Word /\ v \in Word  BY <1>2, <1>10, WordIs DEF IsBranchStep, Bool
  <2>2. op \notin WritingOps /\ m = p.mem /\ (op = "Ecall") = FALSE  BY <1>10, OpsApart DEF IsBranchStep, MemOf
  <2>3. Moves(e, pc)  BY <1>10 DEF IsBranchStep, Moves
  <2> HIDE DEF pc
  <2>4. Reaches(e, pc, p.regs, p.mem, FALSE)  BY <2>3, UpdatesAre
  <2>5. Reaches(e, pc, p.regs, m, op = "Ecall")  BY <2>2, <2>4
  <2>6. QED  BY <1>4, <2>1, <2>2, <2>5
<1>11. CASE IsFenceStep(e)
  <2>1. v \in Word  BY <1>11, WordIs DEF IsFenceStep
  <2>2. op \notin WritingOps /\ m = p.mem /\ (op = "Ecall") = FALSE  BY <1>11, OpsApart DEF IsFenceStep, MemOf
  <2>3. Moves(e, next)  BY <1>11 DEF IsFenceStep, Moves
  <2> HIDE DEF next
  <2>4. Reaches(e, next, p.regs, p.mem, FALSE)  BY <2>3, UpdatesAre
  <2>5. Reaches(e, next, p.regs, m, op = "Ecall")  BY <2>2, <2>4
  <2>6. QED  BY <1>2, <1>4, <2>1, <2>2, <2>5
<1>12. CASE IsEcallStep(e)
  <2>1. v \in Word  BY <1>12, WordIs DEF IsEcallStep
  <2>2. op \notin WritingOps /\ m = p.mem /\ (op = "Ecall") = TRUE  BY <1>12, OpsApart DEF IsEcallStep, MemOf
  <2>3. Halts(e, next)  BY <1>12 DEF IsEcallStep, Halts
  <2> HIDE DEF next
  <2>4. Reaches(e, next, p.regs, p.mem, TRUE)  BY <2>3, UpdatesAre
  <2>5. Reaches(e, next, p.regs, m, op = "Ecall")  BY <2>2, <2>4
  <2>6. QED  BY <1>2, <1>4, <2>1, <2>2, <2>5
<1>13. QED  BY <1>5, <1>6, <1>7, <1>8, <1>9, <1>10, <1>11, <1>12 DEF IsStep, IsOutcome

-----------------------------------------------------------------------------
(* The machine's invariant.                                                *)

\* The step is of the instruction in program at its pc.
FetchedBy(e) ==
  LET k == (e.prev.pc - StartPc) \div 4 + 1
  IN  /\ e.prev.pc >= StartPc /\ (e.prev.pc - StartPc) % 4 = 0
      /\ k <= Len(program) /\ e.decoded = program[k]

ProgramInv == program \in Seq(Instructions) /\ StartPc + 4 * Len(program) < WordSize

StepInv(k) == /\ IsStep(executed[k], k - 1) /\ FetchedBy(executed[k]) /\ k - 1 < MaxSteps
              /\ k < Len(executed) => executed[k + 1].prev = executed[k].next

MachineInv ==
  /\ ProgramInv
  /\ IsMachineState(state)
  /\ IsSeq(executed)
  /\ status \in {"running", "halted", "failed"}
  /\ \A k \in 1..Len(executed) : StepInv(k)
  /\ IF Len(executed) = 0 THEN state.pc = StartPc /\ ~state.halted /\ status # "halted"
     ELSE state = executed[Len(executed)].next /\ executed[1].prev.pc = StartPc
  /\ status = "running" => ~state.halted
  /\ status = "halted" => state.halted

\* The fields of a step's record.
LEMMA RecordIs ==
  ASSUME NEW n, NEW i, NEW prev, NEW next, NEW result, NEW addr, NEW before, NEW after,
         NEW e, e = StepRecord(n, i, prev, next, result, addr, before, after)
  PROVE  /\ e = StepRecord(n, e.decoded, e.prev, e.next, e.alu_result, e.effective_addr,
                           e.memory_before, e.memory_after)
         /\ e.step_index = n /\ e.decoded = i /\ e.prev = prev /\ e.next = next
         /\ e.rs1_value = prev.regs[i.rs1] /\ e.rs2_value = prev.regs[i.rs2] /\ e.rd_before = prev.regs[i.rd]
         /\ e.alu_result = result /\ e.effective_addr = addr /\ e.memory_before = before
         /\ e.memory_after = after
<1>1. /\ e.step_index = n /\ e.decoded = i /\ e.prev = prev /\ e.next = next
      /\ e.rs1_value = prev.regs[i.rs1] /\ e.rs2_value = prev.regs[i.rs2] /\ e.rd_before = prev.regs[i.rd]
      /\ e.alu_result = result /\ e.effective_addr = addr /\ e.memory_before = before
      /\ e.memory_after = after
  BY DEF StepRecord
<1>2. QED  BY <1>1

\* The step that an action takes.
Takes(e, next, result, addr, before, after) ==
  e = StepRecord(Len(executed), Current, state, next, result, addr, before, after)

\* What the operators of an action are, in terms of the step it takes.
LEMMA TakesIs ==
  ASSUME NEW e, NEW next, NEW result, NEW addr, NEW before, NEW after,
         Takes(e, next, result, addr, before, after)
  PROVE  /\ e.decoded = Current /\ e.prev = state /\ e.next = next /\ e.alu_result = result
         /\ e.decoded.op = Op /\ ImmOf(e) = Imm /\ e.rs1_value = Rs1Value /\ e.rs2_value = Rs2Value
         /\ AddrOf(e) = Address /\ Wrap(e.prev.pc + ImmOf(e)) = BranchTarget
         /\ 2 * (AddrOf(e) \div 2) = JalrTarget
         /\ e.decoded.op \in BranchOps => (TakenBy(e) <=> BranchTaken)
         /\ Accesses(e, addr, before, after)
<1>1. /\ e.decoded = Current /\ e.prev = state /\ e.next = next /\ e.alu_result = result
      /\ e.rs1_value = state.regs[Current.rs1] /\ e.rs2_value = state.regs[Current.rs2]
      /\ e.effective_addr = addr /\ e.memory_before = before /\ e.memory_after = after
  BY RecordIs DEF Takes
<1>2. /\ e.decoded.op = Op /\ ImmOf(e) = Imm /\ e.rs1_value = Rs1Value /\ e.rs2_value = Rs2Value
      /\ AddrOf(e) = Address
  BY <1>1 DEF Op, ImmOf, Imm, Rs1Value, Rs2Value, AddrOf, Address
<1>3. e.decoded.op \in BranchOps => (TakenBy(e) <=> BranchTaken)
  BY <1>2 DEF TakenBy, BranchTaken
<1>4. Wrap(e.prev.pc + ImmOf(e)) = BranchTarget /\ 2 * (AddrOf(e) \div 2) = JalrTarget
  BY <1>1, <1>2 DEF BranchTarget, JalrTarget
<1>5. QED  BY <1>1, <1>2, <1>3, <1>4 DEF Accesses

\* A step that an action takes keeps the machine's invariant.
LEMMA TakesStep ==
  ASSUME MachineInv, NEW ops, ops \subseteq Opcodes, Executes(ops), NEW next, NEW result, NEW addr, NEW before, NEW after,
         Step(next, result, addr, before, after),
         NEW e, Takes(e, next, result, addr, before, after), IsOutcome(e)
  PROVE  MachineInv'
<1> DEFINE n == Len(executed)
           s == executed
<1>1. /\ n \in Nat /\ IsSeq(s) /\ n < MaxSteps /\ status = "running" /\ ~state.halted /\ ProgramInv
      /\ Fetches /\ IsMachineState(state) /\ \A k \in 1..n : StepInv(k)
  BY IsSeqLen DEF MachineInv, Executes, Faults
<1>2. e.decoded = Current /\ e.prev = state /\ e.next = next  BY TakesIs
<1>3. executed' = Append(s, e) /\ state' = next /\ status' = (IF next.halted THEN "halted" ELSE "running")
      /\ program' = program
  BY DEF Step, Takes, StepRecord, Rs1Value, Rs2Value
<1>4. FetchedBy(e)  BY <1>1, <1>2 DEF FetchedBy, Fetches, FetchIndex, Current
<1>5. IsStep(e, n)
  <2>1. e = StepRecord(n, e.decoded, e.prev, e.next, e.alu_result, e.effective_addr, e.memory_before, e.memory_after)
    BY RecordIs DEF Takes
  <2>2. FetchIndex \in 1..Len(program) /\ state.pc + 4 < WordSize /\ Current \in Instructions
    <3>1. /\ state.pc \in Nat /\ state.pc >= StartPc /\ StartPc \in Nat
          /\ (state.pc - StartPc) \div 4 + 1 <= Len(program) /\ (state.pc - StartPc) % 4 = 0
          /\ Len(program) \in Nat /\ StartPc + 4 * Len(program) < WordSize /\ WordSize \in Nat
      BY <1>1, ScenariosAssumption, LenProperties, WordIs DEF Fetches, FetchIndex, IsMachineState, ProgramInv
    <3>2. state.pc + 4 < WordSize /\ FetchIndex \in 1..Len(program)
      <4> DEFINE x == state.pc - StartPc
                 q == x \div 4
      <4>1. \A a, b \in Nat : a >= b => a - b \in Int /\ a - b >= 0 /\ a = b + (a - b)  OBVIOUS
      <4>2. x \in Int /\ x >= 0 /\ state.pc = StartPc + x /\ x % 4 = 0
        <5>1. state.pc \in Nat /\ StartPc \in Nat /\ state.pc >= StartPc /\ x % 4 = 0  BY <3>1
        <5>2. QED  BY <4>1, <5>1
      <4>3. q \in Int /\ x = 4 * q
        <5> HIDE DEF x
        <5>1. QED  BY <4>2
      <4>4. q + 1 <= Len(program) /\ FetchIndex = q + 1  BY <3>1 DEF FetchIndex
      <4> HIDE DEF x, q
      <4>5. QED  BY <3>1, <4>2, <4>3, <4>4
    <3>3. program[FetchIndex] \in Instructions  BY <1>1, <3>2, ElementOfSeq DEF ProgramInv
    <3>4. QED  BY <3>2, <3>3 DEF Current
  <2>3. QED  BY <1>1, <1>2, <2>1, <2>2 DEF IsStep
<1>6. StepDoes(e)  BY <1>5, StepKeeps
<1>7. /\ IsSeq(executed') /\ Len(executed') = n + 1
      /\ \A k \in 1..n : executed'[k] = s[k]
      /\ executed'[n + 1] = e
  BY <1>1, <1>3, AppendSeq
<1>8. ASSUME NEW k \in 1..Len(executed') PROVE StepInv(k)'
  <2>1. k \in 1..(n + 1) /\ k - 1 = k - 1  BY <1>7
  <2>2. CASE k = n + 1
    <3>1. executed'[k] = e /\ k - 1 = n /\ ~(k < Len(executed'))  BY <1>1, <1>7, <2>2
    <3>2. IsStep(executed'[k], k - 1)  BY <1>5, <3>1
    <3>3. FetchedBy(executed[k])'  BY <1>3, <1>4, <3>1 DEF FetchedBy
    <3>4. QED  BY <1>1, <3>1, <3>2, <3>3 DEF StepInv
  <2>3. CASE k \in 1..n
    <3>1. StepInv(k) /\ executed'[k] = s[k]  BY <1>1, <1>7, <2>3
    <3>2. FetchedBy(executed[k])'  BY <1>3, <3>1 DEF FetchedBy, StepInv
    <3>3. executed'[k + 1].prev = executed'[k].next
      <4>1. CASE k < n
        <5>1. executed'[k + 1] = s[k + 1]  BY <1>1, <1>7, <2>3, <4>1
        <5>2. QED  BY <3>1, <4>1, <5>1 DEF StepInv
      <4>2. CASE k = n
        <5>1. state = s[n].next  BY <1>1, <2>3, <4>2 DEF MachineInv
        <5>2. QED  BY <1>2, <1>7, <3>1, <4>2, <5>1
      <4>3. QED  BY <1>1, <2>3, <4>1, <4>2
    <3>4. QED  BY <3>1, <3>2, <3>3 DEF StepInv
  <2>4. QED  BY <1>1, <2>1, <2>2, <2>3
<1>9. IsMachineState(state') /\ next.halted \in BOOLEAN  BY <1>2, <1>3, <1>6 DEF StepDoes, IsMachineState
<1>10. Len(executed') # 0 /\ state' = executed'[Len(executed')].next  BY <1>1, <1>2, <1>3, <1>7
<1>11. executed'[1].prev.pc = StartPc
  <2>1. CASE n = 0  BY <1>2, <1>7, <2>1 DEF MachineInv
  <2>2. CASE n # 0  BY <1>1, <1>7, <2>2 DEF MachineInv
  <2>3. QED  BY <2>1, <2>2
<1>12. ProgramInv'  BY <1>1, <1>3 DEF ProgramInv
<1>13. QED  BY <1>3, <1>7, <1>8, <1>9, <1>10, <1>11, <1>12 DEF MachineInv

\* The machine's steps keep its invariant.
LEMMA MachineKeeps == MachineInv /\ [MNext]_mvars => MachineInv'
<1> SUFFICES ASSUME MachineInv, [MNext]_mvars PROVE MachineInv'  OBVIOUS
<1> DEFINE Stepped(ops, next, result, addr, before, after) ==
             /\ ops \subseteq Opcodes /\ Executes(ops) /\ Step(next, result, addr, before, after)
             /\ \A e : Takes(e, next, result, addr, before, after) => IsOutcome(e)
<1>1. ASSUME NEW ops, NEW next, NEW result, NEW addr, NEW before, NEW after,
             Stepped(ops, next, result, addr, before, after)
      PROVE  MachineInv'
  <2>1. PICK e : Takes(e, next, result, addr, before, after)  BY DEF Takes
  <2>2. QED  BY <1>1, <2>1, TakesStep
<1>2. CASE ExecuteAlu
  <2> DEFINE value == Alu(Op, Rs1Value, IF Op \in ImmediateOps THEN Imm ELSE Rs2Value)
  <2>1. AluOps \subseteq Opcodes /\ Executes(AluOps) /\ Op \in AluOps
    BY <1>2 DEF Opcodes, ExecuteAlu, Executes
  <2>2. Step(Retire(value), value, None, None, None)  BY <1>2 DEF ExecuteAlu, Advance
  <2> DEFINE next == Retire(value)
  <2>3. value = Alu(Op, Rs1Value, IF Op \in ImmediateOps THEN Imm ELSE Rs2Value)
        /\ next = Retired(state, Current.rd, value)
    BY DEF Retired, Retire
  <2> HIDE DEF value, next
  <2>4. ASSUME NEW e, Takes(e, next, value, None, None, None) PROVE IsOutcome(e)
    <3>1. IsAluStep(e)  BY <2>1, <2>3, <2>4, TakesIs DEF IsAluStep
    <3>2. QED  BY <3>1 DEF IsOutcome
  <2>5. Step(next, value, None, None, None)  BY <2>2 DEF next
  <2>6. Stepped(AluOps, next, value, None, None, None)  BY <2>1, <2>4, <2>5
  <2>7. QED  BY <1>1, <2>6
<1>3. CASE ExecuteUpper
  <2> DEFINE value == IF Op = "Lui" THEN Imm ELSE Wrap(state.pc + Imm)
  <2>1. {"Lui", "Auipc"} \subseteq Opcodes /\ Executes({"Lui", "Auipc"}) /\ Op \in {"Lui", "Auipc"}
    BY <1>3 DEF Opcodes, ExecuteUpper, Executes
  <2>2. Step(Retire(value), value, None, None, None)  BY <1>3 DEF ExecuteUpper, Advance
  <2> DEFINE next == Retire(value)
  <2>3. value = (IF Op = "Lui" THEN Imm ELSE Wrap(state.pc + Imm)) /\ next = Retired(state, Current.rd, value)
    BY DEF Retired, Retire
  <2> HIDE DEF value, next
  <2>4. ASSUME NEW e, Takes(e, next, value, None, None, None) PROVE IsOutcome(e)
    <3>1. IsUpperStep(e)  BY <2>1, <2>3, <2>4, TakesIs DEF IsUpperStep
    <3>2. QED  BY <3>1 DEF IsOutcome
  <2>5. Step(next, value, None, None, None)  BY <2>2 DEF next
  <2>6. Stepped({"Lui", "Auipc"}, next, value, None, None, None)  BY <2>1, <2>4, <2>5
  <2>7. QED  BY <1>1, <2>6
<1>4. CASE ExecuteLoad
  <2> DEFINE word == ReadMem(state.mem, BackingAddr(Address))
             value == IF Op = "Ld" THEN word ELSE ExtractNarrow(word, Address, Op)
             ops == NarrowLoads \cup {"Ld"}
  <2>1. ops \subseteq Opcodes /\ Executes(ops) /\ Op \in ops
    BY <1>4 DEF Opcodes, ExecuteLoad, Executes, NarrowOps
  <2>2. Step(Retire(value), value, Address, word, word)  BY <1>4 DEF ExecuteLoad
  <2>3. Op \in LoadOps /\ (IF Op \in NarrowOps THEN Aligned(Op, Address) ELSE Address % 8 = 0)
    BY <1>4, <2>1 DEF ExecuteLoad, Executes, Faults, LoadOps, NarrowOps
  <2> DEFINE next == Retire(value)
  <2>4. /\ word = ReadMem(state.mem, BackingAddr(Address)) /\ next = Retired(state, Current.rd, value)
        /\ value = IF Op = "Ld" THEN word ELSE ExtractNarrow(word, Address, Op)
    BY DEF Retired, Retire
  <2> HIDE DEF value, word, ops, next
  <2>5. ASSUME NEW e, Takes(e, next, value, Address, word, word) PROVE IsOutcome(e)
    <3>1. IsLoadStep(e)  BY <2>3, <2>4, <2>5, TakesIs DEF IsLoadStep, AccessIsAligned
    <3>2. QED  BY <3>1 DEF IsOutcome
  <2>6. Step(next, value, Address, word, word)  BY <2>2 DEF next
  <2>7. Stepped(ops, next, value, Address, word, word)  BY <2>1, <2>5, <2>6
  <2>8. QED  BY <1>1, <2>7
<1>5. CASE ExecuteStore
  <2> DEFINE addr == BackingAddr(Address)
             word == ReadMem(state.mem, addr)
             after == IF Op = "Sd" THEN Rs2Value ELSE BlendNarrow(word, Address, Op, Rs2Value)
             next == [state EXCEPT !.pc = @ + 4, !.mem = WriteMem(@, addr, after)]
             ops == NarrowStores \cup {"Sd"}
  <2>1. ops \subseteq Opcodes /\ Executes(ops) /\ Op \in ops
    BY <1>5 DEF Opcodes, ExecuteStore, Executes, NarrowOps
  <2>2. Step(next, after, Address, word, after)  BY <1>5 DEF ExecuteStore
  <2>3. Op \in StoreOps /\ (IF Op \in NarrowOps THEN Aligned(Op, Address) ELSE Address % 8 = 0)
    BY <1>5, <2>1 DEF ExecuteStore, Executes, Faults, StoreOps, NarrowOps
  <2>4. /\ word = ReadMem(state.mem, BackingAddr(Address))
        /\ after = IF Op = "Sd" THEN Rs2Value ELSE BlendNarrow(word, Address, Op, Rs2Value)
        /\ next = [state EXCEPT !.pc = @ + 4, !.mem = WriteMem(@, BackingAddr(Address), after)]
    OBVIOUS
  <2> HIDE DEF next, after, word, ops
  <2>5. ASSUME NEW e, Takes(e, next, after, Address, word, after) PROVE IsOutcome(e)
    <3>1. /\ e.decoded.op = Op /\ e.prev = state /\ e.next = next /\ e.alu_result = after /\ AddrOf(e) = Address
          /\ e.rs2_value = Rs2Value /\ Accesses(e, Address, word, after)
      BY <2>5, TakesIs
    <3>2. IsStoreStep(e)  BY <2>3, <2>4, <3>1 DEF IsStoreStep, AccessIsAligned
    <3>3. QED  BY <3>2 DEF IsOutcome
  <2>6. Stepped(ops, next, after, Address, word, after)  BY <2>1, <2>2, <2>5
  <2>7. QED  BY <1>1, <2>6
<1>6. CASE ExecuteJump
  <2> DEFINE link == state.pc + 4
             next == [state EXCEPT !.pc = IF Op = "Jal" THEN BranchTarget ELSE JalrTarget,
                                   !.regs = WriteReg(@, Current.rd, link)]
             ops == {"Jal", "Jalr"}
  <2>1. ops \subseteq Opcodes /\ Executes(ops) /\ Op \in ops
    BY <1>6 DEF Opcodes, ExecuteJump, Executes
  <2>2. Step(next, link, None, None, None)  BY <1>6 DEF ExecuteJump, Advance
  <2>3. Op = "Jalr" => JalrTarget % 4 = 0  BY <1>6 DEF ExecuteJump, Executes, Faults
  <2>4. /\ link = state.pc + 4
        /\ next = [state EXCEPT !.pc = IF Op = "Jal" THEN BranchTarget ELSE JalrTarget,
                                !.regs = WriteReg(@, Current.rd, link)]
    OBVIOUS
  <2> HIDE DEF next, link
  <2>5. ASSUME NEW e, Takes(e, next, link, None, None, None) PROVE IsOutcome(e)
    <3>1. IsJumpStep(e)  BY <2>1, <2>3, <2>4, <2>5, TakesIs DEF IsJumpStep
    <3>2. QED  BY <3>1 DEF IsOutcome
  <2> HIDE DEF ops
  <2>6. Stepped(ops, next, link, None, None, None)  BY <2>1, <2>2, <2>5
  <2>7. QED  BY <1>1, <2>6
<1>7. CASE ExecuteBranch
  <2> DEFINE value == Bool(BranchTaken)
             next == [state EXCEPT !.pc = IF BranchTaken THEN BranchTarget ELSE @ + 4]
  <2>1. BranchOps \subseteq Opcodes /\ Executes(BranchOps) /\ Op \in BranchOps
    BY <1>7 DEF Opcodes, ExecuteBranch, Executes
  <2>2. Step(next, value, None, None, None)  BY <1>7 DEF ExecuteBranch, Advance
  <2>3. BranchTaken => BranchTarget % 4 = 0  BY <1>7 DEF ExecuteBranch, Executes, Faults
  <2>4. /\ value = Bool(BranchTaken)
        /\ next = [state EXCEPT !.pc = IF BranchTaken THEN BranchTarget ELSE @ + 4]
    OBVIOUS
  <2> HIDE DEF next, value
  <2>5. ASSUME NEW e, Takes(e, next, value, None, None, None) PROVE IsOutcome(e)
    <3>1. /\ TakenBy(e) <=> BranchTaken
          /\ e.decoded.op \in BranchOps /\ Accesses(e, None, None, None)
          /\ Wrap(e.prev.pc + ImmOf(e)) = BranchTarget /\ e.next = next /\ e.alu_result = value /\ e.prev = state
      BY <2>1, <2>5, TakesIs
    <3>2. IsBranchStep(e)
      <4>1. e.alu_result = Bool(TakenBy(e))  BY <2>4, <3>1 DEF Bool
      <4>2. e.next = [e.prev EXCEPT !.pc = IF TakenBy(e) THEN Wrap(e.prev.pc + ImmOf(e)) ELSE @ + 4]
        <5>1. CASE BranchTaken  BY <2>4, <3>1, <5>1
        <5>2. CASE ~BranchTaken  BY <2>4, <3>1, <5>2
        <5>3. QED  BY <5>1, <5>2
      <4>3. QED  BY <2>3, <3>1, <4>1, <4>2 DEF IsBranchStep
    <3>3. QED  BY <3>2 DEF IsOutcome
  <2>6. Stepped(BranchOps, next, value, None, None, None)  BY <2>1, <2>2, <2>5
  <2>7. QED  BY <1>1, <2>6
<1>8. CASE ExecuteFence
  <2> DEFINE next == [state EXCEPT !.pc = @ + 4]
  <2>1. {"Fence"} \subseteq Opcodes /\ Executes({"Fence"}) /\ Op = "Fence"
    BY <1>8 DEF Opcodes, ExecuteFence, Executes
  <2>2. Step(next, 0, None, None, None)  BY <1>8 DEF ExecuteFence, Advance
  <2>3. next = [state EXCEPT !.pc = @ + 4]  OBVIOUS
  <2> HIDE DEF next
  <2>4. ASSUME NEW e, Takes(e, next, 0, None, None, None) PROVE IsOutcome(e)
    <3>1. IsFenceStep(e)  BY <2>1, <2>3, <2>4, TakesIs DEF IsFenceStep
    <3>2. QED  BY <3>1 DEF IsOutcome
  <2>5. Stepped({"Fence"}, next, 0, None, None, None)  BY <2>1, <2>2, <2>4
  <2>6. QED  BY <1>1, <2>5
<1>9. CASE ExecuteEcall
  <2> DEFINE next == [state EXCEPT !.pc = @ + 4, !.halted = TRUE]
  <2>1. {"Ecall"} \subseteq Opcodes /\ Executes({"Ecall"}) /\ Op = "Ecall"
    BY <1>9 DEF Opcodes, ExecuteEcall, Executes
  <2>2. Step(next, 0, None, None, None)  BY <1>9 DEF ExecuteEcall, Advance
  <2>3. next = [state EXCEPT !.pc = @ + 4, !.halted = TRUE]  OBVIOUS
  <2> HIDE DEF next
  <2>4. ASSUME NEW e, Takes(e, next, 0, None, None, None) PROVE IsOutcome(e)
    <3>1. IsEcallStep(e)  BY <2>1, <2>3, <2>4, TakesIs DEF IsEcallStep
    <3>2. QED  BY <3>1 DEF IsOutcome
  <2>5. Stepped({"Ecall"}, next, 0, None, None, None)  BY <2>1, <2>2, <2>4
  <2>6. QED  BY <1>1, <2>5
<1>10. CASE Fail
  BY <1>10 DEF Fail, MachineInv, ProgramInv, StepInv, FetchedBy
<1>11. CASE UNCHANGED mvars
  BY <1>11 DEF mvars, MachineInv, ProgramInv, StepInv, FetchedBy
<1>12. QED
  BY <1>2, <1>3, <1>4, <1>5, <1>6, <1>7, <1>8, <1>9, <1>10, <1>11 DEF MNext

\* It holds at first.
LEMMA MachineStarts == MInit => MachineInv
<1> SUFFICES ASSUME MInit PROVE MachineInv  OBVIOUS
<1>1. PICK scenario \in Scenarios :
        /\ program = scenario.program
        /\ state = [pc |-> StartPc, regs |-> [scenario.regs EXCEPT ![0] = 0],
                    mem |-> scenario.mem, halted |-> FALSE]
  BY DEF MInit
<1>2. /\ StartPc \in Nat /\ scenario.program \in Seq(Instructions)
      /\ StartPc + 4 * Len(scenario.program) < WordSize
      /\ scenario.regs \in [Regs -> Word] /\ IsMemory(scenario.mem)
  BY ScenariosAssumption
<1>3. [scenario.regs EXCEPT ![0] = 0] \in [Regs -> Word] /\ [scenario.regs EXCEPT ![0] = 0][0] = 0
  BY <1>2, WordIs, RegsAssumption
<1>4. IsMachineState(state) /\ state.pc = StartPc /\ state.halted = FALSE
  <2> DEFINE r == [scenario.regs EXCEPT ![0] = 0]
             m == scenario.mem
  <2>1. state = [pc |-> StartPc, regs |-> r, mem |-> m, halted |-> FALSE]  BY <1>1
  <2>2. r \in [Regs -> Word] /\ r[0] = 0 /\ IsMemory(m)  BY <1>2, <1>3
  <2> HIDE DEF r, m
  <2>3. state.pc = StartPc /\ state.regs = r /\ state.mem = m /\ state.halted = FALSE  BY <2>1
  <2>4. QED  BY <1>2, <2>1, <2>2, <2>3 DEF IsMachineState
<1>5. ProgramInv  BY <1>1, <1>2 DEF ProgramInv
<1>6. IsSeq(executed) /\ Len(executed) = 0 /\ status = "running"  BY EmptyIsSeq DEF MInit
<1>7. QED  BY <1>4, <1>5, <1>6 DEF MachineInv

-----------------------------------------------------------------------------
(* The rows of the trace, step by step.                                    *)

LowerNext(d, acc, step) == acc \o LowerStep(step, Len(acc))

Lowering == INSTANCE FoldFacts WITH Op <- LowerNext

\* The rows of the k-th step follow the first off[k - 1] rows.
IsPiece(off, ex, lowered, k) ==
  /\ off[k - 1] \in Nat /\ off[k] = off[k - 1] + Len(LowerStep(ex[k], off[k - 1]))
  /\ \A j \in 1..Len(LowerStep(ex[k], off[k - 1])) :
        lowered[off[k - 1] + j] = LowerStep(ex[k], off[k - 1])[j]

IsLayout(off, ex, lowered) ==
  /\ off[0] = 0 /\ off[Len(ex)] = Len(lowered)
  /\ \A k \in 1..Len(ex) : IsPiece(off, ex, lowered, k)

\* A trace consists of the rows of the steps, one step after another.
LEMMA LayoutExists ==
  ASSUME NEW ex, IsSeq(ex),
         \A k \in 1..Len(ex) : \A i \in Nat : IsSeq(LowerStep(ex[k], i))
  PROVE  /\ IsSeq(LowerProgram(ex))
         /\ \E off : IsLayout(off, ex, LowerProgram(ex))
<1> DEFINE n == Len(ex)
<1>1. LowerProgram(ex) = Lowering!Fold(0, <<>>, ex)
  BY DEF LowerProgram, Lowering!Fold, LowerNext, FoldLeft, MapThenFoldSet, Lowering!FoldLeft,
         Lowering!MapThenFoldSet, Max, Lowering!Max
<1>2. Lowering!IsSeq(ex) /\ n \in Nat  BY IsSeqLen DEF IsSeq, Lowering!IsSeq
<1>3. PICK g : Lowering!IsRun(0, g, <<>>, ex, n) /\ Lowering!Fold(0, <<>>, ex) = g[n]
  BY <1>2, Lowering!FoldIsRun
<1>4. g[0] = <<>> /\ \A k \in 1..n : g[k] = g[k - 1] \o LowerStep(ex[k], Len(g[k - 1]))
  BY <1>3 DEF Lowering!IsRun, LowerNext
<1> DEFINE off == [k \in 0..n |-> Len(g[k])]
           S == {k \in 0..n : IsSeq(g[k]) /\ \A i \in 1..k : IsPiece(off, ex, g[k], i)}
           P(k) == LowerStep(ex[k], off[k - 1])
<1>5. \A k \in 0..n : off[k] = Len(g[k])  OBVIOUS
<1> HIDE DEF off
<1>6. 0 \in S  BY <1>2, <1>4, EmptyIsSeq
<1>7. ASSUME NEW k \in 0..n, k \in S /\ k < n PROVE k + 1 \in S
  <2>1. k + 1 \in 1..n /\ k + 1 \in 0..n /\ (k + 1) - 1 = k  BY <1>2, <1>7
  <2>2. IsSeq(g[k]) /\ off[k] = Len(g[k]) /\ off[k + 1] = Len(g[k + 1]) /\ \A i \in 1..k : IsPiece(off, ex, g[k], i)
    BY <1>5, <1>7, <2>1
  <2>3. off[k] \in Nat  BY <2>2, IsSeqLen
  <2> DEFINE p == LowerStep(ex[k + 1], off[k])
  <2>4. g[k + 1] = g[k] \o p  BY <1>4, <2>1, <2>2
  <2>5. IsSeq(p)  BY <2>1, <2>3
  <2> HIDE DEF p
  <2>6. /\ IsSeq(g[k + 1]) /\ Len(g[k + 1]) = Len(g[k]) + Len(p)
        /\ \A i \in 1..Len(g[k]) : g[k + 1][i] = g[k][i]
        /\ \A i \in 1..Len(p) : g[k + 1][Len(g[k]) + i] = p[i]
    BY <2>2, <2>4, <2>5, ConcatSeq
  <2>7. IsPiece(off, ex, g[k + 1], k + 1)  BY <2>1, <2>2, <2>3, <2>6 DEF IsPiece, p
  <2>8. ASSUME NEW i \in 1..k PROVE IsPiece(off, ex, g[k + 1], i)
    <3>1. IsPiece(off, ex, g[k], i)  BY <2>2
    <3>2. off[i] <= off[k] /\ off[i] \in Nat
      <4> DEFINE T == {m \in 0..k : i <= m => off[i] <= off[m] /\ off[m] \in Nat /\ off[i] \in Nat}
      <4>1. 0 \in T  BY <1>7
      <4>2. ASSUME NEW m \in 0..k, m \in T /\ m < k PROVE m + 1 \in T
        <5>1. IsPiece(off, ex, g[k], m + 1) /\ (m + 1) - 1 = m /\ m + 1 \in 0..k  BY <1>7, <2>2, <4>2
        <5>2. m + 1 \in 1..n  BY <2>1, <4>2
        <5>3. IsSeq(LowerStep(ex[m + 1], off[m])) /\ off[m] \in Nat  BY <5>1, <5>2 DEF IsPiece
        <5>4. Len(LowerStep(ex[m + 1], off[m])) \in Nat  BY <5>3, IsSeqLen
        <5>5. off[m] <= off[m + 1] /\ off[m + 1] \in Nat  BY <5>1, <5>3, <5>4 DEF IsPiece
        <5>6. QED  BY <4>2, <5>1, <5>3, <5>5
      <4> HIDE DEF T
      <4>3. k \in Nat  OBVIOUS
      <4>4. \A m \in 0..k : m \in T  BY <4>1, <4>2, <4>3, InductionUpTo
      <4>5. k \in T  BY <4>3, <4>4
      <4>6. QED  BY <4>5 DEF T
    <3> DEFINE q == LowerStep(ex[i], off[i - 1])
    <3>3. off[i - 1] \in Nat /\ off[i] = off[i - 1] + Len(q) /\ \A j \in 1..Len(q) : g[k][off[i - 1] + j] = q[j]
      BY <3>1 DEF IsPiece
    <3>4. Len(q) \in Nat  BY <2>1, <3>3, IsSeqLen
    <3> HIDE DEF q
    <3>5. \A j \in 1..Len(q) : off[i - 1] + j \in 1..Len(g[k])  BY <2>2, <2>3, <3>2, <3>3, <3>4
    <3>6. \A j \in 1..Len(q) : g[k + 1][off[i - 1] + j] = q[j]  BY <2>6, <3>3, <3>5
    <3>7. QED  BY <3>3, <3>6 DEF IsPiece, q
  <2>9. \A i \in 1..(k + 1) : i \in 1..k \/ i = k + 1  OBVIOUS
  <2>10. QED  BY <2>1, <2>6, <2>7, <2>8, <2>9
<1> HIDE DEF S
<1>8. \A k \in 0..n : k \in S  BY <1>2, <1>6, <1>7, InductionUpTo
<1>9. n \in S  BY <1>2, <1>8
<1>10. IsSeq(g[n]) /\ \A i \in 1..n : IsPiece(off, ex, g[n], i)  BY <1>9 DEF S
<1>11. off[0] = 0 /\ off[n] = Len(g[n])  BY <1>2, <1>4, <1>5, EmptyIsSeq
<1>12. IsLayout(off, ex, g[n])  BY <1>10, <1>11 DEF IsLayout
<1>13. QED  BY <1>1, <1>3, <1>10, <1>12

PlanOf(e) == CanonicalTracePlan(e.decoded.op, e.rs1_value, e.rs2_value,
                                e.decoded.rs1, e.decoded.rs2, e.decoded.rd)

\* The rows of an expanded step, with the registers before and after each.
IsExpansion(lowered, e, ti, trace) ==
  /\ IsTrace(trace, e, PlanOf(e).steps)
  /\ IsSeq(lowered) /\ Len(lowered) = Len(PlanOf(e).steps)
  /\ \A k \in 1..Len(lowered) : lowered[k] = InlineRow(e, PlanOf(e), k - 1, ti, trace[k - 1])

\* An expanded step is one of the ALU.
LEMMA InlineIsAlu ==
  ASSUME NEW e, NEW n, IsStep(e, n), e.decoded.op \in InlineOps
  PROVE  /\ IsPlan(PlanOf(e), e.decoded.op, e.rs1_value, e.rs2_value, e.decoded.rs1, e.decoded.rs2, e.decoded.rd)
         /\ IsAluStep(e) /\ e.alu_result = Alu(e.decoded.op, e.rs1_value, e.rs2_value)
         /\ e.decoded.op \in WritingOps /\ e.decoded.op \notin StoreOps
<1> DEFINE op == e.decoded.op
<1>1. op \in AluOps /\ op \notin ImmediateOps
  BY DEF InlineOps, DivOps, RemOps, AluOps, BinaryAluOps, ImmediateOps
<1>2. op \notin {"Lui", "Auipc", "Jal", "Jalr", "Fence", "Ecall"} \cup LoadOps \cup StoreOps \cup BranchOps
      /\ op \in WritingOps
  BY DEF InlineOps, DivOps, RemOps, LoadOps, StoreOps, BranchOps, NarrowLoads, NarrowStores, WritingOps,
         AluOps, BinaryAluOps
<1>3. IsAluStep(e)
  BY <1>2 DEF IsStep, IsOutcome, IsUpperStep, IsLoadStep, IsStoreStep, IsJumpStep, IsBranchStep,
              IsFenceStep, IsEcallStep
<1>4. e.alu_result = Alu(op, e.rs1_value, e.rs2_value)  BY <1>1, <1>3 DEF IsAluStep
<1>5. e.decoded.rs1 \in Regs /\ e.decoded.rs2 \in Regs /\ e.decoded.rd \in Regs  BY StepFields
<1>6. IsPlan(PlanOf(e), op, e.rs1_value, e.rs2_value, e.decoded.rs1, e.decoded.rs2, e.decoded.rd)
  BY <1>5, PlanIs DEF PlanOf
<1>7. QED  BY <1>2, <1>3, <1>4, <1>6

\* The rows that a step is lowered to.
LEMMA StepIsExpanded ==
  ASSUME NEW e, NEW n, IsStep(e, n), e.decoded.op \in InlineOps, NEW ti
  PROVE  \E trace : IsExpansion(LowerStep(e, ti), e, ti, trace)
<1>1. IsSeq(PlanOf(e).steps)  BY InlineIsAlu DEF IsPlan
<1>2. LowerStep(e, ti) = InlineRows(e, PlanOf(e), ti)  BY DEF LowerStep, PlanOf
<1>3. PICK trace :
        /\ IsTrace(trace, e, PlanOf(e).steps)
        /\ IsSeq(InlineRows(e, PlanOf(e), ti)) /\ Len(InlineRows(e, PlanOf(e), ti)) = Len(PlanOf(e).steps)
        /\ \A k \in 1..Len(PlanOf(e).steps) :
              InlineRows(e, PlanOf(e), ti)[k] = InlineRow(e, PlanOf(e), k - 1, ti, trace[k - 1])
  BY <1>1, InlineRowsAre
<1>4. IsExpansion(InlineRows(e, PlanOf(e), ti), e, ti, trace)  BY <1>3 DEF IsExpansion
<1>5. QED  BY <1>2, <1>4

\* A step has at least one row, and each of them says so.
LEMMA StepRows ==
  ASSUME NEW e, NEW n, IsStep(e, n), NEW ti
  PROVE  /\ IsSeq(LowerStep(e, ti)) /\ Len(LowerStep(e, ti)) \in Nat \ {0}
         /\ \A j \in 1..Len(LowerStep(e, ti)) : LowerStep(e, ti)[j].step_index = n
<1>1. CASE e.decoded.op \in InlineOps
  <2>1. PICK trace : IsExpansion(LowerStep(e, ti), e, ti, trace)  BY <1>1, StepIsExpanded
  <2>2. Len(PlanOf(e).steps) \in Nat \ {0}  BY <1>1, InlineIsAlu DEF IsPlan
  <2>3. e.step_index = n  BY StepFields
  <2>4. \A p, k, t, r : InlineRow(e, p, k, t, r).step_index = e.step_index  BY DEF InlineRow
  <2>5. QED  BY <2>1, <2>2, <2>3, <2>4 DEF IsExpansion
<1>2. CASE e.decoded.op \notin InlineOps
  <2> DEFINE row == OrdinaryRow(e, ti)
  <2>1. LowerStep(e, ti) = <<row>>  BY <1>2 DEF LowerStep
  <2>2. row.step_index = n  BY StepFields DEF OrdinaryRow
  <2> HIDE DEF row
  <2>3. Len(<<row>>) = 1 /\ <<row>>[1] = row /\ <<row>> = [i \in 1..1 |-> <<row>>[i]]  OBVIOUS
  <2>4. IsSeq(<<row>>)  BY <2>3, FunctionIsSeq
  <2>5. QED  BY <2>1, <2>2, <2>3, <2>4
<1>3. QED  BY <1>1, <1>2

\* The registers between the rows of an expanded step.
LEMMA TraceRuns ==
  ASSUME NEW e, NEW n, IsStep(e, n), e.decoded.op \in InlineOps, NEW trace, IsTrace(trace, e, PlanOf(e).steps)
  PROVE  /\ Runs(trace, PlanOf(e).steps, Len(PlanOf(e).steps))
         /\ trace[0][e.decoded.rs1] = e.rs1_value /\ trace[0][e.decoded.rs2] = e.rs2_value
         /\ \A k \in 0..Len(PlanOf(e).steps) : DOMAIN trace[k] = AllRegs /\ trace[k][0] = 0
         /\ \A k \in 1..Len(PlanOf(e).steps) :
               PlanOf(e).steps[k].rd \in AllRegs /\ PlanOf(e).steps[k].rs1 \in AllRegs /\ PlanOf(e).steps[k].rs2 \in AllRegs
<1> DEFINE s == PlanOf(e).steps
           op == e.decoded.op
           rs1 == e.decoded.rs1
           rs2 == e.decoded.rs2
           rd == e.decoded.rd
<1>1. rs1 \in Regs /\ rs2 \in Regs /\ rd \in Regs /\ 0 \in Regs /\ e.prev.regs[0] = 0
      /\ e.rs1_value = e.prev.regs[rs1] /\ e.rs2_value = e.prev.regs[rs2]
  BY StepFields, RegsAssumption
<1>2. Len(s) \in Nat /\ \A k \in 1..Len(s) : IsRow(s, k, op, e.rs1_value, e.rs2_value, rs1, rs2, rd)
  BY InlineIsAlu DEF IsPlan
<1>3. \A k \in 1..Len(s) : s[k].rd \in AllRegs /\ s[k].rs1 \in AllRegs /\ s[k].rs2 \in AllRegs
  BY <1>1, <1>2 DEF IsRow, AllRegs
<1>4. trace[0] = TraceRegs(e)  BY DEF IsTrace
<1>5. trace[0][rs1] = e.rs1_value /\ trace[0][rs2] = e.rs2_value
  BY <1>1, <1>4 DEF TraceRegs
<1> HIDE DEF s
<1>6. IsTrace(trace, e, s)  BY DEF s
<1>7. /\ \A k \in 0..Len(s) : DOMAIN trace[k] = AllRegs /\ trace[k][0] = 0
      /\ Runs(trace, s, Len(s))
  <2>1. \A k \in 1..Len(s) : s[k].rd \in AllRegs  BY <1>3
  <2>2. /\ \A k \in 0..Len(s) : DOMAIN trace[k] = AllRegs /\ trace[k][0] = 0
                                 /\ trace[k] = [r \in AllRegs |-> trace[k][r]]
        /\ \A k \in 1..Len(s) : \A r \in AllRegs :
              trace[k][r] = IF r = s[k].rd /\ r # 0 THEN RowResult(s[k], trace[k - 1]) ELSE trace[k - 1][r]
    BY <1>1, <1>2, <1>6, <2>1, TraceStep
  <2>3. QED  BY <2>2 DEF Runs
<1>8. QED  BY <1>3, <1>5, <1>7 DEF s

\* What the fields of a row of an expanded step are.
LEMMA InlineRowIs ==
  ASSUME NEW e, NEW plan, NEW k, NEW ti, NEW regs, NEW row, row = InlineRow(e, plan, k, ti, regs)
  PROVE  /\ row.trace_index = ti + k /\ row.step_index = e.step_index /\ row.sequence_index = k
         /\ row.opcode = e.decoded.op /\ row.trace_opcode = plan.steps[k + 1].op /\ row.arch = Architectural(e)
         /\ row.alu_result = RowResult(plan.steps[k + 1], regs)
         /\ row.rd_after = WriteReg(regs, plan.steps[k + 1].rd, row.alu_result)[plan.steps[k + 1].rd]
         /\ row.is_effect_row = (k = plan.effect_index)
BY DEF InlineRow, RowResult

\* One row of a step is marked as its effect, and it has the step's result and destination.
EffectOf(row, e) == row.alu_result = e.alu_result /\ row.rd_after = e.next.regs[e.decoded.rd]

\* Some row of every step that names a destination is its effect row, and every such row has its effect.
LEMMA StepEffect ==
  ASSUME NEW e, NEW n, IsStep(e, n), e.decoded.rd # 0, NEW ti
  PROVE  /\ \E j \in 1..Len(LowerStep(e, ti)) : LowerStep(e, ti)[j].is_effect_row
         /\ \A j \in 1..Len(LowerStep(e, ti)) :
               LowerStep(e, ti)[j].is_effect_row => EffectOf(LowerStep(e, ti)[j], e)
<1>1. CASE e.decoded.op \in InlineOps
  <2> DEFINE piece == LowerStep(e, ti)
             plan == PlanOf(e)
             s == plan.steps
             x == plan.effect_index
             rd == e.decoded.rd
             v == e.alu_result
  <2>1. PICK trace : IsExpansion(piece, e, ti, trace)  BY <1>1, StepIsExpanded
  <2>2. Len(s) \in Nat \ {0} /\ x \in 0..(Len(s) - 1)  BY <1>1, InlineIsAlu DEF IsPlan
  <2>3. /\ Len(piece) = Len(s) /\ \A k \in 1..Len(piece) : piece[k] = InlineRow(e, plan, k - 1, ti, trace[k - 1])
        /\ IsTrace(trace, e, s)
    BY <2>1 DEF IsExpansion
  <2>4. /\ Runs(trace, s, Len(s)) /\ trace[0][e.decoded.rs1] = e.rs1_value /\ trace[0][e.decoded.rs2] = e.rs2_value
        /\ \A k \in 0..Len(s) : DOMAIN trace[k] = AllRegs
    BY <1>1, <2>3, TraceRuns
  <2>5. /\ e.decoded.rs1 \in Regs /\ e.decoded.rs2 \in Regs /\ rd \in Regs
        /\ e.rs1_value \in Word /\ e.rs2_value \in Word
    BY StepFields
  <2>6. Computes(trace, s, x, rd, v)
    <3>1. v = Alu(e.decoded.op, e.rs1_value, e.rs2_value)  BY <1>1, InlineIsAlu
    <3>2. plan = CanonicalTracePlan(e.decoded.op, e.rs1_value, e.rs2_value, e.decoded.rs1, e.decoded.rs2, rd)
      BY DEF PlanOf
    <3> HIDE DEF plan
    <3>3. QED  BY <1>1, <2>4, <2>5, <3>1, <3>2, PlanComputes
  <2>7. e.next.regs[rd] = v
    <3>1. e.next.regs = WriteReg(e.prev.regs, rd, v) /\ v \in Word
      BY <1>1, InlineIsAlu, StepKeeps DEF StepDoes
    <3>2. e.prev.regs \in [Regs -> Word]  BY StepFields
    <3>3. QED  BY <2>5, <3>1, <3>2 DEF WriteReg
  <2> HIDE DEF piece, plan, v
  <2>8. ASSUME NEW j \in 1..Len(piece)
        PROVE  /\ piece[j].is_effect_row <=> j - 1 = x
               /\ piece[j].alu_result = RowResult(s[j], trace[j - 1])
               /\ piece[j].rd_after = WriteReg(trace[j - 1], s[j].rd, piece[j].alu_result)[s[j].rd]
    <3>1. piece[j] = InlineRow(e, plan, j - 1, ti, trace[j - 1]) /\ (j - 1) + 1 = j  BY <2>2, <2>3
    <3>2. /\ piece[j].alu_result = RowResult(s[(j - 1) + 1], trace[j - 1])
          /\ piece[j].rd_after = WriteReg(trace[j - 1], s[(j - 1) + 1].rd, piece[j].alu_result)[s[(j - 1) + 1].rd]
          /\ piece[j].is_effect_row = (j - 1 = x)
      BY <3>1, InlineRowIs
    <3>3. QED  BY <3>1, <3>2
  <2>9. x + 1 \in 1..Len(piece) /\ (x + 1) - 1 = x  BY <2>2, <2>3
  <2>10. piece[x + 1].is_effect_row  BY <2>8, <2>9
  <2>11. ASSUME NEW j \in 1..Len(piece), piece[j].is_effect_row PROVE EffectOf(piece[j], e)
    <3>1. j = x + 1  BY <2>2, <2>3, <2>8, <2>11
    <3>2. s[j].rd = rd /\ RowResult(s[j], trace[x]) = v  BY <2>6, <3>1 DEF Computes
    <3>3. piece[j].alu_result = v  BY <2>8, <2>9, <3>1, <3>2
    <3>4. DOMAIN trace[x] = AllRegs /\ rd \in AllRegs  BY <2>2, <2>4, <2>5 DEF AllRegs
    <3>5. piece[j].rd_after = v  BY <2>8, <2>9, <3>1, <3>2, <3>3, <3>4 DEF WriteReg
    <3>6. QED  BY <2>7, <3>3, <3>5 DEF EffectOf, v
  <2>12. QED  BY <2>9, <2>10, <2>11 DEF piece
<1>2. CASE e.decoded.op \notin InlineOps
  <2> DEFINE row == OrdinaryRow(e, ti)
  <2>1. LowerStep(e, ti) = <<row>>  BY <1>2 DEF LowerStep
  <2>2. row.is_effect_row /\ EffectOf(row, e)  BY DEF OrdinaryRow, EffectOf
  <2> HIDE DEF row
  <2>3. Len(<<row>>) = 1 /\ <<row>>[1] = row  OBVIOUS
  <2>4. QED  BY <2>1, <2>2, <2>3
<1>3. QED  BY <1>1, <1>2

\* The row of a division that subtracts has the remainder.
Reconciled(row) ==
  LET r == Alu(Remainder(row.opcode), row.arch.rs1_value, row.arch.rs2_value)
  IN  (row.opcode \in DivOps \cup RemOps /\ row.trace_opcode = "Sub" /\ row.arch.rd # 0) =>
          IF row.opcode \in WordOps THEN Low(row.alu_result) = Low(r) ELSE row.alu_result = r

\* Every row of a step reconciles.
LEMMA StepReconciles ==
  ASSUME NEW e, NEW n, IsStep(e, n), NEW ti, NEW j \in 1..Len(LowerStep(e, ti))
  PROVE  Reconciled(LowerStep(e, ti)[j])
<1> DEFINE piece == LowerStep(e, ti)
           row == piece[j]
           op == e.decoded.op
           rd == e.decoded.rd
           a == e.rs1_value
           b == e.rs2_value
<1>1. CASE op \notin InlineOps
  <2> DEFINE x == OrdinaryRow(e, ti)
  <2>1. LowerStep(e, ti) = <<x>> /\ x.opcode = op  BY <1>1 DEF LowerStep, OrdinaryRow
  <2> HIDE DEF x
  <2>2. Len(<<x>>) = 1 /\ <<x>>[1] = x  OBVIOUS
  <2>3. row = x  BY <2>1, <2>2
  <2>4. QED  BY <1>1, <2>1, <2>3 DEF Reconciled, InlineOps
<1>2. CASE op \in InlineOps
  <2> DEFINE plan == PlanOf(e)
             s == plan.steps
  <2>1. PICK trace : IsExpansion(piece, e, ti, trace)  BY <1>2, StepIsExpanded
  <2>2. /\ Len(piece) = Len(s) /\ row = InlineRow(e, plan, j - 1, ti, trace[j - 1])
        /\ IsTrace(trace, e, s)
    BY <2>1 DEF IsExpansion
  <2>3. (j - 1) + 1 = j  BY <1>2, <2>2, InlineIsAlu DEF IsPlan
  <2>4. /\ row.opcode = op /\ row.trace_opcode = s[j].op /\ row.arch = Architectural(e)
        /\ row.alu_result = RowResult(s[j], trace[j - 1])
    BY <2>2, <2>3, InlineRowIs
  <2>5. row.arch.rd = rd /\ row.arch.rs1_value = a /\ row.arch.rs2_value = b  BY <2>4 DEF Architectural
  <2>6. ASSUME op \in DivOps \cup RemOps, s[j].op = "Sub", rd # 0
        PROVE  LET r == RowResult(s[j], trace[j - 1])
               IN  IF op \in WordOps THEN Low(r) = Low(Alu(Remainder(op), a, b)) ELSE r = Alu(Remainder(op), a, b)
    <3>1. Runs(trace, s, Len(s)) /\ trace[0][e.decoded.rs1] = a /\ trace[0][e.decoded.rs2] = b
      BY <1>2, <2>2, TraceRuns
    <3>2. /\ e.decoded.rs1 \in Regs /\ e.decoded.rs2 \in Regs /\ rd \in Regs /\ a \in Word /\ b \in Word
      BY StepFields
    <3>3. plan = CanonicalTracePlan(op, a, b, e.decoded.rs1, e.decoded.rs2, rd) /\ op \in DivRemOps
      BY <2>6 DEF PlanOf, DivRemOps
    <3>4. Reconciles(trace, s, op, a, b)
      <4> HIDE DEF plan
      <4>1. QED  BY <1>2, <2>6, <3>1, <3>2, <3>3, PlanComputes
    <3>5. j \in 1..Len(s)  BY <2>2
    <3>6. QED  BY <2>6, <3>4, <3>5 DEF Reconciles
  <2> HIDE DEF row, s
  <2>7. Reconciled(row)  BY <2>4, <2>5, <2>6 DEF Reconciled
  <2>8. QED  BY <2>7 DEF row
<1>3. QED  BY <1>1, <1>2

-----------------------------------------------------------------------------
(* Where the rows of each step are.                                        *)

Off == CHOOSE off : IsLayout(off, executed, rows)

PieceOf(k) == LowerStep(executed[k], Off[k - 1])

LaidOut ==
  /\ IsSeq(executed) /\ IsSeq(rows) /\ Off[0] = 0 /\ Off[Len(executed)] = Len(rows)
  /\ \A k \in 0..Len(executed) : Off[k] \in Nat
  /\ \A k \in 1..Len(executed) :
        /\ Len(PieceOf(k)) \in Nat \ {0} /\ Off[k] = Off[k - 1] + Len(PieceOf(k))
        /\ \A j \in 1..Len(PieceOf(k)) : rows[Off[k - 1] + j] = PieceOf(k)[j]
  /\ \A i, k \in 0..Len(executed) : i <= k => Off[i] <= Off[k]
  /\ \A i \in 1..Len(rows) : \E k \in 1..Len(executed) : i > Off[k - 1] /\ i <= Off[k]

\* The rows of an honest trace are laid out step by step.
LEMMA RowsLaidOut ==
  ASSUME MachineInv, rows = LowerProgram(executed)
  PROVE  LaidOut
<1> DEFINE n == Len(executed)
<1>1. IsSeq(executed) /\ n \in Nat /\ \A k \in 1..n : StepInv(k)  BY IsSeqLen DEF MachineInv
<1>2. ASSUME NEW k \in 1..n, NEW ti
      PROVE  /\ IsSeq(LowerStep(executed[k], ti)) /\ Len(LowerStep(executed[k], ti)) \in Nat \ {0}
  BY <1>1, StepRows DEF StepInv
<1>3. IsSeq(rows) /\ IsLayout(Off, executed, rows)
  <2>1. \A k \in 1..n : \A i \in Nat : IsSeq(LowerStep(executed[k], i))  BY <1>2
  <2>2. IsSeq(rows) /\ \E off : IsLayout(off, executed, rows)  BY <1>1, <2>1, LayoutExists
  <2>3. QED  BY <2>2 DEF Off
<1>4. Off[0] = 0 /\ Off[n] = Len(rows) /\ \A k \in 1..n : IsPiece(Off, executed, rows, k)
  BY <1>3 DEF IsLayout
<1>5. ASSUME NEW k \in 1..n
      PROVE  /\ Len(PieceOf(k)) \in Nat \ {0} /\ Off[k] = Off[k - 1] + Len(PieceOf(k))
             /\ \A j \in 1..Len(PieceOf(k)) : rows[Off[k - 1] + j] = PieceOf(k)[j]
             /\ Off[k - 1] \in Nat
  BY <1>2, <1>4 DEF IsPiece, PieceOf
<1>6. Len(rows) \in Nat  BY <1>3, IsSeqLen
<1>7. \A k \in 0..n : Off[k] \in Nat
  <2>1. ASSUME NEW k \in 0..n, k < n PROVE Off[k] \in Nat
    <3>1. k + 1 \in 1..n /\ (k + 1) - 1 = k  BY <1>1, <2>1
    <3>2. QED  BY <1>5, <3>1
  <2>2. QED  BY <1>1, <1>4, <1>6, <2>1
<1>8. \A k \in 1..n : Off[k - 1] < Off[k] /\ k - 1 \in 0..n /\ k \in 0..n
  <2> TAKE k \in 1..n
  <2> DEFINE x == Off[k - 1]
             y == Off[k]
             z == Len(PieceOf(k))
  <2>1. x \in Nat /\ y = x + z /\ z \in Nat \ {0} /\ k - 1 \in 0..n /\ k \in 0..n  BY <1>1, <1>5
  <2> HIDE DEF x, y, z
  <2>2. x < y  BY <2>1
  <2>3. QED  BY <2>1, <2>2 DEF x, y
<1>9. \A i, k \in 0..n : i <= k => Off[i] <= Off[k]
  <2> DEFINE S == {k \in 0..n : \A i \in 0..n : i <= k => Off[i] <= Off[k]}
  <2>1. 0 \in S  BY <1>1, <1>7
  <2>2. ASSUME NEW k \in 0..n, k \in S /\ k < n PROVE k + 1 \in S
    <3>1. k + 1 \in 1..n /\ (k + 1) - 1 = k /\ k + 1 \in 0..n  BY <1>1, <2>2
    <3>2. Off[k] < Off[k + 1] /\ Off[k] \in Nat /\ Off[k + 1] \in Nat  BY <1>7, <1>8, <3>1
    <3>3. ASSUME NEW i \in 0..n, i <= k + 1 PROVE Off[i] <= Off[k + 1]
      <4>1. Off[i] \in Nat  BY <1>7
      <4>2. CASE i = k + 1  BY <3>2, <4>2
      <4>3. CASE i <= k
        <5>1. Off[i] <= Off[k]  BY <2>2, <4>3
        <5>2. QED  BY <3>2, <4>1, <5>1
      <4>4. QED  BY <3>3, <4>2, <4>3
    <3>4. QED  BY <3>1, <3>3
  <2> HIDE DEF S
  <2>3. \A k \in 0..n : k \in S  BY <1>1, <2>1, <2>2, InductionUpTo
  <2>4. QED  BY <2>3 DEF S
<1>10. ASSUME NEW i \in 1..Len(rows) PROVE \E k \in 1..n : i > Off[k - 1] /\ i <= Off[k]
  <2> DEFINE S == {m \in 0..n : i <= Off[m] => \E k \in 1..n : i > Off[k - 1] /\ i <= Off[k]}
  <2>1. 0 \in S  BY <1>1, <1>4
  <2>2. ASSUME NEW m \in 0..n, m \in S /\ m < n PROVE m + 1 \in S
    <3>1. m + 1 \in 1..n /\ (m + 1) - 1 = m /\ m + 1 \in 0..n  BY <1>1, <2>2
    <3>2. Off[m] \in Nat /\ i \in Nat  BY <1>7
    <3>3. CASE i <= Off[m]  BY <2>2, <3>1, <3>3
    <3>4. CASE ~(i <= Off[m])
      <4>1. i > Off[m]  BY <3>2, <3>4
      <4>2. i <= Off[m + 1] => i > Off[(m + 1) - 1] /\ i <= Off[m + 1]  BY <3>1, <4>1
      <4>3. QED  BY <3>1, <4>2
    <3>5. QED  BY <3>3, <3>4
  <2> HIDE DEF S
  <2>3. \A m \in 0..n : m \in S  BY <1>1, <2>1, <2>2, InductionUpTo
  <2>4. n \in S  BY <1>1, <2>3
  <2>5. i <= Off[n]  BY <1>4, <1>6
  <2>6. QED  BY <2>4, <2>5 DEF S
<1>11. QED  BY <1>1, <1>3, <1>4, <1>5, <1>7, <1>9, <1>10 DEF LaidOut

\* The row at an index belongs to one step.
LEMMA RowOfStep ==
  ASSUME LaidOut, NEW i \in 1..Len(rows)
  PROVE  \E k \in 1..Len(executed) : \E j \in 1..Len(PieceOf(k)) :
            i = Off[k - 1] + j /\ rows[i] = PieceOf(k)[j]
<1>1. PICK k \in 1..Len(executed) : i > Off[k - 1] /\ i <= Off[k]  BY DEF LaidOut
<1> DEFINE j == i - Off[k - 1]
<1>2. /\ Len(PieceOf(k)) \in Nat \ {0} /\ Off[k] = Off[k - 1] + Len(PieceOf(k))
      /\ \A m \in 1..Len(PieceOf(k)) : rows[Off[k - 1] + m] = PieceOf(k)[m]
  BY DEF LaidOut
<1>3. Off[k - 1] \in Nat
  <2>1. k - 1 \in 0..Len(executed)  BY IsSeqLen DEF LaidOut
  <2>2. QED  BY <2>1 DEF LaidOut
<1>4. j \in 1..Len(PieceOf(k)) /\ i = Off[k - 1] + j
  <2> DEFINE x == Off[k - 1]
             y == Off[k]
             z == Len(PieceOf(k))
  <2>1. i \in Nat /\ x \in Nat /\ z \in Nat /\ y = x + z /\ i > x /\ i <= y  BY <1>1, <1>2, <1>3
  <2> HIDE DEF x, y, z
  <2>2. i - x \in 1..z /\ i = x + (i - x)  BY <2>1
  <2>3. QED  BY <2>2 DEF x, z
<1> HIDE DEF j
<1>5. rows[i] = PieceOf(k)[j]  BY <1>2, <1>4
<1>6. QED  BY <1>4, <1>5

\* The rows of a trace are honest: what the two properties of the rows state.
LEMMA RowsMatch ==
  ASSUME MachineInv, rows = LowerProgram(executed)
  PROVE  EffectRowsMatch /\ DivisionRowsReconcile
<1> DEFINE n == Len(executed)
<1>1. LaidOut  BY RowsLaidOut
<1>2. DOMAIN rows = 1..Len(rows) /\ DOMAIN executed = 1..n /\ n \in Nat /\ Len(rows) \in Nat
  BY <1>1, IsSeqLen DEF LaidOut
<1>3. \A k \in 1..n : IsStep(executed[k], k - 1)  BY DEF MachineInv, StepInv
<1>4. ASSUME NEW k \in 1..n, NEW j \in 1..Len(PieceOf(k))
      PROVE  PieceOf(k)[j].step_index = k - 1 /\ Reconciled(PieceOf(k)[j])
  BY <1>3, StepRows, StepReconciles DEF PieceOf
<1>5. ASSUME NEW k \in 1..n, executed[k].decoded.rd # 0 PROVE EffectMatches(executed[k])
  <2> DEFINE e == executed[k]
             r == EffectRow(e)
             IsOne(i) == i \in DOMAIN rows /\ rows[i].step_index = e.step_index /\ rows[i].is_effect_row
  <2>1. IsStep(e, k - 1) /\ e.step_index = k - 1  BY <1>3, StepFields
  <2>2. PICK j \in 1..Len(PieceOf(k)) : PieceOf(k)[j].is_effect_row  BY <1>5, <2>1, StepEffect DEF PieceOf
  <2>3. rows[Off[k - 1] + j] = PieceOf(k)[j] /\ Off[k - 1] + j \in 1..Len(rows)
    <3>1. /\ rows[Off[k - 1] + j] = PieceOf(k)[j] /\ Len(PieceOf(k)) \in Nat
          /\ Off[k] = Off[k - 1] + Len(PieceOf(k))
      BY <1>1 DEF LaidOut
    <3>2. k - 1 \in 0..n /\ k \in 0..n /\ n \in 0..n /\ k <= n  BY <1>2
    <3>3. Off[k - 1] \in Nat /\ Off[k] \in Nat /\ Off[k] <= Len(rows)
      <4>1. Off[k] <= Off[n] /\ Off[n] = Len(rows) /\ Off[k - 1] \in Nat /\ Off[k] \in Nat
        BY <1>1, <3>2 DEF LaidOut
      <4>2. QED  BY <4>1
    <3>4. j \in Nat /\ j >= 1 /\ j <= Len(PieceOf(k))  BY <3>1
    <3> DEFINE x == Off[k - 1]
               y == Off[k]
               z == Len(PieceOf(k))
               m == Len(rows)
    <3>5. x \in Nat /\ y \in Nat /\ z \in Nat /\ m \in Nat /\ y = x + z /\ y <= m /\ j \in Nat /\ j >= 1 /\ j <= z
      BY <1>2, <3>1, <3>3, <3>4
    <3> HIDE DEF x, y, z, m
    <3>6. x + j \in 1..m  BY <3>5
    <3>7. QED  BY <3>1, <3>6 DEF x, m
  <2>4. IsOne(Off[k - 1] + j)  BY <1>2, <1>4, <2>1, <2>2, <2>3
  <2>5. IsOne(r)  BY <2>4 DEF EffectRow
  <2>6. PICK m \in 1..n : \E i \in 1..Len(PieceOf(m)) : rows[r] = PieceOf(m)[i]
    BY <1>1, <1>2, <2>5, RowOfStep
  <2>7. PICK i \in 1..Len(PieceOf(m)) : rows[r] = PieceOf(m)[i]  BY <2>6
  <2>8. m = k
    <3>1. m - 1 = k - 1  BY <1>4, <2>1, <2>5, <2>7
    <3>2. QED  BY <1>2, <3>1
  <2>9. EffectOf(rows[r], e)  BY <1>5, <2>1, <2>5, <2>7, <2>8, StepEffect DEF PieceOf
  <2>10. QED  BY <2>9 DEF EffectOf, EffectMatches
<1>6. EffectRowsMatch  BY <1>2, <1>5 DEF EffectRowsMatch
<1>7. ASSUME NEW i \in 1..Len(rows) PROVE Reconciled(rows[i])
  <2>1. PICK k \in 1..n : \E j \in 1..Len(PieceOf(k)) : rows[i] = PieceOf(k)[j]  BY <1>1, RowOfStep
  <2>2. QED  BY <1>4, <2>1
<1>8. DivisionRowsReconcile
  <2>1. \A i \in DOMAIN rows : Reconciled(rows[i])  BY <1>2, <1>7
  <2>2. QED  BY <2>1 DEF DivisionRowsReconcile, Reconciled
<1>9. QED  BY <1>6, <1>8

\* The trace is that of the program's run as soon as there is one.
LoweringInv ==
  /\ MachineInv
  /\ phase \in {"execute", "stage1", "stage2", "stage3", "accepted", "rejected"}
  /\ IF phase = "execute" THEN rows = <<>> ELSE rows = LowerProgram(executed) /\ status = "halted"

\* The invariant holds initially: nothing is executed and nothing is lowered.
LEMMA LoweringStarts == Init => LoweringInv
BY MachineStarts DEF Init, LoweringInv

\* The checks leave the run and its trace alone.
LEMMA LoweringKeeps == LoweringInv /\ [Next]_allvars => LoweringInv'
<1> SUFFICES ASSUME LoweringInv, [Next]_allvars PROVE LoweringInv'  OBVIOUS
<1>1. ASSUME UNCHANGED mvars PROVE MachineInv'  BY <1>1, MachineKeeps DEF LoweringInv
<1>2. CASE Execute
  <2>1. MachineInv'  BY <1>2, MachineKeeps DEF Execute, LoweringInv
  <2>2. QED  BY <1>2, <2>1 DEF Execute, LoweringInv, pvars
<1>3. CASE Lower  BY <1>1, <1>3 DEF Lower, LoweringInv, mvars
<1>4. CASE VerifyStage1  BY <1>1, <1>4 DEF VerifyStage1, LoweringInv, mvars
<1>5. CASE VerifyStage2Row
  <2>1. phase = "stage2" /\ phase' \in {"stage2", "rejected"} /\ UNCHANGED <<program, state, executed, status, rows>>
    BY <1>5, Zenon DEF VerifyStage2Row
  <2>2. QED  BY <1>1, <2>1 DEF LoweringInv, mvars
<1>6. CASE VerifyStage2End  BY <1>1, <1>6 DEF VerifyStage2End, LoweringInv, mvars
<1>7. CASE VerifyStage3  BY <1>1, <1>7 DEF VerifyStage3, LoweringInv, mvars
<1>8. CASE UNCHANGED allvars  BY <1>1, <1>8 DEF allvars, LoweringInv, mvars
<1>9. QED  BY <1>2, <1>3, <1>4, <1>5, <1>6, <1>7, <1>8 DEF Next

\* What the invariant says of the trace.
LEMMA LoweringGives == LoweringInv => EffectRowsMatch /\ DivisionRowsReconcile
BY RowsMatch DEF LoweringInv, EffectRowsMatch, DivisionRowsReconcile

\* In every reachable state, the row of an executed step that is marked as its effect (lower.rs's
\* inline_rows) has the step's result and leaves it in the destination, for the steps that name one.
THEOREM EffectsMatch == PipelineSpec => []EffectRowsMatch
<1>1. LoweringInv => EffectRowsMatch  BY LoweringGives
<1>2. QED  BY <1>1, LoweringStarts, LoweringKeeps, PTL DEF PipelineSpec

\* In every reachable state, every subtraction row of an expanded division or remainder (lower.rs) has
\* the remainder that the instruction set defines, whichever operands the advice came from.
THEOREM DivisionsReconcile == PipelineSpec => []DivisionRowsReconcile
<1>1. LoweringInv => DivisionRowsReconcile  BY LoweringGives
<1>2. QED  BY <1>1, LoweringStarts, LoweringKeeps, PTL DEF PipelineSpec

-----------------------------------------------------------------------------
(* Stage 1, on the row of a step that is not expanded.                     *)

\* Wrapping a summand first changes nothing.
LEMMA WrapSum ==
  ASSUME NEW a \in Int, NEW b \in Int
  PROVE  Wrap(a + Wrap(b)) = Wrap(a + b)
<1>1. Wrap(b) \in Int /\ Congruent(Wrap(b), b, WordSize) /\ WordSize \in Nat \ {0}  BY WrapIs, WordIs
<1>2. Congruent(a, a, WordSize)  BY DEF Congruent
<1>3. Congruent(a + Wrap(b), a + b, WordSize)  BY <1>1, <1>2, SumsCongruent
<1>4. a + Wrap(b) \in Int /\ a + b \in Int  BY <1>1
<1>5. QED  BY <1>3, <1>4, WrapSame

\* The fields of an expected step.
Shape(x, next_pc, value, addr, before, after, writes_rd, writes_ram, rd_after) ==
  /\ x.next_pc = next_pc /\ x.alu_result = value
  /\ x.effective_addr = addr /\ x.memory_before = before /\ x.memory_after = after
  /\ x.writes_rd = writes_rd /\ x.writes_ram = writes_ram /\ x.rd_after = rd_after

ShapeFields == {"next_pc", "alu_result", "effective_addr", "memory_before", "memory_after", "writes_rd",
                "writes_ram", "rd_after"}

\* An expected step that writes its destination.
LEMMA RegWriteIs ==
  ASSUME NEW row, NEW np, NEW value
  PROVE  /\ Shape(RegWrite(row, np, value), np, value, None, None, None, row.arch.rd # 0, FALSE,
                  IF row.arch.rd = 0 THEN 0 ELSE value)
         /\ DOMAIN RegWrite(row, np, value) = ShapeFields
BY DEF RegWrite, Shape, ShapeFields

\* An expected step that leaves its destination alone.
LEMMA NoRegWriteIs ==
  ASSUME NEW row, NEW np, NEW value
  PROVE  /\ Shape(NoRegWrite(row, np, value), np, value, None, None, None, FALSE, FALSE, row.rd_before)
         /\ DOMAIN NoRegWrite(row, np, value) = ShapeFields
<1> DEFINE x == RegWrite(row, np, value)
           y == NoRegWrite(row, np, value)
<1>1. /\ Shape(x, np, value, None, None, None, row.arch.rd # 0, FALSE, IF row.arch.rd = 0 THEN 0 ELSE value)
      /\ DOMAIN x = ShapeFields
  BY RegWriteIs
<1>2. y = [x EXCEPT !.writes_rd = FALSE, !.rd_after = row.rd_before]  BY DEF NoRegWrite
<1> HIDE DEF x, y
<1>3. QED  BY <1>1, <1>2 DEF Shape, ShapeFields, y

\* The expected step of a load.
LEMMA ExpectedLoadIs ==
  ASSUME NEW row, NEW addr, NEW value,
         value = (IF row.opcode = "Ld" THEN row.memory_before
                  ELSE ExtractNarrow(row.memory_before, addr, row.opcode))
  PROVE  Shape(ExpectedLoad(row, addr), NextPc(row), value, addr, row.memory_before, row.memory_before,
               row.arch.rd # 0, FALSE, IF row.arch.rd = 0 THEN 0 ELSE value)
<1> DEFINE x == RegWrite(row, NextPc(row), value)
           y == ExpectedLoad(row, addr)
<1>1. /\ Shape(x, NextPc(row), value, None, None, None, row.arch.rd # 0, FALSE, IF row.arch.rd = 0 THEN 0 ELSE value)
      /\ DOMAIN x = ShapeFields
  BY ONLY RegWriteIs
<1>2. y = [x EXCEPT !.effective_addr = addr, !.memory_before = row.memory_before,
                    !.memory_after = row.memory_before]
  BY DEF ExpectedLoad
<1> HIDE DEF x, y
<1>3. QED  BY <1>1, <1>2 DEF Shape, ShapeFields, y

\* The expected step of a store.
LEMMA ExpectedStoreIs ==
  ASSUME NEW row, NEW addr, NEW value,
         value = (IF row.opcode = "Sd" THEN row.rs2_value
                  ELSE BlendNarrow(row.memory_before, addr, row.opcode, row.rs2_value))
  PROVE  Shape(ExpectedStore(row, addr), NextPc(row), value, addr, row.memory_before, value,
               FALSE, TRUE, row.rd_before)
<1> DEFINE x == NoRegWrite(row, NextPc(row), value)
           y == ExpectedStore(row, addr)
<1>1. /\ Shape(x, NextPc(row), value, None, None, None, FALSE, FALSE, row.rd_before)
      /\ DOMAIN x = ShapeFields
  BY NoRegWriteIs
<1>2. y = [x EXCEPT !.effective_addr = addr, !.writes_ram = TRUE, !.memory_before = row.memory_before,
                    !.memory_after = value]
  BY DEF ExpectedStore
<1> HIDE DEF x, y
<1>3. QED  BY <1>1, <1>2 DEF Shape, ShapeFields, y

\* The fields of an ordinary row.
LEMMA OrdinaryIs ==
  ASSUME NEW e, NEW n, IsStep(e, n), NEW ti, NEW row, row = OrdinaryRow(e, ti)
  PROVE  /\ row.trace_index = ti /\ row.step_index = n /\ row.sequence_index = 0
         /\ row.pc = e.prev.pc /\ row.next_pc = e.next.pc
         /\ row.opcode = e.decoded.op /\ row.trace_opcode = e.decoded.op
         /\ row.arch.rd = e.decoded.rd /\ row.arch.imm = e.decoded.imm
         /\ row.arch.rs1_value = e.rs1_value /\ row.arch.rs2_value = e.rs2_value
         /\ row.rs1 = e.decoded.rs1 /\ row.rs2 = e.decoded.rs2 /\ row.rd = e.decoded.rd
         /\ row.rs1_value = e.rs1_value /\ row.rs2_value = e.rs2_value /\ row.rd_before = e.rd_before
         /\ row.imm = e.decoded.imm
         /\ row.is_first_in_sequence /\ row.virtual_sequence_remaining = None
         /\ row.is_effect_row /\ row.is_commit_row /\ row.is_real /\ row.halted = e.next.halted
         /\ Shape(row, e.next.pc, e.alu_result, e.effective_addr, e.memory_before, e.memory_after,
                  e.decoded.op \in WritingOps /\ e.decoded.rd # 0, e.decoded.op \in StoreOps,
                  e.next.regs[e.decoded.rd])
BY StepFields DEF OrdinaryRow, Architectural, Shape, StoreOps

\* What the verifier computes of an ordinary row's operands.
LEMMA OrdinaryWords ==
  ASSUME NEW e, NEW n, IsStep(e, n), NEW ti, NEW row, row = OrdinaryRow(e, ti)
  PROVE  /\ Wrap(row.imm) = ImmOf(e) /\ Wrap(row.arch.imm) = ImmOf(e)
         /\ Wrap(row.rs1_value + row.imm) = AddrOf(e)
         /\ Wrap(row.rs1_value + Wrap(row.imm)) = AddrOf(e)
         /\ Wrap(row.arch.rs1_value + Wrap(row.arch.imm)) = AddrOf(e)
         /\ Wrap(row.pc + row.imm) = Wrap(e.prev.pc + ImmOf(e))
         /\ Wrap(row.pc + Wrap(row.arch.imm)) = Wrap(e.prev.pc + ImmOf(e))
         /\ NextPc(row) = e.prev.pc + 4
         /\ Taken(row.opcode, row.arch.rs1_value, row.arch.rs2_value) <=> TakenBy(e)
<1> DEFINE imm == e.decoded.imm
           a == e.rs1_value
           pc == e.prev.pc
<1>1. /\ row.pc = pc /\ row.imm = imm /\ row.arch.imm = imm /\ row.rs1_value = a /\ row.arch.rs1_value = a
      /\ row.opcode = e.decoded.op /\ row.arch.rs2_value = e.rs2_value
  BY OrdinaryIs
<1>2. imm \in Int /\ a \in Int /\ pc \in Int /\ pc + 4 \in Word /\ pc + 4 \in Int  BY StepFields, WordIs
<1> HIDE DEF imm, a, pc
<1>3. Wrap(a + imm) = Wrap(a + Wrap(imm)) /\ Wrap(pc + imm) = Wrap(pc + Wrap(imm))  BY <1>2, WrapSum
<1>4. Wrap(pc + 4) = pc + 4  BY <1>2, WrapIs
<1>5. ImmOf(e) = Wrap(imm) /\ AddrOf(e) = Wrap(a + Wrap(imm))  BY DEF ImmOf, AddrOf, imm, a
<1>6. Taken(row.opcode, row.arch.rs1_value, row.arch.rs2_value) <=> TakenBy(e)  BY <1>1 DEF TakenBy, a
<1>7. QED  BY <1>1, <1>3, <1>4, <1>5, <1>6 DEF NextPc, pc

\* The expected step of an ordinary row.
IsExpected(x, e) ==
  Shape(x, e.next.pc, e.alu_result, e.effective_addr, e.memory_before, e.memory_after,
        e.decoded.op \in WritingOps /\ e.decoded.rd # 0, e.decoded.op \in StoreOps, e.next.regs[e.decoded.rd])

\* The destination after a step that writes it, and after one that does not.
LEMMA RdAfter ==
  ASSUME NEW e, NEW n, IsStep(e, n)
  PROVE  /\ e.decoded.op \in WritingOps =>
              e.next.regs[e.decoded.rd] = IF e.decoded.rd = 0 THEN 0 ELSE e.alu_result
         /\ e.decoded.op \notin WritingOps => e.next.regs[e.decoded.rd] = e.rd_before
<1> DEFINE regs == e.prev.regs
           rd == e.decoded.rd
           v == e.alu_result
<1>1. regs \in [Regs -> Word] /\ rd \in Regs /\ e.rd_before = regs[rd]  BY StepFields
<1>2. e.next.regs = IF e.decoded.op \in WritingOps THEN WriteReg(regs, rd, v) ELSE regs
  BY StepKeeps DEF StepDoes
<1>3. WriteReg(regs, rd, v)[rd] = IF rd = 0 THEN 0 ELSE v
  <2> HIDE DEF regs, rd, v
  <2>1. QED  BY <1>1 DEF WriteReg
<1> HIDE DEF regs, v
<1>4. QED  BY <1>1, <1>2, <1>3 DEF v

\* An expected step that writes a register, and one that does not.
LEMMA WritesExpected ==
  ASSUME NEW e, NEW n, IsStep(e, n), NEW ti, NEW row, row = OrdinaryRow(e, ti),
         NEW x, NEW addr, NEW before, NEW after, NEW pc, NEW r,
         Shape(x, pc, e.alu_result, addr, before, after, row.arch.rd # 0, FALSE, r),
         r = (IF row.arch.rd = 0 THEN 0 ELSE e.alu_result),
         e.decoded.op \in WritingOps, pc = e.next.pc, Accesses(e, addr, before, after)
  PROVE  IsExpected(x, e)
<1>1. row.arch.rd = e.decoded.rd  BY OrdinaryIs
<1>2. e.decoded.op \notin StoreOps  BY OpsApart
<1>3. (row.arch.rd # 0) = (e.decoded.op \in WritingOps /\ e.decoded.rd # 0)  BY <1>1
<1>4. FALSE = (e.decoded.op \in StoreOps)  BY <1>2
<1>5. r = e.next.regs[e.decoded.rd]  BY <1>1, RdAfter
<1>6. addr = e.effective_addr /\ before = e.memory_before /\ after = e.memory_after  BY DEF Accesses
<1>7. QED  BY <1>3, <1>4, <1>5, <1>6 DEF IsExpected

\* An expected step that leaves the destination of an ordinary row alone.
LEMMA KeepsExpected ==
  ASSUME NEW e, NEW n, IsStep(e, n), NEW ti, NEW row, row = OrdinaryRow(e, ti),
         NEW x, NEW addr, NEW before, NEW after, NEW pc, NEW wram,
         Shape(x, pc, e.alu_result, addr, before, after, FALSE, wram, row.rd_before),
         wram = (e.decoded.op \in StoreOps),
         e.decoded.op \notin WritingOps, pc = e.next.pc, Accesses(e, addr, before, after)
  PROVE  IsExpected(x, e)
<1>1. row.rd_before = e.rd_before  BY OrdinaryIs
<1>2. FALSE = (e.decoded.op \in WritingOps /\ e.decoded.rd # 0)  OBVIOUS
<1>3. row.rd_before = e.next.regs[e.decoded.rd]  BY <1>1, RdAfter
<1>4. addr = e.effective_addr /\ before = e.memory_before /\ after = e.memory_after  BY DEF Accesses
<1>5. QED  BY <1>2, <1>3, <1>4 DEF IsExpected

\* The pc after each kind of step.
LEMMA PcAfter ==
  ASSUME NEW e, NEW n, IsStep(e, n), NEW pc
  PROVE  /\ e.next = Retired(e.prev, e.decoded.rd, e.alu_result) => e.next.pc = e.prev.pc + 4
         /\ Retires(e, pc) \/ Stores(e, pc) \/ Moves(e, pc) \/ Halts(e, pc) => e.next.pc = pc
<1>1. \A q, r, m, h : Reaches(e, q, r, m, h) => e.next.pc = q  BY DEF Reaches
<1>2. ASSUME NEW q PROVE Retires(e, q) \/ Stores(e, q) \/ Moves(e, q) \/ Halts(e, q) => e.next.pc = q
  BY <1>1, UpdatesAre
<1>3. ASSUME e.next = Retired(e.prev, e.decoded.rd, e.alu_result) PROVE Retires(e, e.prev.pc + 4)
  BY <1>3 DEF Retired, Retires
<1>4. QED  BY <1>2, <1>3

\* The expected step of each kind of instruction.
LEMMA ExpectedOf ==
  ASSUME NEW row
  PROVE  /\ row.opcode \in AluOps => ExpectedStep(row) =
               RegWrite(row, NextPc(row), Alu(row.opcode, row.arch.rs1_value,
                                              IF row.opcode \in ImmediateOps THEN Wrap(row.arch.imm)
                                              ELSE row.arch.rs2_value))
         /\ row.opcode = "Lui" => ExpectedStep(row) = RegWrite(row, NextPc(row), Wrap(row.arch.imm))
         /\ row.opcode = "Auipc" =>
               ExpectedStep(row) = RegWrite(row, NextPc(row), Wrap(row.pc + Wrap(row.arch.imm)))
         /\ row.opcode \in LoadOps => ExpectedStep(row) = ExpectedLoad(row, Wrap(row.rs1_value + row.imm))
         /\ row.opcode \in StoreOps => ExpectedStep(row) = ExpectedStore(row, Wrap(row.rs1_value + row.imm))
         /\ row.opcode = "Jal" =>
               ExpectedStep(row) = RegWrite(row, Wrap(row.pc + Wrap(row.arch.imm)), NextPc(row))
         /\ row.opcode = "Jalr" =>
               ExpectedStep(row) = RegWrite(row, 2 * (Wrap(row.arch.rs1_value + Wrap(row.arch.imm)) \div 2), NextPc(row))
         /\ row.opcode \in BranchOps => ExpectedStep(row) = ExpectedBranch(row)
         /\ row.opcode \in {"Fence", "Ecall"} => ExpectedStep(row) = NoRegWrite(row, NextPc(row), 0)
<1>1. CASE row.opcode \in AluOps
  BY <1>1 DEF ExpectedStep, AluOps, ImmediateOps, BranchOps, LoadOps, StoreOps, NarrowLoads, NarrowStores
<1>2. CASE row.opcode \notin AluOps
  BY <1>2 DEF ExpectedStep, BranchOps, LoadOps, StoreOps, NarrowLoads, NarrowStores
<1>3. QED  BY <1>1, <1>2

\* What the verifier refuses to execute the executor does not record.
LEMMA Executable ==
  ASSUME NEW e, NEW n, IsStep(e, n), NEW ti, NEW row, row = OrdinaryRow(e, ti)
  PROVE  ~Unexecutable(row)
<1> DEFINE op == e.decoded.op
           addr == AddrOf(e)
<1>1. /\ row.opcode = op /\ row.memory_before = e.memory_before
      /\ Wrap(row.rs1_value + Wrap(row.imm)) = addr
      /\ Wrap(row.pc + row.imm) = Wrap(e.prev.pc + ImmOf(e))
      /\ (Taken(row.opcode, row.arch.rs1_value, row.arch.rs2_value) <=> TakenBy(e))
  BY OrdinaryIs, OrdinaryWords DEF Shape
<1>2. op \in LoadOps \cup StoreOps => AccessIsAligned(e) /\ e.memory_before # None
  <2>1. ASSUME op \in LoadOps \cup StoreOps PROVE IsLoadStep(e) \/ IsStoreStep(e)
    BY <2>1 DEF IsStep, IsOutcome, IsAluStep, IsUpperStep, IsJumpStep, IsBranchStep,
                IsFenceStep, IsEcallStep, LoadOps, StoreOps, NarrowLoads, NarrowStores, AluOps, BranchOps
  <2>2. \A a : ReadMem(e.prev.mem, a) \in Word  BY StepFields, ReadIsWord
  <2>3. None \notin Word  BY NoneAssumption, WordIs
  <2>4. IsLoadStep(e) \/ IsStoreStep(e) =>
           AccessIsAligned(e) /\ e.memory_before = ReadMem(e.prev.mem, BackingAddr(AddrOf(e)))
    BY DEF IsLoadStep, IsStoreStep, Accesses
  <2>5. QED  BY <2>1, <2>2, <2>3, <2>4
<1>3. op = "Jalr" => (2 * (addr \div 2)) % 4 = 0
  BY DEF IsStep, IsOutcome, IsAluStep, IsUpperStep, IsLoadStep, IsStoreStep, IsJumpStep, IsBranchStep,
         IsFenceStep, IsEcallStep, LoadOps, StoreOps, NarrowLoads, NarrowStores, AluOps, BranchOps
<1>4. op \in BranchOps /\ TakenBy(e) => Wrap(e.prev.pc + ImmOf(e)) % 4 = 0
  <2>1. ASSUME op \in BranchOps PROVE IsBranchStep(e)
    BY <2>1 DEF IsStep, IsOutcome, IsAluStep, IsUpperStep, IsLoadStep, IsStoreStep, IsJumpStep,
                IsFenceStep, IsEcallStep, LoadOps, StoreOps, NarrowLoads, NarrowStores, AluOps, BranchOps
  <2>2. QED  BY <2>1 DEF IsBranchStep
<1>5. /\ NarrowOps \cup {"Ld", "Sd"} \subseteq LoadOps \cup StoreOps
      /\ "Ld" \notin NarrowOps /\ "Sd" \notin NarrowOps
  BY DEF NarrowOps, LoadOps, StoreOps, NarrowLoads, NarrowStores
<1> HIDE DEF op, addr
<1>6. QED
  <2>1. op \in NarrowOps => Aligned(op, addr)  BY <1>2, <1>5 DEF AccessIsAligned, op, addr
  <2>2. op \in {"Ld", "Sd"} => addr % 8 = 0  BY <1>2, <1>5 DEF AccessIsAligned, op, addr
  <2>3. op \in NarrowOps \cup {"Ld", "Sd"} => row.memory_before # None  BY <1>1, <1>2, <1>5
  <2>4. QED  BY <1>1, <1>3, <1>4, <2>1, <2>2, <2>3 DEF Unexecutable

\* The expected step of a row is the executed one.
LEMMA ExpectedIs ==
  ASSUME NEW e, NEW n, IsStep(e, n), NEW ti, NEW row, row = OrdinaryRow(e, ti)
  PROVE  IsExpected(ExpectedStep(row), e)
<1> DEFINE op == e.decoded.op
           np == NextPc(row)
           x == ExpectedStep(row)
           addr == AddrOf(e)
           v == e.alu_result
           target == Wrap(e.prev.pc + ImmOf(e))
<1>1. /\ row.opcode = op /\ row.arch.rd = e.decoded.rd
      /\ row.arch.rs1_value = e.rs1_value /\ row.arch.rs2_value = e.rs2_value
      /\ row.rs2_value = e.rs2_value /\ row.memory_before = e.memory_before
  BY OrdinaryIs DEF Shape
<1>2. /\ Wrap(row.arch.imm) = ImmOf(e) /\ Wrap(row.rs1_value + row.imm) = addr
      /\ Wrap(row.arch.rs1_value + Wrap(row.arch.imm)) = addr /\ np = e.prev.pc + 4
      /\ Wrap(row.pc + Wrap(row.arch.imm)) = target /\ Wrap(row.pc + row.imm) = target
      /\ (Taken(row.opcode, row.arch.rs1_value, row.arch.rs2_value) <=> TakenBy(e))
  BY OrdinaryWords
<1>3. ASSUME NEW pc, x = RegWrite(row, pc, v), op \in WritingOps, pc = e.next.pc, Accesses(e, None, None, None)
      PROVE  IsExpected(x, e)
  <2> DEFINE r == IF row.arch.rd = 0 THEN 0 ELSE v
  <2>1. Shape(RegWrite(row, pc, v), pc, v, None, None, None, row.arch.rd # 0, FALSE, r)  BY ONLY RegWriteIs
  <2>2. r = (IF row.arch.rd = 0 THEN 0 ELSE v)  OBVIOUS
  <2> HIDE DEF x, r
  <2>3. Shape(x, pc, v, None, None, None, row.arch.rd # 0, FALSE, r)  BY <1>3, <2>1
  <2>4. QED  BY <1>3, <2>2, <2>3, WritesExpected
<1>4. ASSUME NEW pc, x = NoRegWrite(row, pc, v), op \notin WritingOps, op \notin StoreOps,
             pc = e.next.pc, Accesses(e, None, None, None)
      PROVE  IsExpected(x, e)
  <2>1. Shape(NoRegWrite(row, pc, v), pc, v, None, None, None, FALSE, FALSE, row.rd_before)
    BY ONLY NoRegWriteIs
  <2>2. FALSE = (op \in StoreOps)  BY <1>4
  <2> HIDE DEF x
  <2>3. Shape(x, pc, v, None, None, None, FALSE, FALSE, row.rd_before)  BY <1>4, <2>1
  <2>4. QED  BY <1>4, <2>2, <2>3, KeepsExpected
<1>5. /\ op \in AluOps \cup LoadOps \cup {"Lui", "Auipc", "Jal", "Jalr"} => op \in WritingOps
      /\ op \in BranchOps \cup StoreOps \cup {"Fence", "Ecall"} => op \notin WritingOps
      /\ op \in BranchOps \cup {"Fence", "Ecall"} => op \notin StoreOps
  BY DEF WritingOps, AluOps, LoadOps, StoreOps, NarrowLoads, NarrowStores, BranchOps
<1>6. CASE IsAluStep(e)
  <2>1. op \in AluOps /\ v = Alu(op, e.rs1_value, IF op \in ImmediateOps THEN ImmOf(e) ELSE e.rs2_value)
    BY <1>6 DEF IsAluStep
  <2>2. x = RegWrite(row, np, v)  BY <1>1, <1>2, <2>1, ExpectedOf
  <2>3. np = e.next.pc /\ Accesses(e, None, None, None)  BY <1>2, <1>6, PcAfter DEF IsAluStep
  <2> HIDE DEF x, np
  <2>4. IsExpected(x, e)  BY <1>3, <1>5, <2>1, <2>2, <2>3
  <2>5. QED  BY <2>4 DEF x
<1>7. CASE IsUpperStep(e)
  <2>1. op \in {"Lui", "Auipc"} /\ v = (IF op = "Lui" THEN ImmOf(e) ELSE target)
    BY <1>7 DEF IsUpperStep
  <2>2. x = RegWrite(row, np, v)  BY <1>1, <1>2, <2>1, ExpectedOf
  <2>3. np = e.next.pc /\ Accesses(e, None, None, None)  BY <1>2, <1>7, PcAfter DEF IsUpperStep
  <2> HIDE DEF x, np
  <2>4. IsExpected(x, e)  BY <1>3, <1>5, <2>1, <2>2, <2>3
  <2>5. QED  BY <2>4 DEF x
<1>8. CASE IsLoadStep(e)
  <2> DEFINE word == ReadMem(e.prev.mem, BackingAddr(AddrOf(e)))
             r == IF row.arch.rd = 0 THEN 0 ELSE v
             b == row.memory_before
  <2>1. /\ op \in LoadOps /\ Accesses(e, addr, word, word)
        /\ v = IF op = "Ld" THEN word ELSE ExtractNarrow(word, addr, op)
    BY <1>8 DEF IsLoadStep
  <2>2. b = word  BY <1>1, <2>1 DEF Accesses
  <2>3. x = ExpectedLoad(row, addr)  BY <1>1, <1>2, <2>1, ExpectedOf
  <2>4. np = e.next.pc  BY <1>2, <1>8, PcAfter DEF IsLoadStep
  <2>5. v = (IF row.opcode = "Ld" THEN row.memory_before ELSE ExtractNarrow(row.memory_before, addr, row.opcode))
    BY <1>1, <2>1, <2>2
  <2> HIDE DEF addr, v
  <2>6. Shape(ExpectedLoad(row, addr), NextPc(row), v, addr, row.memory_before, row.memory_before,
              row.arch.rd # 0, FALSE, IF row.arch.rd = 0 THEN 0 ELSE v)
    BY ONLY <2>5, ExpectedLoadIs
  <2>7. r = (IF row.arch.rd = 0 THEN 0 ELSE v)  OBVIOUS
  <2> HIDE DEF x, np, r
  <2>8. Shape(x, np, v, addr, b, b, row.arch.rd # 0, FALSE, r)  BY <2>3, <2>6, <2>7 DEF np
  <2>9. Accesses(e, addr, b, b) /\ op \in WritingOps  BY <1>5, <2>1, <2>2
  <2> HIDE DEF b
  <2>10. IsExpected(x, e)  BY <2>4, <2>7, <2>8, <2>9, WritesExpected DEF v
  <2>11. QED  BY <2>10 DEF x
<1>9. CASE IsStoreStep(e)
  <2> DEFINE word == ReadMem(e.prev.mem, BackingAddr(AddrOf(e)))
             b == row.memory_before
             wram == TRUE
  <2>1. /\ op \in StoreOps /\ Accesses(e, addr, word, v) /\ Stores(e, e.prev.pc + 4)
        /\ v = IF op = "Sd" THEN e.rs2_value ELSE BlendNarrow(word, addr, op, e.rs2_value)
    BY <1>9 DEF IsStoreStep, Stores, MemOf
  <2>2. b = word  BY <1>1, <2>1 DEF Accesses
  <2>3. x = ExpectedStore(row, addr)  BY <1>1, <1>2, <2>1, ExpectedOf
  <2>4. np = e.next.pc  BY <1>2, <2>1, PcAfter
  <2>5. v = (IF row.opcode = "Sd" THEN row.rs2_value ELSE BlendNarrow(row.memory_before, addr, row.opcode, row.rs2_value))
    BY <1>1, <2>1, <2>2
  <2> HIDE DEF addr, v
  <2>6. Shape(ExpectedStore(row, addr), NextPc(row), v, addr, row.memory_before, v, FALSE, TRUE, row.rd_before)
    BY ONLY <2>5, ExpectedStoreIs
  <2> HIDE DEF x, np
  <2>7. Shape(x, np, v, addr, b, v, FALSE, wram, row.rd_before)  BY <2>3, <2>6 DEF np
  <2>8. Accesses(e, addr, b, v) /\ op \notin WritingOps /\ wram = (op \in StoreOps)  BY <1>5, <2>1, <2>2
  <2> HIDE DEF b, wram
  <2>9. IsExpected(x, e)  BY <2>4, <2>7, <2>8, KeepsExpected DEF v
  <2>10. QED  BY <2>9 DEF x
<1>10. CASE IsJumpStep(e)
  <2> DEFINE pc == IF op = "Jal" THEN target ELSE 2 * (addr \div 2)
  <2>1. op \in {"Jal", "Jalr"} /\ v = e.prev.pc + 4 /\ Accesses(e, None, None, None)
    BY <1>10 DEF IsJumpStep
  <2>2. Retires(e, pc)  BY <1>10, Zenon DEF IsJumpStep, Retires
  <2>3. x = RegWrite(row, pc, v)  BY <1>1, <1>2, <2>1, ExpectedOf
  <2> HIDE DEF x, np, pc
  <2>4. pc = e.next.pc  BY <2>2, PcAfter
  <2>5. IsExpected(x, e)  BY <1>3, <1>5, <2>1, <2>3, <2>4
  <2>6. QED  BY <2>5 DEF x
<1>11. CASE IsBranchStep(e)
  <2> DEFINE pc == IF TakenBy(e) THEN target ELSE e.prev.pc + 4
  <2>1. op \in BranchOps /\ v = Bool(TakenBy(e)) /\ Moves(e, pc) /\ Accesses(e, None, None, None)
    BY <1>11 DEF IsBranchStep, Moves
  <2>2. x = ExpectedBranch(row)  BY <1>1, <2>1, ExpectedOf
  <2>3. x = NoRegWrite(row, pc, v)  BY <1>2, <2>1, <2>2 DEF ExpectedBranch, Bool
  <2> HIDE DEF x, np, pc
  <2>4. pc = e.next.pc  BY <2>1, PcAfter
  <2>5. IsExpected(x, e)  BY <1>4, <1>5, <2>1, <2>3, <2>4
  <2>6. QED  BY <2>5 DEF x
<1>12. CASE IsFenceStep(e) \/ IsEcallStep(e)
  <2>1. op \in {"Fence", "Ecall"} /\ v = 0 /\ Accesses(e, None, None, None)
        /\ (Moves(e, e.prev.pc + 4) \/ Halts(e, e.prev.pc + 4))
    BY <1>12 DEF IsFenceStep, IsEcallStep, Moves, Halts
  <2>2. x = NoRegWrite(row, np, v)  BY <1>1, <2>1, ExpectedOf
  <2>3. np = e.next.pc  BY <1>2, <2>1, PcAfter
  <2> HIDE DEF x, np
  <2>4. IsExpected(x, e)  BY <1>4, <1>5, <2>1, <2>2, <2>3
  <2>5. QED  BY <2>4 DEF x
<1>13. QED  BY <1>6, <1>7, <1>8, <1>9, <1>10, <1>11, <1>12 DEF IsStep, IsOutcome

-----------------------------------------------------------------------------
(* Stage 1, on the rows of a step.                                         *)

\* The row of a step that is not expanded passes.
LEMMA OrdinaryHolds ==
  ASSUME NEW e, NEW n, IsStep(e, n), e.decoded.op \notin InlineOps, NEW ti
  PROVE  SequenceHolds(LowerStep(e, ti))
<1> DEFINE row == OrdinaryRow(e, ti)
           x == ExpectedStep(row)
<1>1. LowerStep(e, ti) = <<row>>  BY DEF LowerStep
<1>2. ~Unexecutable(row) /\ IsExpected(x, e)  BY Executable, ExpectedIs
<1>3. /\ row.opcode = e.decoded.op /\ row.trace_opcode = e.decoded.op /\ row.sequence_index = 0
      /\ row.is_first_in_sequence /\ row.virtual_sequence_remaining = None
      /\ row.is_effect_row /\ row.is_commit_row /\ row.is_real /\ IsExpected(row, e)
  BY OrdinaryIs DEF IsExpected
<1> HIDE DEF row
<1>4. OrdinaryRowHolds(row)
  <2> HIDE DEF x
  <2>1. \A f \in {"rd_after", "effective_addr", "memory_before", "memory_after", "writes_rd",
                  "writes_ram", "next_pc", "alu_result"} : row[f] = x[f]
    BY <1>2, <1>3 DEF IsExpected, Shape
  <2>2. QED  BY <1>3, <2>1 DEF OrdinaryRowHolds, x
<1>5. <<row>>[1] = row /\ Len(<<row>>) = 1  OBVIOUS
<1>6. QED  BY <1>1, <1>2, <1>3, <1>4, <1>5 DEF SequenceHolds

\* seed_trace_registers assigns one role after another.
AssignRole(d, acc, role) ==
  [ok   |-> /\ acc.ok
            /\ IF role.reg = 0 THEN role.value = 0 ELSE acc.regs[role.reg] \in {0, role.value},
   regs |-> WriteReg(acc.regs, role.reg, role.value)]

Seeding == INSTANCE FoldFacts WITH Op <- AssignRole

\* The known registers are as before the step, and the others are zero.
Seeded(acc, e, known) ==
  acc.ok /\ acc.regs = [r \in AllRegs |-> IF r \in known THEN TraceRegs(e)[r] ELSE 0]

\* One role makes its register known.
LEMMA SeedRole ==
  ASSUME NEW e, NEW n, IsStep(e, n), NEW acc, NEW known, Seeded(acc, e, known), NEW r \in Regs,
         NEW role, role.reg = r, role.value = e.prev.regs[r]
  PROVE  Seeded(AssignRole(0, acc, role), e, known \cup {r})
<1>1. e.prev.regs[0] = 0 /\ r \in AllRegs /\ TraceRegs(e)[r] = e.prev.regs[r]
  BY StepFields DEF AllRegs, TraceRegs
<1> DEFINE value == TraceRegs(e)
           seeded == [x \in AllRegs |-> IF x \in known THEN value[x] ELSE 0]
<1> HIDE DEF value
<1>2. acc.ok /\ acc.regs = seeded  BY DEF Seeded, value
<1>3. role.value = value[r] /\ role.reg = r /\ (r = 0 => value[r] = 0)  BY <1>1 DEF value
<1>4. WriteReg(seeded, r, value[r]) = [x \in AllRegs |-> IF x \in known \cup {r} THEN value[x] ELSE 0]
  BY <1>1, <1>3 DEF WriteReg
<1>5. IF role.reg = 0 THEN role.value = 0 ELSE acc.regs[role.reg] \in {0, role.value}
  BY <1>1, <1>2, <1>3
<1> HIDE DEF seeded
<1>6. QED  BY <1>2, <1>3, <1>4, <1>5 DEF AssignRole, Seeded, value

\* Short sequences.
LEMMA TuplesAppend ==
  ASSUME NEW a, NEW b, NEW c
  PROVE  /\ IsSeq(<<a>>) /\ IsSeq(<<a, b>>)
         /\ Append(<<a>>, b) = <<a, b>> /\ Append(<<a, b>>, c) = <<a, b, c>>
<1> DEFINE S == {a, b, c}
<1>1. <<a>> \in Seq(S) /\ <<a, b>> \in Seq(S) /\ <<a, b, c>> \in Seq(S)  OBVIOUS
<1>2. IsSeq(<<a>>) /\ IsSeq(<<a, b>>) /\ IsSeq(<<a, b, c>>)  BY <1>1, IsSeqOfSet
<1>3. Len(<<a>>) = 1 /\ Len(<<a, b>>) = 2 /\ Len(<<a, b, c>>) = 3  OBVIOUS
<1>4. Append(<<a>>, b) = <<a, b>>
  <2> DEFINE s == Append(<<a>>, b)
  <2>1. IsSeq(s) /\ Len(s) = 2 /\ s[1] = a /\ s[2] = b  BY <1>2, <1>3, AppendSeq
  <2> HIDE DEF s
  <2>2. \A i \in 1..2 : s[i] = <<a, b>>[i]  BY <2>1
  <2>3. s = <<a, b>>  BY <1>2, <1>3, <2>1, <2>2, SameSeq
  <2>4. QED  BY <2>3 DEF s
<1>5. Append(<<a, b>>, c) = <<a, b, c>>
  <2> DEFINE s == Append(<<a, b>>, c)
  <2>1. IsSeq(s) /\ Len(s) = 3 /\ s[1] = a /\ s[2] = b /\ s[3] = c  BY <1>2, <1>3, AppendSeq
  <2> HIDE DEF s
  <2>2. \A i \in 1..3 : s[i] = <<a, b, c>>[i]  BY <2>1
  <2>3. s = <<a, b, c>>  BY <1>2, <1>3, <2>1, <2>2, SameSeq
  <2>4. QED  BY <2>3 DEF s
<1>6. QED  BY <1>2, <1>4, <1>5

\* The fold that seeds the registers.
LEMMA SeedFold ==
  ASSUME NEW arch
  PROVE  SeedTraceRegisters(arch)
           = Seeding!Fold(0, [ok |-> TRUE, regs |-> [r \in Regs \cup ScratchRegs |-> 0]],
                          << [reg |-> arch.rs1, value |-> arch.rs1_value],
                             [reg |-> arch.rs2, value |-> arch.rs2_value],
                             [reg |-> arch.rd,  value |-> arch.rd_before] >>)
<1> DEFINE base == [ok |-> TRUE, regs |-> [r \in Regs \cup ScratchRegs |-> 0]]
           roles == << [reg |-> arch.rs1, value |-> arch.rs1_value],
                       [reg |-> arch.rs2, value |-> arch.rs2_value],
                       [reg |-> arch.rd,  value |-> arch.rd_before] >>
<1>1. SeedTraceRegisters(arch)
        = FoldLeft(LAMBDA acc, role :
             [ok   |-> /\ acc.ok
                       /\ IF role.reg = 0 THEN role.value = 0 ELSE acc.regs[role.reg] \in {0, role.value},
              regs |-> WriteReg(acc.regs, role.reg, role.value)], base, roles)
  BY DEF SeedTraceRegisters, FoldLeft, MapThenFoldSet, Max
<1> HIDE DEF base, roles
<1>2. SeedTraceRegisters(arch) = Seeding!Fold(0, base, roles)
  BY <1>1 DEF Seeding!Fold, AssignRole, FoldLeft, MapThenFoldSet, Seeding!FoldLeft,
         Seeding!MapThenFoldSet, Max, Seeding!Max
<1>3. QED  BY <1>2 DEF base, roles

\* The verifier's registers before the first row of a step.
LEMMA SeedIs ==
  ASSUME NEW e, NEW n, IsStep(e, n)
  PROVE  Seeded(SeedTraceRegisters(Architectural(e)), e, {e.decoded.rs1, e.decoded.rs2, e.decoded.rd})
<1> DEFINE arch == Architectural(e)
           r1 == [reg |-> arch.rs1, value |-> arch.rs1_value]
           r2 == [reg |-> arch.rs2, value |-> arch.rs2_value]
           r3 == [reg |-> arch.rd,  value |-> arch.rd_before]
           base == [ok |-> TRUE, regs |-> [r \in Regs \cup ScratchRegs |-> 0]]
           rs1 == e.decoded.rs1
           rs2 == e.decoded.rs2
           rd == e.decoded.rd
<1>1. /\ r1.reg = rs1 /\ r1.value = e.prev.regs[rs1] /\ r2.reg = rs2 /\ r2.value = e.prev.regs[rs2]
      /\ r3.reg = rd /\ r3.value = e.prev.regs[rd] /\ rs1 \in Regs /\ rs2 \in Regs /\ rd \in Regs
  BY StepFields DEF Architectural
<1>2. Seeded(base, e, {})  BY DEF Seeded, AllRegs
<1>3. SeedTraceRegisters(arch) = Seeding!Fold(0, base, <<r1, r2, r3>>)  BY SeedFold
<1> HIDE DEF r1, r2, r3, base
<1>4. /\ Seeding!Fold(0, base, <<r1>>) = AssignRole(0, base, r1)
      /\ Seeding!Fold(0, base, <<r1, r2>>) = AssignRole(0, Seeding!Fold(0, base, <<r1>>), r2)
      /\ Seeding!Fold(0, base, <<r1, r2, r3>>) = AssignRole(0, Seeding!Fold(0, base, <<r1, r2>>), r3)
  <2>1. /\ IsSeq(<<r1>>) /\ IsSeq(<<r1, r2>>) /\ Append(<<r1>>, r2) = <<r1, r2>>
        /\ Append(<<r1, r2>>, r3) = <<r1, r2, r3>>
    BY TuplesAppend
  <2>2. Seeding!IsSeq(<<r1>>) /\ Seeding!IsSeq(<<r1, r2>>)  BY <2>1 DEF IsSeq, Seeding!IsSeq
  <2>3. Seeding!Fold(0, base, Append(<<r1>>, r2)) = AssignRole(0, Seeding!Fold(0, base, <<r1>>), r2)
    BY ONLY <2>2, Seeding!FoldOfAppend
  <2>4. Seeding!Fold(0, base, Append(<<r1, r2>>, r3)) = AssignRole(0, Seeding!Fold(0, base, <<r1, r2>>), r3)
    BY ONLY <2>2, Seeding!FoldOfAppend
  <2>5. Seeding!Fold(0, base, <<r1>>) = AssignRole(0, base, r1)  BY ONLY Seeding!FoldOfOne
  <2>6. QED  BY <2>1, <2>3, <2>4, <2>5
<1> DEFINE a1 == AssignRole(0, base, r1)
           a2 == AssignRole(0, a1, r2)
           a3 == AssignRole(0, a2, r3)
<1>5. Seeded(a1, e, {} \cup {rs1})  BY <1>1, <1>2, SeedRole
<1> HIDE DEF a1
<1>6. Seeded(a2, e, {} \cup {rs1} \cup {rs2})  BY <1>1, <1>5, SeedRole
<1> HIDE DEF a2
<1>7. Seeded(a3, e, {} \cup {rs1} \cup {rs2} \cup {rd})  BY <1>1, <1>6, SeedRole
<1> HIDE DEF a3
<1>8. {} \cup {rs1} \cup {rs2} \cup {rd} = {rs1, rs2, rd}  OBVIOUS
<1>9. SeedTraceRegisters(arch) = a3  BY <1>3, <1>4 DEF a1, a2, a3
<1>10. QED  BY <1>7, <1>8, <1>9

\* Two register files that agree on what the rows of a step use.
UsedBy(e) == {0, e.decoded.rs1, e.decoded.rs2, e.decoded.rd} \cup ScratchRegs

Agree(e, x, y) == DOMAIN x = AllRegs /\ DOMAIN y = AllRegs /\ \A r \in UsedBy(e) : x[r] = y[r]

\* The first row, as the verifier uses it.
IsFirst(first, x, e) == /\ first.opcode = e.decoded.op /\ first.arch = Architectural(e)
                        /\ first.pc = e.prev.pc /\ x.next_pc = e.next.pc

\* What the check knows before the k-th row of a plan.
CheckReady(e, plan, k, regs, acc, first, x, spec) ==
  /\ spec = plan.steps[k + 1] /\ acc.index = k /\ acc.ok
  /\ Agree(e, acc.regs, regs) /\ IsFirst(first, x, e) /\ UsedBy(e) \subseteq AllRegs
  /\ spec.rs1 \in UsedBy(e) /\ spec.rs2 \in UsedBy(e) /\ spec.rd \in UsedBy(e)
  /\ HintHolds(e.decoded.op, spec, regs[spec.rs1], regs[spec.rs2])

\* A row built from the plan passes the check, which goes on with the register file the row leaves.
LEMMA CheckedRow ==
  ASSUME NEW e, NEW plan, NEW k \in Nat, NEW ti, NEW regs, NEW acc, NEW first, NEW x, NEW spec,
         CheckReady(e, plan, k, regs, acc, first, x, spec),
         NEW row, row = InlineRow(e, plan, k, ti, regs),
         NEW c, c = CheckInlineRow(acc, first, plan, x, row)
  PROVE  c.index = k + 1 /\ c.ok /\ Agree(e, c.regs, WriteReg(regs, spec.rd, RowResult(spec, regs)))
<1>1. /\ spec = plan.steps[k + 1] /\ acc.index = k /\ acc.ok
      /\ Agree(e, acc.regs, regs) /\ IsFirst(first, x, e) /\ UsedBy(e) \subseteq AllRegs
      /\ spec.rs1 \in UsedBy(e) /\ spec.rs2 \in UsedBy(e) /\ spec.rd \in UsedBy(e)
      /\ HintHolds(e.decoded.op, spec, regs[spec.rs1], regs[spec.rs2])
  BY DEF CheckReady
<1> DEFINE a == regs[spec.rs1]
           b == regs[spec.rs2]
           result == TraceResult(spec, a, b)
           after == WriteReg(acc.regs, spec.rd, result)
<1>2. acc.regs[spec.rs1] = a /\ acc.regs[spec.rs2] = b /\ acc.regs[spec.rd] = regs[spec.rd]  BY <1>1 DEF Agree
<1>3. Agree(e, after, WriteReg(regs, spec.rd, result))
  <2> HIDE DEF result
  <2>1. QED  BY <1>1 DEF Agree, WriteReg
<1>4. RowResult(spec, regs) = result  BY DEF RowResult
<1> HIDE DEF a, b, result, after
<1>5. after[spec.rd] = WriteReg(regs, spec.rd, result)[spec.rd]  BY <1>1, <1>3 DEF Agree
<1>6. c.index = k + 1 /\ c.regs = after  BY <1>1, <1>2 DEF CheckInlineRow, result, after
<1>7. /\ row.trace_opcode = spec.op /\ row.arch = first.arch
      /\ row.rs1 = spec.rs1 /\ row.rs1_value = a /\ row.rs2 = spec.rs2 /\ row.rs2_value = b
      /\ row.rd = spec.rd /\ row.rd_before = acc.regs[spec.rd]
      /\ row.rd_after = after[spec.rd] /\ row.imm = spec.imm
      /\ row.alu_result = result /\ row.writes_rd = (spec.rd # 0)
      /\ row.effective_addr = None /\ ~row.writes_ram
      /\ row.memory_before = None /\ row.memory_after = None
      /\ row.next_pc = (IF k + 1 = Len(plan.steps) THEN x.next_pc ELSE first.pc)
      /\ row.is_first_in_sequence = (k = 0)
      /\ row.virtual_sequence_remaining = Len(plan.steps) - k - 1
      /\ row.is_effect_row = (k = plan.effect_index)
      /\ row.is_commit_row = (k + 1 = Len(plan.steps)) /\ row.is_real = (k + 1 = Len(plan.steps))
  <2>1. /\ row.trace_opcode = spec.op /\ row.arch = Architectural(e)
        /\ row.rs1 = spec.rs1 /\ row.rs1_value = a /\ row.rs2 = spec.rs2 /\ row.rs2_value = b
        /\ row.rd = spec.rd /\ row.rd_before = regs[spec.rd] /\ row.imm = spec.imm
        /\ row.effective_addr = None /\ row.memory_before = None /\ row.memory_after = None
    BY <1>1 DEF InlineRow, a, b
  <2>2. row.alu_result = result /\ row.rd_after = WriteReg(regs, spec.rd, result)[spec.rd]
    BY <1>1 DEF InlineRow, a, b, result
  <2>3. /\ row.next_pc = (IF k + 1 = Len(plan.steps) THEN e.next.pc ELSE e.prev.pc)
        /\ row.virtual_sequence_remaining = Len(plan.steps) - k - 1
    BY <1>1 DEF InlineRow
  <2>4. /\ row.writes_rd = (spec.rd # 0) /\ ~row.writes_ram
        /\ row.is_first_in_sequence = (k = 0) /\ row.is_effect_row = (k = plan.effect_index)
        /\ row.is_commit_row = (k + 1 = Len(plan.steps)) /\ row.is_real = (k + 1 = Len(plan.steps))
    BY <1>1 DEF InlineRow
  <2>5. first.arch = Architectural(e) /\ first.pc = e.prev.pc /\ x.next_pc = e.next.pc  BY <1>1 DEF IsFirst
  <2>6. QED  BY <1>1, <1>2, <1>5, <2>1, <2>2, <2>3, <2>4, <2>5
<1>8. HintHolds(first.opcode, spec, a, b)  BY <1>1 DEF IsFirst, a, b
<1>9. c.ok  BY <1>1, <1>2, <1>7, <1>8 DEF CheckInlineRow, result, after
<1>10. QED  BY <1>3, <1>4, <1>6, <1>9

CheckNext(d, acc, row) == CheckInlineRow(acc, d[1], d[2], d[3], row)

Checking == INSTANCE FoldFacts WITH Op <- CheckNext

\* The hints of a step's plan are those of the operands its rows see.
LEMMA HintsHold ==
  ASSUME NEW e, NEW n, IsStep(e, n), e.decoded.op \in InlineOps, NEW trace, IsTrace(trace, e, PlanOf(e).steps),
         NEW k \in 1..Len(PlanOf(e).steps)
  PROVE  LET s == PlanOf(e).steps
         IN  /\ HintHolds(e.decoded.op, s[k], trace[k - 1][s[k].rs1], trace[k - 1][s[k].rs2])
             /\ s[k].rd \in UsedBy(e) /\ s[k].rs1 \in UsedBy(e) /\ s[k].rs2 \in UsedBy(e)
<1> DEFINE s == PlanOf(e).steps
           op == e.decoded.op
           rs1 == e.decoded.rs1
           rs2 == e.decoded.rs2
           rd == e.decoded.rd
           a == e.rs1_value
           b == e.rs2_value
<1>1. /\ Len(s) \in Nat /\ IsRow(s, k, op, a, b, rs1, rs2, rd)
      /\ \A j \in 1..Len(s) : s[j].rd \in AllRegs
  BY InlineIsAlu, TraceRuns DEF IsPlan
<1>2. /\ rs1 \in AllRegs /\ rs2 \in AllRegs /\ rs1 \notin ScratchRegs /\ rs2 \notin ScratchRegs /\ e.prev.regs[0] = 0
      /\ trace[0][rs1] = a /\ trace[0][rs2] = b
  BY StepFields, ScratchIs, TraceRuns DEF AllRegs
<1> HIDE DEF s
<1>3. IsTrace(trace, e, s)  BY DEF s
<1>4. s[k].rd \in UsedBy(e) /\ s[k].rs1 \in UsedBy(e) /\ s[k].rs2 \in UsedBy(e)
  BY <1>1 DEF IsRow, UsedBy
<1>5. ASSUME s[k].op \in {"Advice", "ChangeDivisor"}
      PROVE  s[k].hint = ExpectedHint(op, s[k], trace[k - 1][s[k].rs1], trace[k - 1][s[k].rs2])
  <2>1. /\ s[k].rs1 = rs1 /\ s[k].rs2 = rs2 /\ s[k].hint = ExpectedHint(op, s[k], a, b)
        /\ \A j \in 1..(k - 1) : s[j].rd \in ScratchRegs
    BY <1>1, <1>5 DEF IsRow
  <2> DEFINE m == k - 1
  <2>2. m \in 0..Len(s)  BY <1>1 DEF s
  <2>3. \A j \in 1..m : s[j].rd # rs1  BY <1>2, <2>1
  <2>4. \A j \in 1..m : s[j].rd # rs2  BY <1>2, <2>1
  <2>5. /\ Len(s) \in Nat /\ IsTrace(trace, e, s) /\ \A j \in 1..Len(s) : s[j].rd \in AllRegs
        /\ e.prev.regs[0] = 0 /\ rs1 \in AllRegs /\ rs2 \in AllRegs
    BY <1>1, <1>2, <1>3
  <2> HIDE DEF m, rs1, rs2
  <2>6. trace[m][rs1] = trace[0][rs1]  BY ONLY <2>2, <2>3, <2>5, TraceKeeps
  <2>7. trace[m][rs2] = trace[0][rs2]  BY ONLY <2>2, <2>4, <2>5, TraceKeeps
  <2>8. trace[0][rs1] = a /\ trace[0][rs2] = b  BY <1>2 DEF rs1, rs2
  <2>9. s[k].rs1 = rs1 /\ s[k].rs2 = rs2  BY <2>1 DEF rs1, rs2
  <2>10. trace[m][s[k].rs1] = a /\ trace[m][s[k].rs2] = b  BY <2>6, <2>7, <2>8, <2>9
  <2>11. QED  BY <2>1, <2>10 DEF m
<1>6. HintHolds(op, s[k], trace[k - 1][s[k].rs1], trace[k - 1][s[k].rs2])  BY <1>5 DEF HintHolds
<1>7. QED  BY <1>4, <1>6 DEF s

\* The check of a sequence against its plan is the fold of the checks of its rows.
LEMMA InlineRowsFold ==
  ASSUME NEW piece, NEW plan
  PROVE  LET seed == SeedTraceRegisters(piece[1].arch)
         IN  InlineRowsHold(piece, plan)
               <=> /\ seed.ok /\ Len(piece) = Len(plan.steps)
                   /\ Checking!Fold(<<piece[1], plan, ExpectedStep(piece[1])>>,
                                    [index |-> 0, regs |-> seed.regs, ok |-> TRUE], piece).ok
<1> DEFINE d == <<piece[1], plan, ExpectedStep(piece[1])>>
           seed == SeedTraceRegisters(piece[1].arch)
           base == [index |-> 0, regs |-> seed.regs, ok |-> TRUE]
<1>1. d[1] = piece[1] /\ d[2] = plan /\ d[3] = ExpectedStep(piece[1])  OBVIOUS
<1> HIDE DEF d
<1>2. InlineRowsHold(piece, plan)
        <=> /\ seed.ok /\ Len(piece) = Len(plan.steps)
            /\ FoldLeft(LAMBDA acc, row : CheckInlineRow(acc, d[1], d[2], d[3], row), base, piece).ok
  BY <1>1 DEF InlineRowsHold, FoldLeft, MapThenFoldSet, Max
<1> HIDE DEF seed, base
<1>3. InlineRowsHold(piece, plan)
        <=> /\ seed.ok /\ Len(piece) = Len(plan.steps) /\ Checking!Fold(d, base, piece).ok
  BY <1>2 DEF Checking!Fold, CheckNext, FoldLeft, MapThenFoldSet, Checking!FoldLeft,
              Checking!MapThenFoldSet, Max, Checking!Max
<1>4. QED  BY <1>3 DEF d, seed, base

\* The rows of an expanded step pass.
LEMMA InlineHolds ==
  ASSUME NEW e, NEW n, IsStep(e, n), e.decoded.op \in InlineOps, NEW ti
  PROVE  SequenceHolds(LowerStep(e, ti))
<1> DEFINE piece == LowerStep(e, ti)
           plan == PlanOf(e)
           s == plan.steps
           m == Len(s)
           first == piece[1]
           x == ExpectedStep(first)
           arch == Architectural(e)
           seed == SeedTraceRegisters(arch)
           base == [index |-> 0, regs |-> seed.regs, ok |-> TRUE]
           d == <<first, plan, x>>
<1>1. PICK trace : IsExpansion(piece, e, ti, trace)  BY StepIsExpanded
<1>2. /\ IsTrace(trace, e, s) /\ IsSeq(piece) /\ Len(piece) = m
      /\ \A k \in 1..m : piece[k] = InlineRow(e, plan, k - 1, ti, trace[k - 1])
  BY <1>1 DEF IsExpansion
<1>3. m \in Nat \ {0}  BY InlineIsAlu DEF IsPlan
<1>4. first = InlineRow(e, plan, 0, ti, trace[0])  BY <1>2, <1>3
<1>5. /\ first.opcode = e.decoded.op /\ first.arch = arch /\ first.pc = e.prev.pc
      /\ first.sequence_index = 0 /\ first.is_first_in_sequence
  <2> HIDE DEF first
  <2>1. QED  BY <1>4 DEF InlineRow
<1>6. e.decoded.op \in AluOps /\ e.next.pc = e.prev.pc + 4
  BY InlineIsAlu, PcAfter DEF IsAluStep
<1>7. NextPc(first) = e.prev.pc + 4
  <2>1. e.prev.pc + 4 \in Word /\ e.prev.pc + 4 \in Int  BY StepFields, WordIs
  <2>2. Wrap(e.prev.pc + 4) = e.prev.pc + 4  BY <2>1, WrapIs
  <2>3. QED  BY <1>5, <2>2 DEF NextPc
<1>8. IsFirst(first, x, e)
  <2> HIDE DEF first
  <2> DEFINE value == Alu(first.opcode, first.arch.rs1_value,
                          IF first.opcode \in ImmediateOps THEN Wrap(first.arch.imm) ELSE first.arch.rs2_value)
             np == NextPc(first)
  <2>1. x = RegWrite(first, np, value)  BY <1>5, <1>6, ExpectedOf
  <2> HIDE DEF value, np, x
  <2>2. RegWrite(first, np, value).next_pc = np  BY DEF RegWrite
  <2>3. x.next_pc = NextPc(first)  BY <2>1, <2>2 DEF np
  <2> HIDE DEF x, arch
  <2>4. QED  BY <1>5, <1>6, <1>7, <2>3 DEF IsFirst, arch
<1>9. ~Unexecutable(first)
  <2>1. e.decoded.op \notin NarrowOps \cup {"Ld", "Sd", "Jalr"} \cup BranchOps
    BY DEF InlineOps, DivOps, RemOps, NarrowOps, NarrowLoads, NarrowStores, BranchOps
  <2> HIDE DEF first
  <2>2. QED  BY <1>5, <2>1 DEF Unexecutable
<1>10. Seeded(seed, e, {e.decoded.rs1, e.decoded.rs2, e.decoded.rd})  BY SeedIs
<1>11. UsedBy(e) \subseteq AllRegs  BY StepFields, ScratchIs DEF UsedBy, AllRegs
<1>12. seed.ok /\ Agree(e, seed.regs, trace[0])
  <2>1. trace[0] = TraceRegs(e) /\ e.prev.regs[0] = 0  BY <1>2, StepFields DEF IsTrace
  <2> HIDE DEF seed
  <2>2. \A r \in UsedBy(e) : r \in {e.decoded.rs1, e.decoded.rs2, e.decoded.rd} \/ TraceRegs(e)[r] = 0
    <3>1. \A r \in ScratchRegs : r \notin Regs  BY ScratchIs
    <3>2. QED  BY <1>11, <2>1, <3>1, ScratchIs DEF UsedBy, TraceRegs, AllRegs
  <2>3. DOMAIN TraceRegs(e) = AllRegs  BY DEF TraceRegs, AllRegs
  <2>4. QED  BY <1>10, <1>11, <2>1, <2>2, <2>3 DEF Seeded, Agree
<1>13. d[1] = first /\ d[2] = plan /\ d[3] = x  OBVIOUS
<1>14. InlineRowsHold(piece, plan)
         <=> (seed.ok /\ Len(piece) = m /\ Checking!Fold(d, base, piece).ok)
  <2>1. first.arch = arch  BY <1>5
  <2> DEFINE seedOf == SeedTraceRegisters(first.arch)
             baseOf == [index |-> 0, regs |-> seedOf.regs, ok |-> TRUE]
  <2>2. InlineRowsHold(piece, plan)
          <=> (seedOf.ok /\ Len(piece) = m /\ Checking!Fold(d, baseOf, piece).ok)
    <3> HIDE DEF piece, plan
    <3>1. QED  BY ONLY InlineRowsFold
  <2> HIDE DEF first, piece, plan, d
  <2>3. seedOf = seed /\ baseOf = base  BY <2>1
  <2> HIDE DEF seed, base, seedOf, baseOf
  <2>4. QED  BY <2>2, <2>3
<1> HIDE DEF d
<1>15. Checking!IsSeq(piece)  BY <1>2 DEF IsSeq, Checking!IsSeq
<1>16. PICK g : Checking!IsRun(d, g, base, piece, Len(piece)) /\ Checking!Fold(d, base, piece) = g[Len(piece)]
  BY <1>15, Checking!FoldIsRun
<1>17. g[0] = base /\ \A k \in 1..m : g[k] = CheckNext(d, g[k - 1], piece[k])
  BY <1>2, <1>16 DEF Checking!IsRun
<1> DEFINE S == {k \in 0..m : g[k].index = k /\ g[k].ok /\ Agree(e, g[k].regs, trace[k])}
<1>18. 0 \in S
  <2>1. base.index = 0 /\ base.ok /\ base.regs = seed.regs  OBVIOUS
  <2> HIDE DEF base, seed
  <2>2. QED  BY <1>3, <1>12, <1>17, <2>1
<1>19. ASSUME NEW k \in 0..m, k \in S /\ k < m PROVE k + 1 \in S
  <2> DEFINE spec == s[k + 1]
             row == piece[k + 1]
             c == g[k + 1]
             regs == trace[k]
  <2>1. k + 1 \in 1..m /\ (k + 1) - 1 = k /\ k \in Nat /\ k + 1 \in 0..m  BY <1>3, <1>19
  <2>2. c = CheckInlineRow(g[k], first, plan, x, row)  BY <1>13, <1>17, <2>1 DEF CheckNext
  <2>3. row = InlineRow(e, plan, k, ti, regs)  BY <1>2, <2>1
  <2>4. /\ HintHolds(e.decoded.op, spec, regs[spec.rs1], regs[spec.rs2])
        /\ spec.rd \in UsedBy(e) /\ spec.rs1 \in UsedBy(e) /\ spec.rs2 \in UsedBy(e)
    BY <1>2, <2>1, HintsHold
  <2>5. trace[k + 1] = WriteReg(regs, spec.rd, RowResult(spec, regs))  BY <1>2, <2>1 DEF IsTrace
  <2>6. g[k].index = k /\ g[k].ok /\ Agree(e, g[k].regs, regs)  BY <1>19
  <2>7. spec = plan.steps[k + 1]  OBVIOUS
  <2>8. CheckReady(e, plan, k, regs, g[k], first, x, spec)
    <3> HIDE DEF spec, row, c, regs, plan, first, x
    <3>1. QED  BY <1>8, <1>11, <2>4, <2>6, <2>7 DEF CheckReady
  <2> HIDE DEF spec, row, c, regs, plan, first, x
  <2>9. c.index = k + 1 /\ c.ok /\ Agree(e, c.regs, WriteReg(regs, spec.rd, RowResult(spec, regs)))
    BY ONLY <2>1, <2>2, <2>3, <2>8, CheckedRow
  <2>10. QED  BY <2>1, <2>5, <2>9 DEF c
<1> HIDE DEF S
<1>20. \A k \in 0..m : k \in S  BY <1>3, <1>18, <1>19, InductionUpTo
<1>21. m \in S  BY <1>3, <1>20
<1>22. g[m].ok  BY <1>21 DEF S
<1>23. InlineRowsHold(piece, plan)  BY <1>2, <1>12, <1>14, <1>16, <1>22
<1>24. CanonicalTracePlan(first.opcode, first.arch.rs1_value, first.arch.rs2_value,
                          first.arch.rs1, first.arch.rs2, first.arch.rd) = plan
  BY <1>5 DEF PlanOf, Architectural
<1> HIDE DEF piece, plan
<1>25. QED  BY <1>5, <1>9, <1>23, <1>24 DEF SequenceHolds, piece

\* The rows of every step pass.
LEMMA StepHolds ==
  ASSUME NEW e, NEW n, IsStep(e, n), NEW ti
  PROVE  SequenceHolds(LowerStep(e, ti))
BY OrdinaryHolds, InlineHolds

-----------------------------------------------------------------------------
(* What the rows of a step read and write.                                 *)

\* A row's registers, before and after it.
RowRuns(row, x, y) ==
  /\ row.rs1 \in AllRegs /\ row.rs2 \in AllRegs /\ row.rd \in AllRegs
  /\ row.rs1_value = x[row.rs1] /\ row.rs2_value = x[row.rs2]
  /\ row.writes_rd => row.rd # 0 /\ row.rd_before = x[row.rd]
  /\ \A r \in AllRegs : y[r] = IF row.writes_rd /\ r = row.rd THEN row.rd_after ELSE x[r]

\* A row's memory, before and after it.
RowAccesses(row, mem, after) ==
  IF row.effective_addr = None
  THEN row.memory_before = None /\ row.memory_after = None /\ after = mem
  ELSE /\ row.memory_before # None /\ row.memory_after # None
       /\ row.memory_before = ReadMem(mem, CanonicalRamAddr(row))
       /\ row.writes_ram => after = WriteMem(mem, CanonicalRamAddr(row), row.memory_after)
       /\ ~row.writes_ram => after = mem /\ row.memory_after = row.memory_before

\* The scratch registers that the first j rows of a sequence write.
WritesScratch(row) == row.writes_rd /\ row.rd \in ScratchRegs

WrittenBy(piece, j) == {piece[i].rd : i \in {i \in 1..j : WritesScratch(piece[i])}}

\* files[j] are the registers after j rows of the sequence.
FilesRun(files, e, piece) ==
  /\ \A j \in 0..Len(piece) : DOMAIN files[j] = AllRegs /\ files[j][0] = 0
  /\ \A r \in Regs : files[0][r] = e.prev.regs[r] /\ files[Len(piece)][r] = e.next.regs[r]
  /\ \A r \in ScratchRegs : files[0][r] = 0
  /\ \A j \in 1..Len(piece) : RowRuns(piece[j], files[j - 1], files[j])

\* A scratch register is read after it is written.
ReadsWritten(piece, j) ==
  /\ RowReadsRs1(piece[j]) /\ piece[j].rs1 \in ScratchRegs => piece[j].rs1 \in WrittenBy(piece, j - 1)
  /\ RowReadsRs2(piece[j]) /\ piece[j].rs2 \in ScratchRegs => piece[j].rs2 \in WrittenBy(piece, j - 1)

\* The last row commits the step, and only it touches memory.
RowCommits(row, last, e, n) ==
  /\ row.step_index = n /\ row.pc = e.prev.pc
  /\ row.is_commit_row = last /\ row.is_real = last
  /\ last => /\ row.next_pc = e.next.pc /\ row.halted = e.next.halted
             /\ e.decoded.op = "Ecall" => row.trace_opcode = "Ecall"
  /\ RowAccesses(row, e.prev.mem, IF last THEN e.next.mem ELSE e.prev.mem)

StepRuns(files, e, n, piece) ==
  /\ FilesRun(files, e, piece)
  /\ \A j \in 1..Len(piece) : ReadsWritten(piece, j) /\ RowCommits(piece[j], j = Len(piece), e, n)

\* The memory word of an ordinary row.
LEMMA OrdinaryAccess ==
  ASSUME NEW e, NEW n, IsStep(e, n), NEW ti, NEW row, row = OrdinaryRow(e, ti)
  PROVE  RowAccesses(row, e.prev.mem, e.next.mem)
<1> DEFINE op == e.decoded.op
           addr == AddrOf(e)
           back == BackingAddr(addr)
           mem == e.prev.mem
           word == ReadMem(mem, back)
<1>1. /\ row.effective_addr = e.effective_addr /\ row.memory_before = e.memory_before
      /\ row.memory_after = e.memory_after /\ row.writes_ram = (op \in StoreOps) /\ row.trace_opcode = op
  BY OrdinaryIs DEF Shape
<1>2. addr \in Word /\ word \in Word /\ (addr % 8 = 0 => back = addr)
  BY StepWords, StepFields, ReadIsWord, BackingIs
<1>3. \A v \in Word : v # None  BY WordIs, NoneAssumption
<1>4. e.alu_result \in Word
      /\ e.next.mem = IF op \in StoreOps THEN WriteMem(mem, back, e.alu_result) ELSE mem
  BY StepKeeps DEF StepDoes
<1>5. ASSUME op \in LoadOps \cup StoreOps, AccessIsAligned(e), e.effective_addr = addr
      PROVE  CanonicalRamAddr(row) = back
  <2>1. CASE op \in NarrowOps  BY <1>1, <1>5, <2>1 DEF CanonicalRamAddr
  <2>2. CASE op \notin NarrowOps
    <3>1. addr % 8 = 0  BY <1>5, <2>2 DEF AccessIsAligned
    <3>2. QED  BY <1>1, <1>2, <1>5, <2>2, <3>1 DEF CanonicalRamAddr
  <2>3. QED  BY <2>1, <2>2
<1> HIDE DEF addr, back, mem, word, op
<1>6. CASE IsLoadStep(e)
  <2>1. op \in LoadOps /\ AccessIsAligned(e) /\ Accesses(e, addr, word, word)
    BY <1>6 DEF IsLoadStep, addr, back, mem, word, op
  <2>2. op \notin StoreOps  BY <2>1, OpsApart
  <2>3. e.effective_addr = addr /\ e.memory_before = word /\ e.memory_after = word
    BY <2>1 DEF Accesses
  <2>4. CanonicalRamAddr(row) = back  BY <1>5, <2>1, <2>3
  <2>5. ReadMem(mem, CanonicalRamAddr(row)) = word /\ row.effective_addr # None /\ word # None
    BY <1>1, <1>2, <1>3, <2>3, <2>4 DEF word
  <2>6. e.next.mem = mem /\ ~row.writes_ram  BY <1>1, <1>4, <2>2
  <2>7. RowAccesses(row, mem, e.next.mem)  BY <1>1, <2>3, <2>5, <2>6 DEF RowAccesses
  <2>8. QED  BY <2>7 DEF mem
<1>7. CASE IsStoreStep(e)
  <2>1. op \in StoreOps /\ AccessIsAligned(e) /\ Accesses(e, addr, word, e.alu_result)
    BY <1>7 DEF IsStoreStep, addr, back, mem, word, op
  <2>2. e.effective_addr = addr /\ e.memory_before = word /\ e.memory_after = e.alu_result
    BY <2>1 DEF Accesses
  <2>3. CanonicalRamAddr(row) = back  BY <1>5, <2>1, <2>2
  <2>4. ReadMem(mem, CanonicalRamAddr(row)) = word /\ row.effective_addr # None /\ word # None /\ e.alu_result # None
    BY <1>1, <1>2, <1>3, <1>4, <2>2, <2>3 DEF word
  <2>5. e.next.mem = WriteMem(mem, back, e.alu_result) /\ row.writes_ram  BY <1>1, <1>4, <2>1
  <2>6. RowAccesses(row, mem, e.next.mem)  BY <1>1, <2>2, <2>3, <2>4, <2>5 DEF RowAccesses
  <2>7. QED  BY <2>6 DEF mem
<1>8. CASE ~IsLoadStep(e) /\ ~IsStoreStep(e)
  <2>1. Accesses(e, None, None, None) /\ op \notin StoreOps
    <3>1. IsAluStep(e) \/ IsUpperStep(e) \/ IsJumpStep(e) \/ IsBranchStep(e) \/ IsFenceStep(e) \/ IsEcallStep(e)
      BY <1>8 DEF IsStep, IsOutcome
    <3>2. op \in AluOps \cup {"Lui", "Auipc", "Jal", "Jalr"} \cup BranchOps \cup {"Fence", "Ecall"}
          /\ Accesses(e, None, None, None)
      BY <3>1 DEF IsAluStep, IsUpperStep, IsJumpStep, IsBranchStep, IsFenceStep, IsEcallStep, op
    <3>3. QED  BY <3>2, OpsApart
  <2>2. /\ row.effective_addr = None /\ row.memory_before = None /\ row.memory_after = None
        /\ e.next.mem = mem
    BY <1>1, <1>4, <2>1 DEF Accesses
  <2>3. QED  BY <2>2 DEF RowAccesses, mem
<1>9. QED  BY <1>6, <1>7, <1>8

\* The registers before and after the row of a step that is not expanded.
LEMMA OrdinaryRuns ==
  ASSUME NEW e, NEW n, IsStep(e, n), e.decoded.op \notin InlineOps, NEW ti
  PROVE  \E files : StepRuns(files, e, n, LowerStep(e, ti))
<1> DEFINE row == OrdinaryRow(e, ti)
           piece == LowerStep(e, ti)
           after == [r \in AllRegs |-> IF r \in Regs THEN e.next.regs[r] ELSE 0]
           before == TraceRegs(e)
           files == [j \in 0..1 |-> IF j = 0 THEN before ELSE after]
           prev == e.prev.regs
           next == e.next.regs
           rd == e.decoded.rd
           v == e.alu_result
<1>1. piece = <<row>>  BY DEF LowerStep
<1>2. Len(piece) = 1 /\ piece[1] = row /\ \A j \in 1..Len(piece) : j = 1
  <2> HIDE DEF row, piece
  <2>1. QED  BY <1>1
<1>3. /\ e.decoded.rs1 \in Regs /\ e.decoded.rs2 \in Regs /\ rd \in Regs
      /\ prev \in [Regs -> Word] /\ prev[0] = 0 /\ e.rd_before = prev[rd]
      /\ e.rs1_value = prev[e.decoded.rs1] /\ e.rs2_value = prev[e.decoded.rs2]
  BY StepFields
<1>4. next = (IF e.decoded.op \in WritingOps THEN WriteReg(prev, rd, v) ELSE prev) /\ v \in Word
      /\ next \in [Regs -> Word] /\ next[0] = 0
  BY StepKeeps DEF StepDoes, IsMachineState
<1>5. /\ row.rs1 = e.decoded.rs1 /\ row.rs2 = e.decoded.rs2 /\ row.rd = rd
      /\ row.rs1_value = e.rs1_value /\ row.rs2_value = e.rs2_value /\ row.rd_before = e.rd_before
      /\ row.writes_rd = (e.decoded.op \in WritingOps /\ rd # 0) /\ row.rd_after = next[rd]
  BY OrdinaryIs DEF Shape
<1>6. RowCommits(row, 1 = Len(piece), e, n)
  <2>1. /\ row.step_index = n /\ row.pc = e.prev.pc /\ row.next_pc = e.next.pc /\ row.halted = e.next.halted
        /\ row.trace_opcode = e.decoded.op
    BY OrdinaryIs DEF Shape
  <2>2. row.is_commit_row = TRUE /\ row.is_real = TRUE  BY DEF OrdinaryRow
  <2>3. RowAccesses(row, e.prev.mem, e.next.mem)  BY OrdinaryAccess
  <2> HIDE DEF row, piece
  <2>4. (1 = Len(piece)) = TRUE  BY <1>2
  <2>5. QED  BY <2>1, <2>2, <2>3, <2>4 DEF RowCommits
<1>7. 0 \in Regs /\ 0 \in AllRegs /\ \A r \in ScratchRegs : r \notin Regs  BY ScratchIs DEF AllRegs
<1>8. files[0] = before /\ files[1] = after  OBVIOUS
<1>9. DOMAIN before = AllRegs /\ \A r \in AllRegs : before[r] = IF r \in Regs THEN prev[r] ELSE 0
  BY DEF TraceRegs, AllRegs
<1>10. DOMAIN after = AllRegs /\ \A r \in AllRegs : after[r] = IF r \in Regs THEN next[r] ELSE 0
  OBVIOUS
<1> HIDE DEF row, files, before, after, prev, next, rd, v, piece
<1>11. \A r \in Regs : next[r] = IF (e.decoded.op \in WritingOps /\ rd # 0) /\ r = rd THEN next[rd] ELSE prev[r]
  BY <1>3, <1>4, <1>7 DEF WriteReg
<1>12. RowRuns(row, before, after)
  <2>1. \A r \in AllRegs : after[r] = IF row.writes_rd /\ r = row.rd THEN row.rd_after ELSE before[r]
    <3> TAKE r \in AllRegs
    <3>1. CASE r \in Regs
      <4>1. after[r] = next[r] /\ before[r] = prev[r]  BY <1>9, <1>10, <3>1
      <4>2. QED  BY <1>5, <1>11, <3>1, <4>1
    <3>2. CASE r \notin Regs
      <4>1. after[r] = 0 /\ before[r] = 0 /\ r # rd  BY <1>3, <1>9, <1>10, <3>2
      <4>2. QED  BY <1>5, <4>1
    <3>3. QED  BY <3>1, <3>2
  <2>2. /\ row.rs1 \in AllRegs /\ row.rs2 \in AllRegs /\ row.rd \in AllRegs
        /\ row.rs1_value = before[row.rs1] /\ row.rs2_value = before[row.rs2]
        /\ row.writes_rd => row.rd # 0 /\ row.rd_before = before[row.rd]
    BY <1>3, <1>5, <1>9 DEF AllRegs
  <2>3. QED  BY <2>1, <2>2 DEF RowRuns
<1>13. FilesRun(files, e, piece)
  <2>1. \A j \in 0..Len(piece) : j = 0 \/ j = 1  BY <1>2
  <2>2. \A j \in 0..Len(piece) : DOMAIN files[j] = AllRegs /\ files[j][0] = 0
    BY <1>3, <1>4, <1>7, <1>8, <1>9, <1>10, <2>1
  <2>3. \A r \in Regs : files[0][r] = prev[r] /\ files[Len(piece)][r] = next[r]
    BY <1>2, <1>8, <1>9, <1>10 DEF AllRegs
  <2>4. \A r \in ScratchRegs : files[0][r] = 0  BY <1>7, <1>8, <1>9 DEF AllRegs
  <2>5. \A j \in 1..Len(piece) : RowRuns(piece[j], files[j - 1], files[j])  BY <1>2, <1>8, <1>12
  <2>6. QED  BY <2>2, <2>3, <2>4, <2>5 DEF FilesRun, prev, next
<1>14. ReadsWritten(piece, 1)
  <2>1. row.rs1 \notin ScratchRegs /\ row.rs2 \notin ScratchRegs  BY <1>3, <1>5, <1>7
  <2>2. QED  BY <1>2, <2>1 DEF ReadsWritten
<1>15. StepRuns(files, e, n, piece)  BY <1>2, <1>6, <1>13, <1>14 DEF StepRuns
<1>16. QED  BY <1>15 DEF piece

\* The rows of a plan read what its instructions name.
LEMMA RowOpReads ==
  ASSUME NEW row, row.trace_opcode \in RowOps, RowReadsRs2(row)
  PROVE  row.trace_opcode \in ReadsRs2Ops
<1>1. \A op \in RowOps : op \notin NarrowStores \cup {"Sd"} \cup BranchOps
  BY DEF RowOps, VirtualOps, AluOps, BinaryAluOps, ImmediateOps, NarrowStores, BranchOps
<1>2. \A op \in RowOps : op \in BinaryAluOps => op \notin InlineOps
  BY DEF RowOps, VirtualOps, AluOps, BinaryAluOps, ImmediateOps, InlineOps, DivOps, RemOps
<1>3. QED  BY <1>1, <1>2 DEF RowReadsRs2, ReadsRs2Ops

\* The fields of a row of an expanded step that its registers, its memory and its commit concern.
LEMMA InlineFields ==
  ASSUME NEW e, NEW plan, NEW k, NEW ti, NEW regs, NEW row, row = InlineRow(e, plan, k, ti, regs),
         NEW spec, spec = plan.steps[k + 1], NEW last, last = (k + 1 = Len(plan.steps))
  PROVE  /\ row.step_index = e.step_index /\ row.pc = e.prev.pc
         /\ row.next_pc = (IF last THEN e.next.pc ELSE e.prev.pc) /\ row.halted = (last /\ e.next.halted)
         /\ row.trace_opcode = spec.op
         /\ row.rs1 = spec.rs1 /\ row.rs1_value = regs[spec.rs1]
         /\ row.rs2 = spec.rs2 /\ row.rs2_value = regs[spec.rs2]
         /\ row.rd = spec.rd /\ row.rd_before = regs[spec.rd] /\ row.writes_rd = (spec.rd # 0)
         /\ row.rd_after = WriteReg(regs, spec.rd, RowResult(spec, regs))[spec.rd]
         /\ row.effective_addr = None /\ row.memory_before = None /\ row.memory_after = None
         /\ row.is_commit_row = last /\ row.is_real = last
BY DEF InlineRow, RowResult

\* The registers that an expanded step leaves.
LEMMA InlineLeaves ==
  ASSUME NEW e, NEW n, IsStep(e, n), e.decoded.op \in InlineOps, NEW trace, IsTrace(trace, e, PlanOf(e).steps),
         NEW r \in Regs
  PROVE  trace[Len(PlanOf(e).steps)][r] = e.next.regs[r]
<1> DEFINE plan == PlanOf(e)
           s == plan.steps
           m == Len(s)
           op == e.decoded.op
           rs1 == e.decoded.rs1
           rs2 == e.decoded.rs2
           rd == e.decoded.rd
           a == e.rs1_value
           b == e.rs2_value
           v == e.alu_result
           prev == e.prev.regs
<1>1. /\ rs1 \in Regs /\ rs2 \in Regs /\ rd \in Regs /\ a \in Word /\ b \in Word
      /\ prev \in [Regs -> Word] /\ prev[0] = 0
  BY StepFields
<1>2. /\ Runs(trace, s, m) /\ trace[0][rs1] = a /\ trace[0][rs2] = b
      /\ \A k \in 1..m : s[k].rd \in AllRegs
  BY TraceRuns
<1>3. /\ m \in Nat /\ \A k \in 1..m : s[k].rd \in {rd} \cup ScratchRegs
      /\ v = Alu(op, a, b) /\ op \in WritingOps
  BY InlineIsAlu DEF IsPlan, IsRow
<1>4. e.next.regs = WriteReg(prev, rd, v) /\ v \in Word  BY <1>3, StepKeeps DEF StepDoes
<1>5. r \in AllRegs /\ r \notin ScratchRegs /\ trace[0][r] = prev[r]
  <2>1. trace[0] = TraceRegs(e)  BY DEF IsTrace
  <2>2. QED  BY <2>1, ScratchIs DEF TraceRegs, AllRegs
<1>6. IsTrace(trace, e, s)  OBVIOUS
<1>7. \A q \in Regs : WriteReg(prev, rd, v)[q] = IF q = rd /\ q # 0 THEN v ELSE prev[q]
  <2>1. v \in Word  BY <1>4
  <2>2. rd \in Regs  BY <1>1
  <2>3. prev \in [Regs -> Word]  BY <1>1
  <2> HIDE DEF prev, rd, v
  <2>4. WriteReg(prev, rd, v) = [prev EXCEPT ![rd] = IF rd = 0 THEN 0 ELSE v] /\ prev[0] = 0  BY <1>1 DEF WriteReg
  <2> DEFINE w == WriteReg(prev, rd, v)
  <2> HIDE DEF w
  <2>5. w = [prev EXCEPT ![rd] = IF rd = 0 THEN 0 ELSE v]  BY <2>4 DEF w
  <2>6. \A q \in Regs : w[q] = IF q = rd /\ q # 0 THEN v ELSE prev[q]  BY <2>2, <2>3, <2>4, <2>5
  <2>7. QED  BY <2>6 DEF w
<1>8. CASE r = rd /\ r # 0
  <2>1. plan = CanonicalTracePlan(op, a, b, rs1, rs2, rd)  BY DEF PlanOf
  <2> HIDE DEF plan
  <2>2. Computes(trace, s, plan.effect_index, rd, Alu(op, a, b))  BY <1>1, <1>2, <1>8, <2>1, PlanComputes
  <2>3. trace[m][rd] = v  BY <1>3, <2>2 DEF Computes
  <2>4. QED  BY <1>4, <1>7, <1>8, <2>3 DEF plan
<1>9. CASE r # rd
  <2>1. m \in 0..Len(s) /\ \A k \in 1..m : s[k].rd # r  BY <1>3, <1>5, <1>9
  <2> HIDE DEF s, prev, rd
  <2>2. e.prev.regs[0] = 0  BY <1>1 DEF prev
  <2>3. trace[m][r] = trace[0][r]  BY ONLY <1>2, <1>3, <1>5, <1>6, <2>1, <2>2, TraceKeeps
  <2>4. QED  BY <1>4, <1>5, <1>7, <1>9, <2>3 DEF s
<1>10. CASE r = 0
  <2>1. m \in 0..m  BY <1>3
  <2>2. trace[m][0] = 0  BY <2>1, TraceRuns
  <2>3. QED  BY <1>1, <1>4, <1>7, <1>10, <2>2
<1>11. QED  BY <1>8, <1>9, <1>10

\* The registers before and after each row of an expanded step.
LEMMA InlineRuns ==
  ASSUME NEW e, NEW n, IsStep(e, n), e.decoded.op \in InlineOps, NEW ti
  PROVE  \E files : StepRuns(files, e, n, LowerStep(e, ti))
<1> DEFINE piece == LowerStep(e, ti)
           plan == PlanOf(e)
           s == plan.steps
           m == Len(piece)
           rd == e.decoded.rd
<1>1. PICK trace : IsExpansion(piece, e, ti, trace)  BY StepIsExpanded
<1>2. /\ IsTrace(trace, e, s) /\ m = Len(s)
      /\ \A j \in 1..m : piece[j] = InlineRow(e, plan, j - 1, ti, trace[j - 1])
  BY <1>1 DEF IsExpansion
<1>3. /\ m \in Nat \ {0}
      /\ \A j \in 1..m : IsRow(s, j, e.decoded.op, e.rs1_value, e.rs2_value, e.decoded.rs1, e.decoded.rs2, rd)
  BY <1>2, InlineIsAlu DEF IsPlan
<1>4. /\ Runs(trace, s, m)
      /\ \A j \in 0..m : DOMAIN trace[j] = AllRegs /\ trace[j][0] = 0
      /\ \A j \in 1..m : s[j].rd \in AllRegs /\ s[j].rs1 \in AllRegs /\ s[j].rs2 \in AllRegs
  BY <1>2, TraceRuns
<1>5. \A r \in Regs : trace[m][r] = e.next.regs[r]  BY <1>2, InlineLeaves
<1>6. \A r \in AllRegs : trace[0][r] = IF r \in Regs THEN e.prev.regs[r] ELSE 0
  <2>1. trace[0] = TraceRegs(e)  BY <1>2 DEF IsTrace
  <2>2. QED  BY <2>1 DEF TraceRegs, AllRegs
<1>7. e.step_index = n  BY StepFields
<1>8. e.next.mem = e.prev.mem /\ e.next.halted \in BOOLEAN /\ e.decoded.op # "Ecall"
  <2>1. e.decoded.op \notin StoreOps /\ e.decoded.op \in WritingOps  BY InlineIsAlu
  <2>2. e.decoded.op # "Ecall"  BY <2>1, OpsApart
  <2>3. QED  BY <2>1, <2>2, StepKeeps DEF StepDoes
<1> DEFINE Fields(row, j) ==
      /\ row.step_index = n /\ row.pc = e.prev.pc
      /\ row.next_pc = (IF j = m THEN e.next.pc ELSE e.prev.pc) /\ row.halted = (j = m /\ e.next.halted)
      /\ row.trace_opcode = s[j].op
      /\ row.rs1 = s[j].rs1 /\ row.rs1_value = trace[j - 1][s[j].rs1]
      /\ row.rs2 = s[j].rs2 /\ row.rs2_value = trace[j - 1][s[j].rs2]
      /\ row.rd = s[j].rd /\ row.rd_before = trace[j - 1][s[j].rd] /\ row.writes_rd = (s[j].rd # 0)
      /\ row.rd_after = WriteReg(trace[j - 1], s[j].rd, RowResult(s[j], trace[j - 1]))[s[j].rd]
      /\ row.effective_addr = None /\ row.memory_before = None /\ row.memory_after = None
      /\ row.is_commit_row = (j = m) /\ row.is_real = (j = m)
<1>9. ASSUME NEW j \in 1..m PROVE Fields(piece[j], j)
  <2> DEFINE k == j - 1
             regs == trace[k]
             spec == plan.steps[k + 1]
             last == (k + 1 = Len(plan.steps))
             row == piece[j]
  <2>1. row = InlineRow(e, plan, k, ti, regs)  BY <1>2
  <2>2. k + 1 = j  BY <1>3
  <2>3. last = (j = m)  BY <1>2, <2>2
  <2>4. spec = s[j]  BY <2>2
  <2>5. spec = plan.steps[k + 1] /\ last = (k + 1 = Len(plan.steps))  OBVIOUS
  <2> DEFINE Is(sp, la) ==
         /\ row.step_index = e.step_index /\ row.pc = e.prev.pc
         /\ row.next_pc = (IF la THEN e.next.pc ELSE e.prev.pc) /\ row.halted = (la /\ e.next.halted)
         /\ row.trace_opcode = sp.op
         /\ row.rs1 = sp.rs1 /\ row.rs1_value = regs[sp.rs1]
         /\ row.rs2 = sp.rs2 /\ row.rs2_value = regs[sp.rs2]
         /\ row.rd = sp.rd /\ row.rd_before = regs[sp.rd] /\ row.writes_rd = (sp.rd # 0)
         /\ row.rd_after = WriteReg(regs, sp.rd, RowResult(sp, regs))[sp.rd]
         /\ row.effective_addr = None /\ row.memory_before = None /\ row.memory_after = None
         /\ row.is_commit_row = la /\ row.is_real = la
  <2> HIDE DEF k, regs, spec, last, row, plan, m
  <2>6. Is(spec, last)  BY ONLY <2>1, <2>5, InlineFields
  <2> HIDE DEF Is
  <2>7. Is(s[j], j = m)  BY <2>3, <2>4, <2>6
  <2>8. QED  BY <1>7, <2>7 DEF Is, row, regs, k
<1> HIDE DEF piece, plan, s, m, rd
<1>10. ASSUME NEW j \in 1..m PROVE RowRuns(piece[j], trace[j - 1], trace[j])
  <2> DEFINE row == piece[j]
             x == trace[j - 1]
             y == trace[j]
             spec == s[j]
  <2>1. Fields(row, j)  BY <1>9
  <2>2. /\ row.rs1 = spec.rs1 /\ row.rs1_value = x[spec.rs1] /\ row.rs2 = spec.rs2 /\ row.rs2_value = x[spec.rs2]
        /\ row.rd = spec.rd /\ row.rd_before = x[spec.rd] /\ row.writes_rd = (spec.rd # 0)
        /\ row.rd_after = WriteReg(x, spec.rd, RowResult(spec, x))[spec.rd]
    BY <2>1
  <2>3. spec.rd \in AllRegs /\ spec.rs1 \in AllRegs /\ spec.rs2 \in AllRegs  BY <1>4
  <2>4. DOMAIN x = AllRegs
    <3>1. j - 1 \in 0..m  BY <1>3
    <3>2. QED  BY <1>4, <3>1
  <2>5. \A r \in AllRegs : y[r] = IF r = spec.rd /\ r # 0 THEN RowResult(spec, x) ELSE x[r]
    BY <1>4 DEF Runs
  <2> HIDE DEF row, x, y, spec, Fields
  <2>6. spec.rd # 0 => row.rd_after = RowResult(spec, x)  BY <2>2, <2>3, <2>4 DEF WriteReg
  <2>7. \A r \in AllRegs : y[r] = IF row.writes_rd /\ r = row.rd THEN row.rd_after ELSE x[r]
    BY <2>2, <2>5, <2>6
  <2>8. RowRuns(row, x, y)  BY <2>2, <2>3, <2>7 DEF RowRuns
  <2>9. QED  BY <2>8 DEF row, x, y
<1>11. FilesRun(trace, e, piece)
  <2>1. 0 \in Regs /\ \A r \in ScratchRegs : r \in AllRegs /\ r \notin Regs  BY ScratchIs DEF AllRegs
  <2>2. \A r \in Regs : r \in AllRegs  BY DEF AllRegs
  <2>3. QED  BY <1>4, <1>5, <1>6, <1>10, <2>1, <2>2 DEF FilesRun, m
<1>12. ASSUME NEW j \in 1..m PROVE ReadsWritten(piece, j)
  <2>1. IsRow(s, j, e.decoded.op, e.rs1_value, e.rs2_value, e.decoded.rs1, e.decoded.rs2, rd)
        /\ Fields(piece[j], j)
    BY <1>3, <1>9
  <2>2. /\ s[j].op \in RowOps /\ piece[j].trace_opcode = s[j].op
        /\ piece[j].rs1 = s[j].rs1 /\ piece[j].rs2 = s[j].rs2
    BY <2>1 DEF IsRow
  <2>3. ASSUME NEW r \in ScratchRegs, \E i \in 1..(j - 1) : s[i].rd = r
        PROVE  r \in WrittenBy(piece, j - 1)
    <3>1. PICK i \in 1..(j - 1) : s[i].rd = r  BY <2>3
    <3>2. i \in 1..m  BY <1>3
    <3>3. Fields(piece[i], i) /\ r # 0  BY <1>9, <3>2, ScratchIs
    <3>4. piece[i].rd = r /\ piece[i].writes_rd = (r # 0)  BY <3>1, <3>3
    <3>5. WritesScratch(piece[i])  BY <3>3, <3>4 DEF WritesScratch
    <3>6. QED  BY <3>4, <3>5 DEF WrittenBy
  <2> HIDE DEF Fields
  <2>4. piece[j].rs1 \in ScratchRegs => piece[j].rs1 \in WrittenBy(piece, j - 1)  BY <2>1, <2>2, <2>3 DEF IsRow
  <2>5. RowReadsRs2(piece[j]) => s[j].op \in ReadsRs2Ops  BY <2>2, RowOpReads
  <2>6. RowReadsRs2(piece[j]) /\ piece[j].rs2 \in ScratchRegs => piece[j].rs2 \in WrittenBy(piece, j - 1)
    BY <2>1, <2>2, <2>3, <2>5 DEF IsRow
  <2>7. QED  BY <2>4, <2>6 DEF ReadsWritten
<1>13. ASSUME NEW j \in 1..m PROVE RowCommits(piece[j], j = m, e, n)
  <2> DEFINE row == piece[j]
             last == (j = m)
  <2>1. Fields(row, j)  BY <1>9
  <2>2. /\ row.step_index = n /\ row.pc = e.prev.pc /\ row.is_commit_row = last /\ row.is_real = last
        /\ row.effective_addr = None /\ row.memory_before = None /\ row.memory_after = None
    BY <2>1
  <2>3. last => row.next_pc = e.next.pc
    <3> HAVE last
    <3>1. QED  BY <2>1
  <2>4. last => row.halted = e.next.halted
    <3> HAVE last
    <3>1. row.halted = (TRUE /\ e.next.halted)  BY <2>1
    <3>2. QED  BY <1>8, <3>1
  <2> HIDE DEF row, last, Fields
  <2>5. RowAccesses(row, e.prev.mem, IF last THEN e.next.mem ELSE e.prev.mem)  BY <1>8, <2>2 DEF RowAccesses
  <2>6. RowCommits(row, last, e, n)  BY <1>8, <2>2, <2>3, <2>4, <2>5 DEF RowCommits
  <2>7. QED  BY <2>6 DEF row, last
<1>14. StepRuns(trace, e, n, piece)  BY <1>11, <1>12, <1>13 DEF StepRuns, m
<1>15. QED  BY <1>14 DEF piece

\* Every step's rows run from the registers before it to those after it.
LEMMA StepRunsExist ==
  ASSUME NEW e, NEW n, IsStep(e, n), NEW ti
  PROVE  \E files : StepRuns(files, e, n, LowerStep(e, ti))
BY OrdinaryRuns, InlineRuns

-----------------------------------------------------------------------------
(* Stage 2, on one row.                                                    *)

NoteRead(d, line, event)  == Note(line, event, event.value)
NoteWrite(d, line, event) == Note(line, event, event.next)
NoteRam(d, mem, event)    == IF d THEN WriteMem(mem, event.addr, event.next) ELSE mem

Reading   == INSTANCE FoldFacts WITH Op <- NoteRead
Writing   == INSTANCE FoldFacts WITH Op <- NoteWrite
Accessing == INSTANCE FoldFacts WITH Op <- NoteRam

\* The timeline after at most two reads.
LEMMA AfterReadsIs ==
  ASSUME NEW line, NEW a, NEW b
  PROVE  /\ AfterReads(line, <<>>) = line
         /\ AfterReads(line, <<a>>) = Note(line, a, a.value)
         /\ AfterReads(line, <<a, b>>) = Note(Note(line, a, a.value), b, b.value)
<1>1. ASSUME NEW s PROVE AfterReads(line, s) = Reading!Fold(0, line, s)
  BY DEF AfterReads, NoteRead, Reading!Fold, FoldLeft, MapThenFoldSet, Max, Reading!FoldLeft,
         Reading!MapThenFoldSet, Reading!Max
<1>2. /\ IsSeq(<<a>>) /\ Append(<<a>>, b) = <<a, b>> /\ IsSeq(<<>>) /\ Len(<<>>) = 0
  BY TuplesAppend, EmptyIsSeq
<1>3. Reading!IsSeq(<<a>>) /\ Reading!IsSeq(<<>>)  BY <1>2 DEF IsSeq, Reading!IsSeq
<1>4. Reading!Fold(0, line, <<>>) = line  BY ONLY <1>2, <1>3, Reading!FoldOfNone
<1>5. Reading!Fold(0, line, <<a>>) = NoteRead(0, line, a)  BY ONLY Reading!FoldOfOne
<1>6. Reading!Fold(0, line, Append(<<a>>, b)) = NoteRead(0, Reading!Fold(0, line, <<a>>), b)
  BY ONLY <1>3, Reading!FoldOfAppend
<1>7. QED  BY <1>1, <1>2, <1>4, <1>5, <1>6 DEF NoteRead

\* The timeline after at most one write, and memory after at most one access.
LEMMA AfterWritesIs ==
  ASSUME NEW line, NEW a, NEW mem, NEW row
  PROVE  /\ AfterWrites(line, <<>>) = line /\ AfterWrites(line, <<a>>) = Note(line, a, a.next)
         /\ AfterRam(mem, <<>>, row) = mem
         /\ AfterRam(mem, <<a>>, row) = IF row.writes_ram THEN WriteMem(mem, a.addr, a.next) ELSE mem
<1> DEFINE d == row.writes_ram
<1>1. ASSUME NEW s PROVE AfterWrites(line, s) = Writing!Fold(0, line, s)
  BY DEF AfterWrites, NoteWrite, Writing!Fold, FoldLeft, MapThenFoldSet, Max, Writing!FoldLeft,
         Writing!MapThenFoldSet, Writing!Max
<1>2. ASSUME NEW s PROVE AfterRam(mem, s, row) = Accessing!Fold(d, mem, s)
  BY DEF AfterRam, NoteRam, Accessing!Fold, FoldLeft, MapThenFoldSet, Max, Accessing!FoldLeft,
         Accessing!MapThenFoldSet, Accessing!Max
<1> HIDE DEF d
<1>3. IsSeq(<<>>) /\ Len(<<>>) = 0  BY EmptyIsSeq
<1>4. Writing!IsSeq(<<>>) /\ Accessing!IsSeq(<<>>)  BY <1>3 DEF IsSeq, Writing!IsSeq, Accessing!IsSeq
<1>5. Writing!Fold(0, line, <<>>) = line  BY ONLY <1>3, <1>4, Writing!FoldOfNone
<1>6. Writing!Fold(0, line, <<a>>) = NoteWrite(0, line, a)  BY ONLY Writing!FoldOfOne
<1>7. Accessing!Fold(d, mem, <<>>) = mem  BY ONLY <1>3, <1>4, Accessing!FoldOfNone
<1>8. Accessing!Fold(d, mem, <<a>>) = NoteRam(d, mem, a)  BY ONLY Accessing!FoldOfOne
<1>9. AfterWrites(line, <<>>) = line /\ AfterWrites(line, <<a>>) = Note(line, a, a.next)
  BY <1>1, <1>5, <1>6 DEF NoteWrite
<1>10. AfterRam(mem, <<>>, row) = mem /\ AfterRam(mem, <<a>>, row) = NoteRam(d, mem, a)
  BY <1>2, <1>7, <1>8
<1>11. QED  BY <1>9, <1>10 DEF NoteRam, d

\* What a timeline knows of the registers: all of the architecture's, and some scratch registers.
Known(line, file) ==
  /\ DOMAIN line = AllRegs
  /\ \A r \in Regs : line[r] = file[r]
  /\ \A r \in ScratchRegs : line[r] \in {None, file[r]}

\* Noting the value that a register has keeps a timeline right.
LEMMA NoteKnown ==
  ASSUME NEW line, NEW file, Known(line, file), NEW event, event.reg \in AllRegs, NEW value,
         value = file[event.reg]
  PROVE  Known(Note(line, event, value), file)
BY ScratchIs DEF Known, Note, AllRegs

\* A read of that value passes.
LEMMA ReadPasses ==
  ASSUME NEW line, NEW file, Known(line, file), file[0] = 0, NEW event, event.reg \in AllRegs,
         event.value = file[event.reg], event.reg \in ScratchRegs => event.reg \in Written
  PROVE  ReadHolds(event, line)
BY ScratchIs DEF Known, ReadHolds, AllRegs

\* The prefixes of short sequences.
LEMMA ShortSeqs ==
  ASSUME NEW a, NEW b
  PROVE  /\ SubSeq(<<>>, 1, 0) = <<>> /\ SubSeq(<<a>>, 1, 0) = <<>> /\ SubSeq(<<a>>, 1, 1) = <<a>>
         /\ SubSeq(<<a, b>>, 1, 0) = <<>> /\ SubSeq(<<a, b>>, 1, 1) = <<a>> /\ SubSeq(<<a, b>>, 1, 2) = <<a, b>>
         /\ Len(<<>>) = 0 /\ Len(<<a>>) = 1 /\ Len(<<a, b>>) = 2
         /\ DOMAIN <<>> = {} /\ DOMAIN <<a>> = 1..1 /\ DOMAIN <<a, b>> = 1..2
         /\ <<a>>[1] = a /\ <<a, b>>[1] = a /\ <<a, b>>[2] = b
         /\ IsSeq(<<>>) /\ IsSeq(<<a>>) /\ IsSeq(<<a, b>>)
<1> DEFINE one == <<a>>
           two == <<a, b>>
           none == <<>>
<1>1. IsSeq(none) /\ IsSeq(one) /\ IsSeq(two)  BY TuplesAppend, EmptyIsSeq
<1>2. Len(none) = 0 /\ Len(one) = 1 /\ Len(two) = 2 /\ one[1] = a /\ two[1] = a /\ two[2] = b  OBVIOUS
<1> HIDE DEF one, two, none
<1>3. DOMAIN none = {} /\ DOMAIN one = 1..1 /\ DOMAIN two = 1..2  BY <1>1, <1>2, IsSeqLen
<1>4. SubSeq(none, 1, 0) = none /\ SubSeq(one, 1, 1) = one /\ SubSeq(two, 1, 2) = two
  <2>1. SubSeq(none, 1, Len(none)) = none  BY ONLY <1>1, WholeSeq
  <2>2. SubSeq(one, 1, Len(one)) = one  BY ONLY <1>1, WholeSeq
  <2>3. SubSeq(two, 1, Len(two)) = two  BY ONLY <1>1, WholeSeq
  <2>4. QED  BY <1>2, <2>1, <2>2, <2>3
<1>5. ASSUME NEW s, IsSeq(s) PROVE SubSeq(s, 1, 0) = none
  <2> DEFINE w == SubSeq(s, 1, 0)
  <2>1. Len(s) \in Nat  BY <1>5, IsSeqLen
  <2>2. 0 <= Len(s) /\ 1 \in Nat \ {0} /\ 0 \in Nat  BY <2>1
  <2>3. IsSeq(w) /\ Len(w) = (IF 1 <= 0 THEN 0 - 1 + 1 ELSE 0)  BY <1>5, <2>2, SubSeqSeq
  <2> HIDE DEF w
  <2>4. IsSeq(w) /\ Len(w) = 0  BY <2>3
  <2>5. w = none  BY <2>4, LenZero DEF none
  <2>6. QED  BY <2>5 DEF w
<1>6. SubSeq(two, 1, 1) = one
  <2> DEFINE w == SubSeq(two, 1, 1)
  <2>1. 1 \in Nat \ {0} /\ 1 \in Nat /\ 1 <= Len(two)  BY <1>2
  <2>2. /\ IsSeq(w) /\ Len(w) = (IF 1 <= 1 THEN 1 - 1 + 1 ELSE 0)
        /\ \A i \in 1..(1 - 1 + 1) : w[i] = two[1 + i - 1]
    BY <1>1, <2>1, SubSeqSeq
  <2> HIDE DEF w
  <2>3. Len(w) = 1  BY <2>2
  <2>4. w[1] = two[1 + 1 - 1]  BY <2>2
  <2>5. w[1] = a  BY <1>2, <2>4
  <2>6. \A i \in 1..Len(w) : w[i] = one[i]  BY <1>2, <2>3, <2>5
  <2>7. w = one  BY <1>1, <1>2, <2>2, <2>3, <2>6, SameSeq
  <2>8. QED  BY <2>7 DEF w
<1>7. SubSeq(none, 1, 0) = none /\ SubSeq(one, 1, 0) = none /\ SubSeq(two, 1, 0) = none  BY <1>1, <1>5
<1>8. QED  BY <1>1, <1>2, <1>3, <1>4, <1>6, <1>7 DEF one, two, none

\* Concatenations of short sequences.
LEMMA ShortConcat ==
  ASSUME NEW a, NEW b
  PROVE  /\ <<>> \o <<>> = <<>> /\ <<a>> \o <<>> = <<a>>
         /\ <<>> \o <<b>> = <<b>> /\ <<a>> \o <<b>> = <<a, b>>
<1> DEFINE none == <<>>
           one == <<a>>
           other == <<b>>
           two == <<a, b>>
<1>1. IsSeq(none) /\ IsSeq(one) /\ IsSeq(other) /\ IsSeq(two)  BY ShortSeqs
<1>2. Len(none) = 0 /\ Len(one) = 1 /\ Len(other) = 1 /\ Len(two) = 2
      /\ one[1] = a /\ other[1] = b /\ two[1] = a /\ two[2] = b
  BY ShortSeqs
<1> HIDE DEF none, one, other, two
<1>3. ASSUME NEW s, NEW t, NEW u, IsSeq(s), IsSeq(t), IsSeq(u), Len(s) \in Nat, Len(t) \in Nat,
             Len(u) = Len(s) + Len(t),
             \A i \in 1..Len(s) : u[i] = s[i], \A i \in 1..Len(t) : u[Len(s) + i] = t[i]
      PROVE  s \o t = u
  <2> DEFINE w == s \o t
  <2>1. /\ IsSeq(w) /\ Len(w) = Len(s) + Len(t)
        /\ \A i \in 1..Len(s) : w[i] = s[i]
        /\ \A i \in 1..Len(t) : w[Len(s) + i] = t[i]
    BY <1>3, ConcatSeq
  <2> HIDE DEF w
  <2>2. ASSUME NEW i \in 1..Len(w) PROVE w[i] = u[i]
    <3>1. CASE i \in 1..Len(s)  BY <1>3, <2>1, <3>1
    <3>2. CASE i \notin 1..Len(s)
      <4>1. i - Len(s) \in 1..Len(t) /\ i = Len(s) + (i - Len(s))  BY <1>3, <2>1, <3>2
      <4>2. QED  BY <1>3, <2>1, <4>1
    <3>3. QED  BY <3>1, <3>2
  <2>3. w = u  BY <1>3, <2>1, <2>2, SameSeq
  <2>4. QED  BY <2>3 DEF w
<1>4. none \o none = none  BY <1>1, <1>2, <1>3
<1>5. one \o none = one
  <2>1. Len(one) \in Nat /\ Len(none) \in Nat /\ Len(one) = Len(one) + Len(none)  BY <1>2
  <2>2. \A i \in 1..Len(one) : one[i] = one[i]  BY <1>2
  <2>3. \A i \in 1..Len(none) : one[Len(one) + i] = none[i]  BY <1>2
  <2>4. QED  BY ONLY <1>1, <1>3, <2>1, <2>2, <2>3
<1>6. none \o other = other
  <2>1. Len(none) \in Nat /\ Len(other) \in Nat /\ Len(other) = Len(none) + Len(other)  BY <1>2
  <2>2. \A i \in 1..Len(none) : other[i] = none[i]  BY <1>2
  <2>3. \A i \in 1..Len(other) : other[Len(none) + i] = other[i]  BY <1>2
  <2>4. QED  BY ONLY <1>1, <1>3, <2>1, <2>2, <2>3
<1>7. one \o other = two
  <2>1. Len(one) \in Nat /\ Len(other) \in Nat /\ Len(two) = Len(one) + Len(other)  BY <1>2
  <2>2. \A i \in 1..Len(one) : two[i] = one[i]  BY <1>2
  <2>3. \A i \in 1..Len(other) : two[Len(one) + i] = other[i]  BY <1>2
  <2>4. QED  BY ONLY <1>1, <1>3, <2>1, <2>2, <2>3
<1>8. QED  BY <1>4, <1>5, <1>6, <1>7 DEF none, one, other, two

\* The reads of a row are of at most two registers.
LEMMA ReadsAre ==
  ASSUME NEW row, NEW a, NEW b, a = Rs1Read(row), b = Rs2Read(row)
  PROVE  /\ RowReadsRs1(row) /\ RowReadsRs2(row) => RegisterReads(row) = <<a, b>>
         /\ RowReadsRs1(row) /\ ~RowReadsRs2(row) => RegisterReads(row) = <<a>>
         /\ ~RowReadsRs1(row) /\ RowReadsRs2(row) => RegisterReads(row) = <<b>>
         /\ ~RowReadsRs1(row) /\ ~RowReadsRs2(row) => RegisterReads(row) = <<>>
<1> DEFINE p == RowReadsRs1(row)
           q == RowReadsRs2(row)
<1>1. RegisterReads(row) = (IF p THEN <<a>> ELSE <<>>) \o (IF q THEN <<b>> ELSE <<>>)
  BY DEF RegisterReads
<1>2. /\ <<>> \o <<>> = <<>> /\ <<a>> \o <<>> = <<a>>
      /\ <<>> \o <<b>> = <<b>> /\ <<a>> \o <<b>> = <<a, b>>
  BY ShortConcat
<1> DEFINE s == RegisterReads(row)
           none == <<>>
           one == <<a>>
           other == <<b>>
           two == <<a, b>>
<1>3. /\ s = (IF p THEN one ELSE none) \o (IF q THEN other ELSE none)
      /\ none \o none = none /\ one \o none = one /\ none \o other = other /\ one \o other = two
  BY <1>1, <1>2
<1> HIDE DEF s, none, one, other, two, p, q
<1>4. /\ p /\ q => s = two
      /\ p /\ ~q => s = one
      /\ ~p /\ q => s = other
      /\ ~p /\ ~q => s = none
  BY <1>3
<1>5. QED  BY <1>4 DEF s, none, one, other, two, p, q

\* The reads pass, and what they note is right.
ReadsPass(reads, line, file) ==
  /\ \A i \in DOMAIN reads : ReadHolds(reads[i], AfterReads(line, SubSeq(reads, 1, i - 1)))
  /\ Known(AfterReads(line, SubSeq(reads, 1, Len(reads))), file)

\* At most two reads pass, each where those before it lead.
LEMMA ShortReadsPass ==
  ASSUME NEW line, NEW file, Known(line, file), NEW a, NEW b
  PROVE  /\ ReadsPass(<<>>, line, file)
         /\ ReadHolds(a, line) /\ Known(Note(line, a, a.value), file) => ReadsPass(<<a>>, line, file)
         /\ /\ ReadHolds(a, line) /\ ReadHolds(b, Note(line, a, a.value))
            /\ Known(Note(Note(line, a, a.value), b, b.value), file)
            => ReadsPass(<<a, b>>, line, file)
<1> DEFINE none == <<>>
           one == <<a>>
           two == <<a, b>>
           la == Note(line, a, a.value)
           lb == Note(Note(line, a, a.value), b, b.value)
<1>1. /\ SubSeq(none, 1, 0) = none /\ SubSeq(one, 1, 0) = none /\ SubSeq(one, 1, 1) = one
      /\ SubSeq(two, 1, 0) = none /\ SubSeq(two, 1, 1) = one /\ SubSeq(two, 1, 2) = two
      /\ Len(none) = 0 /\ Len(one) = 1 /\ Len(two) = 2
      /\ DOMAIN none = {} /\ DOMAIN one = 1..1 /\ DOMAIN two = 1..2
      /\ one[1] = a /\ two[1] = a /\ two[2] = b
  BY ShortSeqs
<1>2. AfterReads(line, none) = line /\ AfterReads(line, one) = la /\ AfterReads(line, two) = lb
  BY AfterReadsIs
<1> HIDE DEF none, one, two, la, lb
<1>3. ReadsPass(none, line, file)  BY <1>1, <1>2 DEF ReadsPass
<1>4. ReadHolds(a, line) /\ Known(la, file) => ReadsPass(one, line, file)
  <2>1. \A i \in 1..1 : i = 1 /\ i - 1 = 0  OBVIOUS
  <2>2. QED  BY <1>1, <1>2, <2>1 DEF ReadsPass
<1>5. ReadHolds(a, line) /\ ReadHolds(b, la) /\ Known(lb, file) => ReadsPass(two, line, file)
  <2>1. \A i \in 1..2 : (i = 1 /\ i - 1 = 0) \/ (i = 2 /\ i - 1 = 1)  OBVIOUS
  <2>2. QED  BY <1>1, <1>2, <2>1 DEF ReadsPass
<1>6. QED  BY <1>3, <1>4, <1>5 DEF none, one, two, la, lb

\* The reads of a row pass.
LEMMA RowReadsPass ==
  ASSUME NEW row, NEW x, NEW y, RowRuns(row, x, y), x[0] = 0, NEW line, Known(line, x),
         RowReadsRs1(row) /\ row.rs1 \in ScratchRegs => row.rs1 \in Written,
         RowReadsRs2(row) /\ row.rs2 \in ScratchRegs => row.rs2 \in Written
  PROVE  ReadsPass(RegisterReads(row), line, x)
<1> DEFINE a == Rs1Read(row)
           b == Rs2Read(row)
           reads == RegisterReads(row)
<1>1. /\ a.reg = row.rs1 /\ a.value = x[a.reg] /\ a.reg \in AllRegs
      /\ b.reg = row.rs2 /\ b.value = x[b.reg] /\ b.reg \in AllRegs
  BY DEF Rs1Read, Rs2Read, RowRuns
<1>2. /\ RowReadsRs1(row) /\ RowReadsRs2(row) => reads = <<a, b>>
      /\ RowReadsRs1(row) /\ ~RowReadsRs2(row) => reads = <<a>>
      /\ ~RowReadsRs1(row) /\ RowReadsRs2(row) => reads = <<b>>
      /\ ~RowReadsRs1(row) /\ ~RowReadsRs2(row) => reads = <<>>
  BY ReadsAre
<1> HIDE DEF a, b, reads
<1>3. ASSUME NEW l, Known(l, x)
      PROVE  /\ Known(Note(l, a, a.value), x) /\ Known(Note(l, b, b.value), x)
             /\ RowReadsRs1(row) => ReadHolds(a, l)
             /\ RowReadsRs2(row) => ReadHolds(b, l)
  <2>1. Known(Note(l, a, a.value), x)  BY ONLY <1>1, <1>3, NoteKnown
  <2>2. Known(Note(l, b, b.value), x)  BY ONLY <1>1, <1>3, NoteKnown
  <2>3. ASSUME RowReadsRs1(row) PROVE ReadHolds(a, l)
    <3>1. a.reg \in ScratchRegs => a.reg \in Written  BY <1>1, <2>3
    <3>2. x[0] = 0  OBVIOUS
    <3>3. QED  BY ONLY <1>1, <1>3, <3>1, <3>2, ReadPasses
  <2>4. ASSUME RowReadsRs2(row) PROVE ReadHolds(b, l)
    <3>1. b.reg \in ScratchRegs => b.reg \in Written  BY <1>1, <2>4
    <3>2. x[0] = 0  OBVIOUS
    <3>3. QED  BY ONLY <1>1, <1>3, <3>1, <3>2, ReadPasses
  <2>5. QED  BY <2>1, <2>2, <2>3, <2>4
<1>4. ReadsPass(<<>>, line, x)  BY ShortReadsPass
<1>5. RowReadsRs1(row) => ReadsPass(<<a>>, line, x)  BY <1>3, ShortReadsPass
<1>6. RowReadsRs2(row) => ReadsPass(<<b>>, line, x)  BY <1>3, ShortReadsPass
<1>7. RowReadsRs1(row) /\ RowReadsRs2(row) => ReadsPass(<<a, b>>, line, x)  BY <1>3, ShortReadsPass
<1>8. ReadsPass(reads, line, x)  BY <1>2, <1>4, <1>5, <1>6, <1>7
<1>9. QED  BY <1>8 DEF reads

\* The write of a row passes, and what it notes is right.
LEMMA RowWritesPass ==
  ASSUME NEW row, NEW x, NEW y, RowRuns(row, x, y), y[0] = 0, NEW line, Known(line, x),
         row.rd \in ScratchRegs \ Written => x[row.rd] = 0
  PROVE  LET writes == RegisterWrites(row)
         IN  /\ \A i \in DOMAIN writes : WriteHolds(writes[i], line)
             /\ Known(AfterWrites(line, writes), y)
             /\ {writes[i].reg : i \in {j \in DOMAIN writes : writes[j].reg \in ScratchRegs}} =
                   (IF WritesScratch(row) THEN {row.rd} ELSE {})
<1> DEFINE w == [trace_index |-> row.trace_index, step_index |-> row.step_index,
                 reg |-> row.rd, previous |-> row.rd_before, next |-> row.rd_after]
           writes == RegisterWrites(row)
           one == <<w>>
           none == <<>>
           after == Note(line, w, w.next)
<1>1. writes = IF row.writes_rd THEN one ELSE none  BY DEF RegisterWrites
<1>2. w.reg = row.rd /\ w.previous = row.rd_before /\ w.next = row.rd_after  OBVIOUS
<1>3. /\ DOMAIN none = {} /\ DOMAIN one = 1..1 /\ one[1] = w
  BY ShortSeqs
<1>4. AfterWrites(line, none) = line /\ AfterWrites(line, one) = after  BY AfterWritesIs
<1> HIDE DEF w, one, none, writes
<1>5. CASE ~row.writes_rd
  <2>1. writes = none  BY <1>1, <1>5
  <2>2. \A r \in AllRegs : y[r] = x[r]  BY <1>5 DEF RowRuns
  <2>3. Known(line, y)  BY <2>2 DEF Known, AllRegs
  <2>4. ~WritesScratch(row)  BY <1>5 DEF WritesScratch
  <2>5. QED  BY <1>3, <1>4, <2>1, <2>3, <2>4 DEF writes
<1>6. CASE row.writes_rd
  <2>1. writes = one /\ \A i \in 1..1 : i = 1  BY <1>1, <1>6
  <2>2. row.rd # 0 /\ row.rd \in AllRegs /\ row.rd_before = x[row.rd]
        /\ \A r \in AllRegs : y[r] = IF r = row.rd THEN row.rd_after ELSE x[r]
    BY <1>6 DEF RowRuns
  <2>3. WriteHolds(w, line)
    <3>1. line[row.rd] \in {None, x[row.rd]}  BY <2>2, ScratchIs DEF Known, AllRegs
    <3>2. QED  BY <1>2, <2>2, <3>1 DEF WriteHolds
  <2>4. Known(after, y)
    <3>1. after = [line EXCEPT ![row.rd] = row.rd_after]  BY <1>2, <2>2 DEF Note
    <3> HIDE DEF after
    <3>2. DOMAIN line = AllRegs /\ DOMAIN after = AllRegs  BY <3>1 DEF Known
    <3>3. \A r \in AllRegs : after[r] = IF r = row.rd THEN row.rd_after ELSE line[r]  BY <3>1, <3>2
    <3>4. \A r \in Regs : r \in AllRegs /\ line[r] = x[r]  BY DEF Known, AllRegs
    <3>5. \A r \in ScratchRegs : r \in AllRegs /\ line[r] \in {None, x[r]}  BY DEF Known, AllRegs
    <3>6. QED  BY <2>2, <3>2, <3>3, <3>4, <3>5 DEF Known
  <2>5. {writes[i].reg : i \in {j \in DOMAIN writes : writes[j].reg \in ScratchRegs}} =
           (IF WritesScratch(row) THEN {row.rd} ELSE {})
    <3>1. DOMAIN writes = {1} /\ writes[1].reg = row.rd  BY <1>2, <1>3, <2>1
    <3>2. CASE row.rd \in ScratchRegs
      <4>1. {j \in DOMAIN writes : writes[j].reg \in ScratchRegs} = {1}  BY <3>1, <3>2
      <4>2. {writes[i].reg : i \in {1}} = {row.rd}  BY <3>1
      <4>3. WritesScratch(row)  BY <1>6, <3>2 DEF WritesScratch
      <4>4. QED  BY <4>1, <4>2, <4>3
    <3>3. CASE row.rd \notin ScratchRegs
      <4>1. {j \in DOMAIN writes : writes[j].reg \in ScratchRegs} = {}  BY <3>1, <3>3
      <4>2. {writes[i].reg : i \in {}} = {}  OBVIOUS
      <4>3. ~WritesScratch(row)  BY <3>3 DEF WritesScratch
      <4>4. QED  BY <4>1, <4>2, <4>3
    <3>4. QED  BY <3>2, <3>3
  <2>6. QED  BY <1>3, <1>4, <2>1, <2>3, <2>4, <2>5 DEF writes
<1>7. QED  BY <1>5, <1>6

\* The memory access of a row passes, and leaves memory as the row does.
LEMMA RowRamPasses ==
  ASSUME NEW row, NEW after, RowAccesses(row, memory, after)
  PROVE  /\ \A i \in DOMAIN RamEvents(row) : RamHolds(RamEvents(row)[i], row)
         /\ AfterRam(memory, RamEvents(row), row) = after
         /\ row.effective_addr = None => row.memory_before = None /\ row.memory_after = None
<1> DEFINE w == [trace_index |-> row.trace_index, step_index |-> row.step_index,
                 kind |-> IF row.writes_ram THEN "Write" ELSE "Read",
                 addr |-> CanonicalRamAddr(row), previous |-> row.memory_before,
                 next |-> IF row.memory_after # None THEN row.memory_after ELSE row.memory_before]
           ram == RamEvents(row)
           one == <<w>>
           none == <<>>
<1>1. ram = IF row.effective_addr # None /\ row.memory_before # None THEN one ELSE none  BY DEF RamEvents
<1>2. /\ w.addr = CanonicalRamAddr(row) /\ w.previous = row.memory_before
      /\ w.next = IF row.memory_after # None THEN row.memory_after ELSE row.memory_before
  OBVIOUS
<1>3. DOMAIN none = {} /\ DOMAIN one = 1..1 /\ one[1] = w  BY ShortSeqs
<1>4. AfterRam(memory, none, row) = memory
      /\ AfterRam(memory, one, row) = IF row.writes_ram THEN WriteMem(memory, w.addr, w.next) ELSE memory
  BY AfterWritesIs
<1> HIDE DEF w, one, none, ram
<1>5. CASE row.effective_addr = None
  <2>1. ram = none /\ row.memory_before = None /\ row.memory_after = None /\ after = memory
    BY <1>1, <1>5 DEF RowAccesses
  <2>2. QED  BY <1>3, <1>4, <2>1 DEF ram
<1>6. CASE row.effective_addr # None
  <2>1. /\ row.memory_before # None /\ row.memory_after # None
        /\ row.memory_before = ReadMem(memory, CanonicalRamAddr(row))
        /\ row.writes_ram => after = WriteMem(memory, CanonicalRamAddr(row), row.memory_after)
        /\ ~row.writes_ram => after = memory /\ row.memory_after = row.memory_before
    BY <1>6 DEF RowAccesses
  <2>2. ram = one /\ w.next = row.memory_after /\ \A i \in 1..1 : i = 1  BY <1>1, <1>2, <1>6, <2>1
  <2>3. RamHolds(w, row)  BY <1>2, <2>1, <2>2 DEF RamHolds
  <2>4. AfterRam(memory, ram, row) = after  BY <1>2, <1>4, <2>1, <2>2
  <2>5. QED  BY <1>3, <1>6, <2>2, <2>3, <2>4 DEF ram
<1>7. QED  BY <1>5, <1>6
=============================================================================
