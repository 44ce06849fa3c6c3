--------------------------- MODULE SequenceFacts ---------------------------
(***************************************************************************)
(* What the proofs about sequences and remainders of the project rest on.  *)
(* Induction and recursion over the naturals are stated with sets and      *)
(* functions, so that they can be cited; the facts about sequences do not  *)
(* ask for one set that holds all their elements, as transcripts and       *)
(* claims have none worth naming.                                          *)
(***************************************************************************)
EXTENDS Integers, Sequences, FiniteSetTheorems, SequenceTheorems, TLAPS

-----------------------------------------------------------------------------
(* Induction and recursion.                                                *)

\* A set of naturals that holds 0 and is closed under successor holds them all:
\* a least natural outside it would have a finite interval below it and none below that.
LEMMA InductionInSet ==
  ASSUME NEW S, 0 \in S, \A n \in Nat : n \in S => n + 1 \in S
  PROVE  \A n \in Nat : n \in S
<1> SUFFICES ASSUME NEW n \in Nat, n \notin S PROVE FALSE  OBVIOUS
<1> DEFINE Below(k) == 0..k
           Bad == {T \in FiniteSubsetsOf(Nat) : \E k \in Nat : k \notin S /\ T = Below(k)}
<1>1. Below(n) \in Bad
  <2>1. IsFiniteSet(0..n)  BY FS_Interval
  <2>2. QED  BY <2>1 DEF FiniteSubsetsOf
<1>2. PICK T \in Bad : \A U \in Bad : <<U, T>> \notin StrictSubsetOrdering(Nat)
  <2>1. Bad \subseteq FiniteSubsetsOf(Nat) /\ Bad # {}  BY <1>1
  <2> HIDE DEF Bad
  <2>2. IsWellFoundedOn(StrictSubsetOrdering(Nat), FiniteSubsetsOf(Nat))
    BY FS_StrictSubsetOrderingWellFounded
  <2>3. QED  BY <2>1, <2>2, WFMin
<1>3. PICK k \in Nat : k \notin S /\ T = Below(k)  BY <1>2
<1>4. k # 0 /\ k - 1 \in Nat /\ k - 1 \notin S
  <2>1. k # 0  BY <1>3
  <2>2. k - 1 \in Nat  BY <2>1
  <2>3. (k - 1) + 1 = k  OBVIOUS
  <2>4. QED  BY <1>3, <2>1, <2>2, <2>3
<1>5. Below(k - 1) \in Bad
  <2>1. IsFiniteSet(0..(k - 1))  BY <1>4, FS_Interval
  <2>2. QED  BY <2>1, <1>4 DEF FiniteSubsetsOf
<1>6. <<Below(k - 1), T>> \in StrictSubsetOrdering(Nat)
  <2>1. Below(k - 1) \subseteq T /\ k \in T /\ k \notin Below(k - 1)  BY <1>3, <1>4
  <2>2. T \in SUBSET Nat /\ Below(k - 1) \in SUBSET Nat  BY <1>3, <1>4
  <2>3. QED  BY <2>1, <2>2 DEF StrictSubsetOrdering
<1>7. QED  BY <1>2, <1>5, <1>6

\* The same up to a bound.
LEMMA InductionUpTo ==
  ASSUME NEW S, NEW m \in Nat, 0 \in S, \A n \in 0..m : n \in S /\ n < m => n + 1 \in S
  PROVE  \A n \in 0..m : n \in S
<1> DEFINE T == {n \in Nat : n <= m => n \in S}
<1>1. 0 \in T  OBVIOUS
<1>2. \A n \in Nat : n \in T => n + 1 \in T  OBVIOUS
<1> HIDE DEF T
<1>3. \A n \in Nat : n \in T  BY <1>1, <1>2, InductionInSet
<1>4. QED  BY <1>3 DEF T

\* A step function on S can be iterated m times from any start.
LEMMA RecursionUpTo ==
  ASSUME NEW S, NEW start \in S, NEW m \in Nat, NEW step \in [1..m -> [S -> S]]
  PROVE  \E f \in [0..m -> S] : f[0] = start /\ \A n \in 1..m : f[n] = step[n][f[n - 1]]
<1> DEFINE Iterates(f, k) == f[0] = start /\ \A n \in 1..k : f[n] = step[n][f[n - 1]]
           T == {k \in 0..m : \E f \in [0..k -> S] : Iterates(f, k)}
<1>1. 0 \in T
  <2> DEFINE g == [i \in 0..0 |-> start]
  <2>1. g \in [0..0 -> S] /\ g[0] = start /\ 0 \in 0..m  OBVIOUS
  <2>2. \A n \in 1..0 : g[n] = step[n][g[n - 1]]  OBVIOUS
  <2> HIDE DEF g
  <2>3. QED  BY <2>1, <2>2
<1>2. ASSUME NEW k \in 0..m, k \in T, k < m PROVE k + 1 \in T
  <2>1. PICK f \in [0..k -> S] : Iterates(f, k)  BY <1>2
  <2> DEFINE g == [i \in 0..(k + 1) |-> IF i <= k THEN f[i] ELSE step[k + 1][f[k]]]
  <2>2. step[k + 1][f[k]] \in S  BY <1>2
  <2>3. g \in [0..(k + 1) -> S]  BY <2>2
  <2>4. \A n \in 1..k : g[n] = step[n][g[n - 1]]  BY <2>1
  <2>5. g[0] = start /\ g[k + 1] = step[k + 1][g[k]]  BY <2>1
  <2>6. Iterates(g, k + 1)
    <3>1. \A n \in 1..(k + 1) : n \in 1..k \/ n = k + 1  OBVIOUS
    <3>2. (k + 1) - 1 = k  OBVIOUS
    <3> HIDE DEF g
    <3>3. QED  BY <2>4, <2>5, <3>1, <3>2
  <2>7. k + 1 \in 0..m  BY <1>2
  <2> HIDE DEF g
  <2>8. QED  BY <2>3, <2>6, <2>7
<1>3. m \in T
  <2> HIDE DEF T
  <2>1. \A n \in 0..m : n \in T  BY <1>1, <1>2, InductionUpTo
  <2>2. QED  BY <2>1
<1>4. QED  BY <1>3

-----------------------------------------------------------------------------
(* Quotients and remainders, which the provers know only as such.          *)

\* Quotient and remainder.
LEMMA DivMod ==
  ASSUME NEW a \in Int, NEW m \in Nat \ {0}
  PROVE  a % m \in 0..(m - 1) /\ a \div m \in Int /\ a = m * (a \div m) + (a % m)
OBVIOUS

\* There is one quotient and one remainder.
LEMMA DivModIs ==
  ASSUME NEW a \in Int, NEW m \in Nat \ {0}, NEW q \in Int, NEW r \in 0..(m - 1), a = m * q + r
  PROVE  a % m = r /\ a \div m = q
<1> DEFINE s == a \div m
           t == a % m
<1>1. t \in 0..(m - 1) /\ s \in Int /\ a = m * s + t  BY DivMod
<1> HIDE DEF s, t
<1>2. m * (q - s) = t - r  BY <1>1
<1>3. CASE q - s >= 1
  <2>1. m * (q - s) >= m  BY <1>1, <1>3
  <2>2. QED  BY <1>1, <1>2, <2>1
<1>4. CASE q - s <= -1
  <2>1. m * (q - s) <= -m  BY <1>1, <1>4
  <2>2. QED  BY <1>1, <1>2, <2>1
<1>5. CASE q - s = 0
  <2>1. q = s /\ m * (q - s) = 0  BY <1>1, <1>5
  <2>2. QED  BY <1>1, <1>2, <2>1 DEF s, t
<1>6. QED  BY <1>1, <1>3, <1>4, <1>5

\* A multiple of the modulus does not change the remainder.
LEMMA ModShift ==
  ASSUME NEW a \in Int, NEW m \in Nat \ {0}, NEW q \in Int
  PROVE  (a + m * q) % m = a % m
<1> DEFINE s == a \div m
           t == a % m
<1>1. t \in 0..(m - 1) /\ s \in Int /\ a = m * s + t  BY DivMod
<1> HIDE DEF s, t
<1>2. a + m * q = m * (s + q) + t /\ s + q \in Int /\ a + m * q \in Int  BY <1>1
<1>3. (a + m * q) % m = t  BY <1>1, <1>2, DivModIs
<1>4. QED  BY <1>3 DEF t

\* Equal remainders are a difference by a multiple.
LEMMA ModWitness ==
  ASSUME NEW a \in Int, NEW b \in Int, NEW m \in Nat \ {0}
  PROVE  a % m = b % m <=> \E q \in Int : a = b + m * q
<1>1. ASSUME a % m = b % m PROVE \E q \in Int : a = b + m * q
  <2> DEFINE s == a \div m
             u == b \div m
             t == a % m
  <2>1. t \in Int /\ s \in Int /\ u \in Int /\ a = m * s + t /\ b = m * u + t  BY <1>1, DivMod
  <2> HIDE DEF s, t, u
  <2>2. a = b + m * (s - u) /\ s - u \in Int  BY <2>1
  <2>3. QED  BY <2>2
<1>2. QED  BY <1>1, ModShift

\* Sums and products may be reduced at once or at the end.
Congruent(a, b, m) == a % m = b % m

LEMMA SumsCongruent ==
  ASSUME NEW a \in Int, NEW b \in Int, NEW c \in Int, NEW d \in Int, NEW m \in Nat \ {0},
         Congruent(a, c, m), Congruent(b, d, m)
  PROVE  Congruent(a + b, c + d, m)
<1>1. PICK p \in Int : a = c + m * p  BY ModWitness DEF Congruent
<1>2. PICK q \in Int : b = d + m * q  BY ModWitness DEF Congruent
<1> DEFINE u == c + d
           k == p + q
<1>3. a + b = u + m * k /\ k \in Int /\ u \in Int  BY <1>1, <1>2
<1> HIDE DEF k, u
<1>4. (u + m * k) % m = u % m  BY <1>3, ModShift
<1>5. QED  BY <1>3, <1>4 DEF u, Congruent

\* The same for products.
LEMMA ProductsCongruent ==
  ASSUME NEW a \in Int, NEW b \in Int, NEW c \in Int, NEW d \in Int, NEW m \in Nat \ {0},
         Congruent(a, c, m), Congruent(b, d, m)
  PROVE  Congruent(a * b, c * d, m)
<1>1. PICK p \in Int : a = c + m * p  BY ModWitness DEF Congruent
<1>2. PICK q \in Int : b = d + m * q  BY ModWitness DEF Congruent
<1>3. a * b = c * d + m * (c * q + p * d + m * p * q)  BY <1>1, <1>2
<1>4. c * q + p * d + m * p * q \in Int /\ c * d \in Int  BY <1>1, <1>2
<1> DEFINE u == c * d
           k == c * q + p * d + m * p * q
<1>5. a * b = u + m * k /\ k \in Int /\ u \in Int  BY <1>3, <1>4
<1> HIDE DEF k, u
<1>6. (u + m * k) % m = u % m  BY <1>5, ModShift
<1>7. QED  BY <1>5, <1>6 DEF u, Congruent

\* A remainder is its own remainder.
LEMMA ModTwice ==
  ASSUME NEW a \in Int, NEW m \in Nat \ {0}
  PROVE  Congruent(a % m, a, m)
<1> DEFINE r == a % m
<1>1. r \in 0..(m - 1) /\ r \in Int  BY DivMod
<1> HIDE DEF r
<1>2. r = m * 0 + r /\ 0 \in Int  BY <1>1
<1>3. r % m = r  BY <1>1, <1>2, DivModIs
<1>4. QED  BY <1>3 DEF r, Congruent

\* A number between 0 and the modulus is the remainder of what it is congruent to.
LEMMA CongruentIs ==
  ASSUME NEW a \in Int, NEW m \in Nat \ {0}, NEW x \in 0..(m - 1), Congruent(x, a, m)
  PROVE  x = a % m
<1>1. x = m * 0 + x /\ 0 \in Int /\ x \in Int  OBVIOUS
<1>2. x % m = x  BY <1>1, DivModIs
<1>3. QED  BY <1>2 DEF Congruent

-----------------------------------------------------------------------------
(* Sequences of no particular set.                                         *)

IsSeq(s) == s \in Seq({s[i] : i \in DOMAIN s})

\* A sequence over some set is a sequence.
LEMMA IsSeqOfSet ==
  ASSUME NEW S, NEW s \in Seq(S)
  PROVE  IsSeq(s)
<1>1. s \in [1..Len(s) -> S] /\ Len(s) \in Nat /\ DOMAIN s = 1..Len(s)  BY LenProperties
<1>2. s \in [1..Len(s) -> {s[i] : i \in DOMAIN s}]  BY <1>1
<1>3. QED  BY <1>1, <1>2, SeqDef DEF IsSeq

\* A sequence is the function of its own entries on 1..Len.
LEMMA IsSeqLen ==
  ASSUME NEW s, IsSeq(s)
  PROVE  Len(s) \in Nat /\ DOMAIN s = 1..Len(s) /\ s = [i \in 1..Len(s) |-> s[i]]
BY LenProperties DEF IsSeq

\* A function on 1..n is a sequence of length n.
LEMMA FunctionIsSeq ==
  ASSUME NEW n \in Nat, NEW s, s = [i \in 1..n |-> s[i]]
  PROVE  IsSeq(s) /\ Len(s) = n /\ DOMAIN s = 1..n
<1> DEFINE S == {s[i] : i \in 1..n}
<1>1. s \in [1..n -> S]  OBVIOUS
<1>2. s \in Seq(S)  BY <1>1, SeqDef
<1>3. Len(s) \in Nat /\ DOMAIN s = 1..Len(s) /\ DOMAIN s = 1..n  BY <1>1, <1>2, LenProperties
<1>4. Len(s) = n  BY <1>3
<1>5. QED  BY <1>2, <1>3, <1>4, IsSeqOfSet

\* Two sequences with the same length and the same entries are one.
LEMMA SameSeq ==
  ASSUME NEW s, NEW t, IsSeq(s), IsSeq(t), Len(s) = Len(t), \A i \in 1..Len(s) : s[i] = t[i]
  PROVE  s = t
BY IsSeqLen

\* The empty sequence is one, of length 0 and with no index.
LEMMA EmptyIsSeq == IsSeq(<<>>) /\ Len(<<>>) = 0 /\ DOMAIN <<>> = {}
<1>1. <<>> \in Seq({}) /\ Len(<<>>) = 0  BY EmptySeq
<1>2. IsSeq(<<>>)  BY <1>1, IsSeqOfSet
<1>3. DOMAIN <<>> = 1..0  BY <1>1, LenProperties
<1>4. QED  BY <1>1, <1>2, <1>3

\* A sequence is empty exactly when its length is 0.
LEMMA LenZero ==
  ASSUME NEW s, IsSeq(s)
  PROVE  s = <<>> <=> Len(s) = 0
BY EmptyIsSeq, SameSeq, IsSeqLen

\* A concatenation holds the entries of both, in order.
LEMMA ConcatSeq ==
  ASSUME NEW s, NEW t, IsSeq(s), IsSeq(t)
  PROVE  /\ IsSeq(s \o t) /\ Len(s \o t) = Len(s) + Len(t)
         /\ \A i \in 1..Len(s) : (s \o t)[i] = s[i]
         /\ \A i \in 1..Len(t) : (s \o t)[Len(s) + i] = t[i]
<1> DEFINE S == {s[i] : i \in DOMAIN s} \union {t[i] : i \in DOMAIN t}
<1>1. s \in Seq(S) /\ t \in Seq(S)
  <2> HIDE DEF S
  <2>1. {s[i] : i \in DOMAIN s} \subseteq S /\ {t[i] : i \in DOMAIN t} \subseteq S  BY DEF S
  <2>2. QED  BY <2>1, SeqMonotonic DEF IsSeq
<1> HIDE DEF S
<1>2. Len(s) \in Nat /\ Len(t) \in Nat  BY IsSeqLen
<1>3. /\ s \o t \in Seq(S) /\ Len(s \o t) = Len(s) + Len(t)
      /\ \A i \in 1..(Len(s) + Len(t)) : (s \o t)[i] = IF i <= Len(s) THEN s[i] ELSE t[i - Len(s)]
  BY <1>1, ConcatProperties
<1>4. \A i \in 1..Len(s) : (s \o t)[i] = s[i]  BY <1>2, <1>3
<1>5. \A i \in 1..Len(t) : (s \o t)[Len(s) + i] = t[i]
  <2> SUFFICES ASSUME NEW i \in 1..Len(t) PROVE (s \o t)[Len(s) + i] = t[i]  OBVIOUS
  <2>1. Len(s) + i \in 1..(Len(s) + Len(t)) /\ ~(Len(s) + i <= Len(s)) /\ (Len(s) + i) - Len(s) = i
    BY <1>2
  <2>2. QED  BY <1>3, <2>1
<1>6. QED  BY <1>3, <1>4, <1>5, IsSeqOfSet

\* Append adds one entry and keeps the others.
LEMMA AppendSeq ==
  ASSUME NEW s, IsSeq(s), NEW x
  PROVE  /\ IsSeq(Append(s, x)) /\ Len(Append(s, x)) = Len(s) + 1
         /\ \A i \in 1..Len(s) : Append(s, x)[i] = s[i]
         /\ Append(s, x)[Len(s) + 1] = x
<1> DEFINE S == {s[i] : i \in DOMAIN s} \union {x}
<1>1. s \in Seq(S) /\ x \in S
  <2> HIDE DEF S
  <2>1. {s[i] : i \in DOMAIN s} \subseteq S /\ x \in S  BY DEF S
  <2>2. QED  BY <2>1, SeqMonotonic DEF IsSeq
<1> HIDE DEF S
<1>2. /\ Append(s, x) \in Seq(S) /\ Len(Append(s, x)) = Len(s) + 1
      /\ \A i \in 1..Len(s) : Append(s, x)[i] = s[i]
      /\ Append(s, x)[Len(s) + 1] = x
  BY <1>1, AppendProperties
<1>3. IsSeq(Append(s, x))  BY <1>2, IsSeqOfSet
<1>4. QED  BY <1>2, <1>3

\* A slice holds the entries between its bounds.
LEMMA SubSeqSeq ==
  ASSUME NEW s, IsSeq(s), NEW m \in Nat \ {0}, NEW n \in Nat, n <= Len(s)
  PROVE  /\ IsSeq(SubSeq(s, m, n)) /\ Len(SubSeq(s, m, n)) = (IF m <= n THEN n - m + 1 ELSE 0)
         /\ \A i \in 1..(n - m + 1) : SubSeq(s, m, n)[i] = s[m + i - 1]
<1> DEFINE S == {s[i] : i \in DOMAIN s}
<1>1. DOMAIN s = 1..Len(s) /\ Len(s) \in Nat  BY IsSeqLen
<1>2. \A i \in m..n : s[i] \in S  BY <1>1
<1>3. m \in Int /\ n \in Int  OBVIOUS
<1> HIDE DEF S
<1>4. /\ SubSeq(s, m, n) \in Seq(S)
      /\ Len(SubSeq(s, m, n)) = (IF m <= n THEN n - m + 1 ELSE 0)
      /\ \A i \in 1..(n - m + 1) : SubSeq(s, m, n)[i] = s[m + i - 1]
  BY <1>2, <1>3, SubSeqProperties
<1>5. IsSeq(SubSeq(s, m, n))  BY <1>4, IsSeqOfSet
<1>6. QED  BY <1>4, <1>5

\* A start of a sequence is a shorter start and the slice that follows it.
LEMMA SplitSeq ==
  ASSUME NEW s, IsSeq(s), NEW p \in 0..Len(s), NEW q \in p..Len(s)
  PROVE  /\ IsSeq(SubSeq(s, 1, p)) /\ Len(SubSeq(s, 1, p)) = p
         /\ IsSeq(SubSeq(s, p + 1, q)) /\ Len(SubSeq(s, p + 1, q)) = q - p
         /\ SubSeq(s, 1, q) = SubSeq(s, 1, p) \o SubSeq(s, p + 1, q)
<1> DEFINE n == Len(s)
           u == SubSeq(s, 1, p)
           v == SubSeq(s, p + 1, q)
           w == SubSeq(s, 1, q)
<1>1. n \in Nat /\ p \in Nat /\ q \in Nat /\ p <= q /\ q <= n /\ p + 1 \in Nat \ {0} /\ 1 \in Nat \ {0}
  BY IsSeqLen
<1>2. IsSeq(u) /\ Len(u) = p /\ \A i \in 1..p : u[i] = s[i]
  <2>1. /\ IsSeq(u) /\ Len(u) = (IF 1 <= p THEN p - 1 + 1 ELSE 0)
        /\ \A i \in 1..(p - 1 + 1) : u[i] = s[1 + i - 1]
    BY <1>1, SubSeqSeq
  <2> HIDE DEF u
  <2>2. Len(u) = p /\ p - 1 + 1 = p /\ \A i \in 1..p : 1 + i - 1 = i  BY <1>1, <2>1
  <2>3. QED  BY <2>1, <2>2
<1>3. IsSeq(w) /\ Len(w) = q /\ \A i \in 1..q : w[i] = s[i]
  <2>1. /\ IsSeq(w) /\ Len(w) = (IF 1 <= q THEN q - 1 + 1 ELSE 0)
        /\ \A i \in 1..(q - 1 + 1) : w[i] = s[1 + i - 1]
    BY <1>1, SubSeqSeq
  <2> HIDE DEF w
  <2>2. Len(w) = q /\ q - 1 + 1 = q /\ \A i \in 1..q : 1 + i - 1 = i  BY <1>1, <2>1
  <2>3. QED  BY <2>1, <2>2
<1>4. IsSeq(v) /\ Len(v) = q - p /\ \A i \in 1..(q - p) : v[i] = s[p + i]
  <2>1. /\ IsSeq(v) /\ Len(v) = (IF p + 1 <= q THEN q - (p + 1) + 1 ELSE 0)
        /\ \A i \in 1..(q - (p + 1) + 1) : v[i] = s[p + 1 + i - 1]
    BY <1>1, SubSeqSeq
  <2> HIDE DEF v
  <2>2. /\ Len(v) = q - p /\ q - (p + 1) + 1 = q - p
        /\ \A i \in 1..(q - p) : p + 1 + i - 1 = p + i
    BY <1>1, <2>1
  <2>3. QED  BY <2>1, <2>2
<1> HIDE DEF u, v, w
<1>5. /\ IsSeq(u \o v) /\ Len(u \o v) = p + (q - p)
      /\ \A i \in 1..p : (u \o v)[i] = u[i]
      /\ \A i \in 1..(q - p) : (u \o v)[p + i] = v[i]
  <2>1. IsSeq(u) /\ IsSeq(v)  BY <1>2, <1>4
  <2>2. /\ IsSeq(u \o v) /\ Len(u \o v) = Len(u) + Len(v)
        /\ \A i \in 1..Len(u) : (u \o v)[i] = u[i]
        /\ \A i \in 1..Len(v) : (u \o v)[Len(u) + i] = v[i]
    BY <2>1, ConcatSeq
  <2>3. Len(u) = p /\ Len(v) = q - p  BY <1>2, <1>4
  <2>4. QED  BY <2>2, <2>3
<1>6. \A i \in 1..q : (u \o v)[i] = w[i]
  <2> SUFFICES ASSUME NEW i \in 1..q PROVE (u \o v)[i] = w[i]  OBVIOUS
  <2>1. CASE i <= p
    <3>1. i \in 1..p  BY <1>1, <2>1
    <3>2. QED  BY <1>2, <1>3, <1>5, <3>1
  <2>2. CASE ~(i <= p)
    <3>1. i - p \in 1..(q - p) /\ p + (i - p) = i  BY <1>1, <2>2
    <3>2. (u \o v)[i] = v[i - p] /\ v[i - p] = s[i]  BY <1>4, <1>5, <3>1
    <3>3. QED  BY <1>3, <3>2
  <2>3. QED  BY <2>1, <2>2
<1>7. Len(u \o v) = q  BY <1>1, <1>5
<1>8. w = u \o v
  <2> DEFINE x == u \o v
  <2>1. IsSeq(x) /\ IsSeq(w) /\ Len(w) = Len(x) /\ \A i \in 1..Len(w) : w[i] = x[i]
    BY <1>3, <1>5, <1>6, <1>7
  <2> HIDE DEF x
  <2>2. w = x  BY <2>1, SameSeq
  <2>3. QED  BY <2>2 DEF x
<1>9. QED  BY <1>2, <1>4, <1>8 DEF u, v, w

\* The slice that is everything.
LEMMA WholeSeq ==
  ASSUME NEW s, IsSeq(s)
  PROVE  SubSeq(s, 1, Len(s)) = s
<1> DEFINE n == Len(s)
           w == SubSeq(s, 1, n)
<1>1. n \in Nat /\ 1 \in Nat \ {0} /\ n <= Len(s)  BY IsSeqLen
<1>2. /\ IsSeq(w) /\ Len(w) = (IF 1 <= n THEN n - 1 + 1 ELSE 0)
      /\ \A i \in 1..(n - 1 + 1) : w[i] = s[1 + i - 1]
  BY <1>1, SubSeqSeq
<1> HIDE DEF w
<1>3. Len(w) = n /\ n - 1 + 1 = n /\ \A i \in 1..n : 1 + i - 1 = i  BY <1>1, <1>2
<1>4. \A i \in 1..n : w[i] = s[i]  BY <1>2, <1>3
<1>5. w = s  BY <1>2, <1>3, <1>4, SameSeq
<1>6. QED  BY <1>5 DEF w

\* One entry is a sequence.
LEMMA OneIsSeq ==
  ASSUME NEW x
  PROVE  IsSeq(<<x>>) /\ Len(<<x>>) = 1 /\ <<x>>[1] = x
<1>1. <<x>> \in Seq({x}) /\ Len(<<x>>) = 1 /\ <<x>>[1] = x  OBVIOUS
<1>2. IsSeq(<<x>>)  BY <1>1, IsSeqOfSet
<1>3. QED  BY <1>1, <1>2

\* Nothing after a sequence changes nothing.
LEMMA ConcatEmpty ==
  ASSUME NEW s, IsSeq(s)
  PROVE  s \o <<>> = s
<1>1. s \in Seq({s[i] : i \in DOMAIN s})  BY DEF IsSeq
<1>2. QED  BY <1>1, ConcatEmptySeq

\* Concatenation is associative.
LEMMA ConcatTwice ==
  ASSUME NEW s, NEW t, NEW u, IsSeq(s), IsSeq(t), IsSeq(u)
  PROVE  (s \o t) \o u = s \o (t \o u)
<1> DEFINE S == {s[i] : i \in DOMAIN s} \cup {t[i] : i \in DOMAIN t} \cup {u[i] : i \in DOMAIN u}
<1>1. s \in Seq(S) /\ t \in Seq(S) /\ u \in Seq(S)
  <2> HIDE DEF S
  <2>1. /\ {s[i] : i \in DOMAIN s} \subseteq S /\ {t[i] : i \in DOMAIN t} \subseteq S
        /\ {u[i] : i \in DOMAIN u} \subseteq S
    BY DEF S
  <2>2. QED  BY <2>1, SeqMonotonic DEF IsSeq
<1> HIDE DEF S
<1>2. QED  BY <1>1, ConcatAssociative

\* Appending to a concatenation is appending to its second part.
LEMMA ConcatAppend ==
  ASSUME NEW s, NEW t, IsSeq(s), IsSeq(t), NEW x
  PROVE  s \o Append(t, x) = Append(s \o t, x)
<1> DEFINE S == {s[i] : i \in DOMAIN s} \cup {t[i] : i \in DOMAIN t} \cup {x}
<1>1. s \in Seq(S) /\ t \in Seq(S) /\ x \in S
  <2> HIDE DEF S
  <2>1. {s[i] : i \in DOMAIN s} \subseteq S /\ {t[i] : i \in DOMAIN t} \subseteq S /\ x \in S
    BY DEF S
  <2>2. QED  BY <2>1, SeqMonotonic DEF IsSeq
<1> HIDE DEF S
<1>2. Append(t, x) = t \o <<x>> /\ Append(s \o t, x) = (s \o t) \o <<x>>
  <2>1. s \o t \in Seq(S)  BY <1>1, ConcatProperties
  <2>2. QED  BY <1>1, <2>1, AppendIsConcat
<1>3. <<x>> \in Seq(S)  BY <1>1
<1>4. s \o (t \o <<x>>) = (s \o t) \o <<x>>  BY <1>1, <1>3, ConcatAssociative
<1>5. QED  BY <1>2, <1>4

\* Sequences that are equal with one more element are equal.
LEMMA AppendApart ==
  ASSUME NEW s, NEW t, IsSeq(s), IsSeq(t), NEW x, Append(s, x) = Append(t, x)
  PROVE  s = t
<1> DEFINE v == Append(s, x)
           w == Append(t, x)
           n == Len(s)
           m == Len(t)
<1>1. v = w  OBVIOUS
<1>2. Len(v) = n + 1 /\ \A i \in 1..n : v[i] = s[i]  BY AppendSeq
<1>3. Len(w) = m + 1 /\ \A i \in 1..m : w[i] = t[i]  BY AppendSeq
<1>4. n \in Nat /\ m \in Nat  BY IsSeqLen
<1> HIDE DEF v, w, n, m
<1>5. n = m /\ \A i \in 1..n : s[i] = t[i]  BY <1>1, <1>2, <1>3, <1>4
<1>6. QED  BY <1>5, SameSeq DEF n, m

\* The slice behind p up to q.
LEMMA SliceEntries ==
  ASSUME NEW w, IsSeq(w), NEW p \in 0..Len(w), NEW q \in p..Len(w)
  PROVE  /\ q - p \in Nat /\ IsSeq(SubSeq(w, p + 1, q)) /\ Len(SubSeq(w, p + 1, q)) = q - p
         /\ \A i \in 1..(q - p) : SubSeq(w, p + 1, q)[i] = w[p + i]
<1> DEFINE x == SubSeq(w, p + 1, q)
           len == Len(w)
<1>1. len \in Nat  BY IsSeqLen
<1> HIDE DEF len
<1>2. p \in 0..len /\ q \in p..len  BY DEF len
<1>3. p \in Int /\ q \in Int /\ p + 1 \in Nat \ {0} /\ q \in Nat /\ q <= len /\ q - p \in Nat
  BY <1>1, <1>2
<1>4. /\ IsSeq(x) /\ Len(x) = (IF p + 1 <= q THEN q - (p + 1) + 1 ELSE 0)
      /\ \A i \in 1..(q - (p + 1) + 1) : x[i] = w[(p + 1) + i - 1]
  BY <1>3, SubSeqSeq DEF len
<1> HIDE DEF x
<1>5. Len(x) = q - p  BY <1>2, <1>3, <1>4
<1>6. q - (p + 1) + 1 = q - p /\ \A i \in 1..(q - p) : (p + 1) + i - 1 = p + i  BY <1>3
<1>7. \A i \in 1..(q - p) : x[i] = w[p + i]  BY <1>4, <1>6
<1>8. QED  BY <1>3, <1>4, <1>5, <1>7 DEF x

\* Two concatenations that are one sequence.
Meet(s, x, t, y) == s \o x = t \o y

\* Where they do and the first parts have one length, they are equal part by part.
LEMMA SplitEqual ==
  ASSUME NEW s, NEW t, NEW x, NEW y, IsSeq(s), IsSeq(t), IsSeq(x), IsSeq(y),
         Meet(s, x, t, y), Len(s) = Len(t)
  PROVE  s = t /\ x = y
<1> DEFINE n == Len(s)
           w == s \o x
           v == t \o y
           Joined(a, b, c) == /\ Len(c) = Len(a) + Len(b)
                              /\ \A i \in 1..Len(a) : c[i] = a[i]
                              /\ \A i \in 1..Len(b) : c[Len(a) + i] = b[i]
<1>1. n \in Nat /\ Len(x) \in Nat /\ Len(y) \in Nat  BY IsSeqLen
<1>2. \A a, b : IsSeq(a) /\ IsSeq(b) => Joined(a, b, a \o b)
  <2> SUFFICES ASSUME NEW a, NEW b, IsSeq(a), IsSeq(b) PROVE Joined(a, b, a \o b)  OBVIOUS
  <2>1. QED  BY ConcatSeq
<1>3. Joined(s, x, w) /\ Joined(t, y, v)
  <2> HIDE DEF Joined
  <2>1. QED  BY <1>2
<1>4. /\ Len(w) = n + Len(x) /\ Len(v) = n + Len(y)
      /\ \A i \in 1..n : w[i] = s[i] /\ v[i] = t[i]
      /\ \A i \in 1..Len(x) : w[n + i] = x[i]
      /\ \A i \in 1..Len(y) : v[n + i] = y[i]
  <2> HIDE DEF w, v
  <2>1. QED  BY <1>3
<1>5. w = v  BY DEF Meet
<1> HIDE DEF w, v
<1>6. s = t
  <2>1. \A i \in 1..Len(s) : s[i] = t[i]  BY <1>3, <1>4, <1>5
  <2>2. QED  BY <2>1, SameSeq
<1>7. Len(x) = Len(y)
  <2> HIDE DEF n
  <2>1. QED  BY <1>1, <1>3, <1>4, <1>5
<1>8. \A i \in 1..Len(x) : x[i] = y[i]  BY <1>3, <1>4, <1>5, <1>7
<1>9. QED  BY <1>6, <1>7, <1>8, SameSeq

\* What two concatenations start with alike may be dropped.
LEMMA CancelFirst ==
  ASSUME NEW p, NEW u, NEW x, NEW v, NEW y,
         IsSeq(p), IsSeq(u), IsSeq(x), IsSeq(v), IsSeq(y), Meet(p \o u, x, p \o v, y)
  PROVE  Meet(u, x, v, y)
<1> DEFINE ux == u \o x
           vy == v \o y
<1>1. IsSeq(ux) /\ IsSeq(vy)  BY ConcatSeq
<1>2. (p \o u) \o x = p \o ux  BY ConcatTwice
<1>3. (p \o v) \o y = p \o vy  BY ConcatTwice
<1> HIDE DEF ux, vy
<1>4. Meet(p, ux, p, vy)  BY <1>2, <1>3 DEF Meet
<1>5. ux = vy  BY <1>1, <1>4, SplitEqual
<1>6. QED  BY <1>5 DEF Meet, ux, vy
=============================================================================
