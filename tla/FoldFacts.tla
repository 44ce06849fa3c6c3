----------------------------- MODULE FoldFacts -----------------------------
(***************************************************************************)
(* What the left fold of the community modules computes, for any           *)
(* operation: the start on the empty sequence, one more operation for one  *)
(* more element.  A module that folds with an operation of its own         *)
(* instantiates this one with it; the first argument is what the operation *)
(* knows besides the result so far and the element.                        *)
(***************************************************************************)
EXTENDS SequenceFacts, SequencesExt

CONSTANT Op(_, _, _)

Fold(d, base, s) == FoldLeft(LAMBDA acc, x : Op(d, acc, x), base, s)

\* The function that the library folds with, on the subsets of 1..n.
IsFold(d, f, base, s, n) ==
  f = [u \in SUBSET (1..n) |-> IF u = {} THEN base ELSE Op(d, f[u \ {Max(u)}], s[Max(u)])]

\* A set of indices that is not empty has a largest one.
LEMMA MaxOfIndices ==
  ASSUME NEW n \in Nat, NEW u, u \subseteq 1..n, u # {}
  PROVE  Max(u) \in u /\ \A y \in u : y <= Max(u)
<1> DEFINE S == {m \in Nat : \A v \in SUBSET (1..m) : v # {} => \E x \in v : \A y \in v : x >= y}
<1>1. 0 \in S
  <2>1. \A v \in SUBSET (1..0) : v = {}  OBVIOUS
  <2>2. QED  BY <2>1
<1>2. ASSUME NEW m \in Nat, m \in S PROVE m + 1 \in S
  <2> SUFFICES ASSUME NEW v \in SUBSET (1..(m + 1)), v # {}
               PROVE  \E x \in v : \A y \in v : x >= y
    OBVIOUS
  <2>1. CASE m + 1 \in v
    <3>1. \A y \in v : m + 1 >= y  OBVIOUS
    <3>2. QED  BY <2>1, <3>1
  <2>2. CASE m + 1 \notin v
    <3>1. v \in SUBSET (1..m)  BY <2>2
    <3>2. QED  BY <1>2, <3>1
  <2>3. QED  BY <2>1, <2>2
<1> HIDE DEF S
<1>3. n \in S  BY <1>1, <1>2, InductionInSet
<1>4. \E x \in u : \A y \in u : x >= y  BY <1>3 DEF S
<1>5. QED  BY <1>4 DEF Max

\* That function exists, for every base and sequence.
LEMMA FoldExists ==
  ASSUME NEW d, NEW base, NEW s, NEW n \in Nat
  PROVE  \E f : IsFold(d, f, base, s, n)
<1> DEFINE S == {m \in Nat : \E f : IsFold(d, f, base, s, m)}
<1>1. 0 \in S
  <2> DEFINE f == [u \in SUBSET (1..0) |-> base]
  <2>1. \A u \in SUBSET (1..0) : u = {}  OBVIOUS
  <2>2. IsFold(d, f, base, s, 0)  BY <2>1 DEF IsFold
  <2>3. QED  BY <2>2
<1>2. ASSUME NEW m \in Nat, m \in S PROVE m + 1 \in S
  <2>1. PICK f : IsFold(d, f, base, s, m)  BY <1>2
  <2> DEFINE step(u) == Op(d, f[u \ {m + 1}], s[m + 1])
             g == [u \in SUBSET (1..(m + 1)) |-> IF m + 1 \in u THEN step(u) ELSE f[u]]
  <2>2. ASSUME NEW u \in SUBSET (1..(m + 1))
        PROVE  g[u] = IF u = {} THEN base ELSE Op(d, g[u \ {Max(u)}], s[Max(u)])
    <3>1. CASE u = {}
      <4>1. g[u] = f[u] /\ u \in SUBSET (1..m)  BY <3>1
      <4>2. f[u] = base  BY <2>1, <3>1, <4>1 DEF IsFold
      <4>3. QED  BY <3>1, <4>1, <4>2
    <3>2. CASE u # {}
      <4>1. Max(u) \in u /\ \A y \in u : y <= Max(u)
        <5>1. m + 1 \in Nat  OBVIOUS
        <5>2. QED  BY <3>2, <5>1, MaxOfIndices
      <4>2. CASE m + 1 \in u
        <5>1. Max(u) = m + 1
          <6>1. m + 1 <= Max(u) /\ Max(u) \in 1..(m + 1)  BY <4>1, <4>2
          <6>2. QED  BY <6>1
        <5>2. u \ {m + 1} \in SUBSET (1..(m + 1)) /\ m + 1 \notin u \ {m + 1}  OBVIOUS
        <5>3. g[u \ {m + 1}] = f[u \ {m + 1}]  BY <5>2
        <5>4. g[u] = step(u)  BY <4>2
        <5>5. QED  BY <3>2, <5>1, <5>3, <5>4
      <4>3. CASE m + 1 \notin u
        <5>1. u \in SUBSET (1..m)  BY <4>3
        <5>2. u \ {Max(u)} \in SUBSET (1..(m + 1)) /\ m + 1 \notin u \ {Max(u)}  BY <4>3
        <5>3. g[u \ {Max(u)}] = f[u \ {Max(u)}] /\ g[u] = f[u]  BY <4>3, <5>2
        <5>4. f[u] = Op(d, f[u \ {Max(u)}], s[Max(u)])  BY <2>1, <3>2, <5>1 DEF IsFold
        <5>5. QED  BY <3>2, <5>3, <5>4
      <4>4. QED  BY <4>2, <4>3
    <3>3. QED  BY <3>1, <3>2
  <2>3. g = [u \in SUBSET (1..(m + 1)) |-> g[u]]  OBVIOUS
  <2> HIDE DEF g
  <2>4. IsFold(d, g, base, s, m + 1)  BY <2>2, <2>3 DEF IsFold
  <2>5. QED  BY <2>4
<1> HIDE DEF S
<1>3. n \in S  BY <1>1, <1>2, InductionInSet
<1>4. QED  BY <1>3 DEF S

\* A fold is the end of a run of the operation along the sequence.
IsRun(d, g, base, s, n) ==
  /\ g = [k \in 0..n |-> g[k]] /\ g[0] = base
  /\ \A k \in 1..n : g[k] = Op(d, g[k - 1], s[k])

\* The library's fold is the end of such a run.
LEMMA FoldIsRun ==
  ASSUME NEW d, NEW base, NEW s, IsSeq(s)
  PROVE  \E g : IsRun(d, g, base, s, Len(s)) /\ Fold(d, base, s) = g[Len(s)]
<1> DEFINE n == Len(s)
           f == CHOOSE h : IsFold(d, h, base, s, n)
           g == [k \in 0..n |-> f[1..k]]
<1>1. n \in Nat /\ DOMAIN s = 1..n  BY IsSeqLen
<1>2. Fold(d, base, s) = f[1..n]
  BY <1>1 DEF Fold, FoldLeft, MapThenFoldSet, IsFold
<1>3. IsFold(d, f, base, s, n)  BY <1>1, FoldExists
<1> HIDE DEF f, n
<1>4. f[1..0] = base
  <2>1. 1..0 = {} /\ {} \in SUBSET (1..n)  OBVIOUS
  <2>2. QED  BY <1>3, <2>1 DEF IsFold
<1>5. ASSUME NEW k \in 1..n PROVE f[1..k] = Op(d, f[1..(k - 1)], s[k])
  <2>1. 1..k \in SUBSET (1..n) /\ 1..k # {} /\ k \in Nat
    <3>1. k \in Nat /\ k >= 1 /\ k <= n  BY <1>1
    <3>2. k \in 1..k /\ \A y \in 1..k : y \in 1..n  BY <1>1, <3>1
    <3>3. QED  BY <3>1, <3>2
  <2>2. Max(1..k) \in 1..k /\ \A y \in 1..k : y <= Max(1..k)  BY <2>1, MaxOfIndices
  <2>3. Max(1..k) = k
    <3>1. k \in 1..k  BY <2>1
    <3>2. k <= Max(1..k)  BY <2>2, <3>1
    <3>3. QED  BY <2>1, <2>2, <3>2
  <2>4. (1..k) \ {k} = 1..(k - 1)  BY <2>1
  <2>5. QED  BY <1>3, <2>1, <2>3, <2>4 DEF IsFold
<1>6. /\ g = [k \in 0..n |-> g[k]] /\ g[0] = base /\ g[n] = f[1..n]
      /\ \A k \in 1..n : g[k] = Op(d, g[k - 1], s[k])
  <2>1. \A k \in 0..n : g[k] = f[1..k]  OBVIOUS
  <2>2. \A k \in 1..n : k \in 0..n /\ k - 1 \in 0..n  BY <1>1
  <2>3. 0 \in 0..n /\ n \in 0..n  BY <1>1
  <2>4. g = [k \in 0..n |-> g[k]]  OBVIOUS
  <2> HIDE DEF g
  <2>5. QED  BY <1>4, <1>5, <2>1, <2>2, <2>3, <2>4
<1> HIDE DEF g
<1>7. IsRun(d, g, base, s, n)  BY <1>6 DEF IsRun
<1>8. QED  BY <1>2, <1>6, <1>7 DEF n

\* There is one run along a sequence.
LEMMA OneRun ==
  ASSUME NEW d, NEW base, NEW s, NEW t, NEW n \in Nat, NEW m \in Nat, n <= m, \A i \in 1..n : s[i] = t[i],
         NEW g, IsRun(d, g, base, s, n), NEW h, IsRun(d, h, base, t, m)
  PROVE  g[n] = h[n]
<1> DEFINE S == {k \in Nat : k <= n => g[k] = h[k]}
<1>1. 0 \in S  BY DEF IsRun
<1>2. ASSUME NEW k \in Nat, k \in S PROVE k + 1 \in S
  <2> SUFFICES ASSUME k + 1 <= n PROVE g[k + 1] = h[k + 1]  OBVIOUS
  <2>1. k + 1 \in 1..n /\ k + 1 \in 1..m /\ (k + 1) - 1 = k /\ k <= n  OBVIOUS
  <2>2. g[k + 1] = Op(d, g[k], s[k + 1])  BY <2>1 DEF IsRun
  <2>3. h[k + 1] = Op(d, h[k], t[k + 1])  BY <2>1 DEF IsRun
  <2>4. g[k] = h[k]  BY <1>2, <2>1
  <2>5. QED  BY <2>1, <2>2, <2>3, <2>4
<1> HIDE DEF S
<1>3. n \in S  BY <1>1, <1>2, InductionInSet
<1>4. QED  BY <1>3 DEF S

\* Nothing to fold leaves the start.
LEMMA FoldOfNone ==
  ASSUME NEW d, NEW base, NEW s, IsSeq(s), Len(s) = 0
  PROVE  Fold(d, base, s) = base
<1>1. PICK g : IsRun(d, g, base, s, Len(s)) /\ Fold(d, base, s) = g[Len(s)]  BY FoldIsRun
<1>2. QED  BY <1>1 DEF IsRun

\* One more element is one more operation.
LEMMA FoldOfAppend ==
  ASSUME NEW d, NEW base, NEW s, IsSeq(s), NEW x
  PROVE  Fold(d, base, Append(s, x)) = Op(d, Fold(d, base, s), x)
<1> DEFINE n == Len(s)
           t == Append(s, x)
<1>1. /\ n \in Nat /\ IsSeq(t) /\ Len(t) = n + 1 /\ t[n + 1] = x
      /\ \A i \in 1..n : s[i] = t[i]
  BY IsSeqLen, AppendSeq
<1> HIDE DEF t
<1>2. PICK g : IsRun(d, g, base, s, Len(s)) /\ Fold(d, base, s) = g[Len(s)]  BY FoldIsRun
<1>3. PICK h : IsRun(d, h, base, t, Len(t)) /\ Fold(d, base, t) = h[Len(t)]  BY <1>1, FoldIsRun
<1>4. IsRun(d, g, base, s, n) /\ IsRun(d, h, base, t, n + 1)  BY <1>1, <1>2, <1>3
<1> HIDE DEF n
<1>5. g[n] = h[n]
  <2>1. n <= n + 1 /\ n + 1 \in Nat  BY <1>1
  <2>2. QED  BY <1>1, <1>4, <2>1, OneRun
<1>6. h[n + 1] = Op(d, h[n], t[n + 1])
  <2>1. n + 1 \in 1..(n + 1) /\ (n + 1) - 1 = n  BY <1>1
  <2>2. QED  BY <1>4, <2>1 DEF IsRun
<1>7. Fold(d, base, t) = h[n + 1] /\ Fold(d, base, s) = g[n]  BY <1>1, <1>2, <1>3 DEF n
<1>8. QED  BY <1>1, <1>5, <1>6, <1>7 DEF t

\* One element alone is one operation.
LEMMA FoldOfOne ==
  ASSUME NEW d, NEW base, NEW x
  PROVE  Fold(d, base, <<x>>) = Op(d, base, x)
<1>1. IsSeq(<<>>) /\ Len(<<>>) = 0  BY EmptyIsSeq
<1>2. Append(<<>>, x) = <<x>>  OBVIOUS
<1>3. \A s : IsSeq(s) => Fold(d, base, Append(s, x)) = Op(d, Fold(d, base, s), x)
  BY FoldOfAppend
<1>4. \A s : IsSeq(s) /\ Len(s) = 0 => Fold(d, base, s) = base  BY FoldOfNone
<1>5. QED  BY <1>1, <1>2, <1>3, <1>4

\* Folding a concatenation is folding the second part on from the first.
LEMMA FoldOfConcat ==
  ASSUME NEW d, NEW base, NEW s, IsSeq(s), NEW t, IsSeq(t)
  PROVE  Fold(d, base, s \o t) = Fold(d, Fold(d, base, s), t)
<1> DEFINE n == Len(s)
           m == Len(t)
           u == s \o t
           mid == Fold(d, base, s)
<1>1. /\ n \in Nat /\ m \in Nat /\ IsSeq(u) /\ Len(u) = n + m
      /\ \A i \in 1..n : s[i] = u[i]
      /\ \A i \in 1..m : u[n + i] = t[i]
  <2>1. IsSeq(s) /\ IsSeq(t)  OBVIOUS
  <2>2. n \in Nat /\ m \in Nat  BY IsSeqLen
  <2>3. /\ IsSeq(s \o t) /\ Len(s \o t) = Len(s) + Len(t)
        /\ \A i \in 1..Len(s) : (s \o t)[i] = s[i]
        /\ \A i \in 1..Len(t) : (s \o t)[Len(s) + i] = t[i]
    BY <2>1, ConcatSeq
  <2> HIDE DEF u
  <2>4. u = s \o t  BY DEF u
  <2>5. QED  BY <2>2, <2>3, <2>4
<1> HIDE DEF u
<1>2. PICK f : IsRun(d, f, base, s, Len(s)) /\ Fold(d, base, s) = f[Len(s)]  BY FoldIsRun
<1>3. PICK g : IsRun(d, g, base, u, Len(u)) /\ Fold(d, base, u) = g[Len(u)]  BY <1>1, FoldIsRun
<1>4. PICK h : IsRun(d, h, mid, t, Len(t)) /\ Fold(d, mid, t) = h[Len(t)]  BY FoldIsRun
<1>5. IsRun(d, f, base, s, n) /\ IsRun(d, g, base, u, n + m) /\ IsRun(d, h, mid, t, m) /\ mid = f[n]
  BY <1>1, <1>2, <1>3, <1>4
<1>6. Fold(d, base, u) = g[n + m] /\ Fold(d, mid, t) = h[m]  BY <1>1, <1>3, <1>4
<1> HIDE DEF n, m, mid
<1>7. f[n] = g[n]
  <2>1. n <= n + m /\ n + m \in Nat  BY <1>1
  <2>2. QED  BY <1>1, <1>5, <2>1, OneRun
<1> DEFINE rest == [k \in 0..m |-> g[n + k]]
<1>8. IsRun(d, rest, mid, t, m)
  <2>1. rest = [k \in 0..m |-> rest[k]] /\ \A k \in 0..m : rest[k] = g[n + k]  OBVIOUS
  <2> HIDE DEF rest
  <2>2. rest[0] = mid
    <3>1. 0 \in 0..m /\ n + 0 = n  BY <1>1
    <3>2. QED  BY <1>5, <1>7, <2>1, <3>1
  <2>3. ASSUME NEW k \in 1..m PROVE rest[k] = Op(d, rest[k - 1], t[k])
    <3>1. k \in 0..m /\ k - 1 \in 0..m /\ n + k \in 1..(n + m) /\ (n + k) - 1 = n + (k - 1)
      BY <1>1
    <3>2. g[n + k] = Op(d, g[n + (k - 1)], u[n + k])  BY <1>5, <3>1 DEF IsRun
    <3>3. QED  BY <1>1, <2>1, <3>1, <3>2
  <2>4. QED  BY <2>1, <2>2, <2>3 DEF IsRun
<1>9. rest[m] = g[n + m]  BY <1>1
<1> HIDE DEF rest
<1>10. rest[m] = h[m]
  <2>1. m <= m  BY <1>1
  <2>2. QED  BY <1>1, <1>5, <1>8, <2>1, OneRun
<1>11. QED  BY <1>6, <1>9, <1>10 DEF u, mid

\* Folding a sequence up to q is folding on from p.
LEMMA FoldOfPiece ==
  ASSUME NEW d, NEW base, NEW s, IsSeq(s), NEW p \in 0..Len(s), NEW q \in p..Len(s)
  PROVE  Fold(d, base, SubSeq(s, 1, q)) = Fold(d, Fold(d, base, SubSeq(s, 1, p)), SubSeq(s, p + 1, q))
<1> DEFINE u == SubSeq(s, 1, p)
           v == SubSeq(s, p + 1, q)
<1>1. IsSeq(u) /\ IsSeq(v) /\ SubSeq(s, 1, q) = u \o v  BY SplitSeq
<1> HIDE DEF u, v
<1>2. Fold(d, base, u \o v) = Fold(d, Fold(d, base, u), v)  BY <1>1, FoldOfConcat
<1>3. QED  BY <1>1, <1>2 DEF u, v
=============================================================================
