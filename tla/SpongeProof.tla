---------------------------- MODULE SpongeProof ----------------------------
(***************************************************************************)
(* The proofs that no output of the transcript shows how the elements were *)
(* handed over (as one slice, through the buffered encoders, or one by     *)
(* one), and that over a permutation without collisions the next digest    *)
(* tells every call.  Each fold of the sponge is one of FoldFacts' folds.  *)
(***************************************************************************)
EXTENDS TranscriptCalls, SymbolicSponge, SequenceFacts

P == INSTANCE FoldFacts WITH Op <- LAMBDA d, acc, x : Put(acc, x)
E == INSTANCE FoldFacts WITH Op <- LAMBDA d, acc, x : AbsorbElem(acc, x)
B == INSTANCE FoldFacts WITH Op <- LAMBDA d, acc, x : Block(acc, x)
A == INSTANCE FoldFacts WITH Op <- LAMBDA d, acc, x : AbsorbSlice(acc, x)
M == INSTANCE FoldFacts WITH Op <- LAMBDA d, acc, x : SqueezeMore(acc, x)
O == INSTANCE FoldFacts WITH Op <- LAMBDA d, acc, x : SqueezeOnce(acc, x)
G == INSTANCE FoldFacts WITH Op <- LAMBDA d, acc, x : x + ByteBase * acc

-----------------------------------------------------------------------------
(* The folds of the module, as folds of FoldFacts.                         *)

Elems(tr, xs) == FoldLeft(AbsorbElem, tr, xs)
Slices(tr, xss) == FoldLeft(AbsorbSlice, tr, xss)
BlockFold(tr, xss) == FoldLeft(Block, tr, xss)
SqueezeFold(sq, ns) == FoldLeft(SqueezeMore, sq, ns)
Ones(tr, ks) == FoldLeft(SqueezeOnce, tr, ks)

\* Writing lanes one after another is a run of Put, and so for the other folds: the
\* start, then one operation an element.
LEMMA PutAllRun ==
  ASSUME NEW tr, NEW xs, IsSeq(xs)
  PROVE  \E g : /\ g[0] = tr /\ PutAll(tr, xs) = g[Len(xs)]
               /\ \A k \in 1..Len(xs) : g[k] = Put(g[k - 1], xs[k])
<1>1. PutAll(tr, xs) = P!Fold(0, tr, xs)
  BY DEF PutAll, P!Fold, FoldLeft, MapThenFoldSet, P!FoldLeft, P!MapThenFoldSet, Max, P!Max
<1>2. P!IsSeq(xs)  BY DEF IsSeq, P!IsSeq
<1>3. \E g : P!IsRun(0, g, tr, xs, Len(xs)) /\ P!Fold(0, tr, xs) = g[Len(xs)]  BY <1>2, P!FoldIsRun
<1>4. QED  BY <1>1, <1>3 DEF P!IsRun

\* Absorption one by one, as a run.
LEMMA ElemsRun ==
  ASSUME NEW tr, NEW xs, IsSeq(xs)
  PROVE  \E g : /\ g[0] = tr /\ Elems(tr, xs) = g[Len(xs)]
               /\ \A k \in 1..Len(xs) : g[k] = AbsorbElem(g[k - 1], xs[k])
<1>1. Elems(tr, xs) = E!Fold(0, tr, xs)
  BY DEF Elems, E!Fold, FoldLeft, MapThenFoldSet, E!FoldLeft, E!MapThenFoldSet, Max, E!Max
<1>2. E!IsSeq(xs)  BY DEF IsSeq, E!IsSeq
<1>3. \E g : E!IsRun(0, g, tr, xs, Len(xs)) /\ E!Fold(0, tr, xs) = g[Len(xs)]  BY <1>2, E!FoldIsRun
<1>4. QED  BY <1>1, <1>3 DEF E!IsRun

\* Whole blocks, as a run.
LEMMA BlockFoldRun ==
  ASSUME NEW tr, NEW xs, IsSeq(xs)
  PROVE  \E g : /\ g[0] = tr /\ BlockFold(tr, xs) = g[Len(xs)]
               /\ \A k \in 1..Len(xs) : g[k] = Block(g[k - 1], xs[k])
<1>1. BlockFold(tr, xs) = B!Fold(0, tr, xs)
  BY DEF BlockFold, B!Fold, FoldLeft, MapThenFoldSet, B!FoldLeft, B!MapThenFoldSet, Max, B!Max
<1>2. B!IsSeq(xs)  BY DEF IsSeq, B!IsSeq
<1>3. \E g : B!IsRun(0, g, tr, xs, Len(xs)) /\ B!Fold(0, tr, xs) = g[Len(xs)]  BY <1>2, B!FoldIsRun
<1>4. QED  BY <1>1, <1>3 DEF B!IsRun

\* Slices one after another, as a run.
LEMMA SlicesRun ==
  ASSUME NEW tr, NEW xs, IsSeq(xs)
  PROVE  \E g : /\ g[0] = tr /\ Slices(tr, xs) = g[Len(xs)]
               /\ \A k \in 1..Len(xs) : g[k] = AbsorbSlice(g[k - 1], xs[k])
<1>1. Slices(tr, xs) = A!Fold(0, tr, xs)
  BY DEF Slices, A!Fold, FoldLeft, MapThenFoldSet, A!FoldLeft, A!MapThenFoldSet, Max, A!Max
<1>2. A!IsSeq(xs)  BY DEF IsSeq, A!IsSeq
<1>3. \E g : A!IsRun(0, g, tr, xs, Len(xs)) /\ A!Fold(0, tr, xs) = g[Len(xs)]  BY <1>2, A!FoldIsRun
<1>4. QED  BY <1>1, <1>3 DEF A!IsRun

\* The squeezes of a challenge, as a run.
LEMMA SqueezeFoldRun ==
  ASSUME NEW tr, NEW xs, IsSeq(xs)
  PROVE  \E g : /\ g[0] = tr /\ SqueezeFold(tr, xs) = g[Len(xs)]
               /\ \A k \in 1..Len(xs) : g[k] = SqueezeMore(g[k - 1], xs[k])
<1>1. SqueezeFold(tr, xs) = M!Fold(0, tr, xs)
  BY DEF SqueezeFold, M!Fold, FoldLeft, MapThenFoldSet, M!FoldLeft, M!MapThenFoldSet, Max, M!Max
<1>2. M!IsSeq(xs)  BY DEF IsSeq, M!IsSeq
<1>3. \E g : M!IsRun(0, g, tr, xs, Len(xs)) /\ M!Fold(0, tr, xs) = g[Len(xs)]  BY <1>2, M!FoldIsRun
<1>4. QED  BY <1>1, <1>3 DEF M!IsRun

\* The squeezes of a replay, as a run.
LEMMA OnesRun ==
  ASSUME NEW tr, NEW xs, IsSeq(xs)
  PROVE  \E g : /\ g[0] = tr /\ Ones(tr, xs) = g[Len(xs)]
               /\ \A k \in 1..Len(xs) : g[k] = SqueezeOnce(g[k - 1], xs[k])
<1>1. Ones(tr, xs) = O!Fold(0, tr, xs)
  BY DEF Ones, O!Fold, FoldLeft, MapThenFoldSet, O!FoldLeft, O!MapThenFoldSet, Max, O!Max
<1>2. O!IsSeq(xs)  BY DEF IsSeq, O!IsSeq
<1>3. \E g : O!IsRun(0, g, tr, xs, Len(xs)) /\ O!Fold(0, tr, xs) = g[Len(xs)]  BY <1>2, O!FoldIsRun
<1>4. QED  BY <1>1, <1>3 DEF O!IsRun

\* Absorbing a concatenation one by one is absorbing its second part after its first.
LEMMA ElemsOfConcat ==
  ASSUME NEW tr, NEW xs, IsSeq(xs), NEW ys, IsSeq(ys)
  PROVE  Elems(tr, xs \o ys) = Elems(Elems(tr, xs), ys)
<1>1. ASSUME NEW t, NEW zs PROVE Elems(t, zs) = E!Fold(0, t, zs)
  BY DEF Elems, E!Fold, FoldLeft, MapThenFoldSet, E!FoldLeft, E!MapThenFoldSet, Max, E!Max
<1>2. E!IsSeq(xs) /\ E!IsSeq(ys)  BY DEF IsSeq, E!IsSeq
<1>3. E!Fold(0, tr, xs \o ys) = E!Fold(0, E!Fold(0, tr, xs), ys)  BY <1>2, E!FoldOfConcat
<1>4. QED  BY <1>1, <1>3

\* One element alone is one absorption.
LEMMA ElemsOfOne ==
  ASSUME NEW tr, NEW x
  PROVE  Elems(tr, <<x>>) = AbsorbElem(tr, x)
<1>1. Elems(tr, <<x>>) = E!Fold(0, tr, <<x>>)
  BY DEF Elems, E!Fold, FoldLeft, MapThenFoldSet, E!FoldLeft, E!MapThenFoldSet, Max, E!Max
<1>2. QED  BY <1>1, E!FoldOfOne

-----------------------------------------------------------------------------
(* Transcripts that say the same: equal once a full rate is permuted.      *)

IsTr(t) == t = [st |-> t.st, absorbed |-> t.absorbed] /\ t.absorbed \in 0..Rate
Flush(t) == IF t.absorbed = Rate THEN PermuteNow(t) ELSE t
Same(t, u) == IsTr(t) /\ IsTr(u) /\ Flush(t) = Flush(u)

\* What flushing leaves has room, is a transcript, and says the same.
LEMMA FlushFacts ==
  ASSUME NEW t, IsTr(t)
  PROVE  IsTr(Flush(t)) /\ Flush(t).absorbed < Rate /\ Same(Flush(t), t) /\ Same(t, t)
BY SpongeShape DEF IsTr, Flush, Same, PermuteNow

\* Absorbing an element flushes first; transcripts that say the same become equal.
LEMMA ElemFacts ==
  ASSUME NEW t, IsTr(t), NEW x
  PROVE  /\ AbsorbElem(t, x) = Put(Flush(t), x) /\ IsTr(AbsorbElem(t, x))
         /\ \A u : Same(t, u) => AbsorbElem(u, x) = AbsorbElem(t, x)
<1>1. ASSUME NEW v, IsTr(v) PROVE AbsorbElem(v, x) = Put(Flush(v), x)
  <2>1. AbsorbElem(v, x) = Put(IF v.absorbed >= Rate THEN PermuteNow(v) ELSE v, x)
    BY DEF AbsorbElem, After
  <2>2. v.absorbed >= Rate <=> v.absorbed = Rate  BY <1>1, SpongeShape DEF IsTr
  <2>3. QED  BY <2>1, <2>2 DEF Flush
<1>2. IsTr(Put(Flush(t), x))
  <2>1. Flush(t).absorbed \in 0..Rate /\ Flush(t).absorbed < Rate  BY FlushFacts DEF IsTr
  <2>2. QED  BY <2>1, SpongeShape DEF IsTr, Put
<1>3. QED  BY <1>1, <1>2 DEF Same

\* Saying the same is kept by a stream of elements.
LEMMA ElemsSame ==
  ASSUME NEW t, NEW u, Same(t, u), NEW xs, IsSeq(xs)
  PROVE  Same(Elems(t, xs), Elems(u, xs))
<1>1. PICK g : /\ g[0] = t /\ Elems(t, xs) = g[Len(xs)]
               /\ \A k \in 1..Len(xs) : g[k] = AbsorbElem(g[k - 1], xs[k])
  BY ElemsRun
<1>2. PICK h : /\ h[0] = u /\ Elems(u, xs) = h[Len(xs)]
               /\ \A k \in 1..Len(xs) : h[k] = AbsorbElem(h[k - 1], xs[k])
  BY ElemsRun
<1> DEFINE m == Len(xs)
           S == {k \in 0..m : Same(g[k], h[k])}
<1>3. m \in Nat  BY IsSeqLen
<1>4. 0 \in S  BY <1>1, <1>2, <1>3
<1>5. ASSUME NEW k \in 0..m, k \in S, k < m PROVE k + 1 \in S
  <2>1. k + 1 \in 1..m /\ k + 1 \in 0..m /\ (k + 1) - 1 = k  BY <1>3, <1>5
  <2>2. Same(g[k], h[k]) /\ IsTr(g[k])  BY <1>5 DEF Same
  <2>3. g[k + 1] = AbsorbElem(g[k], xs[k + 1]) /\ h[k + 1] = AbsorbElem(h[k], xs[k + 1])
    BY <1>1, <1>2, <2>1
  <2>4. g[k + 1] = h[k + 1] /\ IsTr(g[k + 1])  BY <2>2, <2>3, ElemFacts
  <2>5. Same(g[k + 1], h[k + 1])  BY <2>4 DEF Same
  <2>6. QED  BY <2>1, <2>5
<1> HIDE DEF S
<1>6. m \in S
  <2>1. \A k \in 0..m : k \in S  BY <1>3, <1>4, <1>5, InductionUpTo
  <2>2. QED  BY <1>3, <2>1
<1>7. QED  BY <1>1, <1>2, <1>6 DEF S

\* Saying the same can be chained and turned round.
LEMMA SameChain ==
  ASSUME NEW t, NEW u, NEW v, Same(t, u), Same(u, v)
  PROVE  Same(t, v) /\ Same(u, t)
BY DEF Same

\* Elements that fit the room are written where absorption one by one writes them.
LEMMA PutAllIsElems ==
  ASSUME NEW t, IsTr(t), NEW xs, IsSeq(xs), t.absorbed + Len(xs) <= Rate
  PROVE  /\ PutAll(t, xs) = Elems(t, xs) /\ IsTr(PutAll(t, xs))
         /\ PutAll(t, xs).absorbed = t.absorbed + Len(xs)
<1>1. PICK g : /\ g[0] = t /\ PutAll(t, xs) = g[Len(xs)]
               /\ \A k \in 1..Len(xs) : g[k] = Put(g[k - 1], xs[k])
  BY PutAllRun
<1>2. PICK h : /\ h[0] = t /\ Elems(t, xs) = h[Len(xs)]
               /\ \A k \in 1..Len(xs) : h[k] = AbsorbElem(h[k - 1], xs[k])
  BY ElemsRun
<1> DEFINE m == Len(xs)
           Fits(k) == g[k] = h[k] /\ IsTr(g[k]) /\ g[k].absorbed = t.absorbed + k
           S == {k \in 0..m : Fits(k)}
<1>3. m \in Nat /\ t.absorbed \in Nat /\ t.absorbed + m <= Rate /\ Rate \in Nat
  BY IsSeqLen, SpongeShape DEF IsTr
<1>4. 0 \in S  BY <1>1, <1>2, <1>3
<1>5. ASSUME NEW k \in 0..m, k \in S, k < m PROVE k + 1 \in S
  <2>1. k + 1 \in 1..m /\ k + 1 \in 0..m /\ (k + 1) - 1 = k  BY <1>3, <1>5
  <2>2. Fits(k)  BY <1>5
  <2>3. g[k + 1] = Put(g[k], xs[k + 1]) /\ h[k + 1] = AbsorbElem(h[k], xs[k + 1])
    BY <1>1, <1>2, <2>1
  <2>4. g[k].absorbed < Rate  BY <1>3, <1>5, <2>2
  <2>5. Flush(g[k]) = g[k]
    <3>1. g[k].absorbed # Rate  BY <1>3, <2>4
    <3>2. QED  BY <3>1 DEF Flush
  <2>6. h[k + 1] = Put(Flush(h[k]), xs[k + 1]) /\ IsTr(h[k + 1])  BY <2>2, <2>3, ElemFacts
  <2>7. g[k + 1] = h[k + 1]  BY <2>2, <2>3, <2>5, <2>6
  <2>8. g[k + 1].absorbed = t.absorbed + (k + 1)
    <3>1. g[k + 1].absorbed = g[k].absorbed + 1  BY <2>3 DEF Put
    <3>2. QED  BY <1>3, <2>2, <3>1
  <2>9. QED  BY <2>1, <2>6, <2>7, <2>8
<1> HIDE DEF S
<1>6. m \in S
  <2>1. \A k \in 0..m : k \in S  BY <1>3, <1>4, <1>5, InductionUpTo
  <2>2. QED  BY <1>3, <2>1
<1>7. QED  BY <1>1, <1>2, <1>6 DEF S

-----------------------------------------------------------------------------
(* Pieces of a sequence.                                                   *)

\* How far the first k pieces of n reach.
Reach(xs, n, k) == IF k * n < Len(xs) THEN k * n ELSE Len(xs)

\* The number of pieces: all but the last are full, together they are everything.
LEMMA PieceCount ==
  ASSUME NEW len \in Nat, NEW n \in Nat \ {0}
  PROVE  LET m == (len + n - 1) \div n
         IN  /\ m \in Nat /\ len <= m * n
             /\ \A k \in 1..m : (k - 1) * n \in Nat /\ (k - 1) * n < len
<1> DEFINE a == len + n - 1
           m == a \div n
<1>1. a \in Nat  OBVIOUS
<1>2. len = a + 1 - n  OBVIOUS
<1> HIDE DEF a
<1>3. m \in Nat /\ n * m <= a /\ a < n * m + n  BY <1>1
<1> HIDE DEF m
<1>4. len <= m * n
  <2>1. m * n = n * m /\ n * m \in Nat  BY <1>3
  <2>2. QED  BY <1>1, <1>2, <1>3, <2>1
<1>5. ASSUME NEW k \in 1..m PROVE (k - 1) * n \in Nat /\ (k - 1) * n < len
  <2>1. k \in Nat /\ k >= 1 /\ k <= m /\ k - 1 \in Nat  BY <1>3
  <2>2. (k - 1) * n \in Nat  BY <2>1
  <2>3. (k - 1) * n <= (m - 1) * n  BY <1>3, <2>1
  <2>4. (m - 1) * n = n * m - n  BY <1>3
  <2>5. n * m \in Nat  BY <1>3
  <2>6. (k - 1) * n <= n * m - n  BY <2>3, <2>4
  <2>7. QED  BY <1>1, <1>2, <1>3, <2>2, <2>5, <2>6
<1>6. QED  BY <1>3, <1>4, <1>5 DEF m, a

\* The pieces are a sequence, and piece k runs from where the one before it stops.
LEMMA ChunksFacts ==
  ASSUME NEW xs, IsSeq(xs), NEW n \in Nat \ {0}
  PROVE  /\ IsSeq(Chunks(xs, n)) /\ Len(Chunks(xs, n)) = (Len(xs) + n - 1) \div n
         /\ Reach(xs, n, 0) = 0 /\ Reach(xs, n, Len(Chunks(xs, n))) = Len(xs)
         /\ \A k \in 1..Len(Chunks(xs, n)) :
              /\ Reach(xs, n, k - 1) \in 0..Len(xs) /\ Reach(xs, n, k - 1) = (k - 1) * n
              /\ Reach(xs, n, k) \in Reach(xs, n, k - 1)..Len(xs)
              /\ Chunks(xs, n)[k] = SubSeq(xs, Reach(xs, n, k - 1) + 1, Reach(xs, n, k))
<1> DEFINE len == Len(xs)
           m == (len + n - 1) \div n
           c == Chunks(xs, n)
<1>1. len \in Nat  BY IsSeqLen
<1>2. /\ m \in Nat /\ len <= m * n
      /\ \A k \in 1..m : (k - 1) * n \in Nat /\ (k - 1) * n < len
  BY <1>1, PieceCount
<1>3. c = [k \in 1..m |-> SubSeq(xs, (k - 1) * n + 1, Reach(xs, n, k))]  BY DEF Chunks, Reach
<1> HIDE DEF m, c
<1>4. c = [k \in 1..m |-> c[k]]  BY <1>3
<1>5. IsSeq(c) /\ Len(c) = m  BY <1>2, <1>4, FunctionIsSeq
<1>6. Reach(xs, n, 0) = 0
  <2>1. 0 * n = 0  OBVIOUS
  <2>2. QED  BY <1>1, <2>1 DEF Reach
<1>7. Reach(xs, n, m) = len
  <2>1. ~(m * n < len)
    <3>1. m * n \in Nat  BY <1>2
    <3>2. QED  BY <1>1, <1>2, <3>1
  <2>2. QED  BY <2>1 DEF Reach
<1>8. ASSUME NEW k \in 1..m
      PROVE  /\ Reach(xs, n, k - 1) \in 0..len /\ Reach(xs, n, k - 1) = (k - 1) * n
             /\ Reach(xs, n, k) \in Reach(xs, n, k - 1)..len
             /\ c[k] = SubSeq(xs, Reach(xs, n, k - 1) + 1, Reach(xs, n, k))
  <2>1. (k - 1) * n \in Nat /\ (k - 1) * n < len  BY <1>2
  <2>2. Reach(xs, n, k - 1) = (k - 1) * n  BY <2>1 DEF Reach
  <2>3. k * n = (k - 1) * n + n  BY <1>2
  <2>4. k * n \in Nat /\ (k - 1) * n <= k * n  BY <2>1, <2>3
  <2>5. Reach(xs, n, k) \in (k - 1) * n..len  BY <1>1, <2>1, <2>4 DEF Reach
  <2>6. c[k] = SubSeq(xs, (k - 1) * n + 1, Reach(xs, n, k))  BY <1>3
  <2>7. Reach(xs, n, k - 1) \in 0..len
    <3> HIDE DEF len
    <3> DEFINE before == (k - 1) * n
    <3>1. before \in Nat /\ before < len  BY <2>1
    <3> HIDE DEF before
    <3>2. before \in 0..len  BY <1>1, <3>1
    <3>3. QED  BY <2>2, <3>2 DEF before
  <2>8. QED  BY <2>2, <2>5, <2>6, <2>7
<1>9. QED  BY <1>5, <1>6, <1>7, <1>8 DEF m, c

\* Where a sequence is a whole number of full pieces, the pieces are full.
LEMMA FullPieces ==
  ASSUME NEW xs, IsSeq(xs), NEW n \in Nat \ {0}, NEW q \in Nat, Len(xs) = q * n
  PROVE  /\ Len(Chunks(xs, n)) = q
         /\ \A k \in 1..q : Reach(xs, n, k) = k * n
<1>1. q * n \in Nat /\ n - 1 \in Nat /\ n - 1 < n  OBVIOUS
<1>2. (q * n + n - 1) \div n = q
  <2>1. q * n + n - 1 = n * q + (n - 1)  OBVIOUS
  <2>2. (n * q + (n - 1)) \div n = q  BY <1>1
  <2>3. QED  BY <2>1, <2>2
<1>3. Len(Chunks(xs, n)) = q  BY <1>2, ChunksFacts
<1>4. ASSUME NEW k \in 1..q PROVE Reach(xs, n, k) = k * n
  <2>1. k * n <= q * n /\ k * n \in Nat  OBVIOUS
  <2>2. k * n < q * n \/ k * n = q * n  BY <1>1, <2>1
  <2>3. QED  BY <2>2 DEF Reach
<1>5. QED  BY <1>3, <1>4

\* Absorbing the first pieces and then the next is absorbing up to where that one stops.
LEMMA ElemsOfPiece ==
  ASSUME NEW tr, NEW xs, IsSeq(xs), NEW p \in 0..Len(xs), NEW q \in p..Len(xs)
  PROVE  /\ IsSeq(SubSeq(xs, p + 1, q)) /\ Len(SubSeq(xs, p + 1, q)) = q - p
         /\ Elems(tr, SubSeq(xs, 1, q)) = Elems(Elems(tr, SubSeq(xs, 1, p)), SubSeq(xs, p + 1, q))
<1> DEFINE u == SubSeq(xs, 1, p)
           v == SubSeq(xs, p + 1, q)
<1>1. IsSeq(u) /\ IsSeq(v) /\ Len(v) = q - p /\ SubSeq(xs, 1, q) = u \o v  BY SplitSeq
<1> HIDE DEF u, v
<1>2. Elems(tr, u \o v) = Elems(Elems(tr, u), v)  BY <1>1, ElemsOfConcat
<1>3. QED  BY <1>1, <1>2 DEF u, v

\* Nothing absorbed changes nothing.
LEMMA ElemsOfNone ==
  ASSUME NEW tr, NEW xs, IsSeq(xs), Len(xs) = 0
  PROVE  Elems(tr, xs) = tr /\ PutAll(tr, xs) = tr
BY ElemsRun, PutAllRun

-----------------------------------------------------------------------------
(* absorb_slice.                                                           *)

\* A full block from an empty rate says what its elements say, and leaves the rate empty.
LEMMA BlockFacts ==
  ASSUME NEW t, IsTr(t), t.absorbed = 0, NEW xs, IsSeq(xs), Len(xs) = Rate
  PROVE  /\ Same(Block(t, xs), Elems(t, xs)) /\ Block(t, xs).absorbed = 0
<1> DEFINE e == Elems(t, xs)
<1>1. [t EXCEPT !.absorbed = 0] = t  BY DEF IsTr
<1>2. PutAll(t, xs) = e /\ IsTr(e) /\ e.absorbed = Rate
  <2>1. t.absorbed + Len(xs) = Rate  BY SpongeShape
  <2>2. t.absorbed + Len(xs) <= Rate  BY <2>1, SpongeShape
  <2>3. /\ PutAll(t, xs) = e /\ IsTr(PutAll(t, xs))
        /\ PutAll(t, xs).absorbed = t.absorbed + Len(xs)
    BY <2>2, PutAllIsElems
  <2> HIDE DEF e
  <2>4. QED  BY <2>1, <2>3
<1> HIDE DEF e
<1>3. Block(t, xs) = PermuteNow(e)  BY <1>1, <1>2 DEF Block
<1>4. PermuteNow(e) = Flush(e)  BY <1>2 DEF Flush
<1>5. Same(Flush(e), e)  BY <1>2, FlushFacts
<1>6. Block(t, xs).absorbed = 0  BY <1>3 DEF PermuteNow
<1>7. QED  BY <1>3, <1>4, <1>5, <1>6 DEF e

\* Whole blocks from an empty rate.
LEMMA WholeBlocks ==
  ASSUME NEW t, IsTr(t), t.absorbed = 0, NEW xs, IsSeq(xs), NEW q \in Nat, Len(xs) = q * Rate
  PROVE  LET r == BlockFold(t, Chunks(xs, Rate)) IN Same(r, Elems(t, xs)) /\ r.absorbed = 0
<1> DEFINE c == Chunks(xs, Rate)
           upTo(k) == Reach(xs, Rate, k)
           e(k) == Elems(t, SubSeq(xs, 1, upTo(k)))
<1>1. /\ IsSeq(c) /\ Len(c) = q /\ upTo(0) = 0 /\ upTo(q) = Len(xs)
      /\ \A k \in 1..q : /\ upTo(k - 1) \in 0..Len(xs) /\ upTo(k - 1) = (k - 1) * Rate
                         /\ upTo(k) \in upTo(k - 1)..Len(xs) /\ upTo(k) = k * Rate
                         /\ c[k] = SubSeq(xs, upTo(k - 1) + 1, upTo(k))
  <2>1. Rate \in Nat \ {0}  BY SpongeShape
  <2>2. Len(Chunks(xs, Rate)) = q /\ \A k \in 1..q : Reach(xs, Rate, k) = k * Rate
    BY <2>1, FullPieces
  <2>3. /\ IsSeq(Chunks(xs, Rate))
        /\ Reach(xs, Rate, 0) = 0 /\ Reach(xs, Rate, Len(Chunks(xs, Rate))) = Len(xs)
        /\ \A k \in 1..Len(Chunks(xs, Rate)) :
              /\ Reach(xs, Rate, k - 1) \in 0..Len(xs) /\ Reach(xs, Rate, k - 1) = (k - 1) * Rate
              /\ Reach(xs, Rate, k) \in Reach(xs, Rate, k - 1)..Len(xs)
              /\ Chunks(xs, Rate)[k]
                   = SubSeq(xs, Reach(xs, Rate, k - 1) + 1, Reach(xs, Rate, k))
    BY <2>1, ChunksFacts
  <2>4. QED  BY <2>2, <2>3
<1> HIDE DEF c, upTo
<1>2. PICK g : /\ g[0] = t /\ BlockFold(t, c) = g[Len(c)]
               /\ \A k \in 1..Len(c) : g[k] = Block(g[k - 1], c[k])
  <2>1. IsSeq(c)  BY <1>1
  <2>2. QED  BY <2>1, BlockFoldRun
<1> DEFINE Kept(k) == Same(g[k], e(k)) /\ g[k].absorbed = 0
           S == {k \in 0..q : Kept(k)}
<1>3. Kept(0)
  <2>1. IsSeq(SubSeq(xs, 1, 0)) /\ Len(SubSeq(xs, 1, 0)) = 0
    <3>1. 1 \in Nat \ {0} /\ 0 \in Nat /\ 0 <= Len(xs)  BY IsSeqLen
    <3>2. QED  BY <3>1, SubSeqSeq
  <2>2. Elems(t, SubSeq(xs, 1, 0)) = t  BY <2>1, ElemsOfNone
  <2>3. e(0) = t
    <3>1. upTo(0) = 0  BY <1>1
    <3>2. QED  BY <2>2, <3>1
  <2> HIDE DEF e
  <2>4. Same(t, t)  BY FlushFacts
  <2>5. QED  BY <1>2, <2>3, <2>4
<1>4. ASSUME NEW k \in 0..q, k \in S, k < q PROVE k + 1 \in S
  <2>1. k + 1 \in 1..q /\ k + 1 \in 0..q /\ (k + 1) - 1 = k  BY <1>4
  <2> DEFINE piece == c[k + 1]
  <2>2. /\ upTo(k) \in 0..Len(xs) /\ upTo(k + 1) \in upTo(k)..Len(xs)
        /\ upTo(k) = k * Rate /\ upTo(k + 1) = (k + 1) * Rate
        /\ piece = SubSeq(xs, upTo(k) + 1, upTo(k + 1))
    BY <1>1, <2>1
  <2>3. g[k + 1] = Block(g[k], piece)  BY <1>1, <1>2, <2>1
  <2> HIDE DEF piece
  <2>4. upTo(k + 1) - upTo(k) = Rate
    <3>1. (k + 1) * Rate = k * Rate + Rate /\ k * Rate \in Nat /\ Rate \in Nat  BY SpongeShape
    <3>2. QED  BY <2>2, <3>1
  <2>5. IsSeq(piece) /\ Len(piece) = Rate /\ e(k + 1) = Elems(e(k), piece)
    <3> DEFINE from == upTo(k)
               to == upTo(k + 1)
    <3>1. from \in 0..Len(xs) /\ to \in from..Len(xs) /\ piece = SubSeq(xs, from + 1, to)
      BY <2>2
    <3> HIDE DEF from, to
    <3>2. /\ IsSeq(SubSeq(xs, from + 1, to)) /\ Len(SubSeq(xs, from + 1, to)) = to - from
          /\ Elems(t, SubSeq(xs, 1, to))
               = Elems(Elems(t, SubSeq(xs, 1, from)), SubSeq(xs, from + 1, to))
      BY <3>1, ElemsOfPiece
    <3>3. QED  BY <2>4, <3>1, <3>2 DEF from, to
  <2> HIDE DEF e
  <2>6. Same(g[k], e(k)) /\ g[k].absorbed = 0 /\ IsTr(g[k])  BY <1>4 DEF Same
  <2>7. Same(Block(g[k], piece), Elems(g[k], piece)) /\ Block(g[k], piece).absorbed = 0
    BY <2>5, <2>6, BlockFacts
  <2>8. Same(Elems(g[k], piece), Elems(e(k), piece))  BY <2>5, <2>6, ElemsSame
  <2>9. Same(g[k + 1], e(k + 1))
    <3>1. Same(Block(g[k], piece), Elems(e(k), piece))  BY <2>7, <2>8, SameChain
    <3>2. QED  BY <2>3, <2>5, <3>1
  <2>10. Kept(k + 1)  BY <2>3, <2>7, <2>9
  <2>11. QED  BY <2>1, <2>10
<1> HIDE DEF Kept
<1>5. 0 \in S  BY <1>3
<1> HIDE DEF S
<1>6. q \in S
  <2>1. \A k \in 0..q : k \in S  BY <1>4, <1>5, InductionUpTo
  <2>2. QED  BY <2>1
<1>7. Kept(q)  BY <1>6 DEF S
<1>8. e(q) = Elems(t, xs)  BY <1>1, WholeSeq
<1>9. QED  BY <1>1, <1>2, <1>7, <1>8 DEF Kept, c

\* A quotient and what is left of it.
LEMMA WholePart ==
  ASSUME NEW len \in Nat, NEW n \in Nat \ {0}
  PROVE  LET q == len \div n
         IN  q \in Nat /\ q * n \in 0..len /\ len - q * n < n
<1> DEFINE q == len \div n
<1>1. q \in Nat /\ n * q <= len /\ len < n * q + n  OBVIOUS
<1> HIDE DEF q
<1>2. q * n = n * q /\ n * q \in Nat  BY <1>1
<1>3. QED  BY <1>1, <1>2 DEF q

\* After the rate is filled: whole blocks, then the rest.
LEMMA BlocksFacts ==
  ASSUME NEW t, IsTr(t), t.absorbed = 0, NEW xs, IsSeq(xs)
  PROVE  Same(Blocks(t, xs), Elems(t, xs))
<1> DEFINE len == Len(xs)
           q == len \div Rate
           whole == q * Rate
           first == SubSeq(xs, 1, whole)
           rest == SubSeq(xs, whole + 1, len)
           r == BlockFold(t, Chunks(first, Rate))
<1>1. Blocks(t, xs) = PutAll(r, rest)  BY DEF Blocks, After, BlockFold
<1>2. len \in Nat /\ Rate \in Nat \ {0}  BY IsSeqLen, SpongeShape
<1>3. q \in Nat /\ whole \in 0..len /\ len - whole < Rate  BY <1>2, WholePart
<1> HIDE DEF q
<1>4. IsSeq(first) /\ Len(first) = whole
  <2> HIDE DEF whole
  <2>1. len \in whole..len  BY <1>2, <1>3
  <2>2. QED  BY <1>3, <2>1, SplitSeq
<1>5. IsSeq(rest) /\ Len(rest) = len - whole /\ Elems(t, xs) = Elems(Elems(t, first), rest)
  <2> HIDE DEF whole
  <2>1. len \in whole..Len(xs) /\ whole \in 0..Len(xs)  BY <1>2, <1>3
  <2>2. /\ IsSeq(SubSeq(xs, whole + 1, len)) /\ Len(SubSeq(xs, whole + 1, len)) = len - whole
        /\ Elems(t, SubSeq(xs, 1, len)) = Elems(Elems(t, SubSeq(xs, 1, whole)), SubSeq(xs, whole + 1, len))
    BY <2>1, ElemsOfPiece
  <2>3. SubSeq(xs, 1, len) = xs  BY WholeSeq
  <2>4. QED  BY <2>2, <2>3
<1>6. Same(r, Elems(t, first)) /\ r.absorbed = 0
  <2>1. Len(first) = q * Rate  BY <1>4
  <2> HIDE DEF first, whole
  <2>2. QED  BY <1>3, <1>4, <2>1, WholeBlocks
<1> HIDE DEF first, rest, r, whole, len
<1>7. PutAll(r, rest) = Elems(r, rest)
  <2>1. IsTr(r) /\ r.absorbed + Len(rest) <= Rate  BY <1>2, <1>3, <1>5, <1>6 DEF Same
  <2>2. QED  BY <1>5, <2>1, PutAllIsElems
<1>8. Same(Elems(r, rest), Elems(Elems(t, first), rest))  BY <1>5, <1>6, ElemsSame
<1>9. QED  BY <1>1, <1>5, <1>7, <1>8

\* Nothing left to absorb is nothing absorbed.
LEMMA NoBlocks ==
  ASSUME NEW t, NEW xs, IsSeq(xs), Len(xs) = 0
  PROVE  Blocks(t, xs) = t
<1> DEFINE first == SubSeq(xs, 1, 0)
           rest == SubSeq(xs, 1, Len(xs))
           r == BlockFold(t, Chunks(first, Rate))
<1>1. Blocks(t, xs) = PutAll(r, rest)
  <2>1. (Len(xs) \div Rate) * Rate = 0 /\ 0 + 1 = 1  BY SpongeShape
  <2>2. QED  BY <2>1 DEF Blocks, After, BlockFold
<1>2. rest = xs  BY WholeSeq
<1>3. IsSeq(first) /\ Len(first) = 0 * Rate
  <2>1. 1 \in Nat \ {0} /\ 0 \in Nat /\ 0 <= Len(xs)  OBVIOUS
  <2>2. IsSeq(first) /\ Len(first) = 0  BY <2>1, SubSeqSeq
  <2>3. 0 * Rate = 0  BY SpongeShape
  <2>4. QED  BY <2>2, <2>3
<1> HIDE DEF first
<1>4. IsSeq(Chunks(first, Rate)) /\ Len(Chunks(first, Rate)) = 0
  <2>1. Rate \in Nat \ {0} /\ 0 \in Nat  BY SpongeShape
  <2>2. Len(Chunks(first, Rate)) = 0  BY <1>3, <2>1, FullPieces
  <2>3. IsSeq(Chunks(first, Rate))  BY <1>3, <2>1, ChunksFacts
  <2>4. QED  BY <2>2, <2>3
<1>5. r = t  BY <1>4, BlockFoldRun
<1> HIDE DEF r, rest
<1>6. QED  BY <1>1, <1>2, <1>5, ElemsOfNone

\* A slice says what its elements say, wherever the cursor stands.
LEMMA SliceFacts ==
  ASSUME NEW t, IsTr(t), NEW xs, IsSeq(xs)
  PROVE  Same(AbsorbSlice(t, xs), Elems(t, xs))
<1> DEFINE len == Len(xs)
           room == Room(t, xs)
           first == SubSeq(xs, 1, room)
           rest == SubSeq(xs, room + 1, len)
           head == PutAll(t, first)
           full == Flush(head)
<1>1. AbsorbSlice(t, xs) = Blocks(full, rest)
  BY DEF AbsorbSlice, After, FillRate, Flush
<1>2. /\ len \in Nat /\ Rate \in Nat \ {0} /\ t.absorbed \in 0..Rate
      /\ room \in 0..len /\ t.absorbed + room <= Rate
      /\ room = len \/ t.absorbed + room = Rate
  <2>1. len \in Nat /\ Rate \in Nat \ {0} /\ t.absorbed \in 0..Rate
    BY IsSeqLen, SpongeShape DEF IsTr
  <2>2. QED  BY <2>1 DEF Room
<1> HIDE DEF room
<1>3. /\ IsSeq(first) /\ Len(first) = room /\ IsSeq(rest) /\ Len(rest) = len - room
      /\ Elems(t, xs) = Elems(Elems(t, first), rest)
  <2>1. len \in room..Len(xs) /\ room \in 0..Len(xs)  BY <1>2
  <2>2. IsSeq(SubSeq(xs, 1, room)) /\ Len(SubSeq(xs, 1, room)) = room  BY <2>1, SplitSeq
  <2>3. /\ IsSeq(SubSeq(xs, room + 1, len)) /\ Len(SubSeq(xs, room + 1, len)) = len - room
        /\ Elems(t, SubSeq(xs, 1, len)) = Elems(Elems(t, SubSeq(xs, 1, room)), SubSeq(xs, room + 1, len))
    BY <2>1, ElemsOfPiece
  <2>4. SubSeq(xs, 1, len) = xs  BY WholeSeq
  <2>5. QED  BY <2>2, <2>3, <2>4
<1> HIDE DEF len, first, rest
<1>4. head = Elems(t, first) /\ IsTr(head) /\ head.absorbed = t.absorbed + room
  <2>1. t.absorbed + Len(first) <= Rate  BY <1>2, <1>3
  <2>2. QED  BY <1>3, <2>1, PutAllIsElems
<1> HIDE DEF head
<1>5. Same(full, head) /\ IsTr(full)  BY <1>4, FlushFacts
<1>6. head.absorbed = Rate => full.absorbed = 0  BY DEF Flush, PermuteNow
<1> HIDE DEF full
<1>7. Same(Blocks(full, rest), Elems(full, rest))
  <2>1. CASE head.absorbed = Rate  BY <1>3, <1>5, <1>6, <2>1, BlocksFacts
  <2>2. CASE head.absorbed # Rate
    <3>1. Len(rest) = 0  BY <1>2, <1>3, <1>4, <2>2
    <3>2. Blocks(full, rest) = full /\ Elems(full, rest) = full  BY <1>3, <3>1, NoBlocks, ElemsOfNone
    <3>3. Same(full, full)  BY <1>5, FlushFacts
    <3>4. QED  BY <3>2, <3>3
  <2>3. QED  BY <2>1, <2>2
<1>8. Same(Elems(full, rest), Elems(head, rest))  BY <1>3, <1>5, ElemsSame
<1>9. QED  BY <1>1, <1>3, <1>4, <1>7, <1>8, SameChain

\* The buffered encoders say what their elements say.
LEMMA ChunkedFacts ==
  ASSUME NEW t, NEW u, Same(t, u), NEW xs, IsSeq(xs), NEW n \in Nat \ {0}
  PROVE  Same(AbsorbChunked(t, xs, n), Elems(u, xs))
<1> DEFINE c == Chunks(xs, n)
           m == Len(c)
           upTo(k) == Reach(xs, n, k)
           e(k) == Elems(u, SubSeq(xs, 1, upTo(k)))
<1>0. AbsorbChunked(t, xs, n) = Slices(t, c)  BY DEF AbsorbChunked, After, Slices
<1>1. /\ IsSeq(c) /\ m \in Nat /\ upTo(0) = 0 /\ upTo(m) = Len(xs)
      /\ \A k \in 1..m : /\ upTo(k - 1) \in 0..Len(xs) /\ upTo(k) \in upTo(k - 1)..Len(xs)
                         /\ c[k] = SubSeq(xs, upTo(k - 1) + 1, upTo(k))
  <2>1. /\ IsSeq(Chunks(xs, n))
        /\ Reach(xs, n, 0) = 0 /\ Reach(xs, n, Len(Chunks(xs, n))) = Len(xs)
        /\ \A k \in 1..Len(Chunks(xs, n)) :
              /\ Reach(xs, n, k - 1) \in 0..Len(xs) /\ Reach(xs, n, k - 1) = (k - 1) * n
              /\ Reach(xs, n, k) \in Reach(xs, n, k - 1)..Len(xs)
              /\ Chunks(xs, n)[k] = SubSeq(xs, Reach(xs, n, k - 1) + 1, Reach(xs, n, k))
    BY ChunksFacts
  <2>2. m \in Nat  BY <2>1, IsSeqLen
  <2>3. QED  BY <2>1, <2>2
<1> HIDE DEF c, upTo
<1>2. PICK g : /\ g[0] = t /\ Slices(t, c) = g[Len(c)]
               /\ \A k \in 1..Len(c) : g[k] = AbsorbSlice(g[k - 1], c[k])
  <2>1. IsSeq(c)  BY <1>1
  <2>2. QED  BY <2>1, SlicesRun
<1> DEFINE Kept(k) == Same(g[k], e(k))
           S == {k \in 0..m : Kept(k)}
<1>3. Kept(0)
  <2>1. IsSeq(SubSeq(xs, 1, 0)) /\ Len(SubSeq(xs, 1, 0)) = 0
    <3>1. 1 \in Nat \ {0} /\ 0 \in Nat /\ 0 <= Len(xs)  BY IsSeqLen
    <3>2. QED  BY <3>1, SubSeqSeq
  <2>2. Elems(u, SubSeq(xs, 1, 0)) = u  BY <2>1, ElemsOfNone
  <2>3. e(0) = u
    <3>1. upTo(0) = 0  BY <1>1
    <3>2. QED  BY <2>2, <3>1
  <2> HIDE DEF e
  <2>4. QED  BY <1>2, <2>3
<1>4. ASSUME NEW k \in 0..m, k \in S, k < m PROVE k + 1 \in S
  <2>1. k + 1 \in 1..m /\ k + 1 \in 0..m /\ (k + 1) - 1 = k  BY <1>1, <1>4
  <2> DEFINE piece == c[k + 1]
             from == upTo(k)
             to == upTo(k + 1)
  <2>2. from \in 0..Len(xs) /\ to \in from..Len(xs) /\ piece = SubSeq(xs, from + 1, to)
    BY <1>1, <2>1
  <2>3. g[k + 1] = AbsorbSlice(g[k], piece)  BY <1>2, <2>1
  <2>4. e(k) = Elems(u, SubSeq(xs, 1, from)) /\ e(k + 1) = Elems(u, SubSeq(xs, 1, to))  OBVIOUS
  <2> HIDE DEF piece, from, to, e
  <2>5. /\ IsSeq(SubSeq(xs, from + 1, to))
        /\ Elems(u, SubSeq(xs, 1, to))
             = Elems(Elems(u, SubSeq(xs, 1, from)), SubSeq(xs, from + 1, to))
    BY <2>2, ElemsOfPiece
  <2>6. IsSeq(piece) /\ e(k + 1) = Elems(e(k), piece)  BY <2>2, <2>4, <2>5
  <2>7. Same(g[k], e(k)) /\ IsTr(g[k])  BY <1>4 DEF Same
  <2>8. Same(AbsorbSlice(g[k], piece), Elems(g[k], piece))  BY <2>6, <2>7, SliceFacts
  <2>9. Same(Elems(g[k], piece), Elems(e(k), piece))  BY <2>6, <2>7, ElemsSame
  <2>10. Same(AbsorbSlice(g[k], piece), Elems(e(k), piece))  BY <2>8, <2>9, SameChain
  <2>11. Kept(k + 1)  BY <2>3, <2>6, <2>10
  <2>12. QED  BY <2>1, <2>11
<1> HIDE DEF Kept
<1>5. 0 \in S  BY <1>1, <1>3
<1> HIDE DEF S
<1>6. m \in S
  <2> HIDE DEF m
  <2>1. \A k \in 0..m : k \in S  BY <1>1, <1>4, <1>5, InductionUpTo
  <2>2. QED  BY <1>1, <2>1
<1>7. Kept(m)  BY <1>6 DEF S
<1>8. e(m) = Elems(u, xs)
  <2>1. upTo(m) = Len(xs)  BY <1>1
  <2>2. SubSeq(xs, 1, Len(xs)) = xs  BY WholeSeq
  <2>3. QED  BY <2>1, <2>2
<1>9. QED  BY <1>0, <1>2, <1>7, <1>8 DEF Kept

-----------------------------------------------------------------------------
(* The operations of the interface.                                        *)

\* What was absorbed first and what comes next, as one stream.
LEMMA SameThen ==
  ASSUME NEW u, NEW v, NEW xs, IsSeq(xs), NEW ys, IsSeq(ys), Same(v, Elems(Elems(u, xs), ys))
  PROVE  Same(v, Elems(u, xs \o ys)) /\ IsSeq(xs \o ys)
BY ElemsOfConcat, ConcatSeq

\* One element, on transcripts that say the same.
LEMMA SameOne ==
  ASSUME NEW t, NEW u, Same(t, u), NEW x
  PROVE  Same(AbsorbElem(t, x), Elems(u, <<x>>)) /\ IsSeq(<<x>>)
<1>1. IsTr(t) /\ IsTr(AbsorbElem(t, x)) /\ AbsorbElem(u, x) = AbsorbElem(t, x)
  BY ElemFacts DEF Same
<1>2. Elems(u, <<x>>) = AbsorbElem(u, x)  BY ElemsOfOne
<1>3. Same(AbsorbElem(t, x), AbsorbElem(t, x))  BY <1>1 DEF Same
<1>4. IsSeq(<<x>>)
  <2>1. <<x>> \in Seq({x})  OBVIOUS
  <2>2. QED  BY <2>1, IsSeqOfSet
<1>5. QED  BY <1>1, <1>2, <1>3, <1>4

\* Packed bytes are framed by their length.
LEMMA SamePacked ==
  ASSUME NEW t, NEW u, Same(t, u), NEW bytes, IsSeq(bytes)
  PROVE  Same(AbsorbPackedBytes(t, bytes), Elems(u, Framed(bytes))) /\ IsSeq(Framed(bytes))
<1> DEFINE one == <<Len(bytes)>>
           limbs == Limbs(bytes)
           t1 == AbsorbElem(t, Len(bytes))
<1>1. AbsorbPackedBytes(t, bytes) = AbsorbChunked(t1, limbs, Chunk) /\ Framed(bytes) = one \o limbs
  BY DEF AbsorbPackedBytes, Framed
<1>2. IsSeq(limbs)
  <2> DEFINE c == Chunks(bytes, BytesPerLimb)
             m == Len(c)
  <2>1. IsSeq(c)  BY ChunksFacts, SpongeShape
  <2>2. m \in Nat /\ DOMAIN c = 1..m  BY <2>1, IsSeqLen
  <2>3. limbs = [k \in DOMAIN c |-> Limb(c[k])]  BY DEF Limbs
  <2> HIDE DEF c, limbs
  <2>4. limbs = [k \in 1..m |-> limbs[k]]  BY <2>2, <2>3
  <2> HIDE DEF m
  <2>5. QED  BY <2>2, <2>4, FunctionIsSeq
<1>3. Same(t1, Elems(u, one)) /\ IsSeq(one)  BY SameOne
<1> HIDE DEF one, limbs, t1
<1>4. Same(AbsorbChunked(t1, limbs, Chunk), Elems(Elems(u, one), limbs))
  BY <1>2, <1>3, ChunkedFacts, SpongeShape
<1>5. QED  BY <1>1, <1>2, <1>3, <1>4, SameThen

\* A label and a message.
LEMMA SameMessage ==
  ASSUME NEW t, NEW u, Same(t, u), NEW label, IsSeq(label), NEW msg, IsSeq(msg)
  PROVE  /\ Same(AppendMessage(t, label, msg), Elems(u, Framed(label) \o Framed(msg)))
         /\ IsSeq(Framed(label) \o Framed(msg))
<1> DEFINE t1 == AbsorbPackedBytes(t, label)
           v == AbsorbPackedBytes(t1, msg)
           xs == Framed(label)
           ys == Framed(msg)
<1>1. AppendMessage(t, label, msg) = v  BY DEF AppendMessage
<1>2. Same(t1, Elems(u, xs)) /\ IsSeq(xs)  BY SamePacked
<1> HIDE DEF t1, xs
<1>3. Same(v, Elems(Elems(u, xs), ys)) /\ IsSeq(ys)  BY <1>2, SamePacked
<1> HIDE DEF v, ys
<1>4. Same(v, Elems(u, xs \o ys)) /\ IsSeq(xs \o ys)  BY <1>2, <1>3, SameThen
<1>5. QED  BY <1>1, <1>4 DEF xs, ys

\* A label, a length and elements, however the elements are handed over.
LEMMA SameCounted ==
  ASSUME NEW t, NEW u, Same(t, u), NEW label, IsSeq(label), NEW n, NEW xs, IsSeq(xs), NEW chunk \in Nat \ {0}
  PROVE  LET t1 == AbsorbElem(AbsorbPackedBytes(t, label), n)
             all == Framed(label) \o <<n>> \o xs
         IN  /\ Same(AbsorbSlice(t1, xs), Elems(u, all))
             /\ Same(AbsorbChunked(t1, xs, chunk), Elems(u, all)) /\ IsSeq(all)
<1> DEFINE t0 == AbsorbPackedBytes(t, label)
           f == Framed(label)
           fn == f \o <<n>>
           t1 == AbsorbElem(t0, n)
<1>1. Same(t0, Elems(u, f)) /\ IsSeq(f)  BY SamePacked
<1> HIDE DEF t0, f
<1>2. Same(t1, Elems(Elems(u, f), <<n>>)) /\ IsSeq(<<n>>)  BY <1>1, SameOne
<1> HIDE DEF t1
<1>3. Same(t1, Elems(u, fn)) /\ IsSeq(fn)  BY <1>1, <1>2, SameThen
<1> HIDE DEF fn
<1>4. Same(AbsorbSlice(t1, xs), Elems(Elems(u, fn), xs))
  <2>1. Same(AbsorbSlice(t1, xs), Elems(t1, xs))  BY <1>3, SliceFacts DEF Same
  <2>2. Same(Elems(t1, xs), Elems(Elems(u, fn), xs))  BY <1>3, ElemsSame
  <2>3. QED  BY <2>1, <2>2, SameChain
<1>5. Same(AbsorbChunked(t1, xs, chunk), Elems(Elems(u, fn), xs))  BY <1>3, ChunkedFacts
<1>6. /\ Same(AbsorbSlice(t1, xs), Elems(u, fn \o xs)) /\ IsSeq(fn \o xs)
      /\ Same(AbsorbChunked(t1, xs, chunk), Elems(u, fn \o xs))
  BY <1>3, <1>4, <1>5, SameThen
<1>7. QED  BY <1>6 DEF t0, t1, f, fn

\* A squeeze makes transcripts that say the same equal.
LEMMA SqueezeFacts ==
  ASSUME NEW t, NEW u, Same(t, u)
  PROVE  /\ Squeeze(t) = Squeeze(u) /\ Squeeze(t) = PermuteNow(AbsorbElem(t, 1))
         /\ Same(Squeeze(t), PermuteNow(AbsorbElem(u, 1)))
<1>1. IsTr(t) /\ AbsorbElem(u, 1) = AbsorbElem(t, 1)  BY ElemFacts DEF Same
<1>2. Squeeze(t) = PermuteNow(AbsorbElem(t, 1)) /\ Squeeze(u) = PermuteNow(AbsorbElem(u, 1))
  BY DEF Squeeze, After
<1>3. IsTr(PermuteNow(AbsorbElem(t, 1)))  BY SpongeShape DEF PermuteNow, IsTr
<1>4. QED  BY <1>1, <1>2, <1>3 DEF Same

\* What a digest says and leaves behind.
LEMMA DigestValue ==
  ASSUME NEW t
  PROVE  Digest(t).tr = Squeeze(t) /\ Digest(t).out = Lanes(Squeeze(t), Rate)
<1>1. Digest(t) = [tr |-> Squeeze(t), out |-> Lanes(Squeeze(t), Rate)]  BY DEF Digest, After
<1>2. QED  BY <1>1

\* One more squeeze of a challenge leaves the squeezed transcript.
LEMMA SqueezeMoreValue ==
  ASSUME NEW s, NEW n
  PROVE  SqueezeMore(s, n).tr = Squeeze(s.tr)
<1> DEFINE with(v, u) == [tr |-> u, out |-> v.out \o Lanes(u, n)]
           more(v) == CHOOSE w \in {with(v, u) : u \in {Squeeze(v.tr)}} : TRUE
<1>1. SqueezeMore(s, n) = CHOOSE w \in {more(v) : v \in {s}} : TRUE  BY DEF SqueezeMore, After
<1>2. more(s) = with(s, Squeeze(s.tr))
  <2> HIDE DEF with
  <2>1. QED  OBVIOUS
<1> HIDE DEF more
<1>3. SqueezeMore(s, n) = more(s)  BY <1>1
<1>4. QED  BY <1>2, <1>3

\* As many squeezes as the outputs asked for have portions.
LEMMA SameSqueezes ==
  ASSUME NEW t, NEW u, Same(t, u), NEW n \in Nat
  PROVE  LET m == (n + Rate - 1) \div Rate
         IN  Same(SqueezeFields(t, n).tr, Ones(u, [k \in 1..m |-> k]))
<1> DEFINE m == (n + Rate - 1) \div Rate
           ps == Portions(n)
           ks == [k \in 1..m |-> k]
           start == [tr |-> t, out |-> <<>>]
<1>1. m \in Nat  BY PieceCount, SpongeShape
<1>2. IsSeq(ps) /\ Len(ps) = m
  <2>1. ps = [k \in 1..m |-> ps[k]]  BY DEF Portions
  <2> HIDE DEF ps, m
  <2>2. QED  BY <1>1, <2>1, FunctionIsSeq
<1>3. IsSeq(ks) /\ Len(ks) = m
  <2>1. ks = [k \in 1..m |-> ks[k]]  OBVIOUS
  <2> HIDE DEF ks, m
  <2>2. QED  BY <1>1, <2>1, FunctionIsSeq
<1>4. SqueezeFields(t, n) = SqueezeFold(start, ps)  BY DEF SqueezeFields, SqueezeFold
<1> HIDE DEF ps, ks, m
<1>5. PICK g : /\ g[0] = start /\ SqueezeFold(start, ps) = g[Len(ps)]
               /\ \A k \in 1..Len(ps) : g[k] = SqueezeMore(g[k - 1], ps[k])
  BY <1>2, SqueezeFoldRun
<1>6. PICK h : /\ h[0] = u /\ Ones(u, ks) = h[Len(ks)]
               /\ \A k \in 1..Len(ks) : h[k] = SqueezeOnce(h[k - 1], ks[k])
  BY <1>3, OnesRun
<1> DEFINE S == {k \in 0..m : Same(g[k].tr, h[k])}
<1>7. 0 \in S  BY <1>1, <1>5, <1>6
<1>8. ASSUME NEW k \in 0..m, k \in S, k < m PROVE k + 1 \in S
  <2>1. k + 1 \in 1..m /\ k + 1 \in 0..m /\ (k + 1) - 1 = k  BY <1>1, <1>8
  <2>2. g[k + 1] = SqueezeMore(g[k], ps[k + 1])  BY <1>2, <1>5, <2>1
  <2>3. g[k + 1].tr = Squeeze(g[k].tr)  BY <2>2, SqueezeMoreValue
  <2>4. h[k + 1] = PermuteNow(AbsorbElem(h[k], 1))  BY <1>3, <1>6, <2>1 DEF SqueezeOnce
  <2>5. Same(g[k].tr, h[k])  BY <1>8
  <2>6. Same(g[k + 1].tr, h[k + 1])  BY <2>3, <2>4, <2>5, SqueezeFacts
  <2>7. QED  BY <2>1, <2>6
<1> HIDE DEF S
<1>9. m \in S
  <2>1. \A k \in 0..m : k \in S  BY <1>1, <1>7, <1>8, InductionUpTo
  <2>2. QED  BY <1>1, <2>1
<1>10. QED  BY <1>2, <1>3, <1>4, <1>5, <1>6, <1>9 DEF S, m, ks

-----------------------------------------------------------------------------
(* Calls.                                                                  *)

\* The elements of a call and its squeezes, one at a time.
LEMMA ElementwiseFacts ==
  ASSUME NEW u, NEW call
  PROVE  ApplyElementwise(u, call) = Ones(Elems(u, Elements(call)), [k \in 1..Squeezes(call) |-> k])
BY DEF ApplyElementwise, Ones, Elems

\* No squeeze leaves the transcript alone.
LEMMA NoSqueeze ==
  ASSUME NEW u
  PROVE  Ones(u, [k \in 1..0 |-> k]) = u
<1> DEFINE ks == [k \in 1..0 |-> k]
<1>1. ks = [k \in 1..0 |-> ks[k]] /\ 0 \in Nat  OBVIOUS
<1> HIDE DEF ks
<1>2. IsSeq(ks) /\ Len(ks) = 0  BY <1>1, FunctionIsSeq
<1>3. Ones(u, ks) = u  BY <1>2, OnesRun
<1>4. QED  BY <1>3 DEF ks

\* A call, by either path, and its replay one element at a time.
LEMMA SameCall ==
  ASSUME NEW t, NEW u, Same(t, u), NEW call \in Calls, NEW path
  PROVE  Same(Apply(t, call, path), ApplyElementwise(u, call))
<1> DEFINE label == call.label
           data == call.data
<1>1. /\ call.op \in {"message", "fields", "u64s", "challenge", "fork", "digest"}
      /\ label \in Seq(Nat) /\ data \in Seq(Nat)
      /\ call.op = "challenge" => data # <<>>
      /\ {AppDomain, ChalLabel, ForkLabel} \subseteq Seq(Nat)
  BY CallsAssumption
<1>2. IsSeq(label) /\ IsSeq(data) /\ IsSeq(ChalLabel) /\ IsSeq(ForkLabel)
  <2>1. label \in Seq(Nat) /\ data \in Seq(Nat) /\ ChalLabel \in Seq(Nat) /\ ForkLabel \in Seq(Nat)
    BY <1>1
  <2> HIDE DEF label, data
  <2>2. QED  BY <2>1, IsSeqOfSet
<1> DEFINE v == Apply(t, call, path)
           w == ApplyElementwise(u, call)
           es == Elements(call)
<1> SUFFICES Same(v, w)  OBVIOUS
<1> HIDE DEF v, w, es
<1>3. ASSUME Squeezes(call) = 0, Same(v, Elems(u, es)) PROVE Same(v, w)
  <2>1. w = Ones(Elems(u, es), [k \in 1..0 |-> k])  BY <1>3, ElementwiseFacts DEF w, es
  <2>2. w = Elems(u, es)  BY <2>1, NoSqueeze
  <2>3. QED  BY <1>3, <2>2
<1>4. CASE call.op = "message"
  <2>1. /\ v = AppendMessage(t, label, data) /\ es = Framed(label) \o Framed(data)
        /\ Squeezes(call) = 0
    BY <1>4 DEF Apply, Elements, Squeezes, v, es
  <2> HIDE DEF label, data
  <2>2. Same(AppendMessage(t, label, data), Elems(u, Framed(label) \o Framed(data)))
    BY <1>2, SameMessage
  <2>3. QED  BY <1>3, <2>1, <2>2
<1>5. CASE call.op = "fork"
  <2>1. /\ v = AppendMessage(t, ForkLabel, label) /\ es = Framed(ForkLabel) \o Framed(label)
        /\ Squeezes(call) = 0
    BY <1>5 DEF Apply, Elements, Squeezes, Fork, v, es
  <2> HIDE DEF label
  <2>2. Same(AppendMessage(t, ForkLabel, label), Elems(u, Framed(ForkLabel) \o Framed(label)))
    BY <1>2, SameMessage
  <2>3. QED  BY <1>3, <2>1, <2>2
<1>6. CASE call.op = "fields"
  <2> DEFINE t1 == AbsorbElem(AbsorbPackedBytes(t, label), Len(data))
             all == Framed(label) \o <<Len(data)>> \o data
  <2>1. /\ v = AbsorbSlice(t1, data) \/ v = AbsorbChunked(t1, data, Chunk)
        /\ es = all /\ Squeezes(call) = 0
    BY <1>6 DEF Apply, Elements, Squeezes, AppendFields, AppendFieldsIter, v, es
  <2>2. Same(AbsorbSlice(t1, data), Elems(u, all)) /\ Same(AbsorbChunked(t1, data, Chunk), Elems(u, all))
    <3> HIDE DEF label, data
    <3>1. Chunk \in Nat \ {0}  BY SpongeShape
    <3>2. QED  BY <1>2, <3>1, SameCounted
  <2> HIDE DEF t1, all
  <2>3. QED  BY <1>3, <2>1, <2>2
<1>7. CASE call.op = "u64s"
  <2> DEFINE t1 == AbsorbElem(AbsorbPackedBytes(t, label), Len(data))
             hs == Halves(data)
             all == Framed(label) \o <<Len(data)>> \o hs
  <2>1. v = AbsorbChunked(t1, hs, 2 * Chunk) /\ es = all /\ Squeezes(call) = 0
    BY <1>7 DEF Apply, Elements, Squeezes, AppendU64s, AbsorbU64s, v, es
  <2>2. IsSeq(hs)
    <3>1. hs = [i \in 1..(2 * Len(data)) |-> hs[i]]  BY DEF Halves
    <3>2. Len(data) \in Nat  BY <1>2, IsSeqLen
    <3> DEFINE n == 2 * Len(data)
    <3>3. n \in Nat  BY <3>2
    <3> HIDE DEF hs, n
    <3>4. hs = [i \in 1..n |-> hs[i]]  BY <3>1 DEF n
    <3>5. QED  BY <3>3, <3>4, FunctionIsSeq
  <2>3. Same(AbsorbChunked(t1, hs, 2 * Chunk), Elems(u, all))
    <3> DEFINE c2 == 2 * Chunk
               n == Len(data)
    <3>1. c2 \in Nat \ {0}  BY SpongeShape
    <3> HIDE DEF label, hs, c2, n
    <3>2. Same(AbsorbChunked(AbsorbElem(AbsorbPackedBytes(t, label), n), hs, c2),
               Elems(u, Framed(label) \o <<n>> \o hs))
      BY <1>2, <2>2, <3>1, SameCounted
    <3>3. QED  BY <3>2 DEF c2, n
  <2> HIDE DEF t1, all, hs
  <2>4. QED  BY <1>3, <2>1, <2>3
<1>8. CASE call.op = "challenge"
  <2> DEFINE n == data[1]
             m == (n + Rate - 1) \div Rate
             t1 == AppendMessage(t, ChalLabel, label)
             all == Framed(ChalLabel) \o Framed(label)
  <2>1. v = SqueezeFields(t1, n).tr /\ es = all /\ Squeezes(call) = m
    BY <1>8 DEF Apply, Elements, Squeezes, ChallengeFields, v, es
  <2>2. w = Ones(Elems(u, all), [k \in 1..m |-> k])  BY <2>1, ElementwiseFacts DEF w, es
  <2>3. n \in Nat
    <3>1. data \in Seq(Nat) /\ data # <<>>  BY <1>1, <1>8
    <3> HIDE DEF data
    <3>2. QED  BY <3>1
  <2>4. Same(t1, Elems(u, all))
    <3> HIDE DEF label
    <3>1. QED  BY <1>2, SameMessage
  <2> HIDE DEF t1, all, n, m
  <2>5. Same(SqueezeFields(t1, n).tr, Ones(Elems(u, all), [k \in 1..m |-> k]))
    BY <2>3, <2>4, SameSqueezes DEF m
  <2>6. QED  BY <2>1, <2>2, <2>5
<1>9. CASE call.op = "digest"
  <2>1. v = Squeeze(t) /\ es = <<>> /\ Squeezes(call) = 1
    BY <1>9, DigestValue DEF Apply, Elements, Squeezes, v, es
  <2> DEFINE ks == [k \in 1..1 |-> k]
  <2>2. w = Ones(Elems(u, <<>>), ks)  BY <2>1, ElementwiseFacts DEF w, es
  <2>3. IsSeq(ks) /\ Len(ks) = 1
    <3>1. ks = [k \in 1..1 |-> ks[k]] /\ 1 \in Nat  OBVIOUS
    <3> HIDE DEF ks
    <3>2. QED  BY <3>1, FunctionIsSeq
  <2>4. Elems(u, <<>>) = u  BY EmptyIsSeq, ElemsOfNone
  <2> HIDE DEF ks
  <2>5. Ones(u, ks) = PermuteNow(AbsorbElem(u, 1))
    <3>1. PICK g : /\ g[0] = u /\ Ones(u, ks) = g[Len(ks)]
                   /\ \A k \in 1..Len(ks) : g[k] = SqueezeOnce(g[k - 1], ks[k])
      BY <2>3, OnesRun
    <3>2. 1 \in 1..Len(ks) /\ 1 - 1 = 0  BY <2>3
    <3>3. g[1] = SqueezeOnce(g[0], ks[1])  BY <3>1, <3>2
    <3>4. QED  BY <2>3, <3>1, <3>3 DEF SqueezeOnce
  <2>6. QED  BY <2>1, <2>2, <2>4, <2>5, SqueezeFacts
<1>10. QED  BY <1>1, <1>4, <1>5, <1>6, <1>7, <1>8, <1>9

-----------------------------------------------------------------------------
(* The inductive invariant: the transcript of the code and the replay one  *)
(* element at a time say the same.                                         *)

SaySame == Same(left.tr, left.plain)

\* A fresh transcript is its own replay.
LEMMA FreshSaysSame == Init => SaySame
<1> DEFINE zero == [st |-> ZeroState, absorbed |-> 0]
<1>1. IsTr(zero)  BY SpongeShape DEF IsTr
<1>2. Same(zero, zero)  BY <1>1 DEF Same
<1>3. IsSeq(AppDomain)
  <2>1. AppDomain \in Seq(Nat)  BY CallsAssumption
  <2>2. QED  BY <2>1, IsSeqOfSet
<1>4. NewTranscript(AppDomain) = AppendMessage(zero, AppDomain, AppDomain)  BY DEF NewTranscript
<1> HIDE DEF zero
<1> DEFINE new == AppendMessage(zero, AppDomain, AppDomain)
<1>5. IsTr(new)
  <2>1. Same(new, Elems(zero, Framed(AppDomain) \o Framed(AppDomain)))  BY <1>2, <1>3, SameMessage
  <2>2. QED  BY <2>1 DEF Same
<1> HIDE DEF new
<1>6. Same(new, new)  BY <1>5 DEF Same
<1>7. QED  BY <1>4, <1>6 DEF Init, Fresh, SaySame, new

\* No call on either transcript lets the two differ.
LEMMA CallsSaySame == SaySame /\ [Next]_vars => SaySame'
<1> SUFFICES ASSUME SaySame, [Next]_vars PROVE SaySame'  OBVIOUS
<1>1. ASSUME NEW call \in Calls, NEW path, CallLeft(call, path) PROVE SaySame'
  <2>1. left'.tr = Apply(left.tr, call, path) /\ left'.plain = ApplyElementwise(left.plain, call)
    BY <1>1 DEF CallLeft, AfterCall
  <2>2. Same(left.tr, left.plain)  BY DEF SaySame
  <2>3. Same(Apply(left.tr, call, path), ApplyElementwise(left.plain, call))  BY <2>2, SameCall
  <2>4. QED  BY <2>1, <2>3 DEF SaySame
<1>2. ASSUME NEW call \in Calls, CallRight(call) PROVE SaySame'
  BY <1>2 DEF CallRight, SaySame
<1>3. CASE UNCHANGED vars  BY <1>3 DEF vars, SaySame
<1>4. QED  BY <1>1, <1>2, <1>3 DEF Next

(***************************************************************************)
(* For every rate, packing, buffer size, permutation and sequence of       *)
(* calls: the next digest of a transcript is that of its elements absorbed *)
(* one at a time.                                                          *)
(***************************************************************************)
THEOREM SlicesNeverShow == Spec => []SlicingIsInvisible
<1>1. SaySame => SlicingIsInvisible
  <2> SUFFICES ASSUME SaySame PROVE Outcome(left.tr) = Outcome(left.plain)
    BY DEF SlicingIsInvisible
  <2>1. Squeeze(left.tr) = Squeeze(left.plain)  BY SqueezeFacts DEF SaySame
  <2>2. ASSUME NEW t PROVE Outcome(t) = Lanes(Squeeze(t), Rate)  BY DigestValue DEF Outcome
  <2>3. QED  BY <2>1, <2>2
<1>2. QED  BY <1>1, FreshSaysSame, CallsSaySame, PTL DEF Spec

-----------------------------------------------------------------------------
(* Codes that can be undone.                                               *)

\* A limb is Horner's rule from the last byte to the first.
IsHorner(g, u, n) ==
  /\ g[0] = 0 /\ Limb(u) = g[n]
  /\ \A k \in 0..n : g[k] \in Nat
  /\ \A k \in 1..n : g[k] = u[(n - k) + 1] + ByteBase * g[k - 1]

\* A limb of bytes is the end of such a run.
LEMMA LimbRun ==
  ASSUME NEW n \in Nat, NEW u, IsSeq(u), Len(u) = n, \A i \in 1..n : u[i] \in Nat
  PROVE  \E g : IsHorner(g, u, n)
<1> DEFINE r == Reverse(u)
<1>1. r = [i \in 1..n |-> u[(n - i) + 1]]  BY DEF Reverse
<1>2. Limb(u) = FoldLeft(LAMBDA acc, byte : byte + ByteBase * acc, 0, r)  BY DEF Limb
<1> HIDE DEF r
<1>3. r = [i \in 1..n |-> r[i]] /\ \A i \in 1..n : r[i] = u[(n - i) + 1]  BY <1>1
<1>4. IsSeq(r) /\ Len(r) = n  BY <1>3, FunctionIsSeq
<1>5. Limb(u) = G!Fold(0, 0, r)
  BY <1>2 DEF G!Fold, FoldLeft, MapThenFoldSet, G!FoldLeft, G!MapThenFoldSet, Max, G!Max
<1>6. G!IsSeq(r)  BY <1>4 DEF IsSeq, G!IsSeq
<1>7. PICK g : G!IsRun(0, g, 0, r, Len(r)) /\ G!Fold(0, 0, r) = g[Len(r)]  BY <1>6, G!FoldIsRun
<1>8. /\ g[0] = 0 /\ G!Fold(0, 0, r) = g[n]
      /\ \A k \in 1..n : g[k] = r[k] + ByteBase * g[k - 1]
  BY <1>4, <1>7 DEF G!IsRun
<1>9. \A k \in 1..n : g[k] = u[(n - k) + 1] + ByteBase * g[k - 1]  BY <1>3, <1>8
<1> DEFINE S == {k \in 0..n : g[k] \in Nat}
<1>10. 0 \in S  BY <1>8
<1>11. ASSUME NEW k \in 0..n, k \in S, k < n PROVE k + 1 \in S
  <2> DEFINE p == g[k]
             c == u[(n - (k + 1)) + 1]
  <2>1. k + 1 \in 1..n /\ k + 1 \in 0..n /\ (k + 1) - 1 = k /\ (n - (k + 1)) + 1 \in 1..n
    BY <1>11
  <2>2. g[k + 1] = c + ByteBase * p  BY <1>9, <2>1
  <2>3. p \in Nat /\ c \in Nat /\ ByteBase \in Nat  BY <1>11, <2>1, LabelsAssumption
  <2> HIDE DEF p, c
  <2>4. ByteBase * p \in Nat  BY <2>3
  <2>5. c + ByteBase * p \in Nat  BY <2>3, <2>4
  <2>6. QED  BY <2>1, <2>2, <2>5
<1> HIDE DEF S
<1>12. \A k \in 0..n : k \in S  BY <1>10, <1>11, InductionUpTo
<1>13. \A k \in 0..n : g[k] \in Nat  BY <1>12 DEF S
<1>14. QED  BY <1>5, <1>8, <1>9, <1>13 DEF IsHorner

\* One limb stands for one piece of bytes of its length.
LEMMA LimbsApart ==
  ASSUME NEW n \in Nat, NEW s, NEW t, IsSeq(s), IsSeq(t), Len(s) = n, Len(t) = n,
         \A i \in 1..n : s[i] \in 0..(ByteBase - 1) /\ t[i] \in 0..(ByteBase - 1),
         Limb(s) = Limb(t)
  PROVE  \A i \in 1..n : s[i] = t[i]
<1>1. ByteBase \in Nat \ {0}  BY LabelsAssumption
<1>2. PICK g : IsHorner(g, s, n)
  <2>1. \A i \in 1..n : s[i] \in Nat  BY <1>1
  <2>2. QED  BY <2>1, LimbRun
<1>3. PICK h : IsHorner(h, t, n)
  <2>1. \A i \in 1..n : t[i] \in Nat  BY <1>1
  <2>2. QED  BY <2>1, LimbRun
<1> DEFINE T == {k \in 0..n : g[n - k] = h[n - k] /\ \A i \in 1..k : s[i] = t[i]}
<1>4. 0 \in T
  <2>1. n - 0 = n  OBVIOUS
  <2>2. g[n] = h[n]  BY <1>2, <1>3 DEF IsHorner
  <2>3. QED  BY <2>1, <2>2
<1>5. ASSUME NEW k \in 0..n, k \in T, k < n PROVE k + 1 \in T
  <2> DEFINE j == n - k
             p == g[j - 1]
             q == h[j - 1]
             c == s[k + 1]
             d == t[k + 1]
  <2>1. /\ j \in 1..n /\ j - 1 \in 0..n /\ (n - j) + 1 = k + 1 /\ n - (k + 1) = j - 1
        /\ k + 1 \in 0..n /\ k + 1 \in 1..n
    BY <1>5
  <2>2. g[j] = h[j] /\ \A i \in 1..k : s[i] = t[i]  BY <1>5
  <2> HIDE DEF j
  <2>3. g[j] = c + ByteBase * p /\ h[j] = d + ByteBase * q  BY <1>2, <1>3, <2>1 DEF IsHorner
  <2>4. c \in 0..(ByteBase - 1) /\ d \in 0..(ByteBase - 1) /\ p \in Int /\ q \in Int
    BY <1>2, <1>3, <2>1 DEF IsHorner
  <2>5. c + ByteBase * p = d + ByteBase * q  BY <2>2, <2>3
  <2>6. c = d /\ p = q
    <3> DEFINE a == c + ByteBase * p
    <3> HIDE DEF p, q, c, d
    <3>1. a \in Int /\ a = ByteBase * p + c /\ a = ByteBase * q + d  BY <1>1, <2>4, <2>5
    <3> HIDE DEF a
    <3>2. a % ByteBase = c /\ a \div ByteBase = p  BY <1>1, <2>4, <3>1, DivModIs
    <3>3. a % ByteBase = d /\ a \div ByteBase = q  BY <1>1, <2>4, <3>1, DivModIs
    <3>4. QED  BY <3>2, <3>3
  <2>7. \A i \in 1..(k + 1) : s[i] = t[i]
    <3> SUFFICES ASSUME NEW i \in 1..(k + 1) PROVE s[i] = t[i]  OBVIOUS
    <3>1. i = k + 1 \/ i \in 1..k  OBVIOUS
    <3>2. QED  BY <2>2, <2>6, <3>1
  <2>8. g[n - (k + 1)] = h[n - (k + 1)]  BY <2>1, <2>6
  <2>9. QED  BY <2>1, <2>7, <2>8
<1> HIDE DEF T
<1>6. \A k \in 0..n : k \in T  BY <1>4, <1>5, InductionUpTo
<1>7. n \in T  BY <1>6
<1>8. QED  BY <1>7 DEF T

\* The limbs of bytes tell the bytes, once their number is known.
LEMMA LimbsTellBytes ==
  ASSUME NEW u, NEW v, IsSeq(u), IsSeq(v), Len(u) = Len(v), Limbs(u) = Limbs(v),
         \A i \in 1..Len(u) : u[i] \in 0..(ByteBase - 1) /\ v[i] \in 0..(ByteBase - 1)
  PROVE  u = v
<1> DEFINE n == BytesPerLimb
           len == Len(u)
           cu == Chunks(u, n)
           cv == Chunks(v, n)
           m == Len(cu)
<1>1. n \in Nat \ {0} /\ len \in Nat /\ ByteBase \in Nat \ {0}
  BY IsSeqLen, SpongeShape, LabelsAssumption
<1>2. /\ IsSeq(cu) /\ m = (len + n - 1) \div n
      /\ Reach(u, n, 0) = 0 /\ Reach(u, n, m) = len
      /\ \A k \in 1..m : /\ Reach(u, n, k - 1) \in 0..len
                         /\ Reach(u, n, k) \in Reach(u, n, k - 1)..len
                         /\ cu[k] = SubSeq(u, Reach(u, n, k - 1) + 1, Reach(u, n, k))
  BY <1>1, ChunksFacts
<1>3. /\ IsSeq(cv) /\ Len(cv) = m
      /\ \A k \in 1..m : cv[k] = SubSeq(v, Reach(u, n, k - 1) + 1, Reach(u, n, k))
  <2>1. /\ IsSeq(cv) /\ Len(cv) = (Len(v) + n - 1) \div n
        /\ \A k \in 1..Len(cv) : cv[k] = SubSeq(v, Reach(v, n, k - 1) + 1, Reach(v, n, k))
    BY <1>1, ChunksFacts
  <2>2. \A k : Reach(v, n, k) = Reach(u, n, k)  BY DEF Reach
  <2>3. Len(cv) = m  BY <1>2, <2>1
  <2> HIDE DEF cv, m
  <2>4. QED  BY <2>1, <2>2, <2>3
<1>4. m \in Nat /\ DOMAIN cu = 1..m /\ DOMAIN cv = 1..m  BY <1>2, <1>3, IsSeqLen
<1>5. \A k \in 1..m : Limb(cu[k]) = Limb(cv[k])
  <2> DEFINE lu == Limbs(u)
             lv == Limbs(v)
  <2>1. lu = [k \in DOMAIN cu |-> Limb(cu[k])] /\ lv = [k \in DOMAIN cv |-> Limb(cv[k])]
    BY DEF Limbs
  <2>2. lu = lv  OBVIOUS
  <2> HIDE DEF lu, lv, cu, cv, m
  <2>3. \A k \in 1..m : lu[k] = Limb(cu[k]) /\ lv[k] = Limb(cv[k])  BY <1>4, <2>1
  <2>4. QED  BY <2>2, <2>3
<1> HIDE DEF cu, cv, m
<1> DEFINE S == {k \in 0..m : \A i \in 1..Reach(u, n, k) : u[i] = v[i]}
<1>6. 0 \in S  BY <1>2, <1>4
<1>7. ASSUME NEW k \in 0..m, k \in S, k < m PROVE k + 1 \in S
  <2> DEFINE p == Reach(u, n, k)
             q == Reach(u, n, k + 1)
             a == cu[k + 1]
             b == cv[k + 1]
  <2>1. k + 1 \in 1..m /\ k + 1 \in 0..m /\ (k + 1) - 1 = k  BY <1>4, <1>7
  <2>2. p \in 0..len /\ q \in p..len /\ a = SubSeq(u, p + 1, q) /\ b = SubSeq(v, p + 1, q)
    BY <1>2, <1>3, <2>1
  <2>3. Limb(a) = Limb(b)  BY <1>5, <2>1
  <2>4. \A i \in 1..p : u[i] = v[i]  BY <1>7
  <2> HIDE DEF p, q, a, b
  <2>5. p + 1 \in Nat \ {0} /\ q \in Nat /\ q <= len /\ q - p \in Nat
    BY <1>1, <2>2
  <2>7. /\ IsSeq(a) /\ Len(a) = q - p /\ \A i \in 1..(q - p) : a[i] = u[p + i]
        /\ IsSeq(b) /\ Len(b) = q - p /\ \A i \in 1..(q - p) : b[i] = v[p + i]
    BY <1>1, <2>2, SliceEntries
  <2>8. \A i \in 1..(q - p) : a[i] \in 0..(ByteBase - 1) /\ b[i] \in 0..(ByteBase - 1)
    <3> SUFFICES ASSUME NEW i \in 1..(q - p)
                 PROVE  a[i] \in 0..(ByteBase - 1) /\ b[i] \in 0..(ByteBase - 1)
      OBVIOUS
    <3>1. p + i \in 1..Len(u)  BY <1>1, <2>2, <2>5
    <3>2. QED  BY <2>7, <3>1
  <2>9. \A i \in 1..(q - p) : a[i] = b[i]
    <3> DEFINE d == q - p
    <3>1. /\ d \in Nat /\ IsSeq(a) /\ IsSeq(b) /\ Len(a) = d /\ Len(b) = d
          /\ \A i \in 1..d : a[i] \in 0..(ByteBase - 1) /\ b[i] \in 0..(ByteBase - 1)
      BY <2>5, <2>7, <2>8
    <3> HIDE DEF d
    <3>2. \A i \in 1..d : a[i] = b[i]  BY <2>3, <3>1, LimbsApart
    <3>3. QED  BY <3>2 DEF d
  <2>10. \A i \in 1..q : u[i] = v[i]
    <3> SUFFICES ASSUME NEW i \in 1..q PROVE u[i] = v[i]  OBVIOUS
    <3>1. CASE i <= p  BY <2>2, <2>4, <3>1
    <3>2. CASE i > p
      <4> DEFINE j == i - p
      <4>1. j \in 1..(q - p) /\ p + j = i  BY <2>2, <2>5, <3>2
      <4> HIDE DEF j
      <4>2. QED  BY <2>7, <2>9, <4>1
    <3>3. QED  BY <2>2, <3>1, <3>2
  <2>11. QED  BY <2>1, <2>10 DEF q
<1> HIDE DEF S
<1>8. \A k \in 0..m : k \in S  BY <1>4, <1>6, <1>7, InductionUpTo
<1>9. m \in S  BY <1>4, <1>8
<1>10. \A i \in 1..len : u[i] = v[i]  BY <1>2, <1>9 DEF S
<1>11. QED  BY <1>10, SameSeq

\* The limbs of bytes are a sequence, as long as the number of bytes says.
LEMMA LimbsFacts ==
  ASSUME NEW u, IsSeq(u)
  PROVE  IsSeq(Limbs(u)) /\ Len(Limbs(u)) = (Len(u) + BytesPerLimb - 1) \div BytesPerLimb
<1> DEFINE c == Chunks(u, BytesPerLimb)
           m == Len(c)
           l == Limbs(u)
<1>1. IsSeq(c) /\ m = (Len(u) + BytesPerLimb - 1) \div BytesPerLimb  BY SpongeShape, ChunksFacts
<1>2. DOMAIN c = 1..m /\ m \in Nat  BY <1>1, IsSeqLen
<1>3. l = [k \in DOMAIN c |-> Limb(c[k])]  BY DEF Limbs
<1> HIDE DEF c, l
<1>4. l = [k \in 1..m |-> l[k]]  BY <1>2, <1>3
<1>5. IsSeq(l) /\ Len(l) = m  BY <1>2, <1>4, FunctionIsSeq
<1>6. QED  BY <1>1, <1>5 DEF l

\* What starts with its length, with as many entries after it as the length says, can be
\* told from what follows it.
\* Elements with their count in front.
One(n) == <<n>>
Counted(n, s) == One(n) \o s

\* Their count tells where the counted elements stop.
LEMMA CountedApart ==
  ASSUME NEW n, NEW s, NEW x, NEW m, NEW t, NEW y, IsSeq(s), IsSeq(x), IsSeq(t), IsSeq(y),
         Meet(Counted(n, s), x, Counted(m, t), y), n = m => Len(s) = Len(t)
  PROVE  n = m /\ s = t /\ x = y
<1> DEFINE a == One(n)
           b == One(m)
           sx == s \o x
           ty == t \o y
<1>1. IsSeq(a) /\ Len(a) = 1 /\ a[1] = n /\ IsSeq(b) /\ Len(b) = 1 /\ b[1] = m
  BY OneIsSeq DEF One
<1> HIDE DEF a, b
<1>2. IsSeq(sx) /\ IsSeq(ty)  BY ConcatSeq
<1>3. (a \o s) \o x = a \o sx  BY <1>1, ConcatTwice
<1>4. (b \o t) \o y = b \o ty  BY <1>1, ConcatTwice
<1>5. Meet(a, sx, b, ty)
  <2>1. (a \o s) \o x = (b \o t) \o y  BY DEF Meet, Counted, a, b
  <2>2. a \o sx = b \o ty  BY <1>3, <1>4, <2>1
  <2>3. QED  BY <2>2 DEF Meet
<1>6. Len(a) = Len(b)  BY <1>1
<1> HIDE DEF sx, ty
<1>7. a = b /\ sx = ty  BY <1>1, <1>2, <1>5, <1>6, SplitEqual
<1>8. n = m  BY <1>1, <1>7
<1>9. Meet(s, x, t, y)  BY <1>7 DEF Meet, sx, ty
<1>10. Len(s) = Len(t)  BY <1>8
<1>11. s = t /\ x = y  BY <1>9, <1>10, SplitEqual
<1>12. QED  BY <1>8, <1>11

\* Framed bytes can be told from what follows them.
LEMMA FramedApart ==
  ASSUME NEW u \in Seq(0..(ByteBase - 1)), NEW v \in Seq(0..(ByteBase - 1)),
         NEW x, NEW y, IsSeq(x), IsSeq(y), Meet(Framed(u), x, Framed(v), y)
  PROVE  u = v /\ x = y
<1>1. IsSeq(u) /\ IsSeq(v)  BY IsSeqOfSet
<1> DEFINE s == Limbs(u)
           t == Limbs(v)
           n == Len(u)
           m == Len(v)
<1>2. IsSeq(s) /\ IsSeq(t) /\ (n = m => Len(s) = Len(t))  BY <1>1, LimbsFacts
<1>3. Framed(u) = Counted(n, s) /\ Framed(v) = Counted(m, t)  BY DEF Framed, Counted, One
<1>4. \A i \in 1..n : u[i] \in 0..(ByteBase - 1)
  BY <1>1, IsSeqLen, LenProperties
<1>5. \A i \in 1..m : v[i] \in 0..(ByteBase - 1)
  BY <1>1, IsSeqLen, LenProperties
<1> HIDE DEF s, t, n, m
<1>6. Meet(Counted(n, s), x, Counted(m, t), y)  BY <1>3
<1>7. n = m /\ s = t /\ x = y  BY <1>2, <1>6, CountedApart
<1>8. u = v  BY <1>1, <1>4, <1>5, <1>7, LimbsTellBytes DEF s, t, n, m
<1>9. QED  BY <1>7, <1>8

\* Framed bytes are a sequence that starts with their number.
LEMMA FramedFacts ==
  ASSUME NEW u, IsSeq(u)
  PROVE  IsSeq(Framed(u)) /\ Len(Framed(u)) \in Nat \ {0} /\ Framed(u)[1] = Len(u)
<1> DEFINE n == Len(u)
           a == <<n>>
           s == Limbs(u)
<1>1. IsSeq(s)  BY LimbsFacts
<1>2. IsSeq(a) /\ Len(a) = 1 /\ a[1] = n  BY OneIsSeq
<1>3. Framed(u) = a \o s  BY DEF Framed
<1> HIDE DEF n, a, s
<1>4. /\ IsSeq(a \o s) /\ Len(a \o s) = Len(a) + Len(s)
      /\ \A i \in 1..Len(a) : (a \o s)[i] = a[i]
  BY <1>1, <1>2, ConcatSeq
<1>5. Len(s) \in Nat  BY <1>1, IsSeqLen
<1>6. QED  BY <1>2, <1>3, <1>4, <1>5 DEF n

\* The halves of words tell the words.
LEMMA HalvesApart ==
  ASSUME NEW us \in Seq(Nat), NEW vs \in Seq(Nat), Len(us) = Len(vs), Halves(us) = Halves(vs)
  PROVE  us = vs
<1> DEFINE n == Len(us)
           a == Halves(us)
           b == Halves(vs)
<1>1. n \in Nat /\ WordBase \in Nat \ {0} /\ IsSeq(us) /\ IsSeq(vs)
  BY IsSeqOfSet, IsSeqLen, LabelsAssumption
<1>2. ASSUME NEW ws, Len(ws) = n, NEW i \in 1..n
      PROVE  Halves(ws)[2 * i - 1] = ws[i] % WordBase /\ Halves(ws)[2 * i] = ws[i] \div WordBase
  <2> DEFINE h == Halves(ws)
             odd == 2 * i - 1
             even == 2 * i
  <2>1. h = [j \in 1..(2 * n) |-> IF j % 2 = 1 THEN ws[(j + 1) \div 2] % WordBase
                                 ELSE ws[j \div 2] \div WordBase]
    BY <1>2 DEF Halves
  <2>2. /\ odd \in 1..(2 * n) /\ even \in 1..(2 * n) /\ odd % 2 = 1 /\ even % 2 = 0
        /\ (odd + 1) \div 2 = i /\ even \div 2 = i
    BY <1>1
  <2> HIDE DEF h, odd, even
  <2>3. h[odd] = ws[(odd + 1) \div 2] % WordBase  BY <2>1, <2>2
  <2>5. h[even] = ws[even \div 2] \div WordBase
    <3>1. ~(even % 2 = 1)  BY <2>2
    <3>2. QED  BY <2>1, <2>2, <3>1
  <2>6. h[odd] = ws[i] % WordBase /\ h[even] = ws[i] \div WordBase  BY <2>2, <2>3, <2>5
  <2>4. QED  BY <2>6 DEF h, odd, even
<1>3. \A i \in 1..n : us[i] = vs[i]
  <2> SUFFICES ASSUME NEW i \in 1..n PROVE us[i] = vs[i]  OBVIOUS
  <2> DEFINE p == us[i]
             q == vs[i]
  <2>1. a[2 * i - 1] = p % WordBase /\ a[2 * i] = p \div WordBase  BY <1>2
  <2>2. b[2 * i - 1] = q % WordBase /\ b[2 * i] = q \div WordBase  BY <1>2
  <2>3. p \in Int /\ q \in Int
    <3>1. i \in 1..Len(us) /\ i \in 1..Len(vs)  OBVIOUS
    <3>2. QED  BY <3>1, LenProperties
  <2>4. a = b  OBVIOUS
  <2> HIDE DEF a, b, p, q
  <2>5. p % WordBase = q % WordBase /\ p \div WordBase = q \div WordBase  BY <2>1, <2>2, <2>4
  <2>6. p = WordBase * (p \div WordBase) + (p % WordBase)
        /\ q = WordBase * (q \div WordBase) + (q % WordBase)
    BY <1>1, <2>3, DivMod
  <2>7. p = q  BY <2>5, <2>6
  <2>8. QED  BY <2>7 DEF p, q
<1>4. QED  BY <1>1, <1>3, SameSeq

\* The halves are a sequence of twice the length.
LEMMA HalvesFacts ==
  ASSUME NEW us, IsSeq(us)
  PROVE  IsSeq(Halves(us)) /\ Len(Halves(us)) = 2 * Len(us)
<1> DEFINE h == Halves(us)
           n == 2 * Len(us)
<1>1. Len(us) \in Nat  BY IsSeqLen
<1>2. n \in Nat  BY <1>1
<1>3. h = [i \in 1..n |-> h[i]]  BY DEF Halves
<1> HIDE DEF h, n
<1>4. IsSeq(h) /\ Len(h) = n  BY <1>2, <1>3, FunctionIsSeq
<1>5. QED  BY <1>4 DEF h, n

-----------------------------------------------------------------------------
(* What a call absorbs, the gates of its squeezes included: its codeword.  *)

\* A sequence of numbers.
Numbers(xs) == IsSeq(xs) /\ \A i \in 1..Len(xs) : xs[i] \in Nat

\* Numbers after numbers are numbers.
LEMMA NumbersConcat ==
  ASSUME NEW s, NEW t, Numbers(s), Numbers(t)
  PROVE  Numbers(s \o t)
<1> DEFINE w == s \o t
           n == Len(s)
           m == Len(t)
<1>1. IsSeq(s) /\ IsSeq(t)  BY DEF Numbers
<1>2. /\ IsSeq(w) /\ Len(w) = n + m
      /\ \A i \in 1..n : w[i] = s[i]
      /\ \A i \in 1..m : w[n + i] = t[i]
  BY <1>1, ConcatSeq
<1>3. n \in Nat /\ m \in Nat  BY <1>1, IsSeqLen
<1>4. (\A i \in 1..n : s[i] \in Nat) /\ (\A i \in 1..m : t[i] \in Nat)  BY DEF Numbers
<1> HIDE DEF w, n, m
<1>5. ASSUME NEW i \in 1..(n + m) PROVE w[i] \in Nat
  <2>1. CASE i <= n  BY <1>2, <1>3, <1>4, <2>1
  <2>2. CASE i > n
    <3> DEFINE j == i - n
    <3>1. j \in 1..m /\ n + j = i  BY <1>3, <2>2
    <3> HIDE DEF j
    <3>2. w[i] = t[j]  BY <1>2, <3>1
    <3>3. QED  BY <1>4, <3>1, <3>2
  <2>3. QED  BY <1>3, <2>1, <2>2
<1>6. Numbers(w)  BY <1>2, <1>5 DEF Numbers
<1>7. QED  BY <1>6 DEF w

\* One number is.
LEMMA NumbersOne ==
  ASSUME NEW n \in Nat
  PROVE  Numbers(<<n>>)
BY OneIsSeq DEF Numbers

\* So is a sequence over Nat.
LEMMA NumbersOfSet ==
  ASSUME NEW s \in Seq(Nat)
  PROVE  Numbers(s) /\ Len(s) \in Nat
<1>1. IsSeq(s)  BY IsSeqOfSet
<1>2. \A i \in 1..Len(s) : s[i] \in Nat  BY LenProperties
<1>3. QED  BY <1>1, <1>2, LenProperties DEF Numbers

\* Limbs are numbers.
LEMMA NumbersOfLimbs ==
  ASSUME NEW u, Numbers(u)
  PROVE  Numbers(Limbs(u))
<1> DEFINE n == BytesPerLimb
           c == Chunks(u, n)
           m == Len(c)
           l == Limbs(u)
           len == Len(u)
<1>1. IsSeq(u) /\ len \in Nat /\ \A i \in 1..len : u[i] \in Nat  BY IsSeqLen DEF Numbers
<1>2. /\ IsSeq(c)
      /\ \A k \in 1..m : /\ Reach(u, n, k - 1) \in 0..len
                         /\ Reach(u, n, k) \in Reach(u, n, k - 1)..len
                         /\ c[k] = SubSeq(u, Reach(u, n, k - 1) + 1, Reach(u, n, k))
  BY <1>1, SpongeShape, ChunksFacts
<1>3. DOMAIN c = 1..m /\ m \in Nat  BY <1>2, IsSeqLen
<1>4. l = [k \in DOMAIN c |-> Limb(c[k])]  BY DEF Limbs
<1>5. ASSUME NEW k \in 1..m PROVE Limb(c[k]) \in Nat
  <2> DEFINE p == Reach(u, n, k - 1)
             q == Reach(u, n, k)
             a == c[k]
             d == q - p
  <2>1. p \in 0..len /\ q \in p..len /\ a = SubSeq(u, p + 1, q)  BY <1>2
  <2> HIDE DEF p, q, a
  <2>2. d \in Nat /\ IsSeq(a) /\ Len(a) = d /\ \A i \in 1..d : a[i] = u[p + i]
    BY <1>1, <2>1, SliceEntries
  <2>3. \A i \in 1..d : a[i] \in Nat
    <3> SUFFICES ASSUME NEW i \in 1..d PROVE a[i] \in Nat  OBVIOUS
    <3>1. p + i \in 1..len  BY <1>1, <2>1
    <3>2. QED  BY <1>1, <2>2, <3>1
  <2> HIDE DEF d
  <2>4. PICK g : IsHorner(g, a, d)  BY <2>2, <2>3, LimbRun
  <2>5. d \in 0..d  BY <2>2
  <2>6. Limb(a) \in Nat  BY <2>4, <2>5 DEF IsHorner
  <2>7. QED  BY <2>6 DEF a
<1> HIDE DEF c, l, m
<1>6. l = [k \in 1..m |-> l[k]] /\ \A k \in 1..m : l[k] \in Nat  BY <1>3, <1>4, <1>5
<1>7. IsSeq(l) /\ Len(l) = m  BY <1>3, <1>6, FunctionIsSeq
<1>8. QED  BY <1>6, <1>7 DEF Numbers, l

\* So are framed bytes.
LEMMA NumbersOfFramed ==
  ASSUME NEW u \in Seq(Nat)
  PROVE  Numbers(Framed(u))
<1>1. Numbers(u) /\ Len(u) \in Nat  BY NumbersOfSet
<1>2. Numbers(<<Len(u)>>)  BY <1>1, NumbersOne
<1>3. Numbers(Limbs(u))  BY <1>1, NumbersOfLimbs
<1>4. QED  BY <1>2, <1>3, NumbersConcat DEF Framed

\* And the halves of words.
LEMMA NumbersOfHalves ==
  ASSUME NEW us \in Seq(Nat)
  PROVE  Numbers(Halves(us))
<1> DEFINE h == Halves(us)
           n == Len(us)
<1>1. n \in Nat /\ WordBase \in Nat \ {0} /\ \A i \in 1..n : us[i] \in Nat
  BY NumbersOfSet, LabelsAssumption DEF Numbers
<1>2. h = [j \in 1..(2 * n) |-> IF j % 2 = 1 THEN us[(j + 1) \div 2] % WordBase
                               ELSE us[j \div 2] \div WordBase]
  BY DEF Halves
<1>3. IsSeq(h) /\ Len(h) = 2 * n
  <2>1. IsSeq(us)  BY IsSeqOfSet
  <2>2. QED  BY <2>1, HalvesFacts
<1> HIDE DEF h, n
<1>4. ASSUME NEW j \in 1..(2 * n) PROVE h[j] \in Nat
  <2>1. CASE j % 2 = 1
    <3> DEFINE x == us[(j + 1) \div 2]
    <3>1. (j + 1) \div 2 \in 1..n  BY <1>1, <2>1
    <3>2. x \in Nat  BY <1>1, <3>1
    <3>3. h[j] = x % WordBase  BY <1>2, <2>1
    <3> HIDE DEF x
    <3>4. x % WordBase \in Nat  BY <1>1, <3>2
    <3>5. QED  BY <3>3, <3>4
  <2>2. CASE j % 2 # 1
    <3> DEFINE x == us[j \div 2]
    <3>1. j \div 2 \in 1..n  BY <1>1, <2>2
    <3>2. x \in Nat  BY <1>1, <3>1
    <3>3. h[j] = x \div WordBase  BY <1>2, <2>2
    <3> HIDE DEF x
    <3>4. x \div WordBase \in Nat  BY <1>1, <3>2
    <3>5. QED  BY <3>3, <3>4
  <2>3. QED  BY <2>1, <2>2
<1>5. QED  BY <1>3, <1>4 DEF Numbers, h

\* The gates of k squeezes.
Gates(k) == [i \in 1..k |-> 1]

\* Gates are numbers, as many as squeezes.
LEMMA GatesFacts ==
  ASSUME NEW k \in Nat
  PROVE  Numbers(Gates(k)) /\ Len(Gates(k)) = k
<1> DEFINE s == Gates(k)
<1>1. s = [i \in 1..k |-> s[i]] /\ \A i \in 1..k : s[i] \in Nat  BY DEF Gates
<1> HIDE DEF s
<1>2. IsSeq(s) /\ Len(s) = k  BY <1>1, FunctionIsSeq
<1>3. QED  BY <1>1, <1>2 DEF Numbers, s

Codeword(call) == Elements(call) \o Gates(Squeezes(call))

\* A call has a natural number of squeezes.
LEMMA SqueezesCount ==
  ASSUME NEW call \in Calls
  PROVE  Squeezes(call) \in Nat
<1>1. CASE call.op = "challenge"
  <2>1. call.data \in Seq(Nat) /\ call.data # <<>>  BY <1>1, CallsAssumption
  <2>2. call.data[1] \in Nat  BY <2>1
  <2>3. (call.data[1] + Rate - 1) \div Rate \in Nat  BY <2>2, SpongeShape, PieceCount
  <2>4. QED  BY <1>1, <2>3 DEF Squeezes
<1>2. CASE call.op # "challenge"  BY <1>2 DEF Squeezes
<1>3. QED  BY <1>1, <1>2

\* What a call is made of.
LEMMA CallFacts ==
  ASSUME NEW call \in Calls
  PROVE  /\ call.op \in {"message", "fields", "u64s", "challenge", "fork", "digest"}
         /\ call.label \in Seq(Nat) /\ call.data \in Seq(Nat)
         /\ ChalLabel \in Seq(Nat) /\ ForkLabel \in Seq(Nat)
BY CallsAssumption

\* The elements of a call are numbers.
LEMMA ElementsNumbers ==
  ASSUME NEW call \in Calls
  PROVE  Numbers(Elements(call))
<1> DEFINE label == call.label
           data == call.data
<1>1. label \in Seq(Nat) /\ data \in Seq(Nat) /\ ChalLabel \in Seq(Nat) /\ ForkLabel \in Seq(Nat)
  BY CallFacts
<1> HIDE DEF label, data
<1>2. /\ Numbers(Framed(label)) /\ Numbers(Framed(data))
      /\ Numbers(Framed(ChalLabel)) /\ Numbers(Framed(ForkLabel))
  BY <1>1, NumbersOfFramed
<1>3. Numbers(data) /\ Numbers(<<Len(data)>>) /\ Numbers(Halves(data))
  BY <1>1, NumbersOfSet, NumbersOne, NumbersOfHalves
<1>4. Numbers(<<>>)
  <2>1. <<>> \in Seq(Nat)  OBVIOUS
  <2>2. QED  BY <2>1, NumbersOfSet
<1>5. /\ Numbers(Framed(label) \o Framed(data))
      /\ Numbers(Framed(ChalLabel) \o Framed(label))
      /\ Numbers(Framed(ForkLabel) \o Framed(label))
  BY <1>2, NumbersConcat
<1>6. Numbers(Framed(label) \o <<Len(data)>>)  BY <1>2, <1>3, NumbersConcat
<1> DEFINE head == Framed(label) \o <<Len(data)>>
<1>7. Numbers(head \o data) /\ Numbers(head \o Halves(data))
  <2> HIDE DEF head
  <2>1. Numbers(head)  BY <1>6 DEF head
  <2>2. QED  BY <1>3, <2>1, NumbersConcat
<1>8. CASE call.op = "message"  BY <1>5, <1>8 DEF Elements, label, data
<1>9. CASE call.op = "fields"
  <2>1. Elements(call) = Framed(label) \o <<Len(data)>> \o data  BY <1>9 DEF Elements, label, data
  <2>2. QED  BY <1>7, <2>1
<1>10. CASE call.op = "u64s"
  <2>1. Elements(call) = Framed(label) \o <<Len(data)>> \o Halves(data)
    BY <1>10 DEF Elements, label, data
  <2>2. QED  BY <1>7, <2>1
<1>11. CASE call.op = "challenge"  BY <1>5, <1>11 DEF Elements, label, data
<1>12. CASE call.op = "fork"  BY <1>5, <1>12 DEF Elements, label, data
<1>13. CASE call.op = "digest"  BY <1>4, <1>13 DEF Elements
<1>14. QED  BY <1>8, <1>9, <1>10, <1>11, <1>12, <1>13, CallFacts

\* What follows the first label.
Core(call) ==
    CASE call.op = "message" -> Framed(call.data)
      [] call.op = "fields" -> Counted(Len(call.data), call.data)
      [] call.op = "u64s" -> Counted(Len(call.data), Halves(call.data))
      [] call.op \in {"challenge", "fork"} -> Framed(call.label)

\* The first label of a call, framed, and what follows it.
LEMMA CoreFacts ==
  ASSUME NEW call \in Calls, call.op # "digest"
  PROVE  /\ Elements(call) = Framed(FirstLabel(call)) \o Core(call)
         /\ FirstLabel(call) \in Seq(0..(ByteBase - 1)) /\ Len(FirstLabel(call)) # 1
         /\ IsSeq(Core(call)) /\ IsSeq(FirstLabel(call))
<1> DEFINE label == call.label
           data == call.data
<1>1. label \in Seq(Nat) /\ data \in Seq(Nat)  BY CallFacts
<1>2. FirstLabel(call) \in Seq(0..(ByteBase - 1)) /\ Len(FirstLabel(call)) # 1
  <2>1. Len(FirstLabel(call)) # 1  BY LabelsAssumption
  <2>2. /\ label \in Seq(0..(ByteBase - 1)) /\ ChalLabel \in Seq(0..(ByteBase - 1))
        /\ ForkLabel \in Seq(0..(ByteBase - 1))
    BY LabelsAssumption
  <2>3. QED  BY <2>1, <2>2 DEF FirstLabel
<1>3. IsSeq(FirstLabel(call))  BY <1>2, IsSeqOfSet
<1> HIDE DEF label, data
<1>4. IsSeq(label) /\ IsSeq(data)  BY <1>1, IsSeqOfSet
<1>5. IsSeq(Framed(label)) /\ IsSeq(Framed(data)) /\ IsSeq(Halves(data)) /\ IsSeq(One(Len(data)))
  BY <1>4, FramedFacts, HalvesFacts, OneIsSeq DEF One
<1>6. IsSeq(Counted(Len(data), data)) /\ IsSeq(Counted(Len(data), Halves(data)))
  BY <1>4, <1>5, ConcatSeq DEF Counted
<1>7. CASE call.op = "message"
  <2>1. FirstLabel(call) = label /\ Core(call) = Framed(data)
    BY <1>7 DEF FirstLabel, Core, label, data
  <2>2. Elements(call) = Framed(label) \o Framed(data)  BY <1>7 DEF Elements, label, data
  <2>3. QED  BY <1>2, <1>3, <1>5, <2>1, <2>2
<1>8. CASE call.op = "fields"
  <2>1. FirstLabel(call) = label /\ Core(call) = Counted(Len(data), data)
    BY <1>8 DEF FirstLabel, Core, label, data
  <2>2. Elements(call) = Framed(label) \o One(Len(data)) \o data
    BY <1>8 DEF Elements, One, label, data
  <2>3. (Framed(label) \o One(Len(data))) \o data = Framed(label) \o (One(Len(data)) \o data)
    BY <1>4, <1>5, ConcatTwice
  <2>4. Elements(call) = Framed(label) \o Counted(Len(data), data)  BY <2>2, <2>3 DEF Counted
  <2>5. QED  BY <1>2, <1>3, <1>6, <2>1, <2>4
<1>9. CASE call.op = "u64s"
  <2>1. FirstLabel(call) = label /\ Core(call) = Counted(Len(data), Halves(data))
    BY <1>9 DEF FirstLabel, Core, label, data
  <2>2. Elements(call) = Framed(label) \o One(Len(data)) \o Halves(data)
    BY <1>9 DEF Elements, One, label, data
  <2>3. (Framed(label) \o One(Len(data))) \o Halves(data)
          = Framed(label) \o (One(Len(data)) \o Halves(data))
    BY <1>5, ConcatTwice
  <2>4. Elements(call) = Framed(label) \o Counted(Len(data), Halves(data))
    BY <2>2, <2>3 DEF Counted
  <2>5. QED  BY <1>2, <1>3, <1>6, <2>1, <2>4
<1>10. CASE call.op = "challenge"
  <2>1. FirstLabel(call) = ChalLabel /\ Core(call) = Framed(label)
    BY <1>10 DEF FirstLabel, Core, label
  <2>2. Elements(call) = Framed(ChalLabel) \o Framed(label)  BY <1>10 DEF Elements, label
  <2>3. QED  BY <1>2, <1>3, <1>5, <2>1, <2>2
<1>11. CASE call.op = "fork"
  <2>1. FirstLabel(call) = ForkLabel /\ Core(call) = Framed(label)
    BY <1>11 DEF FirstLabel, Core, label
  <2>2. Elements(call) = Framed(ForkLabel) \o Framed(label)  BY <1>11 DEF Elements, label
  <2>3. QED  BY <1>2, <1>3, <1>5, <2>1, <2>2
<1>12. QED  BY <1>7, <1>8, <1>9, <1>10, <1>11, CallFacts

\* A codeword is not empty, and starts with a 1 only where the call is a bare squeeze.
LEMMA CodewordFacts ==
  ASSUME NEW call \in Calls
  PROVE  /\ Numbers(Codeword(call)) /\ IsSeq(Codeword(call)) /\ Len(Codeword(call)) \in Nat \ {0}
         /\ (Codeword(call)[1] = 1 <=> call.op = "digest")
<1> DEFINE e == Elements(call)
           g == Gates(Squeezes(call))
           w == e \o g
<1>1. Numbers(e) /\ Numbers(g) /\ Len(g) = Squeezes(call) /\ Squeezes(call) \in Nat
  BY ElementsNumbers, GatesFacts, SqueezesCount
<1>2. IsSeq(e) /\ IsSeq(g)  BY <1>1 DEF Numbers
<1>3. Numbers(w) /\ IsSeq(w)
  <2> HIDE DEF e, g
  <2>1. QED  BY <1>1, NumbersConcat DEF Numbers
<1>4. /\ Len(w) = Len(e) + Len(g) /\ \A i \in 1..Len(e) : w[i] = e[i]
      /\ \A i \in 1..Len(g) : w[Len(e) + i] = g[i]
  <2> HIDE DEF e, g
  <2>1. QED  BY <1>2, ConcatSeq
<1>5. Len(e) \in Nat  BY <1>2, IsSeqLen
<1>6. CASE call.op = "digest"
  <2>1. e = <<>> /\ Squeezes(call) = 1  BY <1>6 DEF Elements, Squeezes
  <2>2. Len(e) = 0  BY <2>1, EmptyIsSeq
  <2>3. g[1] = 1  BY <2>1 DEF Gates
  <2> HIDE DEF e, g, w
  <2>4. Len(g) = 1  BY <1>1, <2>1
  <2>5. w[0 + 1] = g[1] /\ Len(w) = 1
    <3>1. 1 \in 1..Len(g)  BY <2>4
    <3>2. QED  BY <1>4, <2>2, <2>4, <3>1
  <2>6. QED  BY <1>3, <1>6, <2>3, <2>5 DEF Codeword, e, g, w
<1>7. CASE call.op # "digest"
  <2> DEFINE f == Framed(FirstLabel(call))
             c == Core(call)
  <2>1. e = f \o c /\ IsSeq(c) /\ IsSeq(FirstLabel(call)) /\ Len(FirstLabel(call)) # 1
    BY <1>7, CoreFacts
  <2>2. IsSeq(f) /\ Len(f) \in Nat \ {0} /\ f[1] = Len(FirstLabel(call))  BY <2>1, FramedFacts
  <2> HIDE DEF e, g, w, f, c
  <2>3. Len(f \o c) = Len(f) + Len(c) /\ \A i \in 1..Len(f) : (f \o c)[i] = f[i]
    BY <2>1, <2>2, ConcatSeq
  <2>4. Len(c) \in Nat  BY <2>1, IsSeqLen
  <2>5. Len(e) \in Nat \ {0} /\ e[1] = f[1]  BY <2>1, <2>2, <2>3, <2>4
  <2>6. w[1] = f[1] /\ Len(w) \in Nat \ {0}  BY <1>1, <1>4, <2>5
  <2>7. w[1] # 1  BY <2>1, <2>2, <2>6
  <2>8. QED  BY <1>3, <1>7, <2>6, <2>7 DEF Codeword, e, g, w
<1>8. QED  BY <1>6, <1>7

\* A labelled call: its first label, then the rest.
LEMMA CodewordSplit ==
  ASSUME NEW call \in Calls, call.op # "digest", NEW x, IsSeq(x)
  PROVE  LET g == Gates(Squeezes(call))
         IN  /\ IsSeq(g \o x) /\ IsSeq(Core(call) \o (g \o x))
             /\ Codeword(call) \o x = Framed(FirstLabel(call)) \o (Core(call) \o (g \o x))
<1> DEFINE g == Gates(Squeezes(call))
           f == Framed(FirstLabel(call))
           c == Core(call)
           gx == g \o x
           fc == f \o c
<1>1. Elements(call) = fc /\ IsSeq(c) /\ IsSeq(f)  BY CoreFacts, FramedFacts
<1>2. IsSeq(g)  BY SqueezesCount, GatesFacts DEF Numbers
<1>3. Codeword(call) = fc \o g  BY <1>1 DEF Codeword
<1> HIDE DEF g, f, c
<1>4. IsSeq(gx) /\ IsSeq(fc)  BY <1>1, <1>2, ConcatSeq
<1> HIDE DEF gx
<1>5. IsSeq(c \o gx)  BY <1>1, <1>4, ConcatSeq
<1>6. (f \o c) \o gx = f \o (c \o gx)  BY <1>1, <1>4, ConcatTwice
<1> HIDE DEF fc
<1>7. (fc \o g) \o x = fc \o (g \o x)  BY <1>2, <1>4, ConcatTwice
<1>8. Codeword(call) \o x = f \o (c \o gx)  BY <1>3, <1>6, <1>7 DEF gx, fc
<1>9. QED  BY <1>4, <1>5, <1>8 DEF g, f, c, gx

\* Calls with one first label and one core are one call.
LEMMA CoreTells ==
  ASSUME NEW call \in Calls, NEW other \in Calls, call.op # "digest", other.op # "digest",
         FirstLabel(call) = FirstLabel(other), NEW x, NEW y, IsSeq(x), IsSeq(y),
         Meet(Core(call), x, Core(other), y)
  PROVE  call = other
<1>1. call.op = other.op  BY LabelsAssumption
<1>2. /\ call = [op |-> call.op, label |-> call.label, data |-> call.data]
      /\ other = [op |-> other.op, label |-> other.label, data |-> other.data]
  BY LabelsAssumption
<1>3. SUFFICES call.label = other.label /\ call.data = other.data  BY <1>1, <1>2
<1> DEFINE label == call.label
           data == call.data
           label2 == other.label
           data2 == other.data
           Bytes == 0..(ByteBase - 1)
<1>4. label \in Seq(Bytes) /\ label2 \in Seq(Bytes)  BY LabelsAssumption
<1>5. data \in Seq(Nat) /\ data2 \in Seq(Nat)  BY CallFacts
<1>6. ASSUME Core(call) = Framed(label), Core(other) = Framed(label2) PROVE label = label2
  <2> HIDE DEF label, label2
  <2>1. Meet(Framed(label), x, Framed(label2), y)  BY <1>6
  <2>2. QED  BY <1>4, <2>1, FramedApart
<1>7. ASSUME NEW s, NEW t, IsSeq(s), IsSeq(t), Len(data) = Len(data2) => Len(s) = Len(t),
             Core(call) = Counted(Len(data), s), Core(other) = Counted(Len(data2), t)
      PROVE  Len(data) = Len(data2) /\ s = t
  <2> DEFINE n == Len(data)
             m == Len(data2)
  <2> HIDE DEF n, m
  <2>1. Meet(Counted(n, s), x, Counted(m, t), y) /\ (n = m => Len(s) = Len(t))
    BY <1>7 DEF n, m
  <2>2. n = m /\ s = t  BY <1>7, <2>1, CountedApart
  <2>3. QED  BY <2>2 DEF n, m
<1>8. CASE call.op = "message"
  <2>1. data \in Seq(Bytes) /\ data2 \in Seq(Bytes)  BY <1>1, <1>8, LabelsAssumption
  <2>2. label = label2  BY <1>1, <1>8 DEF FirstLabel
  <2>3. Core(call) = Framed(data) /\ Core(other) = Framed(data2)  BY <1>1, <1>8 DEF Core
  <2> HIDE DEF data, data2, label, label2
  <2>4. Meet(Framed(data), x, Framed(data2), y)  BY <2>3
  <2>5. data = data2  BY <2>1, <2>4, FramedApart
  <2>6. QED  BY <2>2, <2>5 DEF data, data2, label, label2
<1>9. CASE call.op = "fields"
  <2>1. label = label2  BY <1>1, <1>9 DEF FirstLabel
  <2>2. Core(call) = Counted(Len(data), data) /\ Core(other) = Counted(Len(data2), data2)
    BY <1>1, <1>9 DEF Core
  <2>3. IsSeq(data) /\ IsSeq(data2)
    <3> HIDE DEF data, data2
    <3>1. QED  BY <1>5, IsSeqOfSet
  <2>4. data = data2  BY <1>7, <2>2, <2>3
  <2>5. QED  BY <2>1, <2>4
<1>10. CASE call.op = "u64s"
  <2>1. label = label2  BY <1>1, <1>10 DEF FirstLabel
  <2> DEFINE h == Halves(data)
             h2 == Halves(data2)
  <2>2. Core(call) = Counted(Len(data), h) /\ Core(other) = Counted(Len(data2), h2)
    BY <1>1, <1>10 DEF Core
  <2>3. IsSeq(data) /\ IsSeq(data2)
    <3> HIDE DEF data, data2
    <3>1. QED  BY <1>5, IsSeqOfSet
  <2>4. IsSeq(h) /\ IsSeq(h2) /\ (Len(data) = Len(data2) => Len(h) = Len(h2))
    <3>1. /\ IsSeq(h) /\ Len(h) = 2 * Len(data)
          /\ IsSeq(h2) /\ Len(h2) = 2 * Len(data2)
      <4> HIDE DEF data, data2
      <4>1. QED  BY <2>3, HalvesFacts
    <3>2. QED  BY <3>1
  <2> HIDE DEF h, h2
  <2>5. Len(data) = Len(data2) /\ h = h2  BY <1>7, <2>2, <2>4
  <2>6. data = data2
    <3> HIDE DEF data, data2
    <3>1. QED  BY <1>5, <2>5, HalvesApart DEF h, h2
  <2>7. QED  BY <2>1, <2>6
<1>11. CASE call.op = "challenge"
  <2>1. Core(call) = Framed(label) /\ Core(other) = Framed(label2)  BY <1>1, <1>11 DEF Core
  <2>2. label = label2  BY <1>6, <2>1
  <2>3. data = data2  BY <1>1, <1>11, <2>2, LabelsAssumption
  <2>4. QED  BY <2>2, <2>3
<1>12. CASE call.op = "fork"
  <2>1. Core(call) = Framed(label) /\ Core(other) = Framed(label2)  BY <1>1, <1>12 DEF Core
  <2>2. label = label2  BY <1>6, <2>1
  <2>3. data = data2  BY <1>1, <1>12, LabelsAssumption
  <2>4. QED  BY <2>2, <2>3
<1>13. QED  BY <1>8, <1>9, <1>10, <1>11, <1>12, CallFacts

\* Whatever follows them, two codewords that start alike are those of one call.
LEMMA CodewordApart ==
  ASSUME NEW call \in Calls, NEW other \in Calls, NEW x, NEW y, IsSeq(x), IsSeq(y),
         Meet(Codeword(call), x, Codeword(other), y)
  PROVE  call = other
<1>1. call.op = "digest" <=> other.op = "digest"
  <2> DEFINE v == Codeword(call)
             w == Codeword(other)
  <2>1. /\ IsSeq(v) /\ Len(v) \in Nat \ {0} /\ (v[1] = 1 <=> call.op = "digest")
        /\ IsSeq(w) /\ Len(w) \in Nat \ {0} /\ (w[1] = 1 <=> other.op = "digest")
    BY CodewordFacts
  <2>2. v \o x = w \o y  BY DEF Meet
  <2> HIDE DEF v, w
  <2>3. (v \o x)[1] = v[1]
    <3>1. 1 \in 1..Len(v)  BY <2>1
    <3>2. QED  BY <2>1, <3>1, ConcatSeq
  <2>4. (w \o y)[1] = w[1]
    <3>1. 1 \in 1..Len(w)  BY <2>1
    <3>2. QED  BY <2>1, <3>1, ConcatSeq
  <2>5. v[1] = w[1]  BY <2>2, <2>3, <2>4
  <2>6. QED  BY <2>1, <2>5
<1>2. CASE call.op = "digest"
  <2>1. /\ call = [op |-> call.op, label |-> call.label, data |-> call.data]
        /\ other = [op |-> other.op, label |-> other.label, data |-> other.data]
        /\ call.label = <<>> /\ call.data = <<>> /\ other.label = <<>> /\ other.data = <<>>
    BY <1>1, <1>2, LabelsAssumption
  <2>2. QED  BY <1>1, <1>2, <2>1
<1>3. CASE call.op # "digest"
  <2> DEFINE gx == Gates(Squeezes(call)) \o x
             gy == Gates(Squeezes(other)) \o y
             cx == Core(call) \o gx
             cy == Core(other) \o gy
             u == FirstLabel(call)
             v == FirstLabel(other)
  <2>1. IsSeq(gx) /\ IsSeq(cx) /\ Codeword(call) \o x = Framed(u) \o cx
    BY <1>3, CodewordSplit
  <2>2. IsSeq(gy) /\ IsSeq(cy) /\ Codeword(other) \o y = Framed(v) \o cy
    BY <1>1, <1>3, CodewordSplit
  <2>3. u \in Seq(0..(ByteBase - 1)) /\ v \in Seq(0..(ByteBase - 1))  BY <1>1, <1>3, CoreFacts
  <2> HIDE DEF gx, gy, u, v, cx, cy
  <2>4. Meet(Framed(u), cx, Framed(v), cy)
    <3>1. Codeword(call) \o x = Codeword(other) \o y  BY DEF Meet
    <3>2. QED  BY <2>1, <2>2, <3>1 DEF Meet
  <2>5. u = v /\ cx = cy  BY <2>1, <2>2, <2>3, <2>4, FramedApart
  <2>6. Meet(Core(call), gx, Core(other), gy)  BY <2>5 DEF Meet, cx, cy
  <2>7. FirstLabel(call) = FirstLabel(other)  BY <2>5 DEF u, v
  <2>8. QED  BY <1>1, <1>3, <2>1, <2>2, <2>6, <2>7, CoreTells
<1>4. QED  BY <1>2, <1>3

-----------------------------------------------------------------------------
(* Sequences of calls and what they absorb.                                *)

C == INSTANCE FoldFacts WITH Op <- LAMBDA d, acc, x : acc \o Codeword(x)

Absorbed(start, cs) == C!Fold(0, start, cs)

\* One more call absorbs one more codeword.
LEMMA AbsorbedAppend ==
  ASSUME NEW start, NEW cs, IsSeq(cs), NEW c
  PROVE  Absorbed(start, Append(cs, c)) = Absorbed(start, cs) \o Codeword(c)
<1>1. C!IsSeq(cs)  BY DEF IsSeq, C!IsSeq
<1>2. QED  BY <1>1, C!FoldOfAppend DEF Absorbed

\* The stages of absorbing calls one after another; each is the start of the end.
Stages(g, start, cs) ==
  /\ g[0] = start /\ Absorbed(start, cs) = g[Len(cs)]
  /\ \A k \in 1..Len(cs) : g[k] = g[k - 1] \o Codeword(cs[k])
  /\ \A k \in 0..Len(cs) : IsSeq(g[k])
  /\ \A k \in 0..Len(cs) : \E z : IsSeq(z) /\ g[Len(cs)] = g[k] \o z

\* Such stages exist, whatever the calls.
LEMMA AbsorbedStages ==
  ASSUME NEW start, IsSeq(start), NEW cs \in Seq(Calls)
  PROVE  \E g : Stages(g, start, cs)
<1> DEFINE n == Len(cs)
<1>1. IsSeq(cs) /\ n \in Nat /\ \A k \in 1..n : cs[k] \in Calls
  BY IsSeqOfSet, LenProperties
<1>2. C!IsSeq(cs)  BY <1>1 DEF IsSeq, C!IsSeq
<1>3. PICK g : C!IsRun(0, g, start, cs, Len(cs)) /\ C!Fold(0, start, cs) = g[Len(cs)]
  BY <1>2, C!FoldIsRun
<1>4. /\ g[0] = start /\ Absorbed(start, cs) = g[n]
      /\ \A k \in 1..n : g[k] = g[k - 1] \o Codeword(cs[k])
  BY <1>3 DEF C!IsRun, Absorbed
<1> HIDE DEF n
<1> DEFINE S == {k \in 0..n : IsSeq(g[k])}
<1>5. 0 \in S  BY <1>1, <1>4
<1>6. ASSUME NEW k \in 0..n, k \in S, k < n PROVE k + 1 \in S
  <2>1. k + 1 \in 1..n /\ k + 1 \in 0..n /\ (k + 1) - 1 = k  BY <1>1, <1>6
  <2>2. g[k + 1] = g[k] \o Codeword(cs[k + 1])  BY <1>4, <2>1
  <2>3. IsSeq(g[k]) /\ IsSeq(Codeword(cs[k + 1]))  BY <1>1, <1>6, <2>1, CodewordFacts
  <2>4. IsSeq(g[k + 1])  BY <2>2, <2>3, ConcatSeq
  <2>5. QED  BY <2>1, <2>4
<1> HIDE DEF S
<1>7. \A k \in 0..n : k \in S  BY <1>1, <1>5, <1>6, InductionUpTo
<1>8. \A k \in 0..n : IsSeq(g[k])  BY <1>7 DEF S
<1> DEFINE T == {k \in 0..n : \E z : IsSeq(z) /\ g[n] = g[n - k] \o z}
<1>9. 0 \in T
  <2>1. n - 0 = n /\ n \in 0..n /\ IsSeq(g[n])  BY <1>1, <1>8
  <2>2. g[n] = g[n] \o <<>>
    <3> DEFINE e == g[n]
    <3>1. IsSeq(e)  BY <2>1
    <3> HIDE DEF e
    <3>2. e \o <<>> = e  BY <3>1, ConcatEmpty
    <3>3. QED  BY <3>2 DEF e
  <2> DEFINE e == <<>>
  <2>3. IsSeq(e)  BY EmptyIsSeq
  <2>4. g[n] = g[n - 0] \o e  BY <2>1, <2>2
  <2> HIDE DEF e
  <2>5. QED  BY <1>1, <2>3, <2>4
<1>10. ASSUME NEW k \in 0..n, k \in T, k < n PROVE k + 1 \in T
  <2> DEFINE j == n - k
             c == Codeword(cs[j])
             a == g[j - 1]
  <2>1. j \in 1..n /\ j - 1 \in 0..n /\ n - (k + 1) = j - 1 /\ k + 1 \in 0..n  BY <1>1, <1>10
  <2>2. PICK z : IsSeq(z) /\ g[n] = g[j] \o z  BY <1>10
  <2>3. g[j] = a \o c  BY <1>4, <2>1
  <2>4. IsSeq(a) /\ IsSeq(c)  BY <1>1, <1>8, <2>1, CodewordFacts
  <2> HIDE DEF a, c
  <2>5. (a \o c) \o z = a \o (c \o z) /\ IsSeq(c \o z)
    <3>1. IsSeq(c \o z)  BY <2>2, <2>4, ConcatSeq
    <3>2. (a \o c) \o z = a \o (c \o z)  BY <2>2, <2>4, ConcatTwice
    <3>3. QED  BY <3>1, <3>2
  <2>6. g[n] = a \o (c \o z)  BY <2>2, <2>3, <2>5
  <2>7. g[n - (k + 1)] = a  BY <2>1 DEF a
  <2>8. QED  BY <2>1, <2>5, <2>6, <2>7
<1> HIDE DEF T
<1>11. \A k \in 0..n : k \in T  BY <1>1, <1>9, <1>10, InductionUpTo
<1>12. ASSUME NEW k \in 0..n PROVE \E z : IsSeq(z) /\ g[n] = g[k] \o z
  <2>1. n - k \in 0..n /\ n - (n - k) = k  BY <1>1
  <2>2. n - k \in T  BY <1>11, <2>1
  <2>3. \E z : IsSeq(z) /\ g[n] = g[n - (n - k)] \o z  BY <2>2 DEF T
  <2>4. QED  BY <2>1, <2>3
<1>13. Stages(g, start, cs)  BY <1>4, <1>8, <1>12 DEF Stages, n
<1>14. QED  BY <1>13

\* Calls that absorb the same.
SameStream(start, as, bs) == Absorbed(start, as) = Absorbed(start, bs)

\* Of two sequences of calls that absorb the same, the shorter one is the other's start.
LEMMA ShorterStarts ==
  ASSUME NEW start, IsSeq(start), NEW as \in Seq(Calls), NEW bs \in Seq(Calls),
         Len(as) <= Len(bs), SameStream(start, as, bs)
  PROVE  as = bs
<1> DEFINE n == Len(as)
           m == Len(bs)
<1>1. /\ n \in Nat /\ m \in Nat /\ n <= m /\ IsSeq(as) /\ IsSeq(bs)
      /\ \A k \in 1..n : as[k] \in Calls
      /\ \A k \in 1..m : bs[k] \in Calls
  BY IsSeqOfSet, LenProperties
<1>2. PICK g : Stages(g, start, as)  BY AbsorbedStages
<1>3. PICK h : Stages(h, start, bs)  BY AbsorbedStages
<1>4. /\ g[0] = start /\ Absorbed(start, as) = g[n]
      /\ \A k \in 1..n : g[k] = g[k - 1] \o Codeword(as[k])
      /\ \A k \in 0..n : IsSeq(g[k])
      /\ \A k \in 0..n : \E z : IsSeq(z) /\ g[n] = g[k] \o z
  BY <1>2 DEF Stages
<1>5. /\ h[0] = start /\ Absorbed(start, bs) = h[m]
      /\ \A k \in 1..m : h[k] = h[k - 1] \o Codeword(bs[k])
      /\ \A k \in 0..m : IsSeq(h[k])
      /\ \A k \in 0..m : \E z : IsSeq(z) /\ h[m] = h[k] \o z
  BY <1>3 DEF Stages
<1>6. g[n] = h[m]  BY <1>4, <1>5 DEF SameStream
<1> HIDE DEF n, m
<1> DEFINE S == {k \in 0..n : g[k] = h[k] /\ \A i \in 1..k : as[i] = bs[i]}
<1>7. 0 \in S
  <2>1. g[0] = h[0]  BY <1>4, <1>5
  <2>2. 0 \in 0..n  BY <1>1
  <2>3. \A i \in 1..0 : as[i] = bs[i]  OBVIOUS
  <2>4. QED  BY <2>1, <2>2, <2>3
<1>8. ASSUME NEW k \in 0..n, k \in S, k < n PROVE k + 1 \in S
  <2> DEFINE j == k + 1
             p == g[k]
             c == as[j]
             d == bs[j]
             u == Codeword(c)
             v == Codeword(d)
  <2>1. j \in 1..n /\ j \in 1..m /\ j \in 0..n /\ j \in 0..m /\ k \in 0..m /\ j - 1 = k
    BY <1>1, <1>8
  <2>2. g[k] = h[k] /\ \A i \in 1..k : as[i] = bs[i]  BY <1>8
  <2> HIDE DEF j
  <2>3. g[j] = p \o u /\ h[j] = p \o v  BY <1>4, <1>5, <2>1, <2>2
  <2>4. PICK x : IsSeq(x) /\ g[n] = g[j] \o x  BY <1>4, <2>1
  <2>5. PICK y : IsSeq(y) /\ h[m] = h[j] \o y  BY <1>5, <2>1
  <2>6. c \in Calls /\ d \in Calls /\ IsSeq(p)  BY <1>1, <1>4, <2>1
  <2> HIDE DEF c, d, p
  <2>7. IsSeq(p) /\ IsSeq(u) /\ IsSeq(v) /\ IsSeq(x) /\ IsSeq(y)  BY <2>4, <2>5, <2>6, CodewordFacts
  <2>8. (p \o u) \o x = (p \o v) \o y  BY <1>6, <2>3, <2>4, <2>5
  <2> HIDE DEF u, v
  <2>9. Meet(p \o u, x, p \o v, y)  BY <2>8 DEF Meet
  <2>10. Meet(u, x, v, y)  BY <2>7, <2>9, CancelFirst
  <2>11. Meet(Codeword(c), x, Codeword(d), y)  BY <2>10 DEF u, v
  <2>12. c = d  BY <2>4, <2>5, <2>6, <2>11, CodewordApart
  <2>13. g[j] = h[j]  BY <2>3, <2>12 DEF u, v
  <2>14. \A i \in 1..j : as[i] = bs[i]
    <3> SUFFICES ASSUME NEW i \in 1..j PROVE as[i] = bs[i]  OBVIOUS
    <3>1. i = j \/ i \in 1..k  BY <2>1
    <3>2. QED  BY <2>2, <2>12, <3>1 DEF c, d
  <2>15. j \in S  BY <2>1, <2>13, <2>14
  <2>16. QED  BY <2>15 DEF j
<1> HIDE DEF S
<1>9. \A k \in 0..n : k \in S  BY <1>1, <1>7, <1>8, InductionUpTo
<1>10. n \in S  BY <1>1, <1>9
<1>11. g[n] = h[n] /\ \A i \in 1..n : as[i] = bs[i]  BY <1>10 DEF S
<1>12. n = m
  <2> SUFFICES ASSUME n < m PROVE FALSE  BY <1>1
  <2> DEFINE j == n + 1
             v == Codeword(bs[j])
             p == h[n]
  <2>1. j \in 1..m /\ j \in 0..m /\ n \in 0..m /\ j - 1 = n  BY <1>1
  <2>2. h[j] = p \o v  BY <1>5, <2>1
  <2>3. PICK y : IsSeq(y) /\ h[m] = h[j] \o y  BY <1>5, <2>1
  <2>4. IsSeq(p) /\ IsSeq(v) /\ Len(v) \in Nat \ {0}  BY <1>1, <1>5, <2>1, CodewordFacts
  <2>5. p = (p \o v) \o y  BY <1>6, <1>11, <2>2, <2>3
  <2> HIDE DEF p, v
  <2>6. IsSeq(p \o v) /\ Len(p \o v) = Len(p) + Len(v)  BY <2>4, ConcatSeq
  <2> DEFINE q == p \o v
             r == q \o y
  <2>7. IsSeq(q) /\ Len(q) = Len(p) + Len(v) /\ p = r  BY <2>5, <2>6
  <2> HIDE DEF q
  <2>8. Len(r) = Len(q) + Len(y)  BY <2>3, <2>7, ConcatSeq
  <2>9. Len(p) \in Nat /\ Len(y) \in Nat  BY <2>3, <2>4, IsSeqLen
  <2> HIDE DEF r
  <2>10. QED  BY <2>4, <2>7, <2>8, <2>9
<1>13. QED  BY <1>1, <1>11, <1>12, SameSeq DEF n, m

\* So two sequences of calls that absorb the same are one.
LEMMA AbsorbedTells ==
  ASSUME NEW start, IsSeq(start), NEW as \in Seq(Calls), NEW bs \in Seq(Calls),
         SameStream(start, as, bs)
  PROVE  as = bs
<1>1. Len(as) \in Nat /\ Len(bs) \in Nat  BY LenProperties
<1>2. SameStream(start, bs, as)  BY DEF SameStream
<1>3. CASE Len(as) <= Len(bs)  BY <1>3, ShorterStarts
<1>4. CASE Len(bs) <= Len(as)
  <2>1. bs = as  BY <1>2, <1>4, ShorterStarts
  <2>2. QED  BY <2>1
<1>5. Len(as) <= Len(bs) \/ Len(bs) <= Len(as)
  <2> DEFINE n == Len(as)
             m == Len(bs)
  <2>1. n \in Nat /\ m \in Nat  BY <1>1
  <2> HIDE DEF n, m
  <2>2. n <= m \/ m <= n  BY <2>1
  <2>3. QED  BY <2>2 DEF n, m
<1>6. QED  BY <1>3, <1>4, <1>5

-----------------------------------------------------------------------------
(* What a state of the symbolic sponge was told: the lanes written between *)
(* its permutations, one block after another.                              *)

\* A block of which the first n lanes were written.
IsBlock(b, n) ==
  /\ n \in 0..Rate /\ b = [i \in 0..(Rate - 1) |-> b[i]]
  /\ \A i \in 0..(Rate - 1) : i < n <=> b[i] # Untouched

Written(b) == LET n == CHOOSE m : IsBlock(b, m) IN [k \in 1..n |-> b[k - 1]]

\* The written lanes are known from the block.
LEMMA WrittenIs ==
  ASSUME NEW b, NEW n, IsBlock(b, n)
  PROVE  /\ Written(b) = [k \in 1..n |-> b[k - 1]]
         /\ IsSeq(Written(b)) /\ Len(Written(b)) = n /\ n \in Nat
<1>1. Rate \in Nat \ {0} /\ n \in 0..Rate /\ n \in Nat  BY SpongeShape DEF IsBlock
<1> DEFINE m == CHOOSE q : IsBlock(b, q)
<1>2. IsBlock(b, m)  OBVIOUS
<1>3. Written(b) = [k \in 1..m |-> b[k - 1]]  BY DEF Written
<1> HIDE DEF m
<1>4. m = n
  <2>1. m \in 0..Rate /\ \A i \in 0..(Rate - 1) : i < m <=> b[i] # Untouched
    BY <1>2 DEF IsBlock
  <2>2. \A i \in 0..(Rate - 1) : i < n <=> b[i] # Untouched  BY DEF IsBlock
  <2>3. ~(m < n)
    <3> SUFFICES ASSUME m < n PROVE FALSE  OBVIOUS
    <3>1. m \in 0..(Rate - 1)  BY <1>1, <2>1
    <3>2. QED  BY <1>1, <2>1, <2>2, <3>1
  <2>4. ~(n < m)
    <3> SUFFICES ASSUME n < m PROVE FALSE  OBVIOUS
    <3>1. n \in 0..(Rate - 1)  BY <1>1, <2>1
    <3>2. QED  BY <1>1, <2>1, <2>2, <3>1
  <2>5. QED  BY <1>1, <2>1, <2>3, <2>4
<1> DEFINE w == [k \in 1..n |-> b[k - 1]]
<1>5. w = [k \in 1..n |-> w[k]]  OBVIOUS
<1>6. Written(b) = w  BY <1>3, <1>4
<1> HIDE DEF w
<1>7. IsSeq(w) /\ Len(w) = n  BY <1>1, <1>5, FunctionIsSeq
<1>8. QED  BY <1>1, <1>6, <1>7 DEF w

\* A blank block has nothing written.
LEMMA BlankIsBlock == IsBlock(Blank, 0) /\ Written(Blank) = <<>>
<1>1. IsBlock(Blank, 0)  BY SpongeShape DEF IsBlock, Blank
<1>2. IsSeq(Written(Blank)) /\ Len(Written(Blank)) = 0  BY <1>1, WrittenIs
<1>3. QED  BY <1>1, <1>2, LenZero

\* Writing the next lane.
LEMMA WriteNext ==
  ASSUME NEW b, NEW n, IsBlock(b, n), n < Rate, NEW x \in Nat
  PROVE  /\ IsBlock([b EXCEPT ![n] = x], n + 1)
         /\ Written([b EXCEPT ![n] = x]) = Append(Written(b), x)
<1> DEFINE c == [b EXCEPT ![n] = x]
<1>1. Rate \in Nat \ {0} /\ n \in 0..(Rate - 1)  BY SpongeShape DEF IsBlock
<1>2. /\ DOMAIN b = 0..(Rate - 1) /\ c = [i \in 0..(Rate - 1) |-> IF i = n THEN x ELSE b[i]]
  <2>1. b = [i \in 0..(Rate - 1) |-> b[i]]  BY DEF IsBlock
  <2>2. DOMAIN b = 0..(Rate - 1)  BY <2>1
  <2>3. QED  BY <2>2
<1> HIDE DEF c
<1>3. /\ c = [i \in 0..(Rate - 1) |-> c[i]] /\ c[n] = x
      /\ \A i \in 0..(Rate - 1) : i # n => c[i] = b[i]
  BY <1>1, <1>2
<1>4. IsBlock(c, n + 1)
  <2>1. n + 1 \in 0..Rate  BY <1>1
  <2>2. ASSUME NEW i \in 0..(Rate - 1) PROVE i < n + 1 <=> c[i] # Untouched
    <3>1. CASE i = n  BY <1>1, <1>3, <3>1 DEF Untouched
    <3>2. CASE i # n
      <4>1. i < n + 1 <=> i < n  BY <1>1, <3>2
      <4>2. i < n <=> b[i] # Untouched  BY DEF IsBlock
      <4>3. c[i] = b[i]  BY <1>3, <3>2
      <4>4. QED  BY <4>1, <4>2, <4>3
    <3>3. QED  BY <3>1, <3>2
  <2>3. QED  BY <1>3, <2>1, <2>2 DEF IsBlock
<1>5. /\ Written(b) = [k \in 1..n |-> b[k - 1]] /\ IsSeq(Written(b)) /\ Len(Written(b)) = n
      /\ n \in Nat
  BY WrittenIs
<1>6. /\ Written(c) = [k \in 1..(n + 1) |-> c[k - 1]] /\ IsSeq(Written(c))
      /\ Len(Written(c)) = n + 1
  BY <1>4, WrittenIs
<1> DEFINE u == Written(b)
           v == Written(c)
           w == Append(u, x)
<1>7. IsSeq(w) /\ Len(w) = n + 1 /\ w[n + 1] = x /\ \A k \in 1..n : w[k] = u[k]
  <2> HIDE DEF u
  <2>1. IsSeq(u) /\ Len(u) = n  BY <1>5 DEF u
  <2>2. QED  BY <2>1, AppendSeq
<1>8. \A k \in 1..(n + 1) : v[k] = w[k]
  <2> SUFFICES ASSUME NEW k \in 1..(n + 1) PROVE v[k] = w[k]  OBVIOUS
  <2>1. v[k] = c[k - 1]  BY <1>6
  <2>2. CASE k = n + 1
    <3>1. k - 1 = n  BY <1>5, <2>2
    <3>2. v[k] = x  BY <1>3, <2>1, <3>1
    <3>3. w[k] = x  BY <1>7, <2>2
    <3>4. QED  BY <3>2, <3>3
  <2>3. CASE k # n + 1
    <3>1. k \in 1..n /\ k - 1 \in 0..(Rate - 1) /\ k - 1 # n  BY <1>1, <1>5, <2>3
    <3>2. u[k] = b[k - 1]  BY <1>5, <3>1
    <3>3. c[k - 1] = b[k - 1]  BY <1>3, <3>1
    <3>4. w[k] = u[k]  BY <1>7, <3>1
    <3>5. QED  BY <2>1, <3>2, <3>3, <3>4
  <2>4. QED  BY <2>2, <2>3
<1>9. v = w
  <2> HIDE DEF w
  <2>1. IsSeq(v) /\ Len(v) = n + 1  BY <1>6
  <2> HIDE DEF v
  <2>2. QED  BY <1>7, <1>8, <2>1, SameSeq
<1>10. QED  BY <1>4, <1>9 DEF c

W == INSTANCE FoldFacts WITH Op <- LAMBDA d, acc, b : acc \o Written(b)

Before(past) == W!Fold(0, <<>>, past)
Told(st) == Before(st.past) \o Written(st.lanes)

\* Nothing was told before the first permutation.
LEMMA BeforeNone == Before(<<>>) = <<>>
<1>1. W!IsSeq(<<>>) /\ Len(<<>>) = 0  BY EmptyIsSeq DEF IsSeq, W!IsSeq
<1>2. QED  BY <1>1, W!FoldOfNone DEF Before

\* A permutation closes a block.
LEMMA BeforeAppend ==
  ASSUME NEW past, IsSeq(past), NEW b
  PROVE  Before(Append(past, b)) = Before(past) \o Written(b)
<1>1. W!IsSeq(past)  BY DEF IsSeq, W!IsSeq
<1>2. QED  BY <1>1, W!FoldOfAppend DEF Before

\* A state fed from the start, of a transcript.
Kept(t) ==
  /\ IsTr(t) /\ t.st = [past |-> t.st.past, lanes |-> t.st.lanes]
  /\ IsSeq(t.st.past) /\ IsSeq(Before(t.st.past)) /\ IsBlock(t.st.lanes, t.absorbed)

\* The state of zeros was told nothing.
LEMMA KeptZero ==
  ASSUME Symbolic
  PROVE  Kept([st |-> ZeroState, absorbed |-> 0]) /\ Told(ZeroState) = <<>>
<1> DEFINE z == [st |-> ZeroState, absorbed |-> 0]
<1>1. ZeroState = [past |-> <<>>, lanes |-> Blank]  BY DEF Symbolic, SymZero
<1>2. /\ z.st = [past |-> <<>>, lanes |-> Blank] /\ z.st.past = <<>> /\ z.st.lanes = Blank
      /\ z.absorbed = 0 /\ z = [st |-> z.st, absorbed |-> z.absorbed]
  BY <1>1
<1> HIDE DEF z
<1>3. IsTr(z)  BY <1>2, SpongeShape DEF IsTr
<1>4. IsSeq(<<>>) /\ IsSeq(Before(<<>>)) /\ IsBlock(Blank, 0)
  BY EmptyIsSeq, BeforeNone, BlankIsBlock
<1>5. Kept(z)  BY <1>2, <1>3, <1>4 DEF Kept
<1>6. Told(ZeroState) = <<>> \o <<>>
  <2>1. ZeroState.past = <<>> /\ ZeroState.lanes = Blank  BY <1>1
  <2>2. QED  BY <2>1, BeforeNone, BlankIsBlock DEF Told
<1>7. <<>> \o <<>> = <<>>  BY EmptyIsSeq, ConcatEmpty
<1>8. QED  BY <1>5, <1>6, <1>7 DEF z

\* A write tells one more element.
LEMMA KeptPut ==
  ASSUME Symbolic, NEW t, Kept(t), t.absorbed < Rate, NEW x \in Nat
  PROVE  Kept(Put(t, x)) /\ Told(Put(t, x).st) = Append(Told(t.st), x) /\ IsSeq(Told(t.st))
<1> DEFINE n == t.absorbed
           past == t.st.past
           b == t.st.lanes
           c == [b EXCEPT ![n] = x]
           u == Put(t, x)
           p == Before(past)
           w == Written(b)
<1>1. /\ IsTr(t) /\ t.st = [past |-> past, lanes |-> b] /\ IsSeq(past) /\ IsSeq(p) /\ IsBlock(b, n)
      /\ n \in 0..Rate /\ n < Rate
  BY DEF Kept, IsTr
<1>2. u = [st |-> [past |-> past, lanes |-> c], absorbed |-> n + 1]
  <2>1. u = [st |-> SymOverwrite(t.st, n, x), absorbed |-> n + 1]  BY DEF Put, Symbolic
  <2>2. SymOverwrite(t.st, n, x) = [past |-> past, lanes |-> c]
    <3>1. SymOverwrite(t.st, n, x) = [t.st EXCEPT !.lanes = [@ EXCEPT ![n] = x]]  BY DEF SymOverwrite
    <3> DEFINE s == t.st
    <3>2. s = [past |-> past, lanes |-> b]  BY <1>1
    <3>3. [s EXCEPT !.lanes = [@ EXCEPT ![n] = x]] = [past |-> past, lanes |-> c]
      <4> HIDE DEF past, b
      <4>1. [[past |-> past, lanes |-> b] EXCEPT !.lanes = [@ EXCEPT ![n] = x]]
              = [past |-> past, lanes |-> c]
        OBVIOUS
      <4>2. QED  BY <3>2, <4>1
    <3>4. QED  BY <3>1, <3>3
  <2>3. QED  BY <2>1, <2>2
<1>3. IsBlock(c, n + 1) /\ Written(c) = Append(w, x)
  <2> HIDE DEF n, b
  <2>1. QED  BY <1>1, WriteNext
<1>4. IsSeq(w)  BY <1>1, WrittenIs
<1> HIDE DEF n, past, b, u, p, w
<1> DEFINE d == c
<1> HIDE DEF d
<1>5. /\ u.st = [past |-> past, lanes |-> d] /\ u.st.past = past /\ u.st.lanes = d
      /\ u.absorbed = n + 1 /\ u = [st |-> u.st, absorbed |-> u.absorbed]
  BY <1>2 DEF d
<1>6. IsBlock(d, n + 1) /\ Written(d) = Append(w, x)  BY <1>3 DEF d
<1>7. IsTr(u)  BY <1>1, <1>5, SpongeShape DEF IsTr
<1>8. Kept(u)  BY <1>1, <1>5, <1>6, <1>7 DEF Kept, p
<1>9. Told(u.st) = p \o Append(w, x) /\ Told(t.st) = p \o w
  BY <1>5, <1>6 DEF Told, p, w, past, b
<1>10. p \o Append(w, x) = Append(p \o w, x)  BY <1>1, <1>4, ConcatAppend
<1>11. IsSeq(p \o w)  BY <1>1, <1>4, ConcatSeq
<1>12. QED  BY <1>8, <1>9, <1>10, <1>11 DEF u

\* A permutation keeps what was told.
LEMMA KeptPermute ==
  ASSUME Symbolic, NEW t, Kept(t)
  PROVE  Kept(PermuteNow(t)) /\ Told(PermuteNow(t).st) = Told(t.st)
<1> DEFINE past == t.st.past
           b == t.st.lanes
           more == Append(past, b)
           u == PermuteNow(t)
           p == Before(past)
           w == Written(b)
<1>1. IsSeq(past) /\ IsSeq(p) /\ IsBlock(b, t.absorbed)  BY DEF Kept
<1>2. u = [st |-> [past |-> more, lanes |-> Blank], absorbed |-> 0]
  BY DEF PermuteNow, Symbolic, SymPermute
<1>3. IsSeq(w)
  <2> HIDE DEF b
  <2>1. QED  BY <1>1, WrittenIs
<1>4. IsSeq(more) /\ Before(more) = p \o w
  <2> HIDE DEF past, b
  <2>1. QED  BY <1>1, AppendSeq, BeforeAppend
<1>5. IsSeq(p \o w)
  <2> HIDE DEF p, w
  <2>1. QED  BY <1>1, <1>3, ConcatSeq
<1> HIDE DEF u, more
<1>6. /\ u.st = [past |-> more, lanes |-> Blank] /\ u.st.past = more /\ u.st.lanes = Blank
      /\ u.absorbed = 0 /\ u = [st |-> u.st, absorbed |-> u.absorbed]
  BY <1>2
<1>7. IsTr(u)  BY <1>6, SpongeShape DEF IsTr
<1>8. Kept(u)
  <2>1. IsSeq(u.st.past) /\ IsSeq(Before(u.st.past)) /\ IsBlock(u.st.lanes, u.absorbed)
    BY <1>4, <1>5, <1>6, BlankIsBlock
  <2>2. QED  BY <1>6, <1>7, <2>1 DEF Kept
<1>9. Told(u.st) = (p \o w) \o <<>>  BY <1>4, <1>6, BlankIsBlock DEF Told
<1>10. (p \o w) \o <<>> = p \o w
  <2> DEFINE q == p \o w
  <2> HIDE DEF p, w
  <2>1. IsSeq(q)  BY <1>5
  <2> HIDE DEF q
  <2>2. q \o <<>> = q  BY <2>1, ConcatEmpty
  <2>3. QED  BY <2>2 DEF q
<1>11. Told(t.st) = p \o w  BY DEF Told
<1>12. QED  BY <1>8, <1>9, <1>10, <1>11 DEF u

-----------------------------------------------------------------------------
(* What a transcript was told, whether or not a full rate is permuted yet. *)

Tells(t, xs) == IsTr(t) /\ Kept(Flush(t)) /\ Told(Flush(t).st) = xs /\ IsSeq(xs)

\* A state fed from the start tells what it was told, and so do transcripts that say the same.
LEMMA KeptTells ==
  ASSUME Symbolic, NEW t, Kept(t), NEW xs, Told(t.st) = xs, IsSeq(xs)
  PROVE  Tells(t, xs)
<1>1. IsTr(t)  BY DEF Kept
<1>2. Kept(PermuteNow(t)) /\ Told(PermuteNow(t).st) = Told(t.st)  BY KeptPermute
<1>3. Kept(Flush(t)) /\ Told(Flush(t).st) = xs
  <2>1. Flush(t) = PermuteNow(t) \/ Flush(t) = t  BY DEF Flush
  <2>2. QED  BY <1>2, <2>1
<1>4. QED  BY <1>1, <1>3 DEF Tells

\* Transcripts that say the same were told the same.
LEMMA SameTells ==
  ASSUME NEW t, NEW u, Same(t, u), NEW xs, Tells(u, xs)
  PROVE  Tells(t, xs)
BY DEF Same, Tells

\* One more element, and the gate of one more squeeze.
LEMMA TellsNext ==
  ASSUME Symbolic, NEW t, NEW xs, Tells(t, xs), NEW x \in Nat
  PROVE  /\ Tells(AbsorbElem(t, x), Append(xs, x))
         /\ Tells(PermuteNow(AbsorbElem(t, x)), Append(xs, x))
         /\ Told(PermuteNow(AbsorbElem(t, x)).st) = Append(xs, x)
<1> DEFINE f == Flush(t)
           v == AbsorbElem(t, x)
           ys == Append(xs, x)
<1>1. IsTr(t) /\ Kept(f) /\ Told(f.st) = xs /\ IsSeq(xs)  BY DEF Tells
<1>2. f.absorbed < Rate  BY <1>1, FlushFacts
<1>3. v = Put(f, x)  BY <1>1, ElemFacts
<1> HIDE DEF f, v
<1>4. Kept(v) /\ Told(v.st) = ys  BY <1>1, <1>2, <1>3, KeptPut
<1>5. IsSeq(ys)  BY <1>1, AppendSeq
<1> HIDE DEF ys
<1>6. Kept(PermuteNow(v)) /\ Told(PermuteNow(v).st) = ys  BY <1>4, KeptPermute
<1>7. Tells(v, ys) /\ Tells(PermuteNow(v), ys)  BY <1>4, <1>5, <1>6, KeptTells
<1>8. QED  BY <1>6, <1>7 DEF v, ys

\* A run that is told one element a step is told them all.
LEMMA TellsRun ==
  ASSUME NEW ys, IsSeq(ys), NEW g, NEW xs, Tells(g[0], xs),
         \A k \in 1..Len(ys) : \A zs : Tells(g[k - 1], zs) => Tells(g[k], Append(zs, ys[k]))
  PROVE  Tells(g[Len(ys)], xs \o ys)
<1> DEFINE n == Len(ys)
           pre(k) == SubSeq(ys, 1, k)
           S == {k \in 0..n : Tells(g[k], xs \o pre(k))}
<1>1. n \in Nat /\ IsSeq(xs)  BY IsSeqLen DEF Tells
<1>2. ASSUME NEW k \in 0..n
      PROVE  IsSeq(pre(k)) /\ Len(pre(k)) = k /\ \A i \in 1..k : pre(k)[i] = ys[i]
  <2>1. 1 \in Nat \ {0} /\ k \in Nat /\ k <= n /\ (IF 1 <= k THEN k - 1 + 1 ELSE 0) = k
    BY <1>1
  <2>2. /\ IsSeq(pre(k)) /\ Len(pre(k)) = (IF 1 <= k THEN k - 1 + 1 ELSE 0)
        /\ \A i \in 1..(k - 1 + 1) : pre(k)[i] = ys[1 + i - 1]
    BY <2>1, SubSeqSeq
  <2> HIDE DEF pre
  <2>3. \A i \in 1..k : i \in 1..(k - 1 + 1) /\ 1 + i - 1 = i  BY <2>1
  <2>4. QED  BY <2>1, <2>2, <2>3
<1>3. pre(n) = ys  BY WholeSeq
<1> HIDE DEF pre, n
<1>4. 0 \in S
  <2>1. 0 \in 0..n /\ IsSeq(pre(0)) /\ Len(pre(0)) = 0  BY <1>1, <1>2
  <2>2. pre(0) = <<>>  BY <2>1, LenZero
  <2>3. xs \o pre(0) = xs  BY <1>1, <2>2, ConcatEmpty
  <2>4. QED  BY <2>1, <2>3
<1>5. ASSUME NEW k \in 0..n, k \in S, k < n PROVE k + 1 \in S
  <2> DEFINE j == k + 1
             y == ys[j]
             a == pre(k)
             b == pre(j)
             c == Append(a, y)
  <2>1. j \in 1..n /\ j \in 0..n /\ j - 1 = k /\ k \in Nat  BY <1>1, <1>5
  <2>2. IsSeq(a) /\ Len(a) = k /\ \A i \in 1..k : a[i] = ys[i]  BY <1>2
  <2>3. IsSeq(b) /\ Len(b) = j /\ \A i \in 1..j : b[i] = ys[i]  BY <1>2, <2>1
  <2> HIDE DEF a, b, y
  <2>4. /\ IsSeq(c) /\ Len(c) = k + 1 /\ c[k + 1] = y
        /\ \A i \in 1..k : c[i] = a[i]
    BY <2>2, AppendSeq
  <2> HIDE DEF c
  <2>5. \A i \in 1..j : b[i] = c[i]
    <3> SUFFICES ASSUME NEW i \in 1..j PROVE b[i] = c[i]  OBVIOUS
    <3>1. i = j \/ i \in 1..k  BY <2>1
    <3>2. QED  BY <2>2, <2>3, <2>4, <3>1 DEF y
  <2>6. b = c  BY <2>3, <2>4, <2>5, SameSeq
  <2>7. Tells(g[k], xs \o a)  BY <1>5 DEF a
  <2>8. Tells(g[j], Append(xs \o a, y))
    <3>1. \A zs : Tells(g[j - 1], zs) => Tells(g[j], Append(zs, ys[j]))  BY <2>1 DEF n
    <3>2. \A zs : Tells(g[k], zs) => Tells(g[j], Append(zs, y))
      BY <2>1, <3>1 DEF y
    <3>3. QED  BY <2>7, <3>2
  <2>9. xs \o Append(a, y) = Append(xs \o a, y)  BY <1>1, <2>2, ConcatAppend
  <2>10. Tells(g[j], xs \o b)  BY <2>6, <2>8, <2>9 DEF c
  <2>11. QED  BY <2>1, <2>10 DEF b
<1> HIDE DEF S
<1>6. \A k \in 0..n : k \in S  BY <1>1, <1>4, <1>5, InductionUpTo
<1>7. Tells(g[n], xs \o pre(n))  BY <1>1, <1>6 DEF S
<1>8. QED  BY <1>3, <1>7 DEF n

\* Elements one after another.
LEMMA TellsElems ==
  ASSUME Symbolic, NEW t, NEW xs, Tells(t, xs), NEW ys, Numbers(ys)
  PROVE  Tells(Elems(t, ys), xs \o ys)
<1>1. IsSeq(ys) /\ \A k \in 1..Len(ys) : ys[k] \in Nat  BY DEF Numbers
<1>2. PICK g : /\ g[0] = t /\ Elems(t, ys) = g[Len(ys)]
               /\ \A k \in 1..Len(ys) : g[k] = AbsorbElem(g[k - 1], ys[k])
  BY <1>1, ElemsRun
<1>3. ASSUME NEW k \in 1..Len(ys), NEW zs, Tells(g[k - 1], zs)
      PROVE  Tells(g[k], Append(zs, ys[k]))
  BY <1>1, <1>2, <1>3, TellsNext
<1>4. QED  BY <1>1, <1>2, <1>3, TellsRun

\* Squeezes one after another: a gate each.
LEMMA TellsOnes ==
  ASSUME Symbolic, NEW t, NEW xs, Tells(t, xs), NEW m \in Nat
  PROVE  Tells(Ones(t, [k \in 1..m |-> k]), xs \o Gates(m))
<1> DEFINE ks == [k \in 1..m |-> k]
           ys == Gates(m)
<1>1. IsSeq(ks) /\ Len(ks) = m
  <2>1. ks = [k \in 1..m |-> ks[k]]  OBVIOUS
  <2> HIDE DEF ks
  <2>2. QED  BY <2>1, FunctionIsSeq
<1>2. IsSeq(ys) /\ Len(ys) = m  BY GatesFacts DEF Numbers
<1>3. \A k \in 1..m : ys[k] = 1  BY DEF Gates
<1> HIDE DEF ks, ys
<1>4. PICK g : /\ g[0] = t /\ Ones(t, ks) = g[Len(ks)]
               /\ \A k \in 1..Len(ks) : g[k] = SqueezeOnce(g[k - 1], ks[k])
  BY <1>1, OnesRun
<1>5. ASSUME NEW k \in 1..Len(ys), NEW zs, Tells(g[k - 1], zs)
      PROVE  Tells(g[k], Append(zs, ys[k]))
  <2>1. g[k] = PermuteNow(AbsorbElem(g[k - 1], 1)) /\ ys[k] = 1
    BY <1>1, <1>2, <1>3, <1>4 DEF SqueezeOnce
  <2>2. 1 \in Nat  OBVIOUS
  <2>3. Tells(PermuteNow(AbsorbElem(g[k - 1], 1)), Append(zs, 1))  BY <1>5, <2>2, TellsNext
  <2>4. QED  BY <2>1, <2>3
<1>6. Tells(g[Len(ys)], xs \o ys)  BY <1>2, <1>4, <1>5, TellsRun
<1>7. QED  BY <1>1, <1>2, <1>4, <1>6 DEF ks, ys

\* A call tells its codeword.
LEMMA TellsCall ==
  ASSUME Symbolic, NEW t, NEW xs, Tells(t, xs), NEW call \in Calls
  PROVE  Tells(ApplyElementwise(t, call), xs \o Codeword(call))
<1> DEFINE es == Elements(call)
           m == Squeezes(call)
           gs == Gates(m)
<1>1. Numbers(es) /\ IsSeq(es) /\ m \in Nat  BY ElementsNumbers, SqueezesCount DEF Numbers
<1>2. IsSeq(gs) /\ IsSeq(xs)  BY <1>1, GatesFacts DEF Numbers, Tells
<1>3. ApplyElementwise(t, call) = Ones(Elems(t, es), [k \in 1..m |-> k])  BY ElementwiseFacts
<1>4. Codeword(call) = es \o gs  BY DEF Codeword
<1> HIDE DEF es, m
<1>5. Tells(Elems(t, es), xs \o es)  BY <1>1, TellsElems
<1>6. Tells(Ones(Elems(t, es), [k \in 1..m |-> k]), (xs \o es) \o gs)  BY <1>1, <1>5, TellsOnes
<1> HIDE DEF gs
<1>7. (xs \o es) \o gs = xs \o (es \o gs)  BY <1>1, <1>2, ConcatTwice
<1>8. QED  BY <1>3, <1>4, <1>6, <1>7

\* Transcripts that would say the same next were told the same.
LEMMA OutcomeTells ==
  ASSUME Symbolic, NEW t, NEW u, NEW xs, NEW ys, Tells(t, xs), Tells(u, ys),
         Outcome(t) = Outcome(u)
  PROVE  xs = ys
<1> DEFINE last(v) == PermuteNow(AbsorbElem(v, 1)).st
<1>1. ASSUME NEW v, IsTr(v)
      PROVE  Outcome(v)[1] = <<last(v), 0>>
  <2>1. Squeeze(v) = PermuteNow(AbsorbElem(v, 1))  BY <1>1, FlushFacts, SqueezeFacts
  <2>2. Outcome(v) = [i \in 1..Rate |-> Lane(last(v), i - 1)]
    BY <2>1, DigestValue DEF Outcome, Lanes
  <2> HIDE DEF last
  <2>3. 1 \in 1..Rate /\ 1 - 1 = 0  BY SpongeShape
  <2>4. Outcome(v)[1] = Lane(last(v), 0)  BY <2>2, <2>3
  <2>5. Lane(last(v), 0) = <<last(v), 0>>  BY DEF Symbolic, SymLane
  <2>6. QED  BY <2>4, <2>5
<1>2. Told(last(t)) = Append(xs, 1) /\ Told(last(u)) = Append(ys, 1)  BY TellsNext
<1> HIDE DEF last
<1>3. last(t) = last(u)
  <2>1. Outcome(t)[1] = <<last(t), 0>> /\ Outcome(u)[1] = <<last(u), 0>>  BY <1>1 DEF Tells
  <2>2. <<last(t), 0>> = <<last(u), 0>>  BY <2>1
  <2>3. QED  BY <2>2
<1>4. Append(xs, 1) = Append(ys, 1)  BY <1>2, <1>3
<1>5. IsSeq(xs) /\ IsSeq(ys)  BY DEF Tells
<1>6. QED  BY <1>4, <1>5, AppendApart

-----------------------------------------------------------------------------
(* The inductive invariant: a transcript says what the replay of its calls *)
(* says, and the replay was told the codewords of the calls.               *)

R == INSTANCE FoldFacts WITH Op <- LAMBDA d, acc, call : ApplyElementwise(acc, call)

Replay(cs) == R!Fold(0, NewTranscript(AppDomain), cs)

Greeting == Framed(AppDomain) \o Framed(AppDomain)

Remembers(side) ==
  /\ side.calls \in Seq(Calls) /\ side.plain = Replay(side.calls)
  /\ Same(side.tr, side.plain) /\ Tells(side.plain, Absorbed(Greeting, side.calls))

BothRemember == Remembers(left) /\ Remembers(right)

\* A new transcript was told its domain.
LEMMA NewTells ==
  ASSUME Symbolic
  PROVE  /\ Tells(NewTranscript(AppDomain), Greeting) /\ IsSeq(Greeting)
         /\ Same(NewTranscript(AppDomain), NewTranscript(AppDomain))
<1> DEFINE zero == [st |-> ZeroState, absorbed |-> 0]
           new == NewTranscript(AppDomain)
           none == <<>>
<1>1. Kept(zero) /\ Told(zero.st) = none
  <2>1. zero.st = ZeroState  OBVIOUS
  <2>2. QED  BY <2>1, KeptZero
<1>2. AppDomain \in Seq(Nat)  BY CallsAssumption
<1>3. IsSeq(AppDomain)  BY <1>2, IsSeqOfSet
<1>4. new = AppendMessage(zero, AppDomain, AppDomain)  BY DEF NewTranscript
<1>5. IsSeq(none) /\ Len(none) = 0 /\ DOMAIN none = {}  BY EmptyIsSeq
<1> HIDE DEF zero, new, none
<1>6. IsTr(zero)  BY <1>1 DEF Kept
<1>7. Same(new, Elems(zero, Greeting))
  <2>1. Same(zero, zero)  BY <1>6, FlushFacts
  <2>2. QED  BY <1>3, <1>4, <2>1, SameMessage DEF Greeting
<1>8. Numbers(Greeting)  BY <1>2, NumbersOfFramed, NumbersConcat DEF Greeting
<1>9. Tells(zero, none)  BY <1>1, <1>5, KeptTells
<1>10. Tells(Elems(zero, Greeting), none \o Greeting)  BY <1>8, <1>9, TellsElems
<1>11. none \o Greeting = Greeting
  <2> DEFINE s == Greeting
             w == none \o s
             n == Len(s)
  <2>1. IsSeq(s) /\ n \in Nat  BY <1>8, IsSeqLen DEF Numbers
  <2> HIDE DEF s
  <2>2. /\ IsSeq(w) /\ Len(w) = 0 + n
        /\ \A i \in 1..n : w[0 + i] = s[i]
    BY <1>5, <2>1, ConcatSeq
  <2> HIDE DEF w, n
  <2>3. Len(w) = n /\ \A i \in 1..n : w[i] = s[i]
    <3>1. \A i \in 1..n : 0 + i = i  BY <2>1
    <3>2. QED  BY <2>1, <2>2, <3>1
  <2>4. w = s  BY <2>1, <2>2, <2>3, SameSeq DEF n
  <2>5. QED  BY <2>4 DEF w, s
<1>12. Tells(new, Greeting)  BY <1>7, <1>10, <1>11, SameTells
<1>13. Same(new, new)  BY <1>7, FlushFacts DEF Same
<1>14. QED  BY <1>8, <1>12, <1>13 DEF new, Numbers

\* A fresh transcript remembers that it was told nothing else.
LEMMA FreshRemembers == Symbolic /\ Init => BothRemember
<1> SUFFICES ASSUME Symbolic PROVE Remembers(Fresh)  BY DEF Init, BothRemember
<1> DEFINE new == NewTranscript(AppDomain)
           none == <<>>
<1>1. Fresh.calls = none /\ Fresh.plain = new /\ Fresh.tr = new  BY DEF Fresh
<1>2. none \in Seq(Calls) /\ IsSeq(none) /\ Len(none) = 0  BY EmptyIsSeq
<1> HIDE DEF none, new
<1>3. Replay(none) = new
  <2>1. R!IsSeq(none)  BY <1>2 DEF IsSeq, R!IsSeq
  <2>2. QED  BY <1>2, <2>1, R!FoldOfNone DEF Replay, new
<1>4. Absorbed(Greeting, none) = Greeting
  <2>1. C!IsSeq(none)  BY <1>2 DEF IsSeq, C!IsSeq
  <2>2. QED  BY <1>2, <2>1, C!FoldOfNone DEF Absorbed
<1>5. Tells(new, Greeting) /\ Same(new, new)  BY NewTells DEF new
<1>6. QED  BY <1>1, <1>2, <1>3, <1>4, <1>5 DEF Remembers

\* A call is remembered, whichever path it takes.
LEMMA CallRemembered ==
  ASSUME Symbolic, NEW side, Remembers(side), NEW call \in Calls, NEW path
  PROVE  Remembers(AfterCall(side, call, path))
<1> DEFINE next == AfterCall(side, call, path)
           cs == side.calls
           more == Append(cs, call)
           plain == side.plain
           xs == Absorbed(Greeting, cs)
<1>1. /\ next.tr = Apply(side.tr, call, path) /\ next.calls = more
      /\ next.plain = ApplyElementwise(plain, call)
  BY DEF AfterCall
<1>2. cs \in Seq(Calls) /\ plain = Replay(cs) /\ Same(side.tr, plain) /\ Tells(plain, xs)
  BY DEF Remembers
<1> HIDE DEF next, cs, plain
<1>3. more \in Seq(Calls) /\ IsSeq(cs)  BY <1>2, IsSeqOfSet
<1>4. Replay(more) = ApplyElementwise(plain, call)
  <2>1. R!IsSeq(cs)  BY <1>3 DEF IsSeq, R!IsSeq
  <2>2. Replay(more) = ApplyElementwise(Replay(cs), call)  BY <2>1, R!FoldOfAppend DEF Replay
  <2>3. QED  BY <1>2, <2>2
<1>5. Same(next.tr, next.plain)  BY <1>1, <1>2, SameCall
<1>6. Absorbed(Greeting, more) = xs \o Codeword(call)  BY <1>3, AbsorbedAppend
<1> HIDE DEF xs, more
<1>7. Tells(next.plain, xs \o Codeword(call))  BY <1>1, <1>2, TellsCall
<1>8. QED  BY <1>1, <1>3, <1>4, <1>5, <1>6, <1>7 DEF Remembers, next

\* So calls on either side are remembered.
LEMMA CallsRemembered == Symbolic /\ BothRemember /\ [Next]_vars => BothRemember'
<1> SUFFICES ASSUME Symbolic, BothRemember, [Next]_vars PROVE BothRemember'  OBVIOUS
<1>1. Remembers(left) /\ Remembers(right)  BY DEF BothRemember
<1>2. ASSUME NEW call \in Calls, NEW path, CallLeft(call, path) PROVE BothRemember'
  <2>1. left' = AfterCall(left, call, path) /\ right' = right  BY <1>2 DEF CallLeft
  <2>2. Remembers(left') /\ Remembers(right')  BY <1>1, <2>1, CallRemembered
  <2>3. QED  BY <2>2 DEF BothRemember, Remembers
<1>3. ASSUME NEW call \in Calls, CallRight(call) PROVE BothRemember'
  <2>1. right' = AfterCall(right, call, "slice") /\ left' = left  BY <1>3 DEF CallRight
  <2>2. Remembers(left') /\ Remembers(right')  BY <1>1, <2>1, CallRemembered
  <2>3. QED  BY <2>2 DEF BothRemember, Remembers
<1>4. CASE UNCHANGED vars
  <2>1. left' = left /\ right' = right  BY <1>4 DEF vars
  <2>2. Remembers(left') /\ Remembers(right')  BY <1>1, <2>1
  <2>3. QED  BY <2>2 DEF BothRemember, Remembers
<1>5. QED  BY <1>2, <1>3, <1>4 DEF Next

\* What two transcripts that remember would say next tells their calls.
LEMMA RememberedTells == Symbolic /\ BothRemember => DigestDeterminesCalls
<1> SUFFICES ASSUME Symbolic, BothRemember
             PROVE  Outcome(left.tr) = Outcome(right.tr) <=> left.calls = right.calls
  BY DEF DigestDeterminesCalls
<1> DEFINE as == left.calls
           bs == right.calls
           xs == Absorbed(Greeting, as)
           ys == Absorbed(Greeting, bs)
<1>1. /\ as \in Seq(Calls) /\ left.plain = Replay(as)
      /\ Same(left.tr, left.plain) /\ Tells(left.plain, xs)
  BY DEF BothRemember, Remembers
<1>2. /\ bs \in Seq(Calls) /\ right.plain = Replay(bs)
      /\ Same(right.tr, right.plain) /\ Tells(right.plain, ys)
  BY DEF BothRemember, Remembers
<1> HIDE DEF as, bs
<1>3. ASSUME NEW t, NEW u, Same(t, u) PROVE Outcome(t) = Outcome(u)
  <2>1. Squeeze(t) = Squeeze(u)  BY <1>3, SqueezeFacts
  <2>2. QED  BY <2>1, DigestValue DEF Outcome
<1>4. Outcome(left.tr) = Outcome(left.plain) /\ Outcome(right.tr) = Outcome(right.plain)
  BY <1>1, <1>2, <1>3
<1>5. ASSUME Outcome(left.tr) = Outcome(right.tr) PROVE as = bs
  <2>1. Outcome(left.plain) = Outcome(right.plain)  BY <1>4, <1>5
  <2> HIDE DEF xs, ys
  <2>2. xs = ys  BY <1>1, <1>2, <2>1, OutcomeTells
  <2>3. SameStream(Greeting, as, bs)  BY <2>2 DEF SameStream, xs, ys
  <2>4. IsSeq(Greeting)  BY NewTells
  <2>5. QED  BY <1>1, <1>2, <2>3, <2>4, AbsorbedTells
<1>6. ASSUME as = bs PROVE Outcome(left.tr) = Outcome(right.tr)
  <2>1. left.plain = right.plain  BY <1>1, <1>2, <1>6
  <2>2. QED  BY <1>4, <2>1
<1>7. QED  BY <1>5, <1>6 DEF as, bs

(***************************************************************************)
(* For every rate, packing, buffer size and set of calls whose labels tell *)
(* the operations apart, over a permutation without collisions: two        *)
(* transcripts give the same digest exactly when they were made the same   *)
(* calls in the same order.  No call can be cut into two others, and no    *)
(* squeeze be taken for an absorption.                                     *)
(***************************************************************************)
THEOREM DigestsTellCalls == Symbolic /\ Spec => []DigestDeterminesCalls
<1>1. ASSUME Symbolic PROVE Spec => []DigestDeterminesCalls
  <2>1. Init => BothRemember  BY <1>1, FreshRemembers
  <2>2. BothRemember /\ [Next]_vars => BothRemember'  BY <1>1, CallsRemembered
  <2>3. BothRemember => DigestDeterminesCalls  BY <1>1, RememberedTells
  <2>4. QED  BY <2>1, <2>2, <2>3, PTL DEF Spec
<1>2. QED  BY <1>1
=============================================================================
