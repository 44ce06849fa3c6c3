-------------------------- MODULE FoldSessionProof --------------------------
(***************************************************************************)
(* Proofs about the fold session, for any number of digits, any norm       *)
(* bound, any steps, schedules, chunk lists, folding modes and entry       *)
(* points.  First the parts: the cutting of steps into chunks and the two  *)
(* layout validators; then one chunk transition, when the prover succeeds, *)
(* what it leaves behind, and that verifier and replayer, handed the same  *)
(* transcript and carry, end where it ended.  Then the session: what a     *)
(* prover leaves behind chunk by chunk, and what a verifier or a replayer  *)
(* that reads a stored session can conclude from it.                       *)
(***************************************************************************)
EXTENDS FoldSession, SequenceFacts

-----------------------------------------------------------------------------
(* The running count.                                                      *)

\* The running totals of a list of counts, as a recursion.
LEMMA TotalsFacts ==
  ASSUME NEW counts, counts \in Seq(Nat)
  PROVE  /\ Totals(counts) \in [0..Len(counts) -> Nat]
         /\ Totals(counts)[0] = 0
         /\ \A k \in 1..Len(counts) : Totals(counts)[k] = Totals(counts)[k - 1] + counts[k]
<1>0. PICK m \in Nat : m = Len(counts)  BY LenProperties
<1> DEFINE Equation(f) == f = [k \in 0..m |-> IF k = 0 THEN 0 ELSE f[k - 1] + counts[k]]
           step == [k \in 1..m |-> [x \in Nat |-> x + counts[k]]]
           F == CHOOSE f : Equation(f)
<1>1. m \in Nat /\ \A k \in 1..m : counts[k] \in Nat
  BY <1>0, LenProperties, ElementOfSeq
<1>2. \A k \in 1..m, x \in Nat : step[k][x] \in Nat /\ step[k][x] = x + counts[k]
  BY <1>1
<1>3. PICK g \in [0..m -> Nat] : g[0] = 0 /\ \A k \in 1..m : g[k] = step[k][g[k - 1]]
  <2> DEFINE S == Nat
             zero == 0
  <2>1. step \in [1..m -> [S -> S]]  BY <1>1
  <2>2. zero \in S /\ m \in Nat  BY <1>1
  <2> HIDE DEF step, S, zero
  <2>3. \E g \in [0..m -> S] : g[0] = zero /\ \A k \in 1..m : g[k] = step[k][g[k - 1]]
    BY ONLY <2>1, <2>2, RecursionUpTo
  <2>4. QED  BY <2>3 DEF S, zero
<1>4. \A k \in 1..m : k - 1 \in 0..m /\ g[k - 1] \in Nat
  <2>1. \A k \in 1..m : k - 1 \in 0..m  BY <1>1
  <2>2. QED  BY <2>1
<1>5. \A k \in 1..m : g[k] = g[k - 1] + counts[k]
  <2> HIDE DEF step
  <2>1. QED  BY <1>2, <1>3, <1>4
<1>6. Equation(g)
  <2> DEFINE h == [k \in 0..m |-> IF k = 0 THEN 0 ELSE g[k - 1] + counts[k]]
  <2>1. \A k \in 0..m : k = 0 \/ k \in 1..m  BY <1>1
  <2>2. \A k \in 0..m : g[k] = h[k]  BY <1>3, <1>5, <2>1
  <2>3. g = h  BY <2>2
  <2>4. QED  BY <2>3
<1>7. Equation(F)
  <2> HIDE DEF Equation
  <2>1. QED  BY <1>6
<1>8. Totals(counts) = F  BY <1>0 DEF Totals
<1> HIDE DEF F
<1>9. F[0] = 0 /\ DOMAIN F = 0..m  BY <1>1, <1>7
<1>10. \A k \in 1..m : F[k] = F[k - 1] + counts[k]
  BY <1>1, <1>7
<1>11. \A k \in 0..m : F[k] \in Nat
  <2> DEFINE T == {k \in 0..m : F[k] \in Nat}
  <2>1. 0 \in T  BY <1>1, <1>9
  <2>2. ASSUME NEW k \in 0..m, k \in T, k < m PROVE k + 1 \in T
    <3>1. k + 1 \in 1..m /\ (k + 1) - 1 = k  BY <1>1, <2>2
    <3>2. F[k + 1] = F[k] + counts[k + 1]  BY <1>10, <3>1
    <3>3. QED  BY <1>1, <2>2, <3>1, <3>2
  <2> HIDE DEF T
  <2>3. \A k \in 0..m : k \in T  BY <1>1, <2>1, <2>2, InductionUpTo
  <2>4. QED  BY <2>3 DEF T
<1>12. F \in [0..m -> Nat]  BY <1>7, <1>11
<1>13. QED  BY <1>0, <1>8, <1>9, <1>10, <1>12

-----------------------------------------------------------------------------
(* The cutting loop.                                                       *)

\* The size of a full chunk, and how many chunks `left` steps make.
FullLen(sched, total) == IF sched.whole THEN total ELSE sched.rows
ChunksIn(left, len) == (left + len - 1) \div len

\* How many chunks of a given length cover what is left.
LEMMA ChunksInFacts ==
  ASSUME NEW len \in Nat \ {0}, NEW left \in Nat
  PROVE  /\ ChunksIn(left, len) \in Nat
         /\ ChunksIn(0, len) = 0
         /\ left > len => ChunksIn(left, len) = ChunksIn(left - len, len) + 1
         /\ 0 < left /\ left <= len => ChunksIn(left, len) = 1
         /\ 0 < left => (ChunksIn(left, len) - 1) * len < left
         /\ left <= ChunksIn(left, len) * len
<1>1. ChunksIn(left, len) \in Nat  BY DEF ChunksIn
<1>2. ChunksIn(0, len) = 0
  <2>1. len - 1 \in Nat /\ len - 1 < len  OBVIOUS
  <2>2. 0 + len - 1 = len - 1  OBVIOUS
  <2>3. QED  BY <2>1, <2>2 DEF ChunksIn
<1>3. ASSUME left > len PROVE ChunksIn(left, len) = ChunksIn(left - len, len) + 1
  <2> DEFINE a == left - len + len - 1
  <2>1. a \in Nat /\ left + len - 1 = a + len  BY <1>3
  <2> HIDE DEF a
  <2>2. (a + len) \div len = (a \div len) + 1  BY <2>1
  <2>3. QED  BY <2>1, <2>2 DEF ChunksIn, a
<1>4. ASSUME 0 < left, left <= len PROVE ChunksIn(left, len) = 1
  <2>1. left - 1 \in Nat /\ left - 1 < len /\ left + len - 1 = len * 1 + (left - 1)  BY <1>4
  <2>2. QED  BY <2>1 DEF ChunksIn
<1> DEFINE a == left + len - 1
           q == a \div len
<1>5. a \in Nat  OBVIOUS
<1>6. q = ChunksIn(left, len)  BY DEF ChunksIn
<1> HIDE DEF a
<1>7. q \in Nat /\ len * q <= a /\ a < len * q + len  BY <1>5
<1> HIDE DEF q
<1>8. ASSUME 0 < left PROVE (q - 1) * len < left
  <2>1. (q - 1) * len = len * q - len  BY <1>7
  <2>2. len * q \in Nat  BY <1>7
  <2>3. QED  BY <1>7, <1>8, <2>1, <2>2 DEF a
<1>9. left <= q * len
  <2>1. q * len = len * q /\ len * q \in Nat  BY <1>7
  <2>2. QED  BY <1>7, <2>1 DEF a
<1>10. QED  BY <1>1, <1>2, <1>3, <1>4, <1>6, <1>8, <1>9

\* The chunk that starts at step `start`.
ChunkAt(items, len, start) ==
  LET stop == IF start + len < Len(items) THEN start + len ELSE Len(items)
  IN  [start |-> start, steps |-> SubSeq(items, start + 1, stop)]

\* What the loop makes from step `start` on.
CutFrom(items, len, start) ==
  [j \in 1..ChunksIn(Len(items) - start, len) |-> ChunkAt(items, len, start + (j - 1) * len)]

\* One turn of the loop.
LEMMA CutStep ==
  ASSUME NEW items, IsSeq(items), NEW len \in Nat \ {0}, NEW start \in 0..(Len(items) - 1)
  PROVE  LET stop == IF start + len < Len(items) THEN start + len ELSE Len(items)
         IN  /\ stop \in (start + 1)..Len(items)
             /\ CutFrom(items, len, start)
                  = <<[start |-> start, steps |-> SubSeq(items, start + 1, stop)]>>
                      \o CutFrom(items, len, stop)
<1> DEFINE total == Len(items)
           stop == IF start + len < Len(items) THEN start + len ELSE Len(items)
           n == ChunksIn(total - stop, len)
           rest == CutFrom(items, len, stop)
           head == <<ChunkAt(items, len, start)>>
           all == CutFrom(items, len, start)
<1>1. total \in Nat /\ start \in Nat /\ start < total  BY IsSeqLen
<1>2. stop \in Nat /\ stop \in (start + 1)..total  BY <1>1
<1>3. n \in Nat /\ ChunksIn(total - start, len) = n + 1
  <2>1. total - start \in Nat /\ total - stop \in Nat  BY <1>1, <1>2
  <2>2. n \in Nat  BY <2>1, ChunksInFacts
  <2>3. CASE start + len < total
    <3>1. total - start > len /\ total - stop = (total - start) - len  BY <1>1, <2>3
    <3>2. QED  BY <2>1, <2>2, <3>1, ChunksInFacts
  <2>4. CASE ~(start + len < total)
    <3>1. stop = total /\ total - start <= len /\ 0 < total - start  BY <1>1, <2>4
    <3>2. total - stop = 0  BY <1>1, <3>1
    <3>3. n = 0  BY <3>2, ChunksInFacts
    <3>4. ChunksIn(total - start, len) = 1
      <4> HIDE DEF stop, n
      <4>1. QED  BY <2>1, <3>1, ChunksInFacts
    <3> HIDE DEF n
    <3>5. QED  BY <3>3, <3>4
  <2>5. QED  BY <2>3, <2>4
<1>4. rest = [j \in 1..n |-> ChunkAt(items, len, stop + (j - 1) * len)]  BY DEF CutFrom
<1>5. all = [j \in 1..(n + 1) |-> ChunkAt(items, len, start + (j - 1) * len)]  BY <1>3 DEF CutFrom
<1>6. head = [j \in 1..1 |-> head[j]] /\ head[1] = ChunkAt(items, len, start)  OBVIOUS
<1>7. n > 0 => stop = start + len
  <2>1. CASE start + len < total  BY <2>1
  <2>2. CASE ~(start + len < total)
    <3>1. total - stop = 0  BY <1>1, <2>2
    <3>2. n = 0  BY <3>1, ChunksInFacts
    <3>3. QED  BY <3>2
  <2>3. QED  BY <2>1, <2>2
<1>8. head = <<[start |-> start, steps |-> SubSeq(items, start + 1, stop)]>>  BY DEF ChunkAt
<1> HIDE DEF n, stop, all, rest, head
<1>9. IsSeq(head) /\ Len(head) = 1  BY <1>6, FunctionIsSeq
<1>10. IsSeq(rest) /\ Len(rest) = n /\ \A j \in 1..n : rest[j] = ChunkAt(items, len, stop + (j - 1) * len)
  BY <1>3, <1>4, FunctionIsSeq
<1>11. IsSeq(all) /\ Len(all) = n + 1 /\ \A j \in 1..(n + 1) : all[j] = ChunkAt(items, len, start + (j - 1) * len)
  BY <1>3, <1>5, FunctionIsSeq
<1>12. /\ IsSeq(head \o rest) /\ Len(head \o rest) = Len(head) + Len(rest)
       /\ \A j \in 1..Len(head) : (head \o rest)[j] = head[j]
       /\ \A j \in 1..Len(rest) : (head \o rest)[Len(head) + j] = rest[j]
  <2>1. IsSeq(head) /\ IsSeq(rest)  BY <1>9, <1>10
  <2>2. QED  BY <2>1, ConcatSeq
<1>13. all[1] = (head \o rest)[1]
  <2>1. start + (1 - 1) * len = start /\ 1 \in 1..(n + 1)  BY <1>1, <1>3
  <2>2. QED  BY <1>6, <1>9, <1>11, <1>12, <2>1
<1>14. ASSUME NEW j \in 1..n PROVE all[1 + j] = (head \o rest)[1 + j]
  <2>1. n > 0 /\ stop = start + len  BY <1>3, <1>7
  <2>2. stop + (j - 1) * len = start + ((1 + j) - 1) * len  BY <1>1, <2>1
  <2>3. 1 + j \in 1..(n + 1)  BY <1>3
  <2>4. QED  BY <1>9, <1>10, <1>11, <1>12, <2>2, <2>3
<1>15. \A i \in 1..Len(all) : all[i] = (head \o rest)[i]
  <2> SUFFICES ASSUME NEW i \in 1..(n + 1) PROVE all[i] = (head \o rest)[i]  BY <1>11
  <2>1. CASE i = 1  BY <1>13, <2>1
  <2>2. CASE i # 1
    <3>1. i - 1 \in 1..n /\ 1 + (i - 1) = i  BY <1>3, <2>2
    <3>2. QED  BY <1>14, <3>1
  <2>3. QED  BY <2>1, <2>2
<1>16. all = head \o rest
  <2>1. Len(all) = Len(head \o rest)  BY <1>3, <1>9, <1>10, <1>11, <1>12
  <2>2. QED  BY <1>11, <1>12, <1>15, <2>1, SameSeq
<1>17. QED  BY <1>2, <1>8, <1>16 DEF all, rest, stop

\* The loop, whose recursion leaves no freedom: it makes the chunks in closed form.
LEMMA PartitionIsCut ==
  ASSUME NEW sched, NEW items, IsSeq(items), NEW len, len = FullLen(sched, Len(items)),
         Len(items) > 0 => len \in Nat \ {0}
  PROVE  PartitionItems(sched, items) = IF Len(items) = 0 THEN <<>> ELSE CutFrom(items, len, 0)
<1> DEFINE total == Len(items)
           Stop(start) == IF start + len < total THEN start + len ELSE total
           Equation(f) ==
             f = [start \in 0..total |->
                    IF start = total THEN <<>>
                    ELSE <<[start |-> start, steps |-> SubSeq(items, start + 1, Stop(start))]>>
                           \o f[Stop(start)]]
           F == CHOOSE f : Equation(f)
           Goal(start) == IF start = total THEN <<>> ELSE CutFrom(items, len, start)
           closed == [start \in 0..total |-> Goal(start)]
<1>1. total \in Nat  BY IsSeqLen
<1>2. PartitionItems(sched, items) = F[0]
  BY DEF PartitionItems, FullLen
<1>3. \A start \in 0..(total - 1) :
        /\ Stop(start) \in (start + 1)..total
        /\ Goal(start) = <<[start |-> start, steps |-> SubSeq(items, start + 1, Stop(start))]>>
                           \o Goal(Stop(start))
  <2> SUFFICES ASSUME NEW start \in 0..(total - 1)
               PROVE  /\ Stop(start) \in (start + 1)..total
                      /\ Goal(start) = <<[start |-> start, steps |-> SubSeq(items, start + 1, Stop(start))]>>
                                         \o Goal(Stop(start))
    OBVIOUS
  <2>1. len \in Nat \ {0}  BY <1>1
  <2>2. /\ Stop(start) \in (start + 1)..total
        /\ CutFrom(items, len, start)
             = <<[start |-> start, steps |-> SubSeq(items, start + 1, Stop(start))]>>
                 \o CutFrom(items, len, Stop(start))
    BY <2>1, CutStep
  <2>3. start # total  BY <1>1
  <2>4. CutFrom(items, len, total) = <<>>
    <3>1. total - total = 0  BY <1>1
    <3>2. CutFrom(items, len, total) = [j \in 1..0 |-> ChunkAt(items, len, total + (j - 1) * len)]
      BY <2>1, <3>1, ChunksInFacts DEF CutFrom
    <3> DEFINE c == CutFrom(items, len, total)
    <3>3. c = [j \in 1..0 |-> c[j]]  BY <3>2
    <3> HIDE DEF c
    <3>4. IsSeq(c) /\ Len(c) = 0  BY <3>3, FunctionIsSeq
    <3>5. QED  BY <3>4, LenZero DEF c
  <2>5. Goal(Stop(start)) = CutFrom(items, len, Stop(start))  BY <2>4
  <2> HIDE DEF Stop
  <2>6. QED  BY <2>2, <2>3, <2>5
<1>4. Equation(closed)
  <2> DEFINE h == [start \in 0..total |->
                     IF start = total THEN <<>>
                     ELSE <<[start |-> start, steps |-> SubSeq(items, start + 1, Stop(start))]>>
                            \o closed[Stop(start)]]
  <2>1. \A start \in 0..total : closed[start] = h[start]
    <3> SUFFICES ASSUME NEW start \in 0..total PROVE closed[start] = h[start]  OBVIOUS
    <3> HIDE DEF Stop, Goal
    <3>1. CASE start = total
      <4>1. Goal(start) = <<>>  BY <3>1 DEF Goal
      <4>2. QED  BY <3>1, <4>1
    <3>2. CASE start # total
      <4>1. start \in 0..(total - 1)  BY <1>1, <3>2
      <4>2. Stop(start) \in 0..total
        <5>1. Stop(start) \in (start + 1)..total  BY <1>3, <4>1
        <5>2. start + 1 \in Nat  BY <1>1, <4>1
        <5>3. QED  BY <1>1, <5>1, <5>2
      <4>3. closed[Stop(start)] = Goal(Stop(start))  BY <4>2
      <4>4. QED  BY <1>3, <3>2, <4>1, <4>3
    <3>3. QED  BY <3>1, <3>2
  <2> HIDE DEF Goal, Stop
  <2>2. closed = h  BY <2>1
  <2>3. QED  BY <2>2
<1>5. Equation(F)
  <2> HIDE DEF Equation, closed
  <2>1. QED  BY <1>4
<1> HIDE DEF F
<1>6. \A k \in 0..total : \A start \in (total - k)..total : F[start] = Goal(start)
  <2> DEFINE T == {k \in 0..total : \A start \in (total - k)..total : F[start] = Goal(start)}
  <2>1. F[total] = <<>>  BY <1>1, <1>5
  <2>2. 0 \in T
    <3>1. \A start \in (total - 0)..total : start = total  BY <1>1
    <3>2. Goal(total) = <<>>  OBVIOUS
    <3> HIDE DEF Goal
    <3>3. QED  BY <1>1, <2>1, <3>1, <3>2
  <2>3. ASSUME NEW k \in 0..total, k \in T, k < total PROVE k + 1 \in T
    <3> DEFINE start == total - (k + 1)
    <3>1. start \in 0..(total - 1) /\ start # total /\ start \in 0..total  BY <1>1, <2>3
    <3>2. Stop(start) \in (total - k)..total
      <4> HIDE DEF Stop
      <4>1. Stop(start) \in (start + 1)..total  BY <1>3, <3>1
      <4>2. start + 1 = total - k  BY <1>1
      <4>3. QED  BY <4>1, <4>2
    <3>3. F[start] = <<[start |-> start, steps |-> SubSeq(items, start + 1, Stop(start))]>>
                       \o F[Stop(start)]
      <4> HIDE DEF Stop, start
      <4>1. QED  BY <1>5, <3>1
    <3>4. F[Stop(start)] = Goal(Stop(start))
      <4> HIDE DEF Stop, Goal, start
      <4>1. QED  BY <2>3, <3>2
    <3>5. F[start] = Goal(start)
      <4> HIDE DEF Stop, Goal, start
      <4>1. QED  BY <1>3, <3>1, <3>3, <3>4
    <3>6. \A i \in (total - (k + 1))..total : i = start \/ i \in (total - k)..total  BY <1>1
    <3> HIDE DEF Goal, start
    <3>7. k + 1 \in 0..total  BY <1>1, <2>3
    <3>8. QED  BY <2>3, <3>5, <3>6, <3>7
  <2> HIDE DEF T
  <2>4. \A k \in 0..total : k \in T  BY <1>1, <2>2, <2>3, InductionUpTo
  <2>5. QED  BY <2>4 DEF T
<1>7. F[0] = Goal(0)
  <2>1. total \in 0..total /\ 0 \in (total - total)..total  BY <1>1
  <2> HIDE DEF Goal
  <2>2. QED  BY <1>6, <2>1
<1>8. QED  BY <1>2, <1>7

-----------------------------------------------------------------------------
(* What the cut is.                                                        *)

ChunkList(chunks) == IsSeq(chunks) /\ \A i \in DOMAIN chunks : IsSeq(chunks[i].steps)

LengthsOf(chunks) == [j \in DOMAIN chunks |-> Len(chunks[j].steps)]

\* The chunk lengths, one for each chunk.
LEMMA LengthsFacts ==
  ASSUME NEW chunks, ChunkList(chunks)
  PROVE  /\ LengthsOf(chunks) \in Seq(Nat) /\ Len(LengthsOf(chunks)) = Len(chunks)
         /\ \A j \in 1..Len(chunks) : LengthsOf(chunks)[j] = Len(chunks[j].steps)
<1> DEFINE lens == LengthsOf(chunks)
<1>1. Len(chunks) \in Nat /\ DOMAIN chunks = 1..Len(chunks)  BY IsSeqLen DEF ChunkList
<1>2. lens = [j \in 1..Len(chunks) |-> Len(chunks[j].steps)]  BY <1>1 DEF LengthsOf
<1>3. \A j \in 1..Len(chunks) : Len(chunks[j].steps) \in Nat  BY <1>1, IsSeqLen DEF ChunkList
<1>4. lens \in [1..Len(chunks) -> Nat]  BY <1>2, <1>3
<1>5. lens = [j \in 1..Len(chunks) |-> lens[j]]  BY <1>2
<1>6. lens \in Seq(Nat)
  <2> HIDE DEF lens
  <2>1. QED  BY <1>1, <1>4, SeqDef
<1> HIDE DEF lens
<1>7. Len(lens) = Len(chunks)  BY <1>1, <1>5, FunctionIsSeq
<1>8. QED  BY <1>2, <1>6, <1>7 DEF lens

\* Every chunk of the cut is full but the last, which has what is left.
LEMMA CutShape ==
  ASSUME NEW items, IsSeq(items), Len(items) > 0, NEW len \in Nat \ {0}
  PROVE  LET total == Len(items)
             chunks == CutFrom(items, len, 0)
             n == ChunksIn(total, len)
         IN  /\ n \in Nat \ {0} /\ Len(chunks) = n /\ ChunkList(chunks)
             /\ \A j \in 1..n :
                  LET stop == IF j * len < total THEN j * len ELSE total
                  IN  /\ chunks[j] = [start |-> (j - 1) * len,
                                      steps |-> SubSeq(items, (j - 1) * len + 1, stop)]
                      /\ (j - 1) * len \in Nat /\ (j - 1) * len < stop /\ stop \in 0..total
                      /\ Len(chunks[j].steps) = stop - (j - 1) * len
                      /\ Len(chunks[j].steps) <= len
                      /\ j # n => Len(chunks[j].steps) = len
                      /\ j = n => stop = total
<1> DEFINE total == Len(items)
           chunks == CutFrom(items, len, 0)
           n == ChunksIn(total, len)
           Stop(j) == IF j * len < total THEN j * len ELSE total
<1>1. total \in Nat /\ total > 0  BY IsSeqLen
<1>2. n \in Nat /\ (n - 1) * len < total /\ total <= n * len
  <2> HIDE DEF total
  <2>1. QED  BY <1>1, ChunksInFacts
<1>3. n # 0
  <2> HIDE DEF n, total
  <2>1. n = 0 => n * len = 0  OBVIOUS
  <2>2. QED  BY <1>1, <1>2, <2>1
<1>4. chunks = [j \in 1..n |-> ChunkAt(items, len, 0 + (j - 1) * len)]
  <2>1. total - 0 = total  BY <1>1
  <2>2. QED  BY <2>1 DEF CutFrom
<1> HIDE DEF chunks, n
<1>5. IsSeq(chunks) /\ Len(chunks) = n /\ DOMAIN chunks = 1..n
  <2>1. chunks = [j \in 1..n |-> chunks[j]]  BY <1>4
  <2>2. QED  BY <1>2, <2>1, FunctionIsSeq
<1>6. ASSUME NEW j \in 1..n
      PROVE  /\ chunks[j] = [start |-> (j - 1) * len, steps |-> SubSeq(items, (j - 1) * len + 1, Stop(j))]
             /\ (j - 1) * len \in Nat /\ (j - 1) * len < Stop(j) /\ Stop(j) \in 0..total
             /\ IsSeq(chunks[j].steps) /\ Len(chunks[j].steps) = Stop(j) - (j - 1) * len
             /\ Len(chunks[j].steps) <= len
             /\ j # n => Len(chunks[j].steps) = len
             /\ j = n => Stop(j) = total
  <2> DEFINE s == (j - 1) * len
  <2>1. j \in Nat /\ j - 1 \in Nat /\ j <= n  BY <1>2
  <2>2. s \in Nat /\ j * len = s + len /\ 0 + s = s  BY <2>1
  <2>3. s <= (n - 1) * len
    <3>1. j - 1 <= n - 1 /\ n - 1 \in Nat  BY <1>2, <2>1
    <3>2. QED  BY <2>1, <3>1
  <2>4. s < total
    <3>1. (n - 1) * len \in Int  BY <1>2
    <3>2. QED  BY <1>1, <1>2, <2>2, <2>3, <3>1
  <2>5. j # n => j * len <= (n - 1) * len
    <3>1. ASSUME j # n PROVE j <= n - 1 /\ n - 1 \in Nat  BY <1>2, <2>1, <3>1
    <3>2. QED  BY <2>1, <3>1
  <2>6. j # n => j * len < total
    <3>1. (n - 1) * len \in Int /\ j * len \in Int  BY <1>2, <2>1
    <3>2. QED  BY <1>1, <1>2, <2>5, <3>1
  <2>7. chunks[j] = ChunkAt(items, len, s)  BY <1>4, <2>2
  <2>8. j = n => ~(j * len < total)
    <3>1. n * len \in Int  BY <1>2
    <3>2. QED  BY <1>1, <1>2, <3>1
  <2> HIDE DEF s
  <2>9. chunks[j] = [start |-> s, steps |-> SubSeq(items, s + 1, Stop(j))]
    BY <2>2, <2>7 DEF ChunkAt
  <2>10. /\ Stop(j) \in Nat /\ s < Stop(j) /\ Stop(j) <= total
         /\ Stop(j) - s <= len /\ (j # n => Stop(j) - s = len) /\ (j = n => Stop(j) = total)
    BY <1>1, <2>2, <2>4, <2>6, <2>8
  <2>11. /\ IsSeq(SubSeq(items, s + 1, Stop(j)))
         /\ Len(SubSeq(items, s + 1, Stop(j))) = Stop(j) - s
    <3> HIDE DEF Stop
    <3>1. s + 1 \in Nat \ {0} /\ s + 1 <= Stop(j)  BY <2>2, <2>10
    <3>2. /\ IsSeq(SubSeq(items, s + 1, Stop(j)))
          /\ Len(SubSeq(items, s + 1, Stop(j))) = (IF s + 1 <= Stop(j) THEN Stop(j) - (s + 1) + 1 ELSE 0)
      BY <2>10, <3>1, SubSeqSeq
    <3>3. QED  BY <2>2, <2>10, <3>1, <3>2
  <2> HIDE DEF Stop
  <2>12. chunks[j].steps = SubSeq(items, s + 1, Stop(j))
    <3> DEFINE cut == SubSeq(items, s + 1, Stop(j))
    <3>1. chunks[j] = [start |-> s, steps |-> cut]  BY <2>9
    <3> HIDE DEF cut
    <3>2. chunks[j].steps = cut  BY <3>1
    <3>3. QED  BY <3>2 DEF cut
  <2>13. QED  BY <2>2, <2>9, <2>10, <2>11, <2>12 DEF s
<1> HIDE DEF Stop
<1>7. ChunkList(chunks)  BY <1>5, <1>6 DEF ChunkList
<1>8. QED  BY <1>2, <1>3, <1>5, <1>6, <1>7 DEF chunks, n, Stop

\* After k chunks of a cut, k full lengths or everything is covered.
LEMMA CutTotals ==
  ASSUME NEW items, IsSeq(items), Len(items) > 0, NEW len \in Nat \ {0},
         NEW k \in 0..ChunksIn(Len(items), len)
  PROVE  Totals(LengthsOf(CutFrom(items, len, 0)))[k]
           = IF k * len < Len(items) THEN k * len ELSE Len(items)
<1> DEFINE total == Len(items)
           chunks == CutFrom(items, len, 0)
           n == ChunksIn(total, len)
           Stop(j) == IF j * len < total THEN j * len ELSE total
           lens == LengthsOf(chunks)
           T == {j \in 0..n : Totals(lens)[j] = Stop(j)}
<1>1. total \in Nat /\ total > 0  BY IsSeqLen
<1>2. /\ n \in Nat \ {0} /\ Len(chunks) = n /\ ChunkList(chunks)
      /\ \A j \in 1..n : /\ Len(chunks[j].steps) = Stop(j) - (j - 1) * len
                         /\ (j - 1) * len \in Nat /\ (j - 1) * len < Stop(j) /\ Stop(j) \in 0..total
  BY CutShape
<1> HIDE DEF chunks, n, Stop, total
<1>3. lens \in Seq(Nat) /\ Len(lens) = n /\ \A j \in 1..n : lens[j] = Len(chunks[j].steps)
  BY <1>2, LengthsFacts
<1> HIDE DEF lens
<1>4. Totals(lens)[0] = 0 /\ \A j \in 1..n : Totals(lens)[j] = Totals(lens)[j - 1] + lens[j]
  BY <1>3, TotalsFacts
<1>5. 0 \in T
  <2>1. Stop(0) = 0  BY <1>1 DEF Stop
  <2>2. QED  BY <1>2, <1>4, <2>1
<1>6. ASSUME NEW j \in 0..n, j \in T, j < n PROVE j + 1 \in T
  <2>1. j + 1 \in 1..n /\ (j + 1) - 1 = j /\ j + 1 \in 0..n  BY <1>2, <1>6
  <2>2. Totals(lens)[j + 1] = Stop(j) + (Stop(j + 1) - j * len)  BY <1>2, <1>3, <1>4, <1>6, <2>1
  <2>3. j * len \in Nat /\ j * len < Stop(j + 1) /\ Stop(j + 1) \in 0..total  BY <1>2, <2>1
  <2>4. Stop(j) = j * len
    <3>1. j * len < total  BY <1>1, <2>3
    <3>2. QED  BY <3>1 DEF Stop
  <2>5. Totals(lens)[j + 1] = Stop(j + 1)  BY <1>1, <2>2, <2>3, <2>4
  <2>6. QED  BY <2>1, <2>5
<1>7. k \in T
  <2> HIDE DEF T
  <2>1. n \in Nat /\ k \in 0..n  BY <1>2 DEF n, total
  <2>2. \A j \in 0..n : j \in T  BY <1>5, <1>6, <2>1, InductionUpTo
  <2>3. QED  BY <2>1, <2>2
<1>8. QED  BY <1>7 DEF lens, chunks, Stop, total

\* Starting positions and step count, in terms of the running count.
LEMMA StartFacts ==
  ASSUME NEW chunks, ChunkList(chunks)
  PROVE  /\ \A i \in 1..Len(chunks) : StartOf(chunks, i) = Totals(LengthsOf(chunks))[i - 1]
         /\ StepCount(chunks) = Totals(LengthsOf(chunks))[Len(chunks)]
         /\ StepCount(chunks) \in Nat
<1>1. Len(chunks) \in Nat /\ Len(chunks) + 1 - 1 = Len(chunks)  BY IsSeqLen DEF ChunkList
<1>2. \A i \in Int : StartOf(chunks, i) = Totals(LengthsOf(chunks))[i - 1]
  BY DEF StartOf, LengthsOf
<1>3. StepCount(chunks) = Totals(LengthsOf(chunks))[Len(chunks)]
  BY <1>1, <1>2 DEF StepCount
<1>4. Totals(LengthsOf(chunks))[Len(chunks)] \in Nat
  <2> DEFINE lens == LengthsOf(chunks)
  <2>1. lens \in Seq(Nat) /\ Len(lens) = Len(chunks)  BY LengthsFacts
  <2> HIDE DEF lens
  <2>2. Totals(lens) \in [0..Len(lens) -> Nat]  BY <2>1, TotalsFacts
  <2>3. QED  BY <1>1, <2>1, <2>2 DEF lens
<1>5. QED  BY <1>2, <1>3, <1>4

\* The loop cuts any steps, by any schedule that has a chunk size, into a list
\* the layout check accepts and that has them all.
THEOREM CutIsValid ==
  ASSUME NEW sched \in Schedules, ScheduleValid(sched), NEW items, IsSeq(items)
  PROVE  /\ ChunkList(PartitionItems(sched, items))
         /\ LayoutValid(sched, PartitionItems(sched, items))
         /\ StepCount(PartitionItems(sched, items)) = Len(items)
<1> DEFINE total == Len(items)
           len == FullLen(sched, total)
           chunks == PartitionItems(sched, items)
           n == ChunksIn(total, len)
<1>1. total \in Nat  BY IsSeqLen
<1>2. total > 0 => len \in Nat \ {0}  BY <1>1 DEF Schedules, ScheduleValid, FullLen
<1>3. chunks = IF total = 0 THEN <<>> ELSE CutFrom(items, len, 0)
  BY <1>2, PartitionIsCut
<1>4. CASE total = 0
  <2>1. chunks = <<>>  BY <1>3, <1>4
  <2> HIDE DEF chunks
  <2>2. ChunkList(chunks) /\ Len(chunks) = 0 /\ DOMAIN chunks = {}
    BY <2>1, EmptyIsSeq DEF ChunkList
  <2>3. StepCount(chunks) = 0
    <3>1. LengthsOf(chunks) \in Seq(Nat)  BY <2>2, LengthsFacts
    <3>2. Totals(LengthsOf(chunks))[0] = 0  BY <3>1, TotalsFacts
    <3>3. StepCount(chunks) = Totals(LengthsOf(chunks))[Len(chunks)]  BY <2>2, StartFacts
    <3>4. QED  BY <2>2, <3>2, <3>3
  <2>4. LayoutValid(sched, chunks)
    BY <2>2, <2>3 DEF LayoutValid, Contiguous, RowCapRespected, ChunkCount
  <2>5. QED  BY <1>4, <2>2, <2>3, <2>4 DEF chunks
<1>5. CASE total # 0
  <2>1. len \in Nat \ {0} /\ total > 0  BY <1>1, <1>2, <1>5
  <2>2. chunks = CutFrom(items, len, 0)  BY <1>3, <1>5
  <2> DEFINE Stop(j) == IF j * len < total THEN j * len ELSE total
  <2> HIDE DEF chunks, len
  <2>3. /\ n \in Nat \ {0} /\ Len(chunks) = n /\ ChunkList(chunks)
        /\ \A j \in 1..n : /\ chunks[j] = [start |-> (j - 1) * len,
                                           steps |-> SubSeq(items, (j - 1) * len + 1, Stop(j))]
                           /\ (j - 1) * len \in Nat /\ (j - 1) * len < Stop(j) /\ Stop(j) \in 0..total
                           /\ Len(chunks[j].steps) = Stop(j) - (j - 1) * len
                           /\ Len(chunks[j].steps) <= len
                           /\ j # n => Len(chunks[j].steps) = len
                           /\ j = n => Stop(j) = total
    <3> DEFINE cut == CutFrom(items, len, 0)
    <3>1. /\ n \in Nat \ {0} /\ Len(cut) = n /\ ChunkList(cut)
          /\ \A j \in 1..n : /\ cut[j] = [start |-> (j - 1) * len,
                                          steps |-> SubSeq(items, (j - 1) * len + 1, Stop(j))]
                             /\ (j - 1) * len \in Nat /\ (j - 1) * len < Stop(j) /\ Stop(j) \in 0..total
                             /\ Len(cut[j].steps) = Stop(j) - (j - 1) * len
                             /\ Len(cut[j].steps) <= len
                             /\ j # n => Len(cut[j].steps) = len
                             /\ j = n => Stop(j) = total
      BY <2>1, CutShape
    <3> HIDE DEF cut, Stop, n
    <3>2. chunks = cut  BY <2>2 DEF cut
    <3>3. QED  BY <3>1, <3>2
  <2>4. \A k \in 0..n : Totals(LengthsOf(chunks))[k] = Stop(k)
    BY <2>1, <2>2, CutTotals
  <2> HIDE DEF n, Stop, total
  <2>5. DOMAIN chunks = 1..n  BY <2>3, IsSeqLen DEF ChunkList
  <2>6. StepCount(chunks) = total
    <3>1. n \in 0..n /\ n \in 1..n  BY <2>3
    <3>2. StepCount(chunks) = Stop(n)  BY <2>3, <2>4, <3>1, StartFacts
    <3>3. QED  BY <2>3, <3>1, <3>2
  <2>7. Contiguous(chunks)
    <3> SUFFICES ASSUME NEW j \in 1..n
                 PROVE  chunks[j].steps # <<>> /\ chunks[j].start = StartOf(chunks, j)
      BY <2>5 DEF Contiguous
    <3>1. Len(chunks[j].steps) # 0  BY <1>1, <2>3
    <3>2. chunks[j].steps # <<>>  BY <3>1, EmptyIsSeq
    <3>3. chunks[j].start = (j - 1) * len  BY <2>3
    <3>4. j - 1 \in 0..n  BY <2>3
    <3>5. StartOf(chunks, j) = Stop(j - 1)  BY <2>3, <2>4, <3>4, StartFacts
    <3>6. (j - 1) * len < total /\ (j - 1) * len \in Nat
      <4>1. /\ (j - 1) * len \in Nat /\ (j - 1) * len < Stop(j) /\ Stop(j) \in 0..total  BY <2>3
      <4>2. QED  BY <1>1, <4>1 DEF total
    <3>7. Stop(j - 1) = (j - 1) * len  BY <3>6 DEF Stop
    <3>8. QED  BY <3>2, <3>3, <3>5, <3>7
  <2>8. ~sched.whole => len = sched.rows  BY DEF len, FullLen
  <2>9. ~sched.whole => RowCapRespected(sched, chunks)
    BY <2>3, <2>5, <2>8 DEF RowCapRespected
  <2>10. sched.whole => n = 1
    <3> SUFFICES ASSUME sched.whole PROVE n = 1  OBVIOUS
    <3>1. len = total  BY DEF len, FullLen
    <3>2. QED  BY <2>1, <3>1, ChunksInFacts DEF n
  <2>11. ChunkCount(sched, StepCount(chunks)) = Len(chunks)
    BY <1>5, <2>3, <2>6, <2>8, <2>10 DEF ChunkCount, ChunksIn, n
  <2>12. LayoutValid(sched, chunks)
    BY <2>3, <2>7, <2>9, <2>10, <2>11 DEF LayoutValid
  <2>13. QED  BY <2>3, <2>6, <2>12 DEF chunks, total
<1>6. QED  BY <1>4, <1>5

-----------------------------------------------------------------------------
(* The two validators.                                                     *)

\* The fixed-shape validator, which sees the numbers of the chunks only, accepts
\* for a number of steps exactly the layouts of that many steps that the run
\* validator accepts.
THEOREM ValidatorsAgree ==
  ASSUME NEW sched \in Schedules, NEW chunks, ChunkList(chunks), NEW steps \in Nat
  PROVE  FixedShapeLayoutValid(sched, steps, Summaries(chunks))
           <=> LayoutValid(sched, chunks) /\ StepCount(chunks) = steps
<1> DEFINE summaries == Summaries(chunks)
           n == Len(chunks)
<1>1. n \in Nat /\ DOMAIN chunks = 1..n  BY IsSeqLen DEF ChunkList
<1>2. summaries = [i \in 1..n |-> [start_index |-> chunks[i].start,
                                  public_step_count |-> Len(chunks[i].steps)]]
  BY <1>1 DEF Summaries, FromPublicChunk
<1> HIDE DEF summaries
<1>3. Len(summaries) = n /\ DOMAIN summaries = 1..n
  <2>1. summaries = [i \in 1..n |-> summaries[i]]  BY <1>2
  <2>2. QED  BY <1>1, <2>1, FunctionIsSeq
<1>4. \A i \in 1..n : /\ summaries[i].start_index = chunks[i].start
                      /\ summaries[i].public_step_count = Len(chunks[i].steps)
  BY <1>2
<1>5. [j \in DOMAIN summaries |-> summaries[j].public_step_count] = LengthsOf(chunks)
  BY <1>1, <1>3, <1>4 DEF LengthsOf
<1>6. \A i \in Int : CoverageStart(summaries, i) = Totals(LengthsOf(chunks))[i - 1]
  BY <1>5 DEF CoverageStart
<1>7. /\ \A i \in 1..n : StartOf(chunks, i) = CoverageStart(summaries, i)
      /\ StepCount(chunks) = CoverageStart(summaries, n + 1) /\ StepCount(chunks) \in Nat
  <2>1. n + 1 \in Int /\ n + 1 - 1 = n  BY <1>1
  <2>2. CoverageStart(summaries, n + 1) = Totals(LengthsOf(chunks))[n]  BY <1>6, <2>1
  <2>3. \A i \in 1..n : StartOf(chunks, i) = CoverageStart(summaries, i)
    <3> SUFFICES ASSUME NEW i \in 1..n PROVE StartOf(chunks, i) = CoverageStart(summaries, i)
      OBVIOUS
    <3>1. StartOf(chunks, i) = Totals(LengthsOf(chunks))[i - 1]  BY StartFacts
    <3>2. i \in Int  BY <1>1
    <3>3. CoverageStart(summaries, i) = Totals(LengthsOf(chunks))[i - 1]  BY ONLY <1>6, <3>2
    <3>4. QED  BY <3>1, <3>3
  <2>4. StepCount(chunks) = Totals(LengthsOf(chunks))[n] /\ StepCount(chunks) \in Nat  BY StartFacts
  <2>5. QED  BY <2>2, <2>3, <2>4
<1>8. \A i \in 1..n : chunks[i].steps # <<>> <=> Len(chunks[i].steps) # 0
  BY <1>1, LenZero DEF ChunkList
<1>9. Contiguous(chunks) <=>
        \A i \in DOMAIN summaries : /\ summaries[i].public_step_count # 0
                                    /\ summaries[i].start_index = CoverageStart(summaries, i)
  BY <1>1, <1>3, <1>4, <1>7, <1>8 DEF Contiguous
<1>10. FixedShapeCoverageValid(steps, summaries) <=> Contiguous(chunks) /\ StepCount(chunks) = steps
  <2>1. -1 # steps  OBVIOUS
  <2>2. QED  BY <1>3, <1>7, <1>9, <2>1 DEF FixedShapeCoverageValid, CoverageTerminalIndex
<1>11. RowCapRespected(sched, chunks) <=>
         \A i \in DOMAIN summaries : /\ summaries[i].public_step_count <= sched.rows
                                     /\ i # Len(summaries) => summaries[i].public_step_count = sched.rows
  BY <1>1, <1>3, <1>4 DEF RowCapRespected
<1>12. sched.whole => ChunkCount(sched, StepCount(chunks)) \in {0, 1}  BY DEF ChunkCount
<1>13. QED
  BY <1>1, <1>3, <1>10, <1>11, <1>12 DEF FixedShapeLayoutValid, LayoutValid, summaries

-----------------------------------------------------------------------------
(* Every step in order.                                                    *)

\* The flattened list has the steps of chunk k after those of the chunks before it.
LEMMA FlattenFacts ==
  ASSUME NEW chunks, ChunkList(chunks)
  PROVE  LET all == Flatten(chunks)
             T == Totals(LengthsOf(chunks))
         IN  /\ IsSeq(all) /\ Len(all) = T[Len(chunks)]
             /\ \A k \in 1..Len(chunks) : \A j \in 1..Len(chunks[k].steps) :
                  all[T[k - 1] + j] = chunks[k].steps[j]
<1>0. PICK n \in Nat : n = Len(chunks)  BY IsSeqLen DEF ChunkList
<1> DEFINE all == Flatten(chunks)
           lens == LengthsOf(chunks)
           T == Totals(lens)
           seqs == [i \in 1..n |-> chunks[i].steps]
           Equation(f) == f = [i \in 1..n |-> IF i = 1 THEN seqs[i] ELSE f[i - 1] \o seqs[i]]
           F == CHOOSE f : Equation(f)
<1>1. DOMAIN chunks = 1..n  BY <1>0, IsSeqLen DEF ChunkList
<1>2. \A i \in 1..n : IsSeq(seqs[i]) /\ Len(seqs[i]) \in Nat  BY <1>1, IsSeqLen DEF ChunkList
<1>3. IsSeq(seqs) /\ Len(seqs) = n
  <2>1. seqs = [i \in 1..n |-> seqs[i]]  OBVIOUS
  <2> HIDE DEF seqs
  <2>2. QED  BY <2>1, FunctionIsSeq
<1>4. all = IF n = 0 THEN seqs ELSE F[n]
  <2>1. all = FlattenSeq(seqs)  BY <1>1 DEF Flatten
  <2> HIDE DEF seqs
  <2>2. QED  BY <1>3, <2>1 DEF FlattenSeq
<1>5. /\ T[0] = 0 /\ \A k \in 0..n : T[k] \in Nat
      /\ \A k \in 1..n : T[k] = T[k - 1] + Len(seqs[k])
  <2>1. lens \in Seq(Nat) /\ Len(lens) = n /\ \A k \in 1..n : lens[k] = Len(seqs[k])
    BY <1>0, LengthsFacts
  <2> HIDE DEF lens
  <2>2. /\ T \in [0..n -> Nat] /\ T[0] = 0
        /\ \A k \in 1..n : T[k] = T[k - 1] + lens[k]
    BY <2>1, TotalsFacts
  <2>3. QED  BY <2>1, <2>2
<1>6. Equation(F)
  <2> DEFINE S == Seq(UNION {{seqs[i][j] : j \in DOMAIN seqs[i]} : i \in 1..n})
             step == [k \in 1..n |-> [x \in S |-> x \o seqs[k]]]
             empty == <<>>
  <2>1. \A k \in 1..n : seqs[k] \in S
    <3> SUFFICES ASSUME NEW k \in 1..n PROVE seqs[k] \in S  OBVIOUS
    <3> DEFINE own == {seqs[k][j] : j \in DOMAIN seqs[k]}
               U == UNION {{seqs[i][j] : j \in DOMAIN seqs[i]} : i \in 1..n}
    <3>1. own \subseteq U  OBVIOUS
    <3>2. seqs[k] \in Seq(own)  BY <1>2 DEF IsSeq
    <3> HIDE DEF own, U, seqs
    <3>3. seqs[k] \in Seq(U)  BY ONLY <3>1, <3>2, SeqMonotonic
    <3>4. QED  BY <3>3 DEF U
  <2>2. \A k \in 1..n, x \in S : x \o seqs[k] \in S  BY <2>1, ConcatProperties
  <2>3. step \in [1..n -> [S -> S]]  BY <2>2
  <2>4. empty \in S  OBVIOUS
  <2>5. \A k \in 1..n, x \in S : step[k][x] = x \o seqs[k]  OBVIOUS
  <2>6. \A x \in S : empty \o x = x  BY ConcatEmptySeq
  <2> HIDE DEF step, empty, S, seqs
  <2>7. PICK g \in [0..n -> S] : g[0] = empty /\ \A k \in 1..n : g[k] = step[k][g[k - 1]]
    BY ONLY n \in Nat, <2>3, <2>4, RecursionUpTo
  <2>8. \A k \in 1..n : k - 1 \in 0..n  OBVIOUS
  <2>9. \A k \in 1..n : g[k] = g[k - 1] \o seqs[k]  BY <2>5, <2>7, <2>8
  <2> DEFINE f == [k \in 1..n |-> g[k]]
  <2>10. \A k \in 1..n : f[k] = IF k = 1 THEN seqs[k] ELSE f[k - 1] \o seqs[k]
    <3> SUFFICES ASSUME NEW k \in 1..n PROVE f[k] = IF k = 1 THEN seqs[k] ELSE f[k - 1] \o seqs[k]
      OBVIOUS
    <3>1. CASE k = 1
      <4>0. k - 1 = 0  BY <3>1
      <4>1. g[k] = empty \o seqs[k]  BY <2>7, <2>9, <4>0
      <4>2. QED  BY <2>1, <2>6, <3>1, <4>1
    <3>2. CASE k # 1
      <4>1. k - 1 \in 1..n  BY <3>2
      <4>2. QED  BY <2>9, <3>2, <4>1
    <3>3. QED  BY <3>1, <3>2
  <2>11. Equation(f)
    <3> DEFINE h == [k \in 1..n |-> IF k = 1 THEN seqs[k] ELSE f[k - 1] \o seqs[k]]
    <3> HIDE DEF f
    <3>1. \A k \in 1..n : f[k] = h[k]  BY <2>10
    <3>2. f = [k \in 1..n |-> f[k]]  BY DEF f
    <3> HIDE DEF h
    <3>3. f = [k \in 1..n |-> h[k]]  BY <3>1, <3>2
    <3>4. f = h  BY <3>3 DEF h
    <3>5. QED  BY <3>4 DEF h
  <2> HIDE DEF Equation, f
  <2>12. QED  BY <2>11
<1>7. /\ n > 0 => F[1] = seqs[1]
      /\ \A i \in 1..n : i + 1 \in 1..n => F[i + 1] = F[i] \o seqs[i + 1]
  <2> HIDE DEF F, seqs
  <2>1. ASSUME NEW i \in 1..n PROVE F[i] = IF i = 1 THEN seqs[i] ELSE F[i - 1] \o seqs[i]
    BY <1>6
  <2>2. n > 0 => F[1] = seqs[1]  BY <2>1
  <2>3. ASSUME NEW i \in 1..n, i + 1 \in 1..n PROVE F[i + 1] = F[i] \o seqs[i + 1]
    <3>1. i + 1 # 1 /\ (i + 1) - 1 = i  OBVIOUS
    <3>2. QED  BY <2>1, <2>3, <3>1
  <2>4. QED  BY <2>2, <2>3
<1> HIDE DEF F, T
<1> DEFINE Placed(i) ==
             /\ IsSeq(F[i]) /\ Len(F[i]) = T[i]
             /\ \A k \in 1..i : \A j \in 1..Len(seqs[k]) :
                  T[k - 1] + j \in 1..T[i] /\ F[i][T[k - 1] + j] = seqs[k][j]
           Ok == {i \in 0..n : i > 0 => Placed(i)}
<1> HIDE DEF seqs
<1>8. ASSUME NEW i \in 0..n, i \in Ok, i < n PROVE i + 1 \in Ok
  <2>1. CASE i = 0
    <3>1. F[1] = seqs[1] /\ T[1] = Len(seqs[1]) /\ 1 \in 1..n /\ T[0] = 0 /\ 1 - 1 = 0
      BY <1>5, <1>7, <1>8, <2>1
    <3>2. IsSeq(F[1]) /\ Len(F[1]) = T[1]  BY <1>2, <3>1
    <3>3. ASSUME NEW k \in 1..1, NEW j \in 1..Len(seqs[k])
          PROVE  T[k - 1] + j \in 1..T[1] /\ F[1][T[k - 1] + j] = seqs[k][j]
      <4>1. k = 1  OBVIOUS
      <4>2. Len(seqs[1]) \in Nat  BY <1>2, <3>1
      <4>3. T[k - 1] + j = j  BY <3>1, <4>1, <4>2
      <4>4. j \in 1..T[1]  BY <3>1, <4>1
      <4>5. QED  BY <3>1, <4>1, <4>3, <4>4
    <3>4. Placed(1)  BY <3>2, <3>3
    <3> HIDE DEF Placed
    <3>5. i + 1 = 1 /\ 1 \in 0..n  BY <2>1, <3>1
    <3>6. QED  BY <3>4, <3>5
  <2>2. CASE i # 0
    <3>1. i \in 1..n /\ i + 1 \in 1..n /\ i + 1 \in 0..n /\ (i + 1) - 1 = i  BY <1>8, <2>2
    <3>2. F[i + 1] = F[i] \o seqs[i + 1] /\ IsSeq(seqs[i + 1]) /\ Len(seqs[i + 1]) \in Nat
      BY <1>2, <1>7, <3>1
    <3>3. Placed(i)  BY <1>8, <2>2, <3>1
    <3>4. T[i + 1] = T[i] + Len(seqs[i + 1]) /\ T[i] \in Nat  BY <1>5, <3>1
    <3> DEFINE s == F[i]
               t == seqs[i + 1]
    <3>5. IsSeq(s) /\ IsSeq(t) /\ Len(s) = T[i]  BY <3>2, <3>3
    <3> HIDE DEF s, t
    <3>6. /\ IsSeq(s \o t) /\ Len(s \o t) = Len(s) + Len(t)
          /\ \A j \in 1..Len(s) : (s \o t)[j] = s[j]
          /\ \A j \in 1..Len(t) : (s \o t)[Len(s) + j] = t[j]
      BY <3>5, ConcatSeq
    <3>7. IsSeq(F[i + 1]) /\ Len(F[i + 1]) = T[i + 1]  BY <3>2, <3>4, <3>5, <3>6 DEF s, t
    <3>8. ASSUME NEW k \in 1..(i + 1), NEW j \in 1..Len(seqs[k])
          PROVE  T[k - 1] + j \in 1..T[i + 1] /\ F[i + 1][T[k - 1] + j] = seqs[k][j]
      <4>1. CASE k = i + 1
        <5>1. T[k - 1] = T[i] /\ j \in 1..Len(t)  BY <3>1, <4>1 DEF t
        <5>2. (s \o t)[T[i] + j] = t[j]  BY <3>5, <3>6, <5>1
        <5>3. T[i] + j \in 1..T[i + 1]  BY <3>2, <3>4, <4>1
        <5>4. QED  BY <3>2, <4>1, <5>1, <5>2, <5>3 DEF s, t
      <4>2. CASE k # i + 1
        <5>1. k \in 1..i  BY <3>1, <4>2
        <5>2. T[k - 1] + j \in 1..T[i] /\ s[T[k - 1] + j] = seqs[k][j]  BY <3>3, <5>1 DEF s
        <5>3. (s \o t)[T[k - 1] + j] = s[T[k - 1] + j]  BY <3>5, <3>6, <5>2
        <5>4. T[k - 1] + j \in 1..T[i + 1]  BY <3>2, <3>4, <5>2
        <5>5. QED  BY <3>2, <5>2, <5>3, <5>4 DEF s, t
      <4>3. QED  BY <4>1, <4>2
    <3>9. Placed(i + 1)  BY <3>7, <3>8
    <3> HIDE DEF Placed
    <3>10. QED  BY <3>1, <3>9
  <2>3. QED  BY <2>1, <2>2
<1>9. n \in Ok
  <2>1. 0 \in Ok  OBVIOUS
  <2> HIDE DEF Ok
  <2>2. \A i \in 0..n : i \in Ok  BY <1>8, <2>1, InductionUpTo
  <2>3. QED  BY <2>2
<1>10. CASE n = 0
  <2>1. all = seqs /\ IsSeq(all) /\ Len(all) = T[n]  BY <1>3, <1>4, <1>5, <1>10
  <2> HIDE DEF all
  <2>2. QED  BY <1>0, <1>10, <2>1 DEF all, T
<1>11. CASE n # 0
  <2>1. n > 0 /\ Placed(n)  BY <1>9, <1>11
  <2>2. all = F[n]  BY <1>4, <1>11
  <2>3. \A k \in 1..n : seqs[k] = chunks[k].steps  BY DEF seqs
  <2> HIDE DEF all
  <2>4. IsSeq(all) /\ Len(all) = T[n]
        /\ \A k \in 1..n : \A j \in 1..Len(chunks[k].steps) : all[T[k - 1] + j] = chunks[k].steps[j]
    BY <2>1, <2>2, <2>3
  <2>5. QED  BY <1>0, <2>4 DEF all, T
<1>12. QED  BY <1>10, <1>11

\* The layout check accepts a list only when it is the cut of its own steps: for
\* every schedule there is one way to cut them.
THEOREM ValidIsCut ==
  ASSUME NEW sched \in Schedules, NEW chunks, ChunkList(chunks),
         \A i \in DOMAIN chunks : chunks[i] = [start |-> chunks[i].start, steps |-> chunks[i].steps],
         LayoutValid(sched, chunks)
  PROVE  chunks = PartitionItems(sched, Flatten(chunks))
<1> DEFINE items == Flatten(chunks)
           total == Len(items)
           len == FullLen(sched, total)
           T == Totals(LengthsOf(chunks))
           n == Len(chunks)
<1>1. n \in Nat /\ DOMAIN chunks = 1..n /\ IsSeq(chunks)  BY IsSeqLen DEF ChunkList
<1>2. /\ IsSeq(items) /\ total = T[n]
      /\ \A k \in 1..n : \A j \in 1..Len(chunks[k].steps) : items[T[k - 1] + j] = chunks[k].steps[j]
  BY FlattenFacts
<1>3. /\ T[0] = 0 /\ \A k \in 0..n : T[k] \in Nat
      /\ \A k \in 1..n : T[k] = T[k - 1] + Len(chunks[k].steps)
  <2> DEFINE lens == LengthsOf(chunks)
  <2>1. lens \in Seq(Nat) /\ Len(lens) = n /\ \A k \in 1..n : lens[k] = Len(chunks[k].steps)
    BY LengthsFacts
  <2> HIDE DEF lens
  <2>2. /\ Totals(lens) \in [0..n -> Nat] /\ Totals(lens)[0] = 0
        /\ \A k \in 1..n : Totals(lens)[k] = Totals(lens)[k - 1] + lens[k]
    BY <2>1, TotalsFacts
  <2>3. QED  BY <2>1, <2>2 DEF lens
<1>4. StepCount(chunks) = total /\ \A k \in 1..n : StartOf(chunks, k) = T[k - 1]
  BY <1>2, StartFacts
<1> HIDE DEF items, T, n
<1>5. total \in Nat /\ (total > 0 => len \in Nat \ {0})
  <2>1. total \in Nat  BY <1>2, IsSeqLen
  <2>2. QED  BY <2>1 DEF Schedules, ScheduleValid, FullLen, LayoutValid
<1>6. PartitionItems(sched, items) = IF total = 0 THEN <<>> ELSE CutFrom(items, len, 0)
  BY <1>2, <1>5, PartitionIsCut
<1>7. \A k \in 1..n : /\ Len(chunks[k].steps) \in Nat \ {0} /\ IsSeq(chunks[k].steps)
                      /\ chunks[k].start = T[k - 1]
  <2> SUFFICES ASSUME NEW k \in 1..n
               PROVE  /\ Len(chunks[k].steps) \in Nat \ {0} /\ IsSeq(chunks[k].steps)
                      /\ chunks[k].start = T[k - 1]
    OBVIOUS
  <2>1. IsSeq(chunks[k].steps)  BY <1>1 DEF ChunkList
  <2>2. chunks[k].steps # <<>> /\ chunks[k].start = StartOf(chunks, k)
    BY <1>1 DEF LayoutValid, Contiguous
  <2>3. QED  BY <1>4, <2>1, <2>2, LenZero, IsSeqLen
<1>8. CASE n = 0
  <2>1. total = 0  BY <1>2, <1>3, <1>8
  <2>2. chunks = <<>>  BY <1>1, <1>8, LenZero DEF n
  <2>3. QED  BY <1>6, <2>1, <2>2 DEF items
<1>9. CASE n # 0
  <2>1. n \in 1..n /\ n - 1 \in 0..n  BY <1>1, <1>9
  <2>2. total > 0
    <3>1. T[n] = T[n - 1] + Len(chunks[n].steps)  BY <1>3, <2>1
    <3>2. QED  BY <1>2, <1>3, <1>7, <2>1, <3>1
  <2>3. len \in Nat \ {0}  BY <1>5, <2>2
  <2>4. n = ChunksIn(total, len)
    <3>1. ChunkCount(sched, total) = n  BY <1>4 DEF LayoutValid, n
    <3>2. CASE sched.whole
      <4>1. n = 1 /\ len = total  BY <2>2, <3>1, <3>2 DEF ChunkCount, FullLen
      <4> HIDE DEF total, len
      <4>2. ChunksIn(total, len) = 1  BY <1>5, <2>2, <2>3, <4>1, ChunksInFacts
      <4>3. QED  BY <4>1, <4>2
    <3>3. CASE ~sched.whole
      <4>1. len = sched.rows  BY <3>3 DEF FullLen
      <4>2. QED  BY <2>2, <3>1, <3>3, <4>1 DEF ChunkCount, ChunksIn
    <3>4. QED  BY <3>2, <3>3
  <2>5. \A k \in 1..n : k # n => Len(chunks[k].steps) = len
    <3>1. CASE sched.whole
      <4>1. n <= 1  BY <3>1 DEF LayoutValid, n
      <4>2. QED  BY <1>1, <4>1
    <3>2. CASE ~sched.whole
      BY <1>1, <3>2 DEF LayoutValid, RowCapRespected, FullLen, n
    <3>3. QED  BY <3>1, <3>2
  <2> HIDE DEF len, total
  <2>6. \A k \in 0..(n - 1) : T[k] = k * len
    <3> DEFINE Ok == {k \in 0..(n - 1) : T[k] = k * len}
    <3>0. n - 1 \in Nat  BY <1>1, <1>9
    <3>1. 0 \in Ok
      <4>1. 0 * len = 0  BY <2>3
      <4>2. QED  BY <1>3, <3>0, <4>1
    <3>2. ASSUME NEW k \in 0..(n - 1), k \in Ok, k < n - 1 PROVE k + 1 \in Ok
      <4>1. k + 1 \in 1..n /\ (k + 1) - 1 = k /\ k + 1 # n /\ k + 1 \in 0..(n - 1)  BY <1>1, <3>2
      <4>2. T[k + 1] = T[k] + len  BY <1>3, <2>5, <4>1
      <4>3. (k + 1) * len = k * len + len  BY <2>3, <4>1
      <4>4. QED  BY <3>2, <4>1, <4>2, <4>3
    <3> HIDE DEF Ok
    <3>3. \A k \in 0..(n - 1) : k \in Ok  BY <3>0, <3>1, <3>2, InductionUpTo
    <3>4. QED  BY <3>3 DEF Ok
  <2> DEFINE cut == CutFrom(items, len, 0)
             Stop(j) == IF j * len < total THEN j * len ELSE total
  <2>7. /\ Len(cut) = n /\ ChunkList(cut)
        /\ \A j \in 1..n : /\ cut[j] = [start |-> (j - 1) * len,
                                        steps |-> SubSeq(items, (j - 1) * len + 1, Stop(j))]
                           /\ (j - 1) * len \in Nat /\ (j - 1) * len < Stop(j) /\ Stop(j) \in 0..total
                           /\ Len(cut[j].steps) = Stop(j) - (j - 1) * len
                           /\ j # n => Len(cut[j].steps) = len
                           /\ j = n => Stop(j) = total
    <3> DEFINE m == ChunksIn(Len(items), len)
    <3>1. /\ m \in Nat \ {0} /\ Len(cut) = m /\ ChunkList(cut)
          /\ \A j \in 1..m : /\ cut[j] = [start |-> (j - 1) * len,
                                          steps |-> SubSeq(items, (j - 1) * len + 1, Stop(j))]
                             /\ (j - 1) * len \in Nat /\ (j - 1) * len < Stop(j) /\ Stop(j) \in 0..total
                             /\ Len(cut[j].steps) = Stop(j) - (j - 1) * len
                             /\ Len(cut[j].steps) <= len
                             /\ j # m => Len(cut[j].steps) = len
                             /\ j = m => Stop(j) = total
      BY <1>2, <2>2, <2>3, CutShape DEF total
    <3>2. n = m  BY <2>4 DEF total
    <3> HIDE DEF m, cut, Stop
    <3>3. QED  BY <3>1, <3>2
  <2> HIDE DEF cut, Stop
  <2>8. ASSUME NEW j \in 1..n PROVE chunks[j] = cut[j]
    <3> DEFINE from == (j - 1) * len
               mine == chunks[j].steps
               theirs == SubSeq(items, from + 1, Stop(j))
    <3>1. j - 1 \in 0..(n - 1) /\ j - 1 \in 0..n  BY <1>1
    <3>2. T[j - 1] = from /\ from \in Nat /\ from < Stop(j) /\ Stop(j) \in 0..total
      BY <2>6, <2>7, <3>1
    <3>3. T[j] = Stop(j)
      <4>1. CASE j = n  BY <1>2, <2>7, <4>1 DEF total
      <4>2. CASE j # n
        <5>1. j \in 0..(n - 1)  BY <1>1, <4>2
        <5>2. T[j] = j * len  BY <2>6, <5>1
        <5>3. Stop(j) - from = len /\ from + len = j * len  BY <1>1, <2>3, <2>7, <4>2
        <5>4. QED  BY <1>5, <2>3, <3>2, <5>2, <5>3
      <4>3. QED  BY <4>1, <4>2
    <3>4. IsSeq(mine) /\ Len(mine) = Stop(j) - from /\ \A i \in 1..Len(mine) : items[from + i] = mine[i]
      <4>1. T[j] = T[j - 1] + Len(mine) /\ Len(mine) \in Nat /\ IsSeq(mine)  BY <1>3, <1>7
      <4>2. Len(mine) = Stop(j) - from  BY <1>5, <3>2, <3>3, <4>1
      <4>3. \A i \in 1..Len(mine) : items[T[j - 1] + i] = mine[i]  BY <1>2
      <4>4. QED  BY <3>2, <4>1, <4>2, <4>3
    <3> HIDE DEF from, mine
    <3>5. IsSeq(theirs) /\ Len(theirs) = Stop(j) - from /\ \A i \in 1..Len(theirs) : theirs[i] = items[from + i]
      <4>1. from + 1 \in Nat \ {0} /\ Stop(j) \in Nat /\ Stop(j) <= Len(items) /\ from + 1 <= Stop(j)
        BY <1>5, <3>2 DEF total
      <4>2. /\ IsSeq(theirs) /\ Len(theirs) = (IF from + 1 <= Stop(j) THEN Stop(j) - (from + 1) + 1 ELSE 0)
            /\ \A i \in 1..(Stop(j) - (from + 1) + 1) : theirs[i] = items[(from + 1) + i - 1]
        BY <1>2, <4>1, SubSeqSeq
      <4> HIDE DEF theirs
      <4>3. Stop(j) - (from + 1) + 1 = Stop(j) - from  BY <3>2, <4>1
      <4>4. Len(theirs) = Stop(j) - from  BY <4>1, <4>2, <4>3
      <4>5. ASSUME NEW i \in 1..Len(theirs) PROVE theirs[i] = items[from + i]
        <5>1. (from + 1) + i - 1 = from + i  BY <3>2
        <5>2. theirs[i] = items[(from + 1) + i - 1]  BY <4>2, <4>3, <4>4
        <5>3. QED  BY <5>1, <5>2
      <4>6. QED  BY <4>2, <4>4, <4>5
    <3> HIDE DEF theirs
    <3>6. mine = theirs
      <4>1. \A i \in 1..Len(mine) : mine[i] = theirs[i]  BY <3>4, <3>5
      <4>2. QED  BY <3>4, <3>5, <4>1, SameSeq
    <3>7. chunks[j] = [start |-> from, steps |-> mine]
      BY <1>1, <1>7, <3>2 DEF mine
    <3>8. cut[j] = [start |-> from, steps |-> theirs]  BY <2>7 DEF from, theirs
    <3>9. QED  BY <3>6, <3>7, <3>8
  <2>9. chunks = cut
    <3>1. IsSeq(cut) /\ Len(chunks) = n  BY <2>7 DEF ChunkList, n
    <3>2. QED  BY <1>1, <2>7, <2>8, <3>1, SameSeq
  <2>10. QED  BY <1>6, <2>2, <2>9 DEF cut, items
<1>10. QED  BY <1>8, <1>9

-----------------------------------------------------------------------------
(* Names for what a transition computes on the way.                        *)

\* What is carried into a chunk: nothing or one digit set at one point.
Carry(claims) ==
  /\ IsSeq(claims)
  /\ Len(claims) \in {0, KRho}
  /\ SharedPoint(claims)
  /\ \A i \in DOMAIN claims : claims[i].com = claims[i].val

\* The transcript after the header binding, which is also the fold digest.
Header(mode, tr, chunk, claims) ==
  BindCcs(mode, AppendChunk(tr, chunk), Public(chunk).steps, claims, PublicChunkDigest(Public(chunk)))

OutputsOf(mode, tr, chunk, claims) ==
  CcsOutputs(chunk, claims, Vals(claims), Header(mode, tr, chunk, claims))

\* The prover's transition on a carry, each claim opened by its own value.
Transition(mode, tr, chunk, claims) == ProveTransition(mode, tr, chunk, claims, Vals(claims))

Opens(chunk) ==
  \A j \in DOMAIN chunk.steps : chunk.steps[j].ok /\ chunk.steps[j].wit = chunk.steps[j].com

-----------------------------------------------------------------------------
(* Sequences of claims and steps.                                          *)

\* The commitments of a claim list, one for each claim.
LEMMA ComsSeq ==
  ASSUME NEW claims, IsSeq(claims)
  PROVE  /\ IsSeq(Coms(claims)) /\ Len(Coms(claims)) = Len(claims)
         /\ \A i \in 1..Len(claims) : Coms(claims)[i] = claims[i].com
<1>1. Len(claims) \in Nat /\ DOMAIN claims = 1..Len(claims)  BY IsSeqLen
<1>2. Coms(claims) = [i \in 1..Len(claims) |-> claims[i].com]  BY <1>1 DEF Coms
<1>3. QED  BY <1>1, <1>2, FunctionIsSeq

\* The values of a claim list, one for each claim.
LEMMA ValsSeq ==
  ASSUME NEW claims, IsSeq(claims)
  PROVE  /\ IsSeq(Vals(claims)) /\ Len(Vals(claims)) = Len(claims)
         /\ \A i \in 1..Len(claims) : Vals(claims)[i] = claims[i].val
<1>1. Len(claims) \in Nat /\ DOMAIN claims = 1..Len(claims)  BY IsSeqLen
<1>2. Vals(claims) = [i \in 1..Len(claims) |-> claims[i].val]  BY <1>1 DEF Vals
<1>3. QED  BY <1>1, <1>2, FunctionIsSeq

\* The public form of a chunk keeps its start and has one step for each step.
LEMMA PublicSeq ==
  ASSUME NEW chunk, IsSeq(chunk.steps)
  PROVE  /\ Public(chunk).start = chunk.start
         /\ IsSeq(Public(chunk).steps) /\ Len(Public(chunk).steps) = Len(chunk.steps)
         /\ \A i \in 1..Len(chunk.steps) : Public(chunk).steps[i] = chunk.steps[i].com
<1>1. Len(chunk.steps) \in Nat /\ DOMAIN chunk.steps = 1..Len(chunk.steps)  BY IsSeqLen
<1>2. Public(chunk).steps = [i \in 1..Len(chunk.steps) |-> chunk.steps[i].com]
  BY <1>1 DEF Public, PublicStep
<1>3. Public(chunk).start = chunk.start  BY DEF Public
<1>4. QED  BY <1>1, <1>2, <1>3, FunctionIsSeq

\* The transcript grows by one mark at the chunk's start and three words at the
\* header, whoever computes it.
LEMMA HeaderLen ==
  ASSUME NEW mode, NEW tr, IsSeq(tr), NEW chunk, NEW fresh, NEW claims, NEW digest
  PROVE  /\ IsSeq(BindCcs(mode, AppendChunk(tr, chunk), fresh, claims, digest))
         /\ Len(BindCcs(mode, AppendChunk(tr, chunk), fresh, claims, digest)) = Len(tr) + 4
<1> DEFINE word == IF mode = "Optimized" THEN <<"digest", digest>> ELSE <<"instances", fresh>>
           tail == <<word, <<"me_inputs", claims>>, <<"challenges">>>>
           start == AppendChunk(tr, chunk)
<1>1. IsSeq(start) /\ Len(start) = Len(tr) + 1
  BY AppendSeq DEF AppendChunk
<1>2. IsSeq(tail) /\ Len(tail) = 3
  <2>1. tail = [i \in 1..3 |-> tail[i]]  OBVIOUS
  <2> HIDE DEF tail
  <2>2. QED  BY <2>1, FunctionIsSeq
<1>3. BindCcs(mode, start, fresh, claims, digest) = start \o tail  BY DEF BindCcs
<1> HIDE DEF start, tail, word
<1>4. Len(tr) \in Nat  BY IsSeqLen
<1>5. IsSeq(start \o tail) /\ Len(start \o tail) = Len(start) + Len(tail)
  <2>1. IsSeq(start) /\ IsSeq(tail)  BY <1>1, <1>2
  <2>2. QED  BY <2>1, ConcatSeq
<1>6. Len(start \o tail) = Len(tr) + 4  BY <1>1, <1>2, <1>4, <1>5
<1>7. QED  BY <1>3, <1>5, <1>6 DEF start

\* Two headers on one transcript and one chunk agree only when both bind the
\* instance digest or both bind the instances.
LEMMA HeaderBinds ==
  ASSUME NEW tr, IsSeq(tr), NEW chunk,
         NEW mode1, NEW fresh1, NEW claims1, NEW digest1,
         NEW mode2, NEW fresh2, NEW claims2, NEW digest2,
         BindCcs(mode1, AppendChunk(tr, chunk), fresh1, claims1, digest1)
           = BindCcs(mode2, AppendChunk(tr, chunk), fresh2, claims2, digest2)
  PROVE  (mode1 = "Optimized") = (mode2 = "Optimized")
<1> DEFINE Word(mode, digest, fresh) ==
             IF mode = "Optimized" THEN <<"digest", digest>> ELSE <<"instances", fresh>>
           Tail3(word, claims) == <<word, <<"me_inputs", claims>>, <<"challenges">>>>
           start == AppendChunk(tr, chunk)
<1>1. IsSeq(start)  BY AppendSeq DEF AppendChunk
<1>2. ASSUME NEW word, NEW claims
      PROVE  (start \o Tail3(word, claims))[Len(start) + 1] = word
  <2> DEFINE tail == Tail3(word, claims)
  <2>1. tail = [i \in 1..3 |-> tail[i]] /\ tail[1] = word  OBVIOUS
  <2> HIDE DEF tail
  <2>2. IsSeq(tail) /\ Len(tail) = 3  BY <2>1, FunctionIsSeq
  <2>3. \A i \in 1..Len(tail) : (start \o tail)[Len(start) + i] = tail[i]
    <3>1. IsSeq(tail)  BY <2>2
    <3>2. QED  BY <1>1, <3>1, ConcatSeq
  <2>4. 1 \in 1..Len(tail)  BY <2>2
  <2>5. QED  BY <2>1, <2>3, <2>4 DEF tail
<1>3. /\ BindCcs(mode1, start, fresh1, claims1, digest1)
           = start \o Tail3(Word(mode1, digest1, fresh1), claims1)
      /\ BindCcs(mode2, start, fresh2, claims2, digest2)
           = start \o Tail3(Word(mode2, digest2, fresh2), claims2)
  BY DEF BindCcs
<1>4. Word(mode1, digest1, fresh1) = Word(mode2, digest2, fresh2)
  <2> DEFINE word1 == Word(mode1, digest1, fresh1)
             word2 == Word(mode2, digest2, fresh2)
  <2>1. start \o Tail3(word1, claims1) = start \o Tail3(word2, claims2)  BY <1>3
  <2> HIDE DEF start, Tail3, word1, word2
  <2>2. /\ (start \o Tail3(word1, claims1))[Len(start) + 1] = word1
        /\ (start \o Tail3(word2, claims2))[Len(start) + 1] = word2
    BY <1>2
  <2>3. word1 = word2  BY <2>1, <2>2
  <2>4. QED  BY <2>3 DEF word1, word2
<1>5. \A d, f : <<"digest", d>>[1] = "digest" /\ <<"instances", f>>[1] = "instances"
  OBVIOUS
<1>6. QED  BY <1>4, <1>5

-----------------------------------------------------------------------------
(* What Π_CCS puts out.                                                    *)

\* The claims leaving CCS: those of the fresh steps, then those carried in, all
\* at the fold digest of the chunk.
LEMMA OutputsShape ==
  ASSUME NEW chunk, IsSeq(chunk.steps), NEW claims, IsSeq(claims), NEW fold
  PROVE  LET outputs == CcsOutputs(chunk, claims, Vals(claims), fold)
         IN  /\ IsSeq(outputs) /\ Len(outputs) = Len(chunk.steps) + Len(claims)
             /\ \A i \in DOMAIN outputs : outputs[i].fold = fold
             /\ Coms(outputs) = Public(chunk).steps \o Coms(claims)
             /\ Vals(outputs) = [i \in DOMAIN chunk.steps |-> chunk.steps[i].wit] \o Vals(claims)
<1> DEFINE n == Len(chunk.steps)
           m == Len(claims)
           fresh == [i \in DOMAIN chunk.steps |->
                       [com |-> chunk.steps[i].com, val |-> chunk.steps[i].wit, fold |-> fold]]
           old == [i \in DOMAIN claims |->
                     [com |-> claims[i].com, val |-> Vals(claims)[i], fold |-> fold]]
           wits == [i \in DOMAIN chunk.steps |-> chunk.steps[i].wit]
           outputs == CcsOutputs(chunk, claims, Vals(claims), fold)
<1>1. n \in Nat /\ DOMAIN chunk.steps = 1..n  BY IsSeqLen
<1>2. m \in Nat /\ DOMAIN claims = 1..m  BY IsSeqLen
<1>3. IsSeq(fresh) /\ Len(fresh) = n
  <2>1. fresh = [i \in 1..n |-> fresh[i]]  BY <1>1
  <2>2. QED  BY <1>1, <2>1, FunctionIsSeq
<1>4. IsSeq(old) /\ Len(old) = m
  <2>1. old = [i \in 1..m |-> old[i]]  BY <1>2
  <2>2. QED  BY <1>2, <2>1, FunctionIsSeq
<1>5. IsSeq(wits) /\ Len(wits) = n /\ \A i \in 1..n : wits[i] = chunk.steps[i].wit
  <2>1. wits = [i \in 1..n |-> wits[i]]  BY <1>1
  <2>2. QED  BY <1>1, <2>1, FunctionIsSeq
<1>6. outputs = fresh \o old  BY DEF CcsOutputs
<1>7. \A i \in 1..n : /\ fresh[i].com = chunk.steps[i].com /\ fresh[i].val = chunk.steps[i].wit
                      /\ fresh[i].fold = fold
  BY <1>1
<1>8. \A i \in 1..m : /\ old[i].com = claims[i].com /\ old[i].val = Vals(claims)[i]
                      /\ old[i].fold = fold
  BY <1>2
<1> HIDE DEF fresh, old, wits, outputs, n, m
<1>9. /\ IsSeq(outputs) /\ Len(outputs) = n + m
      /\ \A i \in 1..n : outputs[i] = fresh[i]
      /\ \A i \in 1..m : outputs[n + i] = old[i]
  <2>1. IsSeq(fresh) /\ IsSeq(old)  BY ONLY <1>3, <1>4
  <2>2. /\ IsSeq(fresh \o old) /\ Len(fresh \o old) = Len(fresh) + Len(old)
        /\ \A i \in 1..Len(fresh) : (fresh \o old)[i] = fresh[i]
        /\ \A i \in 1..Len(old) : (fresh \o old)[Len(fresh) + i] = old[i]
    BY ONLY <2>1, ConcatSeq
  <2>3. Len(fresh) = n /\ Len(old) = m  BY ONLY <1>3, <1>4
  <2>4. QED  BY ONLY <1>6, <2>2, <2>3
<1>10. DOMAIN outputs = 1..(n + m)  BY <1>9, IsSeqLen
<1>11. \A i \in 1..(n + m) : i \in 1..n \/ \E j \in 1..m : i = n + j
  <2> SUFFICES ASSUME NEW i \in 1..(n + m), i \notin 1..n PROVE \E j \in 1..m : i = n + j
    OBVIOUS
  <2>1. i - n \in 1..m /\ i = n + (i - n)  BY <1>1, <1>2
  <2>2. QED  BY <2>1
<1>12. \A i \in DOMAIN outputs : outputs[i].fold = fold
  BY <1>7, <1>8, <1>9, <1>10, <1>11
<1>13. Coms(outputs) = Public(chunk).steps \o Coms(claims)
  <2> DEFINE s == Public(chunk).steps
             t == Coms(claims)
  <2>1. IsSeq(s) /\ Len(s) = n /\ \A i \in 1..n : s[i] = chunk.steps[i].com
    BY PublicSeq DEF n
  <2>2. IsSeq(t) /\ Len(t) = m /\ \A i \in 1..m : t[i] = claims[i].com
    BY ComsSeq DEF m
  <2>3. /\ IsSeq(Coms(outputs)) /\ Len(Coms(outputs)) = n + m
        /\ \A i \in 1..(n + m) : Coms(outputs)[i] = outputs[i].com
    BY <1>9, ComsSeq
  <2> HIDE DEF s, t
  <2>4. /\ IsSeq(s \o t) /\ Len(s \o t) = n + m
        /\ \A i \in 1..n : (s \o t)[i] = s[i]
        /\ \A i \in 1..m : (s \o t)[n + i] = t[i]
    BY <2>1, <2>2, ConcatSeq
  <2>5. \A i \in 1..n : Coms(outputs)[i] = (s \o t)[i]
    <3> SUFFICES ASSUME NEW i \in 1..n PROVE Coms(outputs)[i] = (s \o t)[i]  OBVIOUS
    <3>1. i \in 1..(n + m)  BY <1>1, <1>2
    <3>2. QED  BY <1>7, <1>9, <2>1, <2>3, <2>4, <3>1
  <2>6. \A i \in 1..m : Coms(outputs)[n + i] = (s \o t)[n + i]
    <3> SUFFICES ASSUME NEW i \in 1..m PROVE Coms(outputs)[n + i] = (s \o t)[n + i]  OBVIOUS
    <3>1. n + i \in 1..(n + m)  BY <1>1, <1>2
    <3>2. QED  BY <1>8, <1>9, <2>2, <2>3, <2>4, <3>1
  <2>7. \A i \in 1..(n + m) : Coms(outputs)[i] = (s \o t)[i]
    BY <1>11, <2>5, <2>6
  <2>8. QED  BY <2>3, <2>4, <2>7, SameSeq DEF s, t
<1>14. Vals(outputs) = wits \o Vals(claims)
  <2> DEFINE t == Vals(claims)
  <2>1. IsSeq(t) /\ Len(t) = m
    BY ValsSeq DEF m
  <2>2. /\ IsSeq(Vals(outputs)) /\ Len(Vals(outputs)) = n + m
        /\ \A i \in 1..(n + m) : Vals(outputs)[i] = outputs[i].val
    BY <1>9, ValsSeq
  <2> HIDE DEF t
  <2>3. /\ IsSeq(wits \o t) /\ Len(wits \o t) = n + m
        /\ \A i \in 1..n : (wits \o t)[i] = wits[i]
        /\ \A i \in 1..m : (wits \o t)[n + i] = t[i]
    <3>1. IsSeq(wits) /\ Len(wits) = n  BY <1>5
    <3>2. QED  BY <2>1, <3>1, ConcatSeq
  <2>4. \A i \in 1..n : Vals(outputs)[i] = (wits \o t)[i]
    <3> SUFFICES ASSUME NEW i \in 1..n PROVE Vals(outputs)[i] = (wits \o t)[i]  OBVIOUS
    <3>1. i \in 1..(n + m)  BY <1>1, <1>2
    <3>2. QED  BY <1>5, <1>7, <1>9, <2>2, <2>3, <3>1
  <2>5. \A i \in 1..m : Vals(outputs)[n + i] = (wits \o t)[n + i]
    <3> SUFFICES ASSUME NEW i \in 1..m PROVE Vals(outputs)[n + i] = (wits \o t)[n + i]  OBVIOUS
    <3>1. n + i \in 1..(n + m)  BY <1>1, <1>2
    <3>2. QED  BY <1>8, <1>9, <2>2, <2>3, <3>1 DEF t
  <2>6. \A i \in 1..(n + m) : Vals(outputs)[i] = (wits \o t)[i]
    BY <1>11, <2>4, <2>5
  <2>7. QED  BY <2>2, <2>3, <2>6, SameSeq DEF t
<1>15. QED  BY <1>9, <1>12, <1>13, <1>14 DEF outputs, wits, n, m

-----------------------------------------------------------------------------
(* The prover's transition.                                                *)

\* The digits of an opened parent are a carry: one evaluation point, each
\* opening its own commitment.
LEMMA DigitsCarry ==
  ASSUME NEW z, NEW fold
  PROVE  LET children == DecChildren(z, fold)
         IN  /\ Carry(children) /\ Len(children) = KRho
             /\ \A j \in 1..KRho : children[j] = [com |-> Digit(z, j), val |-> Digit(z, j), fold |-> fold]
             /\ Vals(children) = [j \in 1..KRho |-> Digit(z, j)]
<1> DEFINE children == DecChildren(z, fold)
<1>1. KRho \in Nat /\ KRho # 0  BY TransitionAssumption
<1>2. children = [j \in 1..KRho |-> [com |-> Digit(z, j), val |-> Digit(z, j), fold |-> fold]]
  BY DEF DecChildren
<1>3. children = [j \in 1..KRho |-> children[j]]  BY <1>2
<1>4. \A j \in 1..KRho : children[j] = [com |-> Digit(z, j), val |-> Digit(z, j), fold |-> fold]
  BY <1>2
<1> HIDE DEF children
<1>5. IsSeq(children) /\ Len(children) = KRho /\ DOMAIN children = 1..KRho
  BY <1>1, <1>3, FunctionIsSeq
<1>6. Vals(children) = [j \in 1..KRho |-> Digit(z, j)]
  BY <1>4, <1>5 DEF Vals
<1>7. SharedPoint(children) /\ \A i \in DOMAIN children : children[i].com = children[i].val
  BY <1>4, <1>5 DEF SharedPoint
<1>8. QED  BY <1>4, <1>5, <1>6, <1>7 DEF Carry, children

\* The public checks of Π_DEC accept one list of children only.
LEMMA DecDeterminesChildren ==
  ASSUME NEW parent, NEW c1, NEW c2, DecPublicOk(parent, c1), DecPublicOk(parent, c2)
  PROVE  c1 = c2
BY DEF DecPublicOk

\* The digits of z recombine to the parent exactly when the parent commits to z.
LEMMA DecOkIff ==
  ASSUME NEW z, NEW com, NEW fold
  PROVE  DecPublicOk([com |-> com, val |-> z, fold |-> fold], DecChildren(z, fold)) <=> com = z
<1> DEFINE parent == [com |-> com, val |-> z, fold |-> fold]
           children == DecChildren(z, fold)
           expected == [j \in 1..KRho |-> [com |-> Digit(parent.com, j), val |-> Digit(parent.val, j),
                                           fold |-> parent.fold]]
<1>1. KRho \in Nat /\ 1 \in 1..KRho  BY TransitionAssumption
<1>2. Len(children) = KRho /\ children # <<>>
  BY <1>1, DigitsCarry, EmptyIsSeq
<1>3. DecPublicOk(parent, children) <=> children = expected  BY <1>2 DEF DecPublicOk
<1>4. expected = [j \in 1..KRho |-> [com |-> Digit(com, j), val |-> Digit(z, j), fold |-> fold]]
  OBVIOUS
<1>5. ASSUME com = z PROVE children = expected
  BY <1>4, <1>5 DEF DecChildren
<1>6. ASSUME children = expected PROVE com = z
  <2>1. children[1].com = Digit(z, 1)  BY <1>1 DEF DecChildren
  <2>2. expected[1].com = Digit(com, 1)  BY <1>1, <1>4
  <2>3. Digit(com, 1) = Digit(z, 1)  BY <1>6, <2>1, <2>2
  <2>4. Digit(com, 1)[2] = com /\ Digit(z, 1)[2] = z  BY DEF Digit
  <2>5. QED  BY <2>3, <2>4
<1>7. QED  BY <1>3, <1>5, <1>6

\* A transition of the prover, from its inputs to what it leaves: it succeeds
\* exactly when the chunk has steps, its witnesses satisfy the constraints and
\* open its commitments, and everything mixed fits the norm bound.
LEMMA TransitionFacts ==
  ASSUME NEW mode, NEW tr, NEW chunk, IsSeq(chunk.steps), NEW claims, Carry(claims)
  PROVE  LET proved == Transition(mode, tr, chunk, claims)
             header == Header(mode, tr, chunk, claims)
             outputs == OutputsOf(mode, tr, chunk, claims)
             parent == RlcParent(outputs)
         IN  /\ proved.ok <=> /\ chunk.steps # <<>> /\ Opens(chunk)
                              /\ Len(chunk.steps) + Len(claims) <= MaxClaims
             /\ proved.ok =>
                  /\ proved.tr = Append(Append(header, <<"digest32">>), <<"rhos", Len(outputs)>>)
                  /\ proved.claims = DecChildren(parent.val, header)
                  /\ proved.wits = Vals(proved.claims)
                  /\ proved.proof =
                       [chunk |-> Public(chunk),
                        relation |-> ChunkRelationDigest(outputs, parent, proved.claims),
                        outputs |-> outputs, header |-> header, rounds |-> <<header, outputs>>,
                        parent |-> parent, children |-> proved.claims]
                  /\ DecPublicOk(parent, proved.claims)
                  /\ outputs # <<>> /\ \A i \in DOMAIN outputs : outputs[i].fold = header
<1> DEFINE proved == Transition(mode, tr, chunk, claims)
           header == Header(mode, tr, chunk, claims)
           outputs == OutputsOf(mode, tr, chunk, claims)
           parent == RlcParent(outputs)
           steps == chunk.steps
           wits == [i \in DOMAIN steps |-> steps[i].wit]
           z == Mix(outputs[1].fold, wits \o Vals(claims))
           done == FinishTransition(Append(header, <<"digest32">>), chunk, Vals(claims), outputs)
           plain == [chunk |-> Public(chunk), relation |-> done.relation, outputs |-> outputs,
                     header |-> header, rounds |-> <<header, outputs>>,
                     parent |-> done.parent, children |-> done.children]
<1>1. /\ IsSeq(claims) /\ Len(claims) \in Nat /\ DOMAIN claims = 1..Len(claims)
      /\ Len(steps) \in Nat /\ DOMAIN steps = 1..Len(steps)
  BY IsSeqLen DEF Carry
<1>2. /\ IsSeq(outputs) /\ Len(outputs) = Len(steps) + Len(claims)
      /\ \A i \in DOMAIN outputs : outputs[i].fold = header
      /\ Coms(outputs) = Public(chunk).steps \o Coms(claims)
      /\ Vals(outputs) = wits \o Vals(claims)
  BY <1>1, OutputsShape DEF OutputsOf
<1>3. Len(Vals(claims)) = Len(claims) /\ \A i \in 1..Len(claims) : claims[i].val = Vals(claims)[i]
  BY <1>1, ValsSeq
<1>4. CcsProvable(chunk, claims, Vals(claims)) <=> \A j \in DOMAIN steps : steps[j].ok
  BY <1>1, <1>3 DEF CcsProvable, Carry
<1>5. ASSUME steps = <<>> \/ ~\A j \in DOMAIN steps : steps[j].ok
      PROVE  ~proved.ok
  BY <1>3, <1>4, <1>5 DEF Transition, ProveTransition, Refused
<1>6. CASE steps # <<>> /\ \A j \in DOMAIN steps : steps[j].ok
  <2>1. proved = [ok |-> done.ok, tr |-> done.tr, claims |-> done.children, wits |-> done.wits,
                  proof |-> plain]
    BY <1>3, <1>4, <1>6 DEF Transition, ProveTransition, OutputsOf, Header
  <2>2. Len(steps) # 0  BY <1>6, LenZero
  <2>3. 1 \in DOMAIN outputs /\ outputs # <<>>
    <3>1. DOMAIN outputs = 1..Len(outputs) /\ Len(outputs) \in Nat  BY <1>2, IsSeqLen
    <3>2. Len(outputs) # 0  BY <1>1, <1>2, <2>2
    <3>3. QED  BY <1>2, <3>1, <3>2, LenZero
  <2>4. outputs[1].fold = header  BY <1>2, <2>3
  <2>5. parent.val = z /\ parent.com = Mix(header, Coms(outputs)) /\ parent.fold = header
        /\ parent = [com |-> parent.com, val |-> z, fold |-> header]
    BY <1>2, <2>4 DEF RlcParent
  <2>6. /\ done.ok <=> RhosAvailable(Len(outputs)) /\ DecPublicOk(parent, DecChildren(z, header))
        /\ done.tr = Append(Append(header, <<"digest32">>), <<"rhos", Len(outputs)>>)
        /\ done.parent = parent /\ done.children = DecChildren(z, header)
        /\ done.wits = [j \in 1..KRho |-> Digit(z, j)]
        /\ done.relation = ChunkRelationDigest(outputs, parent, DecChildren(z, header))
    BY <2>4 DEF FinishTransition
  <2>7. DecPublicOk(parent, DecChildren(z, header)) <=> parent.com = z
    BY <2>5, DecOkIff
  <2>8. parent.com = z <=> Opens(chunk)
    <3>1. parent.com = z <=> Coms(outputs) = Vals(outputs)
      <4>1. parent.com = Mix(header, Coms(outputs)) /\ z = Mix(header, Vals(outputs))
        BY <1>2, <2>4, <2>5
      <4>2. Mix(header, Coms(outputs))[3] = Coms(outputs) /\ Mix(header, Vals(outputs))[3] = Vals(outputs)
        BY DEF Mix
      <4> HIDE DEF parent, z, outputs
      <4>3. QED  BY <4>1, <4>2
    <3>2. /\ IsSeq(Coms(outputs)) /\ Len(Coms(outputs)) = Len(outputs)
          /\ IsSeq(Vals(outputs)) /\ Len(Vals(outputs)) = Len(outputs)
          /\ \A i \in 1..Len(outputs) : Coms(outputs)[i] = outputs[i].com /\ Vals(outputs)[i] = outputs[i].val
      BY <1>2, ComsSeq, ValsSeq
    <3>3. Coms(outputs) = Vals(outputs) <=> \A i \in 1..Len(outputs) : Coms(outputs)[i] = Vals(outputs)[i]
      BY <3>2, SameSeq
    <3>4. /\ \A i \in 1..Len(steps) : Coms(outputs)[i] = steps[i].com /\ Vals(outputs)[i] = steps[i].wit
          /\ \A i \in 1..Len(claims) : Coms(outputs)[Len(steps) + i] = claims[i].com
                                      /\ Vals(outputs)[Len(steps) + i] = claims[i].val
      <4>1. /\ IsSeq(Public(chunk).steps) /\ Len(Public(chunk).steps) = Len(steps)
            /\ \A i \in 1..Len(steps) : Public(chunk).steps[i] = steps[i].com
        BY PublicSeq
      <4>2. /\ IsSeq(Coms(claims)) /\ Len(Coms(claims)) = Len(claims)
            /\ \A i \in 1..Len(claims) : Coms(claims)[i] = claims[i].com
        BY <1>1, ComsSeq
      <4>3. /\ IsSeq(wits) /\ Len(wits) = Len(steps)
            /\ \A i \in 1..Len(steps) : wits[i] = steps[i].wit
        <5>1. wits = [i \in 1..Len(steps) |-> wits[i]] /\ \A i \in 1..Len(steps) : wits[i] = steps[i].wit
          BY <1>1
        <5>2. QED  BY <1>1, <5>1, FunctionIsSeq
      <4>4. IsSeq(Vals(claims))  BY <1>1, ValsSeq
      <4> HIDE DEF wits, outputs
      <4>5. /\ \A i \in 1..Len(steps) : Coms(outputs)[i] = Public(chunk).steps[i]
            /\ \A i \in 1..Len(claims) : Coms(outputs)[Len(steps) + i] = Coms(claims)[i]
        <5> DEFINE s == Public(chunk).steps
                   t == Coms(claims)
        <5>1. IsSeq(s) /\ IsSeq(t) /\ Len(s) = Len(steps) /\ Len(t) = Len(claims)
          BY <4>1, <4>2
        <5>2. Coms(outputs) = s \o t  BY <1>2
        <5> HIDE DEF s, t
        <5>3. /\ \A i \in 1..Len(s) : (s \o t)[i] = s[i]
              /\ \A i \in 1..Len(t) : (s \o t)[Len(s) + i] = t[i]
          BY <5>1, ConcatSeq
        <5> HIDE DEF steps
        <5>4. /\ \A i \in 1..Len(steps) : Coms(outputs)[i] = s[i]
              /\ \A i \in 1..Len(claims) : Coms(outputs)[Len(steps) + i] = t[i]
          BY <5>1, <5>2, <5>3
        <5>5. QED  BY <5>4 DEF s, t, steps
      <4>6. /\ \A i \in 1..Len(steps) : Vals(outputs)[i] = wits[i]
            /\ \A i \in 1..Len(claims) : Vals(outputs)[Len(steps) + i] = Vals(claims)[i]
        <5>1. IsSeq(wits)  BY <4>3
        <5>2. QED  BY <1>2, <1>3, <4>3, <4>4, <5>1, ConcatSeq
      <4>7. QED  BY <1>3, <4>1, <4>2, <4>3, <4>5, <4>6
    <3>5. \A i \in 1..Len(outputs) : i \in 1..Len(steps) \/ \E j \in 1..Len(claims) : i = Len(steps) + j
      <4> SUFFICES ASSUME NEW i \in 1..Len(outputs), i \notin 1..Len(steps)
                   PROVE  \E j \in 1..Len(claims) : i = Len(steps) + j
        OBVIOUS
      <4> HIDE DEF outputs
      <4>1. i - Len(steps) \in 1..Len(claims) /\ i = Len(steps) + (i - Len(steps))  BY <1>1, <1>2
      <4>2. QED  BY <4>1
    <3>6. \A i \in 1..Len(claims) : claims[i].com = claims[i].val  BY <1>1 DEF Carry
    <3>7. \A i \in 1..Len(steps) : i \in 1..Len(outputs)  BY <1>1, <1>2
    <3> HIDE DEF outputs
    <3>8. (\A i \in 1..Len(outputs) : Coms(outputs)[i] = Vals(outputs)[i])
            <=> \A i \in 1..Len(steps) : steps[i].com = steps[i].wit
      BY <3>4, <3>5, <3>6, <3>7
    <3>9. QED  BY <1>1, <1>6, <3>1, <3>3, <3>8 DEF Opens
  <2>9. proved.ok <=> Opens(chunk) /\ Len(steps) + Len(claims) <= MaxClaims
    BY <1>2, <2>1, <2>6, <2>7, <2>8 DEF RhosAvailable
  <2>10. [j \in 1..KRho |-> Digit(z, j)] = Vals(DecChildren(z, header))
    BY DigitsCarry
  <2> HIDE DEF outputs, header, z, parent, done, proved
  <2>11. QED
    BY <1>2, <1>6, <2>1, <2>3, <2>5, <2>6, <2>9, <2>10 DEF outputs, header, parent, proved
<1>7. QED  BY <1>5, <1>6 DEF Opens

-----------------------------------------------------------------------------
(* The verifier and the replayer.                                          *)

\* Two entries appended at once are appended one after the other.
LEMMA AppendTwice ==
  ASSUME NEW s, IsSeq(s), NEW a, NEW b
  PROVE  /\ s \o <<a, b>> = Append(Append(s, a), b)
         /\ IsSeq(s \o <<a, b>>) /\ Len(s \o <<a, b>>) = Len(s) + 2
<1> DEFINE t == Append(s, a)
           u == Append(t, b)
           pair == <<a, b>>
           v == s \o pair
<1>1. Len(s) \in Nat  BY IsSeqLen
<1>2. pair = [i \in 1..2 |-> pair[i]] /\ pair[1] = a /\ pair[2] = b  OBVIOUS
<1>3. IsSeq(t) /\ Len(t) = Len(s) + 1 /\ (\A i \in 1..Len(s) : t[i] = s[i]) /\ t[Len(s) + 1] = a
  BY AppendSeq
<1> HIDE DEF pair, t
<1>4. IsSeq(pair) /\ Len(pair) = 2  BY <1>2, FunctionIsSeq
<1>5. IsSeq(u) /\ Len(u) = Len(t) + 1 /\ (\A i \in 1..Len(t) : u[i] = t[i]) /\ u[Len(t) + 1] = b
  BY <1>3, AppendSeq
<1>6. /\ IsSeq(v) /\ Len(v) = Len(s) + Len(pair) /\ \A i \in 1..Len(s) : v[i] = s[i]
      /\ \A i \in 1..Len(pair) : v[Len(s) + i] = pair[i]
  <2>1. IsSeq(s) /\ IsSeq(pair)  BY <1>4
  <2>2. QED  BY <2>1, ConcatSeq
<1> HIDE DEF u, v
<1>7. \A i \in 1..Len(v) : v[i] = u[i]
  <2>1. v[Len(s) + 1] = a /\ v[Len(s) + 2] = b
    <3>1. 1 \in 1..Len(pair) /\ 2 \in 1..Len(pair)  BY <1>4
    <3>2. QED  BY <1>2, <1>6, <3>1
  <2>2. u[Len(s) + 1] = a /\ u[Len(s) + 2] = b  BY <1>1, <1>3, <1>5
  <2>3. \A i \in 1..Len(s) : v[i] = u[i]  BY <1>1, <1>3, <1>5, <1>6
  <2>4. \A i \in 1..Len(v) : i \in 1..Len(s) \/ i = Len(s) + 1 \/ i = Len(s) + 2
    BY <1>1, <1>4, <1>6
  <2>5. QED  BY <2>1, <2>2, <2>3, <2>4
<1>8. v = u  BY <1>1, <1>3, <1>4, <1>5, <1>6, <1>7, SameSeq
<1>9. QED  BY <1>1, <1>4, <1>6, <1>8 DEF u, v, t, pair

\* A chunk and its public form extend a transcript alike.
LEMMA SameStart ==
  ASSUME NEW tr, NEW chunk, IsSeq(chunk.steps)
  PROVE  AppendChunk(tr, Public(chunk)) = AppendChunk(tr, chunk)
BY PublicSeq DEF AppendChunk

\* A transition leaves six more words than the header's chunk mark: what the
\* next chunk starts on has a length of its own.
LEMMA TransitionTranscript ==
  ASSUME NEW mode, NEW tr, IsSeq(tr), NEW chunk, IsSeq(chunk.steps), NEW claims, Carry(claims),
         Transition(mode, tr, chunk, claims).ok
  PROVE  /\ IsSeq(Transition(mode, tr, chunk, claims).tr)
         /\ Len(Transition(mode, tr, chunk, claims).tr) = Len(tr) + 6
<1> DEFINE header == Header(mode, tr, chunk, claims)
<1>1. IsSeq(header) /\ Len(header) = Len(tr) + 4
  BY HeaderLen DEF Header
<1>2. PICK word : Transition(mode, tr, chunk, claims).tr = Append(Append(header, <<"digest32">>), word)
  BY TransitionFacts
<1>3. Len(tr) \in Nat  BY IsSeqLen
<1> HIDE DEF header
<1>4. IsSeq(Append(header, <<"digest32">>)) /\ Len(Append(header, <<"digest32">>)) = Len(tr) + 5
  BY <1>1, <1>3, AppendSeq
<1>5. /\ IsSeq(Append(Append(header, <<"digest32">>), word))
      /\ Len(Append(Append(header, <<"digest32">>), word)) = (Len(tr) + 5) + 1
  BY <1>4, AppendSeq
<1>6. QED  BY <1>2, <1>3, <1>5

\* The chunk proof a transition leaves, read by its fields, and how transcript
\* and carry go on from it.
ProofShape(mode, tr, chunk, claims) ==
  LET proved == Transition(mode, tr, chunk, claims)
      c == proved.proof
  IN  /\ c = [chunk |-> Public(chunk),
              relation |-> ChunkRelationDigest(c.outputs, c.parent, c.children),
              outputs |-> c.outputs, header |-> c.header, rounds |-> c.rounds,
              parent |-> c.parent, children |-> c.children]
      /\ DecPublicOk(RlcParent(c.outputs), c.children)
      /\ c.header = Header(mode, tr, chunk, claims)
      /\ IsSeq(c.header) /\ Len(c.header) = Len(tr) + 4
      /\ proved.tr = c.header \o <<<<"digest32">>, <<"rhos", Len(c.outputs)>>>>
      /\ proved.claims = c.children /\ proved.wits = Vals(c.children)
      /\ Carry(c.children) /\ Len(c.children) = KRho
      /\ \A j \in 1..KRho : c.children[j].fold = c.header
      /\ chunk.steps # <<>> /\ Opens(chunk)
      /\ Len(chunk.steps) + Len(claims) <= MaxClaims

\* A chunk proof the prover makes has the shape ProofShape.
LEMMA ProofFacts ==
  ASSUME NEW mode, NEW tr, IsSeq(tr), NEW chunk, IsSeq(chunk.steps), NEW claims, Carry(claims),
         Transition(mode, tr, chunk, claims).ok
  PROVE  ProofShape(mode, tr, chunk, claims)
<1> DEFINE proved == Transition(mode, tr, chunk, claims)
           header == Header(mode, tr, chunk, claims)
           outputs == OutputsOf(mode, tr, chunk, claims)
           z == RlcParent(outputs).val
           children == proved.claims
           c == proved.proof
<1>1. /\ proved.tr = Append(Append(header, <<"digest32">>), <<"rhos", Len(outputs)>>)
      /\ children = DecChildren(z, header) /\ proved.wits = Vals(children)
      /\ c = [chunk |-> Public(chunk),
              relation |-> ChunkRelationDigest(outputs, RlcParent(outputs), children),
              outputs |-> outputs, header |-> header, rounds |-> <<header, outputs>>,
              parent |-> RlcParent(outputs), children |-> children]
      /\ DecPublicOk(RlcParent(outputs), children)
      /\ chunk.steps # <<>> /\ Opens(chunk) /\ Len(chunk.steps) + Len(claims) <= MaxClaims
  BY TransitionFacts
<1>2. IsSeq(header)  BY HeaderLen DEF Header
<1>3. Len(header) = Len(tr) + 4  BY HeaderLen DEF Header
<1> HIDE DEF c, children, proved, header, outputs, z
<1>4. /\ Carry(children) /\ Len(children) = KRho
      /\ \A j \in 1..KRho : children[j] = [com |-> Digit(z, j), val |-> Digit(z, j), fold |-> header]
  BY <1>1, DigitsCarry
<1>5. \A j \in 1..KRho : children[j].fold = header  BY <1>4
<1>6. proved.tr = header \o <<<<"digest32">>, <<"rhos", Len(outputs)>>>>
  <2> DEFINE a == <<"digest32">>
             b == <<"rhos", Len(outputs)>>
  <2>1. proved.tr = Append(Append(header, a), b)  BY <1>1
  <2> HIDE DEF a, b
  <2>2. header \o <<a, b>> = Append(Append(header, a), b)  BY <1>2, AppendTwice
  <2>3. QED  BY <2>1, <2>2 DEF a, b
<1>7. /\ c.chunk = Public(chunk) /\ c.outputs = outputs /\ c.header = header
      /\ c.rounds = <<header, outputs>> /\ c.parent = RlcParent(outputs) /\ c.children = children
  BY <1>1
<1>8. c = [chunk |-> Public(chunk),
           relation |-> ChunkRelationDigest(c.outputs, c.parent, c.children),
           outputs |-> c.outputs, header |-> c.header, rounds |-> c.rounds,
           parent |-> c.parent, children |-> c.children]
  BY <1>1, <1>7
<1>9. /\ DecPublicOk(RlcParent(c.outputs), c.children) /\ c.header = header
      /\ IsSeq(c.header) /\ Len(c.header) = Len(tr) + 4
      /\ proved.tr = c.header \o <<<<"digest32">>, <<"rhos", Len(c.outputs)>>>>
      /\ children = c.children /\ proved.wits = Vals(c.children)
      /\ Carry(c.children) /\ Len(c.children) = KRho
      /\ \A j \in 1..KRho : c.children[j].fold = c.header
  BY <1>1, <1>2, <1>3, <1>4, <1>5, <1>6, <1>7
<1>10. QED  BY <1>1, <1>8, <1>9 DEF ProofShape, c, children, proved, header

\* The verifier, on the prover's transcript and carry and with the right public
\* chunk, in any mode that binds instances as the prover's did.
LEMMA HonestVerified ==
  ASSUME NEW mode, NEW tr, IsSeq(tr), NEW chunk, IsSeq(chunk.steps), NEW claims, Carry(claims),
         Transition(mode, tr, chunk, claims).ok,
         NEW vmode, (mode = "Optimized") = (vmode = "Optimized")
  PROVE  LET proved == Transition(mode, tr, chunk, claims)
         IN  VerifyTransition(vmode, tr, Public(chunk), PublicChunkDigest(Public(chunk)), claims,
                              proved.proof)
               = [ok |-> TRUE, tr |-> proved.tr, claims |-> proved.claims]
<1> DEFINE proved == Transition(mode, tr, chunk, claims)
           header == Header(mode, tr, chunk, claims)
           outputs == OutputsOf(mode, tr, chunk, claims)
           proof == proved.proof
           public == Public(chunk)
           digest == PublicChunkDigest(public)
           bound == BindCcs(vmode, AppendChunk(tr, public), public.steps, claims, digest)
<1>1. bound = header  BY SameStart DEF Header, BindCcs
<1>2. /\ proof = [chunk |-> public,
                  relation |-> ChunkRelationDigest(outputs, RlcParent(outputs), proved.claims),
                  outputs |-> outputs, header |-> header, rounds |-> <<header, outputs>>,
                  parent |-> RlcParent(outputs), children |-> proved.claims]
      /\ chunk.steps # <<>> /\ Len(chunk.steps) + Len(claims) <= MaxClaims
      /\ proved.tr = Append(Append(header, <<"digest32">>), <<"rhos", Len(outputs)>>)
      /\ DecPublicOk(RlcParent(outputs), proved.claims)
      /\ outputs # <<>> /\ \A i \in DOMAIN outputs : outputs[i].fold = header
  BY TransitionFacts
<1>3. IsSeq(claims) /\ SharedPoint(claims)  BY DEF Carry
<1>4. /\ Len(outputs) = Len(chunk.steps) + Len(claims)
      /\ Coms(outputs) = public.steps \o Coms(claims)
  BY <1>3, OutputsShape DEF OutputsOf
<1>5. IsSeq(public.steps) /\ Len(public.steps) = Len(chunk.steps) /\ Len(chunk.steps) # 0
  BY <1>2, PublicSeq, LenZero
<1>6. public.steps # <<>>  BY <1>5, LenZero
<1>7. IsSeq(header)  BY HeaderLen DEF Header
<1>8. proved.tr = header \o <<<<"digest32">>, <<"rhos", Len(outputs)>>>>
  <2> DEFINE a == <<"digest32">>
             b == <<"rhos", Len(outputs)>>
  <2>1. proved.tr = Append(Append(header, a), b)  BY <1>2
  <2> HIDE DEF a, b, header
  <2>2. header \o <<a, b>> = Append(Append(header, a), b)  BY <1>7, AppendTwice
  <2>3. QED  BY <2>1, <2>2 DEF a, b
<1> HIDE DEF proved, header, outputs, public, digest
<1>9. /\ proof.chunk = public /\ proof.outputs = outputs /\ proof.header = header
      /\ proof.rounds = <<header, outputs>> /\ proof.parent = RlcParent(outputs)
      /\ proof.children = proved.claims
  BY <1>2
<1> HIDE DEF proof, bound
<1>10. CcsVerifies(bound, public, claims, proof)
  BY <1>1, <1>3, <1>4, <1>5, <1>9 DEF CcsVerifies
<1>11. RhosAvailable(Len(proof.outputs))  BY <1>2, <1>4, <1>9 DEF RhosAvailable
<1>12. VerifyTransition(vmode, tr, public, digest, claims, proof)
         = [ok |-> TRUE, tr |-> bound \o <<<<"digest32">>, <<"rhos", Len(proof.outputs)>>>>,
            claims |-> proof.children]
  BY <1>1, <1>2, <1>6, <1>9, <1>10, <1>11 DEF VerifyTransition, bound
<1>13. QED  BY <1>1, <1>8, <1>9, <1>12 DEF proved, public, digest, proof

\* What a verifier that lets a chunk proof through has established about it.
LEMMA VerifiedFacts ==
  ASSUME NEW vmode, NEW tr, NEW public, NEW digest, NEW incoming, NEW proof,
         VerifyTransition(vmode, tr, public, digest, incoming, proof).ok
  PROVE  /\ proof.chunk = public
         /\ proof.header = BindCcs(vmode, AppendChunk(tr, public), public.steps, incoming, digest)
         /\ DecPublicOk(RlcParent(proof.outputs), proof.children)
         /\ VerifyTransition(vmode, tr, public, digest, incoming, proof)
              = [ok |-> TRUE, tr |-> proof.header \o <<<<"digest32">>, <<"rhos", Len(proof.outputs)>>>>,
                 claims |-> proof.children]
BY DEF VerifyTransition, Refused

\* The replayer, on the prover's transcript and carry.
LEMMA HonestReplayed ==
  ASSUME NEW tr, NEW chunk, IsSeq(chunk.steps), NEW claims, Carry(claims),
         Transition("Optimized", tr, chunk, claims).ok
  PROVE  LET proved == Transition("Optimized", tr, chunk, claims)
         IN  ReplayTransition(tr, chunk, claims, Vals(claims), proved.proof)
               = [ok |-> TRUE, tr |-> proved.tr, claims |-> proved.claims, wits |-> proved.wits,
                  relation |-> proved.proof.relation]
<1> DEFINE proved == Transition("Optimized", tr, chunk, claims)
           header == Header("Optimized", tr, chunk, claims)
           outputs == OutputsOf("Optimized", tr, chunk, claims)
           done == FinishTransition(Append(header, <<"digest32">>), chunk, Vals(claims), outputs)
           proof == proved.proof
<1>1. /\ proof = [chunk |-> Public(chunk),
                  relation |-> ChunkRelationDigest(outputs, RlcParent(outputs), proved.claims),
                  outputs |-> outputs, header |-> header, rounds |-> <<header, outputs>>,
                  parent |-> RlcParent(outputs), children |-> proved.claims]
      /\ chunk.steps # <<>>
      /\ \A i \in DOMAIN outputs : outputs[i].fold = header
  BY TransitionFacts
<1>2. IsSeq(claims) /\ SharedPoint(claims) /\ Len(Vals(claims)) = Len(claims)  BY ValsSeq DEF Carry
<1>3. /\ Len(outputs) = Len(chunk.steps) + Len(claims)
      /\ Coms(outputs) = Public(chunk).steps \o Coms(claims)
  BY <1>2, OutputsShape DEF OutputsOf
<1>4. Len(Public(chunk).steps) = Len(chunk.steps)  BY PublicSeq
<1>5. /\ proved.ok = done.ok /\ proved.tr = done.tr /\ proved.claims = done.children
      /\ proved.wits = done.wits /\ proof.relation = done.relation
  BY DEF Transition, ProveTransition, Refused, OutputsOf, Header
<1>6. done = [ok |-> done.ok, tr |-> done.tr, parent |-> done.parent, children |-> done.children,
              wits |-> done.wits, relation |-> done.relation] /\ done.ok \in BOOLEAN
  BY DEF FinishTransition
<1> HIDE DEF outputs, done
<1>7. CcsVerifies(header, Public(chunk), claims, proof)
  <2> HIDE DEF proof, header
  <2>1. proof.outputs = outputs /\ proof.rounds = <<header, outputs>>  BY <1>1
  <2>2. QED  BY <1>2, <1>3, <1>4, <2>1 DEF CcsVerifies
<1>8. ReplayTransition(tr, chunk, claims, Vals(claims), proof)
        = [ok |-> done.ok, tr |-> done.tr, claims |-> done.children, wits |-> done.wits,
           relation |-> done.relation]
  <2> HIDE DEF proof
  <2>1. proof.outputs = outputs /\ proof.header = header  BY <1>1
  <2>2. QED  BY <1>1, <1>2, <1>7, <2>1 DEF ReplayTransition, Header, done
<1>9. QED  BY <1>5, <1>6, <1>8

-----------------------------------------------------------------------------
(* The invariant.                                                          *)

\* The transcript and the claims chunk i starts from, by the trail.
TrAt(h, i) == IF i = 1 THEN NewSession ELSE h[i - 1].tr
ClaimsAt(h, i) == IF i = 1 THEN <<>> ELSE h[i - 1].claims

StepAt(p, h, i) == Transition(p.mode, TrAt(h, i), p.chunks[i], ClaimsAt(h, i))

\* Each position of a session has its own transcript length.
Position(h, i) ==
  /\ IsSeq(TrAt(h, i)) /\ Len(TrAt(h, i)) = 7 * i - 6
  /\ Carry(ClaimsAt(h, i)) /\ Len(ClaimsAt(h, i)) = IF i = 1 THEN 0 ELSE KRho

\* Chunk proof i and mark i of the trail come from one transition.
Chained(p, s, h, i) ==
  /\ StepAt(p, h, i).ok
  /\ s.chunks[i] = StepAt(p, h, i).proof
  /\ h[i] = [tr |-> ChunkDone(StepAt(p, h, i).tr), claims |-> StepAt(p, h, i).claims]

\* A prover's record, its session and its trail are one run of the transition.
History(p, s, h) ==
  /\ ChunkList(p.chunks) /\ p.sched \in Schedules
  /\ IsSeq(h) /\ IsSeq(s.chunks) /\ Len(s.chunks) = Len(h) /\ Len(h) <= Len(p.chunks)
  /\ \A i \in 1..Len(h) : Chained(p, s, h, i)
  /\ \A i \in 1..(Len(h) + 1) : Position(h, i)
  /\ p.tr = TrAt(h, Len(h) + 1) /\ p.claims = ClaimsAt(h, Len(h) + 1) /\ p.wits = Vals(p.claims)

Records ==
  /\ prover = [mode |-> prover.mode, sched |-> prover.sched, chunks |-> prover.chunks,
               packaged |-> prover.packaged, tr |-> prover.tr, claims |-> prover.claims,
               wits |-> prover.wits]
  /\ session = [sched |-> session.sched, chunks |-> session.chunks, final |-> session.final]

Feasible(p) ==
  /\ LayoutValid(p.sched, p.chunks) /\ WitnessesOpen(p.chunks) /\ FitsNormBound(p.chunks)

PhaseInv ==
  /\ pc \in {"idle", "proving", "failed"} \/ Proved
  /\ pc = "idle" => Len(trail) = 0
  /\ pc = "proving" \/ Proved => session.sched = prover.sched
  /\ pc = "failed" => ~Feasible(prover)
  /\ Proved => /\ Len(trail) = Len(prover.chunks)
               /\ session.final = prover.claims
               /\ LayoutValid(prover.sched, PublicAll(prover.chunks))

StorageInv ==
  /\ \/ package = NoPackage
     \/ Proved /\ package = PackageSession(PublicAll(prover.chunks), session)
  /\ damage # "none" =>
       /\ Proved /\ damage \in Damages
       /\ Len(session.chunks) >= (IF damage = "swapped" THEN 2 ELSE 1)

\* Everything of a chunk proof but the relation digest it carries.
SameButRelation(a, b) == a = [b EXCEPT !.relation = a.relation]

\* What the entry points on packages have checked before the loop, as far as
\* the loop does not check it again.
Packaged ==
  /\ package.made /\ Stored.sched = package.sched
  /\ verifier.entry = "precomputed" =>
       package.proofDigest
         = FinalProofDigest(package.digest, Stored, verifier.digests, CarriedRelations(Stored))

VerifierInv ==
  pc \in {"verifying", "accepted"} =>
    /\ verifier = [entry |-> verifier.entry, mode |-> verifier.mode, chunks |-> verifier.chunks,
                   digests |-> verifier.digests, tr |-> verifier.tr, claims |-> verifier.claims,
                   next |-> verifier.next]
    /\ IsSeq(verifier.chunks) /\ Len(verifier.digests) = Len(verifier.chunks)
    /\ verifier.next \in 1..(Len(trail) + 1)
    /\ verifier.next <= Len(Stored.chunks) + 1
    /\ verifier.tr = TrAt(trail, verifier.next) /\ verifier.claims = ClaimsAt(trail, verifier.next)
    /\ \A i \in 1..(verifier.next - 1) :
         /\ SameButRelation(Stored.chunks[i], session.chunks[i])
         /\ i <= Len(verifier.chunks) /\ verifier.chunks[i] = Public(prover.chunks[i])
    /\ verifier.next > 1 => SameBinding(prover.mode, verifier.mode)
    /\ verifier.entry \in {"packaged", "precomputed"} => Packaged

AcceptedInv ==
  pc = "accepted" =>
    /\ verifier.next = Len(Stored.chunks) + 1
    /\ Len(verifier.chunks) = Len(Stored.chunks)
    /\ verifier.claims = Stored.final

\* The replayer has followed the session for as many chunks as it has relations.
Replayed(r, s, h) ==
  /\ r.ok /\ IsSeq(r.relations) /\ Len(r.relations) <= Len(h)
  /\ r.tr = TrAt(h, Len(r.relations) + 1) /\ r.claims = ClaimsAt(h, Len(r.relations) + 1)
  /\ r.wits = Vals(r.claims)
  /\ \A i \in 1..Len(r.relations) : r.relations[i] = s.chunks[i].relation

ReplayInv ==
  /\ Replayed(replay, session, trail)
  /\ ~Proved => Len(replay.relations) = 0

\* The inductive invariant.
SessionInv ==
  /\ Records /\ History(prover, session, trail) /\ PhaseInv /\ StorageInv
  /\ VerifierInv /\ AcceptedInv /\ HonestSessionAccepted /\ ReplayInv


-----------------------------------------------------------------------------
(* Positions and the run of the transition.                                *)

\* Every run starts on a new session with nothing carried.
LEMMA FirstPosition ==
  ASSUME NEW h
  PROVE  TrAt(h, 1) = NewSession /\ ClaimsAt(h, 1) = <<>> /\ Position(h, 1)
<1>1. TrAt(h, 1) = NewSession /\ ClaimsAt(h, 1) = <<>>  BY DEF TrAt, ClaimsAt
<1>2. IsSeq(NewSession) /\ Len(NewSession) = 1
  <2>1. NewSession = [i \in 1..1 |-> NewSession[i]]  BY DEF NewSession
  <2>2. QED  BY <2>1, FunctionIsSeq
<1>3. Carry(<<>>)  BY EmptyIsSeq DEF Carry, SharedPoint
<1>4. Len(<<>>) = 0  BY EmptyIsSeq
<1>5. QED  BY <1>1, <1>2, <1>3, <1>4 DEF Position

\* With no chunk proved, any chunk list is the start of a run.
LEMMA StartOfHistory ==
  ASSUME NEW p, NEW s, NEW h, IsSeq(h), Len(h) = 0, IsSeq(s.chunks), Len(s.chunks) = 0,
         ChunkList(p.chunks), p.sched \in Schedules,
         p.tr = NewSession, p.claims = <<>>, p.wits = Vals(p.claims)
  PROVE  History(p, s, h)
<1>1. Len(p.chunks) \in Nat  BY IsSeqLen DEF ChunkList
<1>2. 1..Len(h) = {} /\ 1..(Len(h) + 1) = {1} /\ Len(h) + 1 = 1  OBVIOUS
<1>3. p.tr = TrAt(h, Len(h) + 1) /\ p.claims = ClaimsAt(h, Len(h) + 1)  BY <1>2, FirstPosition
<1>4. \A i \in 1..(Len(h) + 1) : Position(h, i)  BY <1>2, FirstPosition
<1>5. QED  BY <1>1, <1>2, <1>3, <1>4 DEF History

\* What the chunk proof at each place of a session holds.
ChunkShape(p, s, h, i) ==
  LET c == s.chunks[i]
      chunk == p.chunks[i]
  IN  /\ c = [chunk |-> Public(chunk),
              relation |-> ChunkRelationDigest(c.outputs, c.parent, c.children),
              outputs |-> c.outputs, header |-> c.header, rounds |-> c.rounds,
              parent |-> c.parent, children |-> c.children]
      /\ DecPublicOk(RlcParent(c.outputs), c.children)
      /\ c.header = Header(p.mode, TrAt(h, i), chunk, ClaimsAt(h, i))
      /\ IsSeq(c.header) /\ Len(c.header) = 7 * i - 2
      /\ h[i].tr = ChunkDone(c.header \o <<<<"digest32">>, <<"rhos", Len(c.outputs)>>>>)
      /\ h[i].claims = c.children
      /\ \A j \in 1..KRho : c.children[j].fold = c.header
      /\ chunk.steps # <<>> /\ Opens(chunk)
      /\ Len(chunk.steps) + Len(ClaimsAt(h, i)) <= MaxClaims

\* Every chunk proof of a run has that shape.
LEMMA ChunkFacts ==
  ASSUME NEW p, NEW s, NEW h, History(p, s, h), NEW i \in 1..Len(h)
  PROVE  ChunkShape(p, s, h, i)
<1> DEFINE mode == p.mode
           chunk == p.chunks[i]
           tr == TrAt(h, i)
           claims == ClaimsAt(h, i)
           step == Transition(mode, tr, chunk, claims)
           c == step.proof
<1>1. Len(h) \in Nat /\ Len(p.chunks) \in Nat /\ i \in 1..Len(p.chunks) /\ i \in 1..(Len(h) + 1)
  BY IsSeqLen DEF History, ChunkList
<1>2. IsSeq(chunk.steps)  BY <1>1, IsSeqLen DEF History, ChunkList
<1>3. Position(h, i) /\ Chained(p, s, h, i)  BY <1>1 DEF History
<1>4. IsSeq(tr) /\ Carry(claims)  BY <1>3 DEF Position
<1>5. Len(tr) + 4 = 7 * i - 2  BY <1>1, <1>3 DEF Position
<1>6. step.ok /\ s.chunks[i] = c /\ h[i].tr = ChunkDone(step.tr) /\ h[i].claims = step.claims
  BY <1>3 DEF StepAt, Chained
<1>7. /\ c = [chunk |-> Public(chunk),
              relation |-> ChunkRelationDigest(c.outputs, c.parent, c.children),
              outputs |-> c.outputs, header |-> c.header, rounds |-> c.rounds,
              parent |-> c.parent, children |-> c.children]
      /\ DecPublicOk(RlcParent(c.outputs), c.children)
      /\ c.header = Header(mode, tr, chunk, claims)
      /\ IsSeq(c.header) /\ Len(c.header) = Len(tr) + 4
      /\ step.tr = c.header \o <<<<"digest32">>, <<"rhos", Len(c.outputs)>>>>
      /\ step.claims = c.children
      /\ \A j \in 1..KRho : c.children[j].fold = c.header
      /\ chunk.steps # <<>> /\ Opens(chunk) /\ Len(chunk.steps) + Len(claims) <= MaxClaims
  <2> HIDE DEF chunk, tr, claims, mode
  <2>1. ProofShape(mode, tr, chunk, claims)  BY <1>2, <1>4, <1>6, ProofFacts
  <2>2. QED  BY <2>1 DEF ProofShape
<1> HIDE DEF step, mode, chunk, tr, claims, c
<1>8. QED  BY <1>5, <1>6, <1>7 DEF ChunkShape, mode, chunk, tr, claims

\* A chunk that is proved on what is carried extends the run by one.
LEMMA ExtendHistory ==
  ASSUME NEW p, NEW s, NEW h, History(p, s, h), Len(h) < Len(p.chunks),
         NEW q, NEW t, NEW g,
         LET step == ProveTransition(p.mode, p.tr, p.chunks[Len(h) + 1], p.claims, p.wits)
         IN  /\ step.ok
             /\ q.mode = p.mode /\ q.sched = p.sched /\ q.chunks = p.chunks
             /\ q.tr = ChunkDone(step.tr) /\ q.claims = step.claims /\ q.wits = step.wits
             /\ t.chunks = Append(s.chunks, step.proof)
             /\ g = Append(h, [tr |-> ChunkDone(step.tr), claims |-> step.claims])
  PROVE  History(q, t, g)
<1> DEFINE n == Len(h)
           mode == p.mode
           chunk == p.chunks[n + 1]
           tr == TrAt(h, n + 1)
           claims == ClaimsAt(h, n + 1)
           step == Transition(mode, tr, chunk, claims)
           mark == [tr |-> ChunkDone(step.tr), claims |-> step.claims]
<1>1. /\ n \in Nat /\ Len(p.chunks) \in Nat /\ n + 1 \in 1..Len(p.chunks) /\ n + 1 \in 1..(n + 1)
      /\ IsSeq(h) /\ IsSeq(s.chunks) /\ Len(s.chunks) = n
  BY IsSeqLen DEF History, ChunkList
<1>2. ProveTransition(mode, p.tr, chunk, p.claims, p.wits) = step
  BY DEF History, Transition
<1>3. /\ step.ok
      /\ q.mode = mode /\ q.sched = p.sched /\ q.chunks = p.chunks
      /\ q.tr = ChunkDone(step.tr) /\ q.claims = step.claims /\ q.wits = step.wits
      /\ t.chunks = Append(s.chunks, step.proof)
      /\ g = Append(h, mark)
  BY <1>2
<1>4. IsSeq(chunk.steps)  BY <1>1, IsSeqLen DEF History, ChunkList
<1>5. Position(h, n + 1)  BY <1>1 DEF History
<1>6. IsSeq(tr) /\ Len(tr) = 7 * (n + 1) - 6 /\ Carry(claims)  BY <1>5 DEF Position
<1> HIDE DEF mode, chunk, tr, claims
<1>7. ProofShape(mode, tr, chunk, claims)  BY <1>3, <1>4, <1>6, ProofFacts
<1>8. Carry(step.claims) /\ Len(step.claims) = KRho /\ step.wits = Vals(step.claims)
  BY <1>7 DEF ProofShape
<1>9. IsSeq(step.tr) /\ Len(step.tr) = Len(tr) + 6
  BY <1>3, <1>4, <1>6, TransitionTranscript
<1> HIDE DEF step
<1>10. IsSeq(ChunkDone(step.tr)) /\ Len(ChunkDone(step.tr)) = 7 * (n + 2) - 6
  <2>1. IsSeq(ChunkDone(step.tr)) /\ Len(ChunkDone(step.tr)) = Len(step.tr) + 1
    BY <1>9, AppendSeq DEF ChunkDone
  <2>2. QED  BY <1>1, <1>6, <1>9, <2>1
<1>11. mark.tr = ChunkDone(step.tr) /\ mark.claims = step.claims  OBVIOUS
<1> HIDE DEF mark
<1>12. /\ IsSeq(g) /\ Len(g) = n + 1 /\ \A i \in 1..n : g[i] = h[i]
       /\ g[n + 1] = mark
  BY <1>1, <1>3, AppendSeq
<1>13. /\ IsSeq(t.chunks) /\ Len(t.chunks) = n + 1 /\ \A i \in 1..n : t.chunks[i] = s.chunks[i]
       /\ t.chunks[n + 1] = step.proof
  <2> DEFINE proof == step.proof
  <2>1. t.chunks = Append(s.chunks, proof)  BY <1>3
  <2> HIDE DEF proof
  <2>2. QED  BY <1>1, <2>1, AppendSeq DEF proof
<1> HIDE DEF n
<1>14. \A i \in 1..(n + 1) : TrAt(g, i) = TrAt(h, i) /\ ClaimsAt(g, i) = ClaimsAt(h, i)
  <2> SUFFICES ASSUME NEW i \in 1..(n + 1)
               PROVE  TrAt(g, i) = TrAt(h, i) /\ ClaimsAt(g, i) = ClaimsAt(h, i)
    OBVIOUS
  <2>1. CASE i = 1  BY <2>1 DEF TrAt, ClaimsAt
  <2>2. CASE i # 1
    <3>1. g[i - 1] = h[i - 1]  BY <1>1, <1>12, <2>2
    <3>2. QED  BY <2>2, <3>1 DEF TrAt, ClaimsAt
  <2>3. QED  BY <2>1, <2>2
<1>15. TrAt(g, n + 2) = ChunkDone(step.tr) /\ ClaimsAt(g, n + 2) = step.claims
  <2>1. n + 2 # 1 /\ (n + 2) - 1 = n + 1  BY <1>1
  <2>2. QED  BY <1>11, <1>12, <2>1 DEF TrAt, ClaimsAt
<1>16. \A i \in 1..(n + 2) : Position(g, i)
  <2> SUFFICES ASSUME NEW i \in 1..(n + 2) PROVE Position(g, i)  OBVIOUS
  <2>1. CASE i = n + 2
    BY <1>1, <1>8, <1>10, <1>15, <2>1 DEF Position
  <2>2. CASE i # n + 2
    <3>1. i \in 1..(n + 1)  BY <1>1, <2>2
    <3>2. Position(h, i)  BY <3>1 DEF History, n
    <3>3. QED  BY <1>14, <3>1, <3>2 DEF Position
  <2>3. QED  BY <2>1, <2>2
<1>17. \A i \in 1..(n + 1) : StepAt(q, g, i) = StepAt(p, h, i)
  BY <1>3, <1>14 DEF StepAt, mode
<1>18. \A i \in 1..(n + 1) : Chained(q, t, g, i)
  <2> SUFFICES ASSUME NEW i \in 1..(n + 1) PROVE Chained(q, t, g, i)  OBVIOUS
  <2>1. CASE i = n + 1
    <3>1. StepAt(q, g, i) = step  BY <1>17, <2>1 DEF StepAt, step, mode, chunk, tr, claims, n
    <3>2. QED  BY <1>3, <1>12, <1>13, <2>1, <3>1 DEF Chained, mark
  <2>2. CASE i # n + 1
    <3>1. i \in 1..n  BY <1>1, <2>2
    <3>2. Chained(p, s, h, i)  BY <3>1 DEF History, n
    <3>3. QED  BY <1>12, <1>13, <1>17, <3>1, <3>2 DEF Chained
  <2>3. QED  BY <2>1, <2>2
<1>19. /\ q.tr = TrAt(g, n + 2) /\ q.claims = ClaimsAt(g, n + 2) /\ q.wits = Vals(q.claims)
  BY <1>3, <1>8, <1>15
<1>20. (n + 1) + 1 = n + 2 /\ n + 1 <= Len(p.chunks)  BY <1>1
<1>21. ChunkList(q.chunks) /\ q.sched \in Schedules  BY <1>3 DEF History
<1>22. QED  BY <1>3, <1>12, <1>13, <1>16, <1>18, <1>19, <1>20, <1>21 DEF History

\* What is carried into two different places of a session differs.
LEMMA ClaimsDiffer ==
  ASSUME NEW p, NEW s, NEW h, History(p, s, h), NEW i \in 1..(Len(h) + 1), NEW j \in 1..(Len(h) + 1),
         ClaimsAt(h, i) = ClaimsAt(h, j)
  PROVE  i = j
<1>1. Len(h) \in Nat /\ KRho \in Nat /\ KRho # 0  BY IsSeqLen, TransitionAssumption DEF History
<1>2. (i = 1) = (j = 1)
  <2>1. Position(h, i) /\ Position(h, j)  BY DEF History
  <2>2. QED  BY <1>1, <2>1 DEF Position
<1>3. ASSUME i # 1, j # 1 PROVE i = j
  <2>1. i - 1 \in 1..Len(h) /\ j - 1 \in 1..Len(h) /\ 1 \in 1..KRho  BY <1>1, <1>3
  <2>2. ChunkShape(p, s, h, i - 1) /\ ChunkShape(p, s, h, j - 1)  BY <2>1, ChunkFacts
  <2>3. /\ h[i - 1].claims[1].fold = s.chunks[i - 1].header
        /\ h[j - 1].claims[1].fold = s.chunks[j - 1].header
    BY <2>1, <2>2 DEF ChunkShape
  <2>4. s.chunks[i - 1].header = s.chunks[j - 1].header  BY <1>3, <2>3 DEF ClaimsAt
  <2>5. 7 * (i - 1) - 2 = 7 * (j - 1) - 2  BY <2>2, <2>4 DEF ChunkShape
  <2>6. QED  BY <1>1, <2>5
<1>4. QED  BY <1>2, <1>3

-----------------------------------------------------------------------------
(* Public chunk lists.                                                     *)

\* The public form of a chunk list keeps its length, starts and chunk lengths.
LEMMA PublicAllFacts ==
  ASSUME NEW chunks, ChunkList(chunks)
  PROVE  /\ ChunkList(PublicAll(chunks)) /\ Len(PublicAll(chunks)) = Len(chunks)
         /\ \A i \in 1..Len(chunks) : /\ PublicAll(chunks)[i] = Public(chunks[i])
                                      /\ PublicAll(chunks)[i].start = chunks[i].start
                                      /\ IsSeq(PublicAll(chunks)[i].steps)
                                      /\ Len(PublicAll(chunks)[i].steps) = Len(chunks[i].steps)
<1> DEFINE n == Len(chunks)
           all == PublicAll(chunks)
<1>1. n \in Nat /\ DOMAIN chunks = 1..n  BY IsSeqLen DEF ChunkList
<1>2. all = [i \in 1..n |-> Public(chunks[i])]  BY <1>1 DEF PublicAll
<1>3. all = [i \in 1..n |-> all[i]] /\ \A i \in 1..n : all[i] = Public(chunks[i])  BY <1>2
<1> HIDE DEF all
<1>4. IsSeq(all) /\ Len(all) = n /\ DOMAIN all = 1..n  BY <1>1, <1>3, FunctionIsSeq
<1>5. \A i \in 1..n : /\ all[i].start = chunks[i].start /\ IsSeq(all[i].steps)
                      /\ Len(all[i].steps) = Len(chunks[i].steps)
  <2> SUFFICES ASSUME NEW i \in 1..n
               PROVE  /\ all[i].start = chunks[i].start /\ IsSeq(all[i].steps)
                      /\ Len(all[i].steps) = Len(chunks[i].steps)
    OBVIOUS
  <2> DEFINE chunk == chunks[i]
  <2>1. IsSeq(chunk.steps)  BY <1>1 DEF ChunkList
  <2> HIDE DEF chunk
  <2>2. /\ Public(chunk).start = chunk.start /\ IsSeq(Public(chunk).steps)
        /\ Len(Public(chunk).steps) = Len(chunk.steps)
    BY <2>1, PublicSeq
  <2>3. all[i] = Public(chunk)  BY <1>3 DEF chunk
  <2>4. QED  BY <2>2, <2>3 DEF chunk
<1>6. QED  BY <1>3, <1>4, <1>5 DEF all, ChunkList

\* The layout check looks at starts and lengths only: it says of a chunk list
\* what it says of its public half.
LEMMA PublicLayout ==
  ASSUME NEW sched, NEW chunks, ChunkList(chunks)
  PROVE  LayoutValid(sched, PublicAll(chunks)) <=> LayoutValid(sched, chunks)
<1> DEFINE n == Len(chunks)
           all == PublicAll(chunks)
<1>1. /\ n \in Nat /\ DOMAIN chunks = 1..n /\ ChunkList(all) /\ Len(all) = n /\ DOMAIN all = 1..n
      /\ \A i \in 1..n : /\ all[i].start = chunks[i].start /\ Len(all[i].steps) = Len(chunks[i].steps)
                         /\ all[i].steps # <<>> <=> chunks[i].steps # <<>>
  <2>1. n \in Nat /\ DOMAIN chunks = 1..n  BY IsSeqLen DEF ChunkList
  <2>2. /\ ChunkList(all) /\ Len(all) = n
        /\ \A i \in 1..n : /\ all[i].start = chunks[i].start /\ IsSeq(all[i].steps)
                           /\ Len(all[i].steps) = Len(chunks[i].steps)
    BY PublicAllFacts
  <2> HIDE DEF all
  <2>3. DOMAIN all = 1..n  BY <2>2, IsSeqLen DEF ChunkList
  <2>4. ASSUME NEW i \in 1..n PROVE all[i].steps # <<>> <=> chunks[i].steps # <<>>
    <3>1. IsSeq(all[i].steps) /\ Len(all[i].steps) = Len(chunks[i].steps)  BY <2>2
    <3>2. IsSeq(chunks[i].steps)  BY <2>1 DEF ChunkList
    <3>3. QED  BY <3>1, <3>2, LenZero
  <2>5. QED  BY <2>1, <2>2, <2>3, <2>4
<1> HIDE DEF all
<1>2. LengthsOf(all) = LengthsOf(chunks)  BY <1>1 DEF LengthsOf
<1>3. \A i \in Int : StartOf(all, i) = StartOf(chunks, i)
  BY <1>2 DEF StartOf, LengthsOf
<1>4. StepCount(all) = StepCount(chunks)  BY <1>1, <1>3 DEF StepCount
<1>5. Contiguous(all) <=> Contiguous(chunks)
  BY <1>1, <1>3 DEF Contiguous
<1>6. RowCapRespected(sched, all) <=> RowCapRespected(sched, chunks)
  BY <1>1 DEF RowCapRespected
<1>7. QED  BY <1>1, <1>4, <1>5, <1>6 DEF LayoutValid, all

\* The public chunks of a finished session are those of the prover.
LEMMA SessionChunks ==
  ASSUME NEW p, NEW s, NEW h, History(p, s, h), Len(h) = Len(p.chunks)
  PROVE  [i \in DOMAIN s.chunks |-> s.chunks[i].chunk] = PublicAll(p.chunks)
<1>1. DOMAIN s.chunks = 1..Len(h) /\ DOMAIN p.chunks = 1..Len(h)
  BY IsSeqLen DEF History, ChunkList
<1>2. ASSUME NEW i \in 1..Len(h) PROVE s.chunks[i].chunk = Public(p.chunks[i])
  <2>1. ChunkShape(p, s, h, i)  BY ChunkFacts
  <2>2. QED  BY <2>1 DEF ChunkShape
<1>3. QED  BY <1>1, <1>2 DEF PublicAll

-----------------------------------------------------------------------------
(* One chunk of the verifier and of the replayer.                          *)

\* A chunk proof of the session, as a damaged store may hold it.
SameCore(a, b) ==
  /\ a.chunk = b.chunk /\ a.outputs = b.outputs /\ a.header = b.header
  /\ a.rounds = b.rounds /\ a.parent = b.parent

\* A verifier that has followed the session to chunk i lets no chunk proof
\* through but the one proved there: the header's length gives the place away,
\* and the public checks leave no choice of children.
VerifiedShape(p, s, h, i, j, vmode, public, proof, checked) ==
  /\ i = j
  /\ SameBinding(p.mode, vmode)
  /\ public = Public(p.chunks[i])
  /\ proof.children = s.chunks[i].children
  /\ ChunkDone(checked.tr) = TrAt(h, i + 1)
  /\ checked.claims = ClaimsAt(h, i + 1)

\* What a verifier at a position of the run may conclude from one chunk it lets
\* through.
LEMMA VerifierStep ==
  ASSUME NEW p, NEW s, NEW h, History(p, s, h), NEW i \in 1..(Len(h) + 1), NEW j \in 1..Len(h),
         NEW proof, SameCore(proof, s.chunks[j]), NEW vmode, NEW public, NEW digest,
         VerifyTransition(vmode, TrAt(h, i), public, digest, ClaimsAt(h, i), proof).ok
  PROVE  VerifiedShape(p, s, h, i, j, vmode, public, proof,
                       VerifyTransition(vmode, TrAt(h, i), public, digest, ClaimsAt(h, i), proof))
<1> DEFINE tr == TrAt(h, i)
           claims == ClaimsAt(h, i)
           c == s.chunks[j]
           checked == VerifyTransition(vmode, tr, public, digest, claims, proof)
<1>1. Len(h) \in Nat /\ Len(h) <= Len(p.chunks) /\ Len(p.chunks) \in Nat /\ DOMAIN p.chunks = 1..Len(p.chunks)
  BY IsSeqLen DEF History, ChunkList
<1>2. Position(h, i)  BY DEF History
<1>3. IsSeq(tr)  BY <1>2 DEF Position
<1> HIDE DEF tr, claims
<1>4. /\ proof.chunk = public
      /\ proof.header = BindCcs(vmode, AppendChunk(tr, public), public.steps, claims, digest)
      /\ DecPublicOk(RlcParent(proof.outputs), proof.children)
      /\ checked = [ok |-> TRUE, tr |-> proof.header \o <<<<"digest32">>, <<"rhos", Len(proof.outputs)>>>>,
                    claims |-> proof.children]
  <2>1. checked.ok  BY DEF tr, claims
  <2>2. QED  BY <2>1, VerifiedFacts
<1> HIDE DEF checked
<1>5. Len(proof.header) = Len(tr) + 4  BY <1>3, <1>4, HeaderLen
<1>6. ChunkShape(p, s, h, j)  BY ChunkFacts
<1>7. /\ c.chunk = Public(p.chunks[j]) /\ DecPublicOk(RlcParent(c.outputs), c.children)
      /\ c.header = Header(p.mode, TrAt(h, j), p.chunks[j], ClaimsAt(h, j)) /\ Len(c.header) = 7 * j - 2
      /\ h[j].tr = ChunkDone(c.header \o <<<<"digest32">>, <<"rhos", Len(c.outputs)>>>>)
      /\ h[j].claims = c.children
  BY <1>6 DEF ChunkShape
<1>8. i = j
  <2>1. Len(tr) = 7 * i - 6  BY <1>2 DEF Position, tr
  <2>2. proof.header = c.header  BY DEF SameCore
  <2>3. Len(proof.header) = (7 * i - 6) + 4  BY <1>5, <2>1
  <2>4. Len(proof.header) = 7 * j - 2  BY <1>7, <2>2
  <2>5. (7 * i - 6) + 4 = 7 * j - 2  BY <2>3, <2>4
  <2>6. QED  BY <1>1, <2>5
<1>9. public = Public(p.chunks[i])  BY <1>4, <1>7, <1>8 DEF SameCore
<1>10. SameBinding(p.mode, vmode)
  <2> DEFINE chunk == p.chunks[i]
             mode == p.mode
  <2>1. i \in DOMAIN p.chunks  BY <1>1, <1>8
  <2>2. IsSeq(chunk.steps)  BY <2>1 DEF History, ChunkList
  <2>3. /\ c.header = Header(mode, tr, chunk, claims) /\ public = Public(chunk)
    BY <1>7, <1>8, <1>9 DEF tr, claims
  <2>4. c.header = BindCcs(vmode, AppendChunk(tr, public), public.steps, claims, digest)
    BY <1>4 DEF SameCore
  <2> HIDE DEF chunk, mode, c
  <2>5. AppendChunk(tr, public) = AppendChunk(tr, chunk)  BY <2>2, <2>3, SameStart
  <2>6. BindCcs(mode, AppendChunk(tr, chunk), Public(chunk).steps, claims, PublicChunkDigest(Public(chunk)))
          = BindCcs(vmode, AppendChunk(tr, chunk), public.steps, claims, digest)
    BY <2>3, <2>4, <2>5 DEF Header
  <2>7. (mode = "Optimized") = (vmode = "Optimized")  BY <1>3, <2>6, HeaderBinds
  <2>8. QED  BY <2>7 DEF SameBinding, mode
<1>11. proof.children = c.children
  <2>1. DecPublicOk(RlcParent(c.outputs), proof.children)  BY <1>4 DEF SameCore
  <2>2. QED  BY <1>7, <2>1, DecDeterminesChildren
<1>12. i + 1 # 1 /\ (i + 1) - 1 = i  BY <1>1
<1>13. ChunkDone(checked.tr) = h[i].tr /\ checked.claims = h[i].claims
  <2>1. proof.header = c.header /\ proof.outputs = c.outputs  BY DEF SameCore
  <2>2. checked.tr = c.header \o <<<<"digest32">>, <<"rhos", Len(c.outputs)>>>>
        /\ checked.claims = c.children
    BY <1>4, <1>11, <2>1
  <2>3. QED  BY <1>7, <1>8, <2>2
<1>14. ChunkDone(checked.tr) = TrAt(h, i + 1) /\ checked.claims = ClaimsAt(h, i + 1)
  BY <1>12, <1>13 DEF TrAt, ClaimsAt
<1>15. QED  BY <1>8, <1>9, <1>10, <1>11, <1>14 DEF VerifiedShape, checked, tr, claims

\* With the right data and a mode that binds instances alike, the verifier that
\* has followed the session to chunk i lets the chunk proof through.
LEMMA HonestVerifierStep ==
  ASSUME NEW p, NEW s, NEW h, History(p, s, h), NEW i \in 1..Len(h), NEW vmode,
         SameBinding(p.mode, vmode)
  PROVE  VerifyTransition(vmode, TrAt(h, i), Public(p.chunks[i]),
                          PublicChunkDigest(Public(p.chunks[i])), ClaimsAt(h, i), s.chunks[i]).ok
<1> DEFINE mode == p.mode
           chunk == p.chunks[i]
           tr == TrAt(h, i)
           claims == ClaimsAt(h, i)
           step == Transition(mode, tr, chunk, claims)
<1>1. Len(h) \in Nat /\ i \in DOMAIN p.chunks /\ i \in 1..(Len(h) + 1)  BY IsSeqLen DEF History, ChunkList
<1>2. IsSeq(chunk.steps)  BY <1>1 DEF History, ChunkList
<1>3. Position(h, i) /\ Chained(p, s, h, i)  BY <1>1 DEF History
<1>4. IsSeq(tr) /\ Carry(claims)  BY <1>3 DEF Position
<1>5. step.ok /\ s.chunks[i] = step.proof  BY <1>3 DEF Chained, StepAt
<1>6. (mode = "Optimized") = (vmode = "Optimized")  BY DEF SameBinding
<1> HIDE DEF mode, chunk, tr, claims
<1>7. VerifyTransition(vmode, tr, Public(chunk), PublicChunkDigest(Public(chunk)), claims, step.proof)
        = [ok |-> TRUE, tr |-> step.tr, claims |-> step.claims]
  BY <1>2, <1>4, <1>5, <1>6, HonestVerified
<1> HIDE DEF step
<1>8. VerifyTransition(vmode, tr, Public(chunk), PublicChunkDigest(Public(chunk)), claims, s.chunks[i]).ok
  BY <1>5, <1>7
<1>9. QED  BY <1>8 DEF mode, chunk, tr, claims

\* The replayer that has followed the session to chunk i gets the chunk's
\* transcript, carry and relation digest.
LEMMA ReplayStep ==
  ASSUME NEW p, NEW s, NEW h, History(p, s, h), p.mode = "Optimized", NEW i \in 1..Len(h)
  PROVE  LET replayed == ReplayTransition(TrAt(h, i), p.chunks[i], ClaimsAt(h, i),
                                          Vals(ClaimsAt(h, i)), s.chunks[i])
         IN  /\ replayed.ok
             /\ ChunkDone(replayed.tr) = TrAt(h, i + 1) /\ replayed.claims = ClaimsAt(h, i + 1)
             /\ replayed.wits = Vals(ClaimsAt(h, i + 1)) /\ replayed.relation = s.chunks[i].relation
<1> DEFINE chunk == p.chunks[i]
           tr == TrAt(h, i)
           claims == ClaimsAt(h, i)
           step == Transition("Optimized", tr, chunk, claims)
           replayed == ReplayTransition(tr, chunk, claims, Vals(claims), s.chunks[i])
<1>1. Len(h) \in Nat /\ i \in DOMAIN p.chunks /\ i \in 1..(Len(h) + 1)  BY IsSeqLen DEF History, ChunkList
<1>2. IsSeq(chunk.steps)  BY <1>1 DEF History, ChunkList
<1>3. Position(h, i) /\ Chained(p, s, h, i)  BY <1>1 DEF History
<1>4. IsSeq(tr) /\ Carry(claims)  BY <1>3 DEF Position
<1>5. /\ step.ok /\ s.chunks[i] = step.proof
      /\ h[i].tr = ChunkDone(step.tr) /\ h[i].claims = step.claims
  BY <1>3 DEF Chained, StepAt
<1>6. TrAt(h, i + 1) = h[i].tr /\ ClaimsAt(h, i + 1) = h[i].claims
  <2>1. i + 1 # 1 /\ (i + 1) - 1 = i  BY <1>1
  <2>2. QED  BY <2>1 DEF TrAt, ClaimsAt
<1> HIDE DEF chunk, tr, claims
<1>7. ReplayTransition(tr, chunk, claims, Vals(claims), step.proof)
        = [ok |-> TRUE, tr |-> step.tr, claims |-> step.claims, wits |-> step.wits,
           relation |-> step.proof.relation]
  BY <1>2, <1>4, <1>5, HonestReplayed
<1>8. ProofShape("Optimized", tr, chunk, claims)  BY <1>2, <1>4, <1>5, ProofFacts
<1>9. step.wits = Vals(step.claims)  BY <1>8 DEF ProofShape
<1> HIDE DEF step
<1>10. replayed = [ok |-> TRUE, tr |-> step.tr, claims |-> step.claims, wits |-> step.wits,
                   relation |-> step.proof.relation]
  BY <1>5, <1>7
<1> HIDE DEF replayed
<1>11. QED  BY <1>5, <1>6, <1>9, <1>10 DEF replayed, tr, chunk, claims

-----------------------------------------------------------------------------
(* The stored session.                                                     *)

IsChunkProof(c) ==
  c = [chunk |-> c.chunk, relation |-> c.relation, outputs |-> c.outputs, header |-> c.header,
       rounds |-> c.rounds, parent |-> c.parent, children |-> c.children]

\* Whatever became of the store, each chunk proof in it is one of the session's
\* but for its relation digest and its children, and only an old footer, over
\* whole chunk proofs, changes the final claims.
StoredShape ==
  /\ Stored = [sched |-> Stored.sched, chunks |-> Stored.chunks, final |-> Stored.final]
  /\ Stored.sched \in Schedules /\ IsSeq(Stored.chunks)
  /\ \A i \in 1..Len(Stored.chunks) :
       /\ IsChunkProof(Stored.chunks[i])
       /\ \E j \in 1..Len(trail) : SameCore(Stored.chunks[i], session.chunks[j])
  /\ damage # "old_footer" => Stored.final = session.final
  /\ damage = "old_footer" =>
       Stored.chunks = session.chunks /\ Stored.final = ClaimsAt(trail, Len(trail)) /\ Len(trail) >= 1
  /\ damage = "none" => Stored = session

\* Whatever is done to a stored session, it keeps that shape.
LEMMA StoredFacts ==
  ASSUME Records, History(prover, session, trail), PhaseInv, StorageInv, Proved
  PROVE  StoredShape
<1> DEFINE s == session
           c == session.chunks
           n == Len(trail)
           From(d) == \A i \in 1..Len(d) : /\ IsChunkProof(d[i])
                                           /\ \E j \in 1..n : SameCore(d[i], c[j])
<1>1. n \in Nat /\ IsSeq(c) /\ Len(c) = n /\ DOMAIN c = 1..n
  BY IsSeqLen DEF History
<1>2. s = [sched |-> s.sched, chunks |-> c, final |-> s.final] /\ s.sched \in Schedules
  BY DEF Records, PhaseInv, History
<1>3. \A i \in 1..n : IsChunkProof(c[i])
  <2> SUFFICES ASSUME NEW i \in 1..n PROVE IsChunkProof(c[i])  OBVIOUS
  <2>1. ChunkShape(prover, session, trail, i)  BY ChunkFacts
  <2> DEFINE d == c[i]
  <2>2. d = [chunk |-> Public(prover.chunks[i]),
             relation |-> ChunkRelationDigest(d.outputs, d.parent, d.children),
             outputs |-> d.outputs, header |-> d.header, rounds |-> d.rounds,
             parent |-> d.parent, children |-> d.children]
    BY <2>1 DEF ChunkShape
  <2> HIDE DEF d
  <2>3. d.chunk = Public(prover.chunks[i])
        /\ d.relation = ChunkRelationDigest(d.outputs, d.parent, d.children)
    BY <2>2
  <2>4. d = [chunk |-> d.chunk, relation |-> d.relation, outputs |-> d.outputs, header |-> d.header,
             rounds |-> d.rounds, parent |-> d.parent, children |-> d.children]
    BY <2>2, <2>3
  <2>5. QED  BY <2>4 DEF d, IsChunkProof
<1>4. \A i \in 1..n : SameCore(c[i], c[i])  BY DEF SameCore
<1>5. From(c)  BY <1>1, <1>3, <1>4
<1>6. /\ damage # "none" => n >= 1 /\ damage \in Damages
      /\ damage = "swapped" => n >= 2
  BY <1>1 DEF StorageInv
<1> HIDE DEF From
<1>7. CASE damage = "none"
  <2>1. Stored = session  BY <1>7 DEF Stored
  <2>2. QED  BY <1>1, <1>2, <1>5, <1>7, <2>1 DEF StoredShape, From
<1>8. CASE damage = "truncated"
  <2> DEFINE d == SubSeq(c, 1, n - 1)
  <2>1. Stored = [s EXCEPT !.chunks = d]  BY <1>1, <1>8 DEF Stored
  <2>2. n - 1 \in Nat /\ n - 1 <= Len(c) /\ 1 \in Nat \ {0}  BY <1>1, <1>6, <1>8
  <2>3. /\ IsSeq(d) /\ Len(d) = (IF 1 <= n - 1 THEN n - 1 - 1 + 1 ELSE 0)
        /\ \A i \in 1..(n - 1 - 1 + 1) : d[i] = c[1 + i - 1]
    BY <1>1, <2>2, SubSeqSeq
  <2> HIDE DEF d
  <2>4. Len(d) = n - 1 /\ \A i \in 1..(n - 1) : d[i] = c[i] /\ i \in 1..n
    <3>1. n - 1 - 1 + 1 = n - 1  BY <1>1
    <3>2. \A i \in 1..(n - 1) : 1 + i - 1 = i /\ i \in 1..n  BY <1>1
    <3> HIDE DEF n
    <3>3. Len(d) = n - 1  BY <2>2, <2>3, <3>1
    <3>4. ASSUME NEW i \in 1..(n - 1) PROVE d[i] = c[i] /\ i \in 1..n
      <4>1. i \in 1..(n - 1 - 1 + 1) /\ 1 + i - 1 = i  BY <3>1, <3>2
      <4>2. d[i] = c[1 + i - 1]  BY <2>3, <4>1
      <4>3. QED  BY <3>2, <4>1, <4>2
    <3>5. QED  BY <3>3, <3>4
  <2>5. From(d)  BY <1>3, <1>4, <2>4 DEF From
  <2>6. Stored = [sched |-> s.sched, chunks |-> d, final |-> s.final]  BY <1>2, <2>1
  <2>7. QED  BY <1>2, <1>8, <2>3, <2>5, <2>6 DEF StoredShape, From
<1>9. CASE damage = "repeated"
  <2> DEFINE d == Append(c, c[n])
  <2>1. Stored = [s EXCEPT !.chunks = d]  BY <1>1, <1>9 DEF Stored
  <2>2. /\ IsSeq(d) /\ Len(d) = n + 1 /\ \A i \in 1..n : d[i] = c[i]
        /\ d[n + 1] = c[n]
    BY <1>1, AppendSeq
  <2> HIDE DEF d
  <2>3. From(d)
    <3> SUFFICES ASSUME NEW i \in 1..(n + 1)
                 PROVE  IsChunkProof(d[i]) /\ \E j \in 1..n : SameCore(d[i], c[j])
      BY <2>2 DEF From
    <3>1. i \in 1..n \/ i = n + 1  BY <1>1
    <3>2. n \in 1..n  BY <1>1, <1>6, <1>9
    <3>3. QED  BY <1>3, <1>4, <2>2, <3>1, <3>2
  <2>4. Stored = [sched |-> s.sched, chunks |-> d, final |-> s.final]  BY <1>2, <2>1
  <2>5. QED  BY <1>2, <1>9, <2>2, <2>3, <2>4 DEF StoredShape, From
<1>10. CASE damage = "swapped"
  <2> DEFINE pair == <<c[2], c[1]>>
             rest == SubSeq(c, 3, n)
             d == pair \o rest
  <2>1. Stored = [s EXCEPT !.chunks = d]  BY <1>1, <1>10 DEF Stored
  <2>2. n >= 2 /\ 3 \in Nat \ {0}  BY <1>6, <1>10
  <2>3. IsSeq(pair) /\ Len(pair) = 2 /\ pair[1] = c[2] /\ pair[2] = c[1]
    <3>1. pair = [i \in 1..2 |-> pair[i]] /\ pair[1] = c[2] /\ pair[2] = c[1]  OBVIOUS
    <3> HIDE DEF pair
    <3>2. QED  BY <3>1, FunctionIsSeq
  <2>4. /\ IsSeq(rest) /\ Len(rest) = (IF 3 <= n THEN n - 3 + 1 ELSE 0)
        /\ \A i \in 1..(n - 3 + 1) : rest[i] = c[3 + i - 1]
    BY <1>1, <2>2, SubSeqSeq
  <2> HIDE DEF pair, rest
  <2>5. IsSeq(pair) /\ IsSeq(rest)  BY <2>3, <2>4
  <2>6. /\ IsSeq(d) /\ Len(d) = Len(pair) + Len(rest)
        /\ \A i \in 1..Len(pair) : d[i] = pair[i]
        /\ \A i \in 1..Len(rest) : d[Len(pair) + i] = rest[i]
    BY <2>5, ConcatSeq
  <2> HIDE DEF d
  <2>7. Len(d) = n
    <3> HIDE DEF n
    <3>1. Len(rest) = n - 2  BY <1>1, <2>2, <2>4
    <3>2. Len(d) = 2 + (n - 2)  BY <2>3, <2>6, <3>1
    <3>3. QED  BY <1>1, <3>2
  <2>8. \A i \in 1..n : \E j \in 1..n : d[i] = c[j]
    <3> SUFFICES ASSUME NEW i \in 1..n PROVE \E j \in 1..n : d[i] = c[j]  OBVIOUS
    <3>1. CASE i = 1
      <4>1. d[i] = c[2] /\ 2 \in 1..n  BY <1>1, <2>2, <2>3, <2>6, <3>1
      <4>2. QED  BY <4>1
    <3>2. CASE i = 2
      <4>1. d[i] = c[1] /\ 1 \in 1..n  BY <1>1, <2>2, <2>3, <2>6, <3>2
      <4>2. QED  BY <4>1
    <3>3. CASE i > 2
      <4>1. i - 2 \in 1..Len(rest) /\ 2 + (i - 2) = i /\ i - 2 \in 1..(n - 3 + 1) /\ 3 + (i - 2) - 1 = i
        BY <1>1, <2>4, <3>3
      <4>2. d[i] = rest[i - 2]  BY <2>3, <2>6, <4>1
      <4>3. rest[i - 2] = c[i]  BY <2>4, <4>1
      <4>4. QED  BY <4>2, <4>3
    <3>4. i = 1 \/ i = 2 \/ i > 2  BY <1>1
    <3>5. QED  BY <3>1, <3>2, <3>3, <3>4
  <2>9. From(d)
    <3> SUFFICES ASSUME NEW i \in 1..n
                 PROVE  IsChunkProof(d[i]) /\ \E j \in 1..n : SameCore(d[i], c[j])
      BY <2>7 DEF From
    <3>1. PICK j \in 1..n : d[i] = c[j]  BY <2>8
    <3>2. QED  BY <1>3, <1>4, <3>1
  <2>10. Stored = [sched |-> s.sched, chunks |-> d, final |-> s.final]  BY <1>2, <2>1
  <2>11. QED  BY <1>2, <1>10, <2>6, <2>9, <2>10 DEF StoredShape, From
<1>11. CASE damage = "old_footer"
  <2> DEFINE old == IF Len(c) > 1 THEN trail[Len(c) - 1].claims ELSE <<>>
  <2>1. Stored = [s EXCEPT !.final = old]  BY <1>11 DEF Stored
  <2>2. n >= 1  BY <1>6, <1>11
  <2>3. old = ClaimsAt(trail, n)
    <3>1. old = IF n > 1 THEN trail[n - 1].claims ELSE <<>>  BY <1>1
    <3> HIDE DEF old, n
    <3>2. n > 1 <=> n # 1  BY <1>1, <2>2
    <3>3. QED  BY <3>1, <3>2 DEF ClaimsAt
  <2> HIDE DEF old
  <2>4. Stored = [sched |-> s.sched, chunks |-> c, final |-> old]  BY <1>2, <2>1
  <2>5. QED  BY <1>1, <1>2, <1>5, <1>11, <2>2, <2>3, <2>4 DEF StoredShape, From
<1>12. CASE damage = "other_schedule"
  <2> DEFINE other == IF s.sched.whole THEN RowsPerChunk(1) ELSE WholeTrace
  <2>1. Stored = [s EXCEPT !.sched = other]  BY <1>12 DEF Stored
  <2>2. other \in Schedules  BY DEF RowsPerChunk, WholeTrace, Schedules
  <2> HIDE DEF other
  <2>3. Stored = [sched |-> other, chunks |-> c, final |-> s.final]  BY <1>2, <2>1
  <2>4. QED  BY <1>1, <1>5, <1>12, <2>2, <2>3 DEF StoredShape, From
<1>13. ASSUME NEW d, IsSeq(d), Len(d) = n, \A i \in 1..n : i # n => d[i] = c[i],
              SameCore(d[n], c[n]), IsChunkProof(d[n]), n >= 1
       PROVE  From(d)
  <2> SUFFICES ASSUME NEW i \in 1..n
               PROVE  IsChunkProof(d[i]) /\ \E j \in 1..n : SameCore(d[i], c[j])
    BY <1>13 DEF From
  <2>1. CASE i = n  BY <1>13, <2>1
  <2>2. CASE i # n  BY <1>3, <1>4, <1>13, <2>2
  <2>3. QED  BY <2>1, <2>2
<1>14. CASE damage = "old_relation"
  <2> DEFINE last == [c[n] EXCEPT !.relation = <<"old">>]
             d == [c EXCEPT ![n] = last]
  <2>1. Stored = [s EXCEPT !.chunks = d]  BY <1>1, <1>14 DEF Stored
  <2>2. n \in 1..n  BY <1>1, <1>6, <1>14
  <2>3. IsChunkProof(last) /\ SameCore(last, c[n])
    <3> DEFINE e == c[n]
    <3>1. e = [chunk |-> e.chunk, relation |-> e.relation, outputs |-> e.outputs, header |-> e.header,
               rounds |-> e.rounds, parent |-> e.parent, children |-> e.children]
      BY <1>3, <2>2 DEF IsChunkProof
    <3> HIDE DEF e
    <3>2. [e EXCEPT !.relation = <<"old">>]
            = [chunk |-> e.chunk, relation |-> <<"old">>, outputs |-> e.outputs, header |-> e.header,
               rounds |-> e.rounds, parent |-> e.parent, children |-> e.children]
      BY <3>1
    <3>3. QED  BY <3>2 DEF IsChunkProof, SameCore, e
  <2> HIDE DEF last
  <2>4. /\ d = [i \in 1..n |-> d[i]] /\ d[n] = last /\ \A i \in 1..n : i # n => d[i] = c[i]
    BY <1>1, <2>2
  <2> HIDE DEF d
  <2>5. IsSeq(d) /\ Len(d) = n  BY <1>1, <2>4, FunctionIsSeq
  <2>6. From(d)  BY <1>6, <1>13, <1>14, <2>3, <2>4, <2>5
  <2>7. Stored = [sched |-> s.sched, chunks |-> d, final |-> s.final]  BY <1>2, <2>1
  <2>8. QED  BY <1>2, <1>14, <2>5, <2>6, <2>7 DEF StoredShape, From
<1>15. CASE damage = "old_children"
  <2> DEFINE last == [c[n] EXCEPT !.children = prover.claims \o @]
             d == [c EXCEPT ![n] = last]
  <2>1. Stored = [s EXCEPT !.chunks = d]  BY <1>1, <1>15 DEF Stored
  <2>2. n \in 1..n  BY <1>1, <1>6, <1>15
  <2>3. IsChunkProof(last) /\ SameCore(last, c[n])
    <3> DEFINE e == c[n]
               more == prover.claims \o e.children
    <3>1. e = [chunk |-> e.chunk, relation |-> e.relation, outputs |-> e.outputs, header |-> e.header,
               rounds |-> e.rounds, parent |-> e.parent, children |-> e.children]
      BY <1>3, <2>2 DEF IsChunkProof
    <3>2. last = [e EXCEPT !.children = more]  OBVIOUS
    <3> HIDE DEF e, more, last
    <3>3. last = [chunk |-> e.chunk, relation |-> e.relation, outputs |-> e.outputs, header |-> e.header,
                  rounds |-> e.rounds, parent |-> e.parent, children |-> more]
      BY <3>1, <3>2
    <3>4. QED  BY <3>3 DEF IsChunkProof, SameCore, e
  <2> HIDE DEF last
  <2>4. /\ d = [i \in 1..n |-> d[i]] /\ d[n] = last /\ \A i \in 1..n : i # n => d[i] = c[i]
    BY <1>1, <2>2
  <2> HIDE DEF d
  <2>5. IsSeq(d) /\ Len(d) = n  BY <1>1, <2>4, FunctionIsSeq
  <2>6. From(d)  BY <1>6, <1>13, <1>15, <2>3, <2>4, <2>5
  <2>7. Stored = [sched |-> s.sched, chunks |-> d, final |-> s.final]  BY <1>2, <2>1
  <2>8. QED  BY <1>2, <1>15, <2>5, <2>6, <2>7 DEF StoredShape, From
<1>16. damage \in {"none", "truncated", "repeated", "swapped", "old_footer", "other_schedule",
                   "old_relation", "old_children"}
  BY <1>6, SessionAssumption
<1>17. QED
  BY <1>7, <1>8, <1>9, <1>10, <1>11, <1>12, <1>14, <1>15, <1>16

-----------------------------------------------------------------------------
(* The prover's steps keep the part of the invariant that is about it.     *)

ProverInv ==
  /\ Records /\ History(prover, session, trail) /\ PhaseInv /\ StorageInv

\* Nothing carried has no values.
LEMMA VoidVals == IsSeq(<<>>) /\ Len(<<>>) = 0 /\ Vals(<<>>) = <<>>
<1>1. DOMAIN <<>> = {} /\ IsSeq(<<>>) /\ Len(<<>>) = 0  BY EmptyIsSeq
<1>2. IsSeq(Vals(<<>>)) /\ Len(Vals(<<>>)) = 0  BY <1>1, ValsSeq
<1>3. QED  BY <1>1, <1>2, LenZero

\* The initial state is a run of no chunk.
LEMMA InitProver == Init => ProverInv
<1> SUFFICES ASSUME Init PROVE ProverInv  OBVIOUS
<1>1. /\ pc = "idle" /\ trail = <<>> /\ package = NoPackage /\ damage = "none"
      /\ prover = [mode |-> "Optimized", sched |-> WholeTrace, chunks |-> <<>>, packaged |-> FALSE,
                   tr |-> NewSession, claims |-> <<>>, wits |-> <<>>]
      /\ session = [sched |-> WholeTrace, chunks |-> <<>>, final |-> <<>>]
  BY DEF Init, EmptySession
<1>2. Records  BY <1>1 DEF Records
<1>3. IsSeq(<<>>) /\ Len(<<>>) = 0 /\ Vals(<<>>) = <<>>  BY VoidVals
<1>4. ChunkList(<<>>)  BY <1>3, EmptyIsSeq DEF ChunkList
<1>5. WholeTrace \in Schedules  BY DEF WholeTrace, Schedules
<1>6. /\ prover.chunks = <<>> /\ prover.sched = WholeTrace /\ prover.tr = NewSession
      /\ prover.claims = <<>> /\ prover.wits = <<>> /\ session.chunks = <<>>
  BY <1>1
<1>7. History(prover, session, trail)
  BY <1>1, <1>3, <1>4, <1>5, <1>6, StartOfHistory
<1>8. PhaseInv /\ StorageInv  BY <1>1, <1>3 DEF PhaseInv, StorageInv, Proved
<1>9. QED  BY <1>2, <1>7, <1>8 DEF ProverInv

\* Proving starts on an empty trail, whatever the entry point hands over.
LEMMA StartKeepsProver ==
  ASSUME ProverInv, NEW mode, NEW sched \in Schedules, NEW chunks, ChunkList(chunks), NEW packaged,
         StartProving(mode, sched, chunks, packaged)
  PROVE  ProverInv'
<1>1. /\ pc = "idle" /\ pc' = "proving" /\ session' = [sched |-> sched, chunks |-> <<>>, final |-> <<>>]
      /\ trail' = trail /\ package' = package /\ damage' = damage
      /\ prover' = [prover EXCEPT !.mode = mode, !.sched = sched, !.chunks = chunks, !.packaged = packaged]
  BY DEF StartProving, EmptySession
<1>2. prover' = [mode |-> mode, sched |-> sched, chunks |-> chunks, packaged |-> packaged,
                 tr |-> prover.tr, claims |-> prover.claims, wits |-> prover.wits]
  BY <1>1 DEF ProverInv, Records
<1>3. Records'  BY <1>1, <1>2 DEF Records
<1>4. Len(trail) = 0  BY <1>1 DEF ProverInv, PhaseInv
<1>5. /\ IsSeq(trail') /\ Len(trail') = 0
      /\ prover.tr = NewSession /\ prover.claims = <<>> /\ prover.wits = Vals(prover.claims)
  <2>1. /\ IsSeq(trail) /\ prover.tr = TrAt(trail, Len(trail) + 1)
        /\ prover.claims = ClaimsAt(trail, Len(trail) + 1) /\ prover.wits = Vals(prover.claims)
    BY DEF ProverInv, History
  <2>2. Len(trail) + 1 = 1  BY <1>4
  <2>3. QED  BY <1>1, <1>4, <2>1, <2>2, FirstPosition
<1>6. /\ prover'.tr = NewSession /\ prover'.claims = <<>> /\ prover'.wits = Vals(prover'.claims)
      /\ prover'.chunks = chunks /\ prover'.sched = sched
      /\ session'.chunks = <<>> /\ session'.sched = sched
  BY <1>1, <1>2, <1>5
<1>7. History(prover', session', trail')  BY <1>5, <1>6, EmptyIsSeq, StartOfHistory
<1>8. PhaseInv'  BY <1>1, <1>6 DEF PhaseInv, Proved
<1>9. StorageInv'  BY <1>1 DEF ProverInv, StorageInv, Proved
<1>10. QED  BY <1>3, <1>7, <1>8, <1>9 DEF ProverInv

\* An entry point that refuses its schedule leaves an infeasible call behind.
LEMMA RefusalKeepsProver ==
  ASSUME ProverInv, NEW sched \in Schedules, RefuseSchedule(sched)
  PROVE  ProverInv'
<1>1. /\ pc = "idle" /\ pc' = "failed" /\ ~ScheduleValid(sched)
      /\ session' = session /\ trail' = trail /\ package' = package /\ damage' = damage
      /\ prover' = [prover EXCEPT !.sched = sched]
  BY DEF RefuseSchedule
<1>2. prover' = [mode |-> prover.mode, sched |-> sched, chunks |-> prover.chunks,
                 packaged |-> prover.packaged,
                 tr |-> prover.tr, claims |-> prover.claims, wits |-> prover.wits]
  BY <1>1 DEF ProverInv, Records
<1>3. Records'  BY <1>1, <1>2 DEF ProverInv, Records
<1>4. /\ prover'.sched = sched /\ prover'.chunks = prover.chunks /\ prover'.tr = prover.tr
      /\ prover'.claims = prover.claims /\ prover'.wits = prover.wits
  BY <1>2
<1>5. History(prover', session', trail')
  <2>1. Len(trail) = 0  BY <1>1 DEF ProverInv, PhaseInv
  <2>2. Len(trail) + 1 = 1  BY <2>1
  <2>3. /\ IsSeq(trail) /\ IsSeq(session.chunks) /\ Len(session.chunks) = Len(trail)
        /\ ChunkList(prover.chunks)
        /\ prover.tr = TrAt(trail, Len(trail) + 1)
        /\ prover.claims = ClaimsAt(trail, Len(trail) + 1) /\ prover.wits = Vals(prover.claims)
    BY DEF ProverInv, History
  <2>4. prover.tr = NewSession /\ prover.claims = <<>>  BY <2>2, <2>3, FirstPosition
  <2>5. QED  BY <1>1, <1>4, <2>1, <2>3, <2>4, StartOfHistory
<1>6. PhaseInv'  BY <1>1, <1>4 DEF PhaseInv, Proved, Feasible, LayoutValid
<1>7. StorageInv'  BY <1>1 DEF ProverInv, StorageInv, Proved
<1>8. QED  BY <1>3, <1>5, <1>6, <1>7 DEF ProverInv

\* When the transition refuses a chunk no session could have completed.
LEMMA RefusedIsInfeasible ==
  ASSUME NEW p, NEW s, NEW h, History(p, s, h), Len(h) < Len(p.chunks),
         ~ProveTransition(p.mode, p.tr, p.chunks[Len(h) + 1], p.claims, p.wits).ok
  PROVE  ~Feasible(p)
<1> DEFINE n == Len(h)
           mode == p.mode
           chunk == p.chunks[n + 1]
           tr == TrAt(h, n + 1)
           claims == ClaimsAt(h, n + 1)
<1>1. /\ n \in Nat /\ Len(p.chunks) \in Nat /\ n + 1 \in 1..Len(p.chunks) /\ n + 1 \in 1..(n + 1)
      /\ DOMAIN p.chunks = 1..Len(p.chunks)
  BY IsSeqLen DEF History, ChunkList
<1>2. IsSeq(chunk.steps)  BY <1>1 DEF History, ChunkList
<1>3. Position(h, n + 1)  BY <1>1 DEF History
<1>4. Carry(claims) /\ Len(claims) = IF n + 1 = 1 THEN 0 ELSE KRho  BY <1>3 DEF Position
<1>5. ~Transition(mode, tr, chunk, claims).ok  BY DEF History, Transition
<1>6. SUFFICES ASSUME Feasible(p) PROVE FALSE  OBVIOUS
<1>7. chunk.steps # <<>> /\ Opens(chunk)
      /\ Len(chunk.steps) + (IF n + 1 = 1 THEN 0 ELSE KRho) <= MaxClaims
  BY <1>1, <1>6 DEF Feasible, LayoutValid, Contiguous, WitnessesOpen, Opens, FitsNormBound
<1> HIDE DEF mode, chunk, tr, claims
<1>8. chunk.steps # <<>> /\ Opens(chunk) /\ Len(chunk.steps) + Len(claims) <= MaxClaims
  BY <1>4, <1>7
<1>9. QED  BY <1>2, <1>4, <1>5, <1>8, TransitionFacts

\* The body of the proving loop extends the run, or fails on an infeasible
\* call.
LEMMA ChunkKeepsProver ==
  ASSUME ProverInv, ProveChunk
  PROVE  ProverInv'
<1> DEFINE n == Len(trail)
           chunk == prover.chunks[Len(session.chunks) + 1]
           proved == ProveTransition(prover.mode, prover.tr, chunk, prover.claims, prover.wits)
<1>1. /\ pc = "proving" /\ Len(session.chunks) < Len(prover.chunks)
      /\ package' = package /\ damage' = damage
      /\ proved.ok => /\ prover' = [prover EXCEPT !.tr = ChunkDone(proved.tr),
                                                  !.claims = proved.claims, !.wits = proved.wits]
                      /\ session' = [session EXCEPT !.chunks = Append(@, proved.proof)]
                      /\ trail' = Append(trail, [tr |-> ChunkDone(proved.tr), claims |-> proved.claims])
                      /\ pc' = pc
      /\ ~proved.ok => pc' = "failed" /\ prover' = prover /\ session' = session /\ trail' = trail
  BY DEF ProveChunk
<1>2. Len(session.chunks) = n /\ session.sched = prover.sched
  BY <1>1 DEF ProverInv, History, PhaseInv
<1>3. StorageInv'  BY <1>1 DEF ProverInv, StorageInv, Proved
<1>4. CASE ~proved.ok
  <2>1. ~ProveTransition(prover.mode, prover.tr, prover.chunks[Len(trail) + 1], prover.claims,
                         prover.wits).ok
        /\ Len(trail) < Len(prover.chunks)
    BY <1>1, <1>2, <1>4
  <2>2. ~Feasible(prover)  BY <2>1, RefusedIsInfeasible DEF ProverInv
  <2>3. PhaseInv'  BY <1>1, <1>4, <2>2 DEF PhaseInv, Proved
  <2>4. QED  BY <1>1, <1>3, <1>4, <2>3 DEF ProverInv, Records
<1>5. CASE proved.ok
  <2> DEFINE mark == ChunkDone(proved.tr)
             chunks == Append(session.chunks, proved.proof)
  <2>1. /\ prover' = [prover EXCEPT !.tr = mark, !.claims = proved.claims, !.wits = proved.wits]
        /\ session' = [session EXCEPT !.chunks = chunks]
        /\ trail' = Append(trail, [tr |-> mark, claims |-> proved.claims]) /\ pc' = "proving"
    BY <1>1, <1>5
  <2> HIDE DEF proved, mark, chunks
  <2>2. /\ prover' = [mode |-> prover.mode, sched |-> prover.sched, chunks |-> prover.chunks,
                      packaged |-> prover.packaged,
                      tr |-> mark, claims |-> proved.claims, wits |-> proved.wits]
        /\ session' = [sched |-> session.sched, chunks |-> chunks, final |-> session.final]
    BY <2>1 DEF ProverInv, Records
  <2>3. /\ prover'.mode = prover.mode /\ prover'.sched = prover.sched /\ prover'.chunks = prover.chunks
        /\ prover'.tr = mark /\ prover'.claims = proved.claims /\ prover'.wits = proved.wits
        /\ session'.chunks = chunks /\ session'.sched = session.sched
    BY <2>2
  <2>4. Records'  BY <2>2, <2>3 DEF Records
  <2>5. History(prover', session', trail')
    <3>1. proved = ProveTransition(prover.mode, prover.tr, prover.chunks[Len(trail) + 1],
                                   prover.claims, prover.wits)
      BY <1>2 DEF proved
    <3>2. History(prover, session, trail) /\ Len(trail) < Len(prover.chunks)
      BY <1>1, <1>2 DEF ProverInv
    <3>3. LET step == ProveTransition(prover.mode, prover.tr, prover.chunks[Len(trail) + 1],
                                      prover.claims, prover.wits)
          IN  /\ step.ok
              /\ prover'.mode = prover.mode /\ prover'.sched = prover.sched
              /\ prover'.chunks = prover.chunks
              /\ prover'.tr = ChunkDone(step.tr) /\ prover'.claims = step.claims
              /\ prover'.wits = step.wits
              /\ session'.chunks = Append(session.chunks, step.proof)
              /\ trail' = Append(trail, [tr |-> ChunkDone(step.tr), claims |-> step.claims])
      BY <1>5, <2>1, <2>3, <3>1 DEF mark, chunks
    <3>4. QED  BY <3>2, <3>3, ExtendHistory
  <2>6. PhaseInv'  BY <1>2, <2>1, <2>3 DEF PhaseInv, Proved
  <2>7. QED  BY <1>3, <2>4, <2>5, <2>6 DEF ProverInv
<1>6. QED  BY <1>4, <1>5

\* What follows the loop: the layout check over the chunks in the proofs decides
\* alone, as packaging asks for nothing that it has not established.
LEMMA FinishKeepsProver ==
  ASSUME ProverInv, FinishProving
  PROVE  ProverInv'
<1> DEFINE chunks == [i \in DOMAIN session.chunks |-> session.chunks[i].chunk]
           finished == [session EXCEPT !.final = prover.claims]
           packs == prover.packaged /\ Packageable(PublicAll(prover.chunks), finished)
           accepts == LayoutValid(prover.sched, chunks) /\ (prover.packaged => packs)
<1>1. /\ pc = "proving" /\ Len(session.chunks) = Len(prover.chunks)
      /\ prover' = prover /\ trail' = trail /\ damage' = damage
      /\ accepts => /\ session' = finished /\ pc' = "stored"
                    /\ package' = IF packs THEN PackageSession(PublicAll(prover.chunks), finished)
                                  ELSE NoPackage
      /\ ~accepts => pc' = "failed" /\ session' = session /\ package' = package
  BY DEF FinishProving
<1>2. /\ session.sched = prover.sched /\ package = NoPackage /\ damage = "none"
      /\ Len(trail) = Len(prover.chunks)
  BY <1>1 DEF ProverInv, PhaseInv, StorageInv, Proved, History
<1>3. chunks = PublicAll(prover.chunks)  BY <1>2, SessionChunks DEF ProverInv
<1>4. finished = [sched |-> session.sched, chunks |-> session.chunks, final |-> prover.claims]
  BY DEF ProverInv, Records
<1> HIDE DEF chunks, finished
<1>5. /\ finished.sched = session.sched /\ finished.chunks = session.chunks
      /\ finished.final = prover.claims
      /\ finished = [sched |-> finished.sched, chunks |-> finished.chunks, final |-> finished.final]
  BY <1>4
<1>6. ChunkList(prover.chunks)  BY DEF ProverInv, History
<1>7. LayoutValid(prover.sched, PublicAll(prover.chunks)) => Packageable(PublicAll(prover.chunks), finished)
  <2>1. [i \in DOMAIN finished.chunks |-> finished.chunks[i].chunk] = PublicAll(prover.chunks)
    BY <1>3, <1>5 DEF chunks
  <2>2. QED  BY <1>2, <1>5, <2>1 DEF Packageable, LayoutValid
<1>8. accepts <=> LayoutValid(prover.sched, PublicAll(prover.chunks))  BY <1>3, <1>7
<1> HIDE DEF accepts, packs
<1>9. CASE ~accepts
  <2>1. ~Feasible(prover)  BY <1>6, <1>8, <1>9, PublicLayout DEF Feasible
  <2>2. PhaseInv'  BY <1>1, <1>9, <2>1 DEF PhaseInv, Proved
  <2>3. StorageInv'  BY <1>1, <1>2, <1>9 DEF StorageInv
  <2>4. QED  BY <1>1, <1>9, <2>2, <2>3 DEF ProverInv, Records
<1>10. CASE accepts
  <2>1. /\ session' = finished /\ pc' = "stored"
        /\ package' = NoPackage \/ package' = PackageSession(PublicAll(prover.chunks), finished)
    BY <1>1, <1>10
  <2>2. Records'  BY <1>1, <1>5, <2>1 DEF ProverInv, Records
  <2>3. History(prover', session', trail')
    <3>1. History(prover, session, trail) /\ session'.chunks = session.chunks
      BY <1>5, <2>1 DEF ProverInv
    <3>2. QED  BY <1>1, <3>1 DEF History, Chained
  <2>4. PhaseInv'
    BY <1>1, <1>2, <1>5, <1>8, <1>10, <2>1 DEF PhaseInv, Proved
  <2>5. StorageInv'  BY <1>1, <1>2, <2>1 DEF StorageInv, Proved
  <2>6. QED  BY <2>2, <2>3, <2>4, <2>5 DEF ProverInv
<1>11. QED  BY <1>9, <1>10

\* Damage in the store is not seen by the prover.
LEMMA DamageKeepsProver ==
  ASSUME ProverInv, DamageStore
  PROVE  ProverInv'
<1>1. /\ pc = "stored" /\ damage' \in Damages
      /\ Len(session.chunks) >= (IF damage' = "swapped" THEN 2 ELSE 1)
      /\ pc' = pc /\ prover' = prover /\ session' = session /\ package' = package /\ trail' = trail
  BY DEF DamageStore
<1>2. PhaseInv'  BY <1>1 DEF ProverInv, PhaseInv, Proved
<1>3. StorageInv'  BY <1>1 DEF ProverInv, StorageInv, Proved
<1>4. QED  BY <1>1, <1>2, <1>3 DEF ProverInv, Records

\* Verifying and replaying leave the prover's side alone.
LEMMA ReadersKeepProver ==
  ASSUME ProverInv, UNCHANGED <<prover, session, package, trail, damage>>,
         pc' = pc \/ (Proved /\ Proved')
  PROVE  ProverInv'
<1>1. PhaseInv'  BY DEF ProverInv, PhaseInv, Proved
<1>2. StorageInv'  BY DEF ProverInv, StorageInv, Proved
<1>3. QED  BY <1>1, <1>2 DEF ProverInv, Records

\* What the entry points may be called with gives chunk lists.
LEMMA CallsTyped ==
  /\ \A call \in CallerChunks : call.sched \in Schedules /\ ChunkList(call.chunks)
  /\ \A call \in CallerRuns :
       /\ call.sched \in Schedules
       /\ ScheduleValid(call.sched) => ChunkList(PartitionItems(call.sched, call.steps))
  /\ \A chunks \in PublicChunks : ChunkList(chunks)
<1>1. ASSUME NEW items, NEW chunks, chunks \in Seq(ChunksOf(items)) PROVE ChunkList(chunks)
  <2>1. IsSeq(chunks)  BY ONLY <1>1, IsSeqOfSet
  <2>2. \A i \in DOMAIN chunks : chunks[i] \in ChunksOf(items)
    <3> DEFINE S == ChunksOf(items)
    <3>1. chunks \in Seq(S)  BY <1>1
    <3> HIDE DEF S
    <3>2. chunks \in [1..Len(chunks) -> S]  BY ONLY <3>1, LenProperties
    <3>3. \A i \in DOMAIN chunks : chunks[i] \in S  BY ONLY <3>2
    <3>4. QED  BY <3>3 DEF S
  <2>3. ASSUME NEW i \in DOMAIN chunks PROVE IsSeq(chunks[i].steps)
    <3> DEFINE steps == chunks[i].steps
    <3>1. steps \in Seq(items)  BY <2>2 DEF ChunksOf
    <3> HIDE DEF steps
    <3>2. IsSeq(steps)  BY ONLY <3>1, IsSeqOfSet
    <3>3. QED  BY <3>2 DEF steps
  <2>4. QED  BY <2>1, <2>3 DEF ChunkList
<1>2. ASSUME NEW call \in CallerRuns, ScheduleValid(call.sched)
      PROVE  ChunkList(PartitionItems(call.sched, call.steps))
  <2> DEFINE sched == call.sched
             steps == call.steps
  <2>1. sched \in Schedules /\ ScheduleValid(sched)  BY <1>2, SessionAssumption
  <2>2. steps \in Seq(Steps)  BY SessionAssumption
  <2> HIDE DEF sched, steps
  <2>3. IsSeq(steps)  BY ONLY <2>2, IsSeqOfSet
  <2>4. sched \in Schedules  BY <2>1
  <2>5. ChunkList(PartitionItems(sched, steps))  BY <2>1, <2>3, <2>4, CutIsValid
  <2>6. QED  BY <2>5 DEF sched, steps
<1>3. ASSUME NEW chunks \in PublicChunks PROVE ChunkList(chunks)
  <2> DEFINE items == {PublicStep(step) : step \in Steps}
  <2>1. chunks \in Seq(ChunksOf(items))  BY SessionAssumption
  <2> HIDE DEF items
  <2>2. QED  BY <1>1, <2>1
<1>4. ASSUME NEW call \in CallerChunks PROVE ChunkList(call.chunks)
  <2> DEFINE chunks == call.chunks
  <2>1. chunks \in Seq(ChunksOf(Steps))  BY SessionAssumption
  <2> HIDE DEF chunks
  <2>2. ChunkList(chunks)  BY <1>1, <2>1
  <2>3. QED  BY <2>2 DEF chunks
<1>5. QED  BY <1>2, <1>3, <1>4, SessionAssumption

\* The prover's half of the invariant, by action.
LEMMA ProvingKeepsProver ==
  ASSUME ProverInv, Prove
  PROVE  ProverInv'
<1>1. ASSUME ProveChunksWithCache PROVE ProverInv'
  BY <1>1, CallsTyped, StartKeepsProver DEF ProveChunksWithCache
<1>2. ASSUME ProveChunksWithPerf PROVE ProverInv'
  BY <1>2, CallsTyped, StartKeepsProver, RefusalKeepsProver DEF ProveChunksWithPerf
<1>3. ASSUME ProveRun PROVE ProverInv'
  BY <1>3, CallsTyped, StartKeepsProver, RefusalKeepsProver DEF ProveRun
<1>4. ASSUME ProveAndPackage PROVE ProverInv'
  BY <1>4, CallsTyped, StartKeepsProver, RefusalKeepsProver DEF ProveAndPackage
<1>5. QED
  BY <1>1, <1>2, <1>3, <1>4, ChunkKeepsProver, FinishKeepsProver DEF Prove

-----------------------------------------------------------------------------
(* The verifier's steps.                                                   *)

ReaderInv == VerifierInv /\ AcceptedInv /\ HonestSessionAccepted

\* Without damage or proving, what a verifier reads stays what it was.
LEMMA StoredStays == UNCHANGED <<prover, session, trail, damage>> => Stored' = Stored
BY DEF Stored

\* The digests of a chunk list are as many as the chunks.
LEMMA DigestsLen ==
  ASSUME NEW chunks, ChunkList(chunks)
  PROVE  Len(PublicChunkDigests(chunks)) = Len(chunks)
<1> DEFINE digests == PublicChunkDigests(chunks)
<1>1. Len(chunks) \in Nat /\ DOMAIN chunks = 1..Len(chunks)  BY IsSeqLen DEF ChunkList
<1>2. digests = [i \in 1..Len(chunks) |-> digests[i]]  BY <1>1 DEF PublicChunkDigests
<1> HIDE DEF digests
<1>3. Len(digests) = Len(chunks)  BY <1>1, <1>2, FunctionIsSeq
<1>4. QED  BY <1>3 DEF digests

\* A layout check that a whole session passes on the prover's own chunks.
LEMMA HonestLayout ==
  ASSUME ProverInv, Proved, damage = "none"
  PROVE  /\ Stored = session /\ LayoutValid(Stored.sched, PublicAll(prover.chunks))
         /\ Len(PublicChunkDigests(PublicAll(prover.chunks))) = Len(PublicAll(prover.chunks))
<1>1. StoredShape  BY StoredFacts DEF ProverInv
<1>2. Stored = session  BY <1>1 DEF StoredShape
<1>3. session.sched = prover.sched /\ LayoutValid(prover.sched, PublicAll(prover.chunks))
  BY DEF ProverInv, PhaseInv
<1>4. Len(PublicChunkDigests(PublicAll(prover.chunks))) = Len(PublicAll(prover.chunks))
  BY PublicAllFacts, DigestsLen DEF ProverInv, History
<1>5. QED  BY <1>2, <1>3, <1>4

\* What an entry point asks for before the loop: enough of the statement when it
\* is on a package, and nothing that the prover's own data would not pass.
StartMeans(entry, digests) ==
  entry \in {"packaged", "precomputed"} =>
    /\ package.made /\ Stored.sched = package.sched
    /\ entry = "precomputed" =>
         package.proofDigest
           = FinalProofDigest(package.digest, Stored, digests, CarriedRelations(Stored))

HonestStart(chunks, digests) ==
  damage = "none" /\ chunks = PublicAll(prover.chunks) /\ digests = PublicChunkDigests(chunks)

SoundStart(entry, chunks, digests, mayStart) ==
  /\ IsSeq(chunks)
  /\ mayStart => StartMeans(entry, digests)
  /\ HonestStart(chunks, digests) => mayStart

\* An entry point with a sound start leaves the verifier at the first position.
LEMMA StartKeepsReader ==
  ASSUME ProverInv, NEW entry, NEW mode, NEW chunks, NEW digests, NEW mayStart,
         StartVerifying(entry, mode, chunks, digests, mayStart),
         SoundStart(entry, chunks, digests, mayStart)
  PROVE  ReaderInv'
<1> DEFINE begins == mayStart /\ LayoutValid(Stored.sched, chunks) /\ Len(digests) = Len(chunks)
           record == [entry |-> entry, mode |-> mode, chunks |-> chunks, digests |-> digests,
                      tr |-> NewSession, claims |-> <<>>, next |-> 1]
<1>0. IsSeq(chunks) /\ (mayStart => StartMeans(entry, digests)) /\ (HonestStart(chunks, digests) => mayStart)
  BY DEF SoundStart
<1>1. /\ pc = "stored" /\ verifier' = record /\ pc' = IF begins THEN "verifying" ELSE "rejected"
      /\ prover' = prover /\ session' = session /\ package' = package /\ trail' = trail
      /\ damage' = damage
  BY DEF StartVerifying
<1>2. Proved  BY <1>1 DEF Proved
<1>3. Stored' = Stored  BY <1>1, StoredStays
<1>4. StoredShape  BY <1>2, StoredFacts DEF ProverInv
<1>5. Len(Stored.chunks) \in Nat /\ Len(trail) \in Nat
  BY <1>4, IsSeqLen DEF StoredShape, ProverInv, History
<1>6. /\ verifier'.entry = entry /\ verifier'.mode = mode /\ verifier'.chunks = chunks
      /\ verifier'.digests = digests /\ verifier'.tr = NewSession /\ verifier'.claims = <<>>
      /\ verifier'.next = 1
  BY <1>1
<1>7. AcceptedInv'  BY <1>1 DEF AcceptedInv
<1>8. HonestSessionAccepted'
  <2>1. damage = "none" /\ chunks = PublicAll(prover.chunks) /\ digests = PublicChunkDigests(chunks)
          => begins
    BY <1>0, <1>2, HonestLayout DEF HonestStart
  <2> HIDE DEF begins, record
  <2>2. QED  BY <1>1, <1>6, <2>1 DEF HonestSessionAccepted
<1>9. VerifierInv'
  <2>1. CASE ~begins  BY <1>1, <2>1 DEF VerifierInv
  <2>2. CASE begins
    <3>1. mayStart /\ Len(digests) = Len(chunks)  BY <2>2
    <3>2. verifier' = [entry |-> verifier'.entry, mode |-> verifier'.mode, chunks |-> verifier'.chunks,
                       digests |-> verifier'.digests, tr |-> verifier'.tr, claims |-> verifier'.claims,
                       next |-> verifier'.next]
      BY <1>1, <1>6
    <3>3. /\ verifier'.next \in 1..(Len(trail') + 1) /\ verifier'.next <= Len(Stored'.chunks) + 1
          /\ 1..(verifier'.next - 1) = {} /\ ~(verifier'.next > 1)
      BY <1>1, <1>3, <1>5, <1>6
    <3>4. verifier'.tr = TrAt(trail', verifier'.next) /\ verifier'.claims = ClaimsAt(trail', verifier'.next)
      BY <1>6, FirstPosition
    <3>5. verifier'.entry \in {"packaged", "precomputed"} => Packaged'
      BY <1>0, <1>1, <1>3, <1>6, <3>1 DEF Packaged, StartMeans
    <3> HIDE DEF begins, record
    <3>6. QED  BY <1>0, <1>6, <3>1, <3>2, <3>3, <3>4, <3>5 DEF VerifierInv
  <2>3. QED  BY <2>1, <2>2
<1>10. QED  BY <1>7, <1>8, <1>9 DEF ReaderInv

\* The body of the loop.
LEMMA ChunkKeepsReader ==
  ASSUME ProverInv, ReaderInv, VerifyChunk
  PROVE  ReaderInv'
<1> DEFINE i == verifier.next
           n == Len(trail)
           proof == Stored.chunks[i]
           beyond == i > Len(verifier.chunks)
           verified == VerifyTransition(verifier.mode, verifier.tr, verifier.chunks[i],
                                        verifier.digests[i], verifier.claims, proof)
           checked == IF beyond THEN Refused ELSE verified
<1>1. /\ pc = "verifying" /\ i <= Len(Stored.chunks)
      /\ prover' = prover /\ session' = session /\ package' = package /\ trail' = trail
      /\ damage' = damage
      /\ checked.ok => /\ verifier' = [verifier EXCEPT !.tr = ChunkDone(checked.tr),
                                                       !.claims = checked.claims, !.next = i + 1]
                       /\ pc' = pc
      /\ ~checked.ok => pc' = "rejected" /\ verifier' = verifier
  BY DEF VerifyChunk
<1>2. Proved /\ StoredShape  BY <1>1, StoredFacts DEF ProverInv, Proved
<1>3. Stored' = Stored  BY <1>1, StoredStays
<1>4. History(prover, session, trail)  BY DEF ProverInv
<1>5. /\ verifier = [entry |-> verifier.entry, mode |-> verifier.mode, chunks |-> verifier.chunks,
                     digests |-> verifier.digests, tr |-> verifier.tr, claims |-> verifier.claims,
                     next |-> i]
      /\ IsSeq(verifier.chunks) /\ Len(verifier.digests) = Len(verifier.chunks)
      /\ i \in 1..(n + 1) /\ verifier.tr = TrAt(trail, i) /\ verifier.claims = ClaimsAt(trail, i)
      /\ \A k \in 1..(i - 1) : /\ SameButRelation(Stored.chunks[k], session.chunks[k])
                               /\ k <= Len(verifier.chunks) /\ verifier.chunks[k] = Public(prover.chunks[k])
      /\ verifier.entry \in {"packaged", "precomputed"} => Packaged
  BY <1>1 DEF ReaderInv, VerifierInv
<1>6. n \in Nat /\ Len(Stored.chunks) \in Nat /\ Len(verifier.chunks) \in Nat /\ i \in 1..Len(Stored.chunks)
  BY <1>1, <1>2, <1>4, <1>5, IsSeqLen DEF StoredShape, History
<1> HIDE DEF i, n, proof, verified, beyond
<1>7. ASSUME checked.ok PROVE ReaderInv'
  <2>1. ~beyond /\ checked = verified /\ verified.ok  BY <1>7 DEF Refused
  <2>2. PICK j \in 1..n : IsChunkProof(proof) /\ SameCore(proof, session.chunks[j])
    BY <1>2, <1>6 DEF StoredShape, proof, n
  <2>3. VerifiedShape(prover, session, trail, i, j, verifier.mode, verifier.chunks[i], proof, verified)
    <3> DEFINE vmode == verifier.mode
               public == verifier.chunks[i]
               digest == verifier.digests[i]
               again == VerifyTransition(vmode, TrAt(trail, i), public, digest, ClaimsAt(trail, i), proof)
    <3>1. verified = again  BY <1>5 DEF verified
    <3> HIDE DEF vmode, public, digest
    <3>2. again.ok  BY <2>1, <3>1
    <3>3. i \in 1..(Len(trail) + 1) /\ j \in 1..Len(trail)  BY <1>5 DEF n
    <3>4. VerifiedShape(prover, session, trail, i, j, vmode, public, proof, again)
      BY <1>4, <2>2, <3>2, <3>3, VerifierStep
    <3>5. QED  BY <3>1, <3>4 DEF vmode, public
  <2>4. /\ i = j /\ SameBinding(prover.mode, verifier.mode)
        /\ verifier.chunks[i] = Public(prover.chunks[i])
        /\ proof.children = session.chunks[i].children
        /\ ChunkDone(verified.tr) = TrAt(trail, i + 1) /\ verified.claims = ClaimsAt(trail, i + 1)
    BY <2>3 DEF VerifiedShape
  <2>5. SameButRelation(proof, session.chunks[i])
    <3> DEFINE c == session.chunks[i]
    <3>1. ChunkShape(prover, session, trail, i)  BY <1>4, <2>4, ChunkFacts DEF n
    <3>2. c = [chunk |-> Public(prover.chunks[i]),
               relation |-> ChunkRelationDigest(c.outputs, c.parent, c.children),
               outputs |-> c.outputs, header |-> c.header, rounds |-> c.rounds,
               parent |-> c.parent, children |-> c.children]
      BY <3>1 DEF ChunkShape
    <3>3. /\ proof.chunk = c.chunk /\ proof.outputs = c.outputs /\ proof.header = c.header
          /\ proof.rounds = c.rounds /\ proof.parent = c.parent /\ proof.children = c.children
      BY <2>2, <2>4 DEF SameCore
    <3> HIDE DEF c
    <3>4. c.chunk = Public(prover.chunks[i])  BY <3>2
    <3>5. [c EXCEPT !.relation = proof.relation]
            = [chunk |-> c.chunk, relation |-> proof.relation, outputs |-> c.outputs,
               header |-> c.header, rounds |-> c.rounds, parent |-> c.parent, children |-> c.children]
      BY <3>2, <3>4
    <3>6. proof = [chunk |-> proof.chunk, relation |-> proof.relation, outputs |-> proof.outputs,
                   header |-> proof.header, rounds |-> proof.rounds, parent |-> proof.parent,
                   children |-> proof.children]
      BY <2>2 DEF IsChunkProof
    <3>7. proof = [c EXCEPT !.relation = proof.relation]
      BY <3>3, <3>5, <3>6
    <3>8. QED  BY <3>7 DEF SameButRelation, c
  <2> DEFINE tr == ChunkDone(verified.tr)
             claims == verified.claims
  <2>6. verifier' = [verifier EXCEPT !.tr = tr, !.claims = claims, !.next = i + 1] /\ pc' = "verifying"
    BY <1>1, <1>7, <2>1
  <2> HIDE DEF tr, claims, checked
  <2>7. verifier' = [entry |-> verifier.entry, mode |-> verifier.mode, chunks |-> verifier.chunks,
                     digests |-> verifier.digests, tr |-> tr, claims |-> claims, next |-> i + 1]
    BY <1>5, <2>6
  <2>8. /\ verifier'.entry = verifier.entry /\ verifier'.mode = verifier.mode
        /\ verifier'.chunks = verifier.chunks /\ verifier'.digests = verifier.digests
        /\ verifier'.tr = tr /\ verifier'.claims = claims /\ verifier'.next = i + 1
    BY <2>7
  <2>9. verifier' = [entry |-> verifier'.entry, mode |-> verifier'.mode, chunks |-> verifier'.chunks,
                     digests |-> verifier'.digests, tr |-> verifier'.tr, claims |-> verifier'.claims,
                     next |-> verifier'.next]
    BY <2>7, <2>8
  <2>10. /\ verifier'.next \in 1..(Len(trail') + 1) /\ verifier'.next <= Len(Stored'.chunks) + 1
         /\ (i + 1) - 1 = i /\ i \in Nat
    <3>1. i \in 1..n /\ i + 1 \in 1..(n + 1) /\ i + 1 <= Len(Stored.chunks) + 1 /\ (i + 1) - 1 = i /\ i \in Nat
      BY <1>6, <2>4
    <3>2. Len(trail') = n  BY <1>1 DEF n
    <3>3. QED  BY <1>3, <2>8, <3>1, <3>2
  <2>11. ASSUME NEW k \in 1..i
         PROVE  /\ SameButRelation(Stored.chunks[k], session.chunks[k])
                /\ k <= Len(verifier.chunks) /\ verifier.chunks[k] = Public(prover.chunks[k])
    <3>1. CASE k = i  BY <1>6, <2>1, <2>4, <2>5, <2>10, <3>1 DEF proof, beyond
    <3>2. CASE k # i
      <4>1. k \in 1..(i - 1)  BY <2>10, <3>2
      <4>2. QED  BY <1>5, <4>1
    <3>3. QED  BY <3>1, <3>2
  <2>12. \A k \in 1..(verifier'.next - 1) :
           /\ SameButRelation(Stored'.chunks[k], session'.chunks[k])
           /\ k <= Len(verifier'.chunks) /\ verifier'.chunks[k] = Public(prover'.chunks[k])
    BY <1>1, <1>3, <2>8, <2>10, <2>11
  <2>13. verifier'.tr = TrAt(trail', verifier'.next) /\ verifier'.claims = ClaimsAt(trail', verifier'.next)
    BY <1>1, <2>4, <2>8 DEF tr, claims
  <2>14. SameBinding(prover'.mode, verifier'.mode)  BY <1>1, <2>4, <2>8
  <2>15. verifier'.entry \in {"packaged", "precomputed"} => Packaged'
    BY <1>1, <1>3, <1>5, <2>8 DEF Packaged
  <2>16. VerifierInv'
    <3>1. IsSeq(verifier'.chunks) /\ Len(verifier'.digests) = Len(verifier'.chunks)  BY <1>5, <2>8
    <3>2. QED  BY <2>9, <2>10, <2>12, <2>13, <2>14, <2>15, <3>1 DEF VerifierInv
  <2>17. AcceptedInv' /\ HonestSessionAccepted'  BY <2>6 DEF AcceptedInv, HonestSessionAccepted
  <2>18. QED  BY <2>16, <2>17 DEF ReaderInv
<1>8. ASSUME ~checked.ok PROVE ReaderInv'
  <2>1. pc' = "rejected" /\ verifier' = verifier  BY <1>1, <1>8
  <2>2. ASSUME damage = "none", verifier.chunks = PublicAll(prover.chunks),
               verifier.digests = PublicChunkDigests(verifier.chunks),
               SameBinding(prover.mode, verifier.mode)
        PROVE  FALSE
    <3>1. Stored = session  BY <1>2, <2>2 DEF StoredShape
    <3>2. /\ i \in 1..Len(trail) /\ Len(session.chunks) = Len(trail)
          /\ Len(trail) <= Len(prover.chunks) /\ Len(prover.chunks) \in Nat
      BY <1>4, <1>6, <3>1, IsSeqLen DEF History, ChunkList
    <3>3. /\ Len(verifier.chunks) = Len(prover.chunks) /\ verifier.chunks[i] = Public(prover.chunks[i])
      <4>1. i \in 1..Len(prover.chunks)  BY <3>2
      <4>2. ChunkList(prover.chunks)  BY <1>4 DEF History
      <4>3. QED  BY <2>2, <4>1, <4>2, PublicAllFacts
    <3>4. ~beyond  BY <3>2, <3>3 DEF beyond
    <3>5. verifier.digests[i] = PublicChunkDigest(verifier.chunks[i])
      <4>1. i \in DOMAIN verifier.chunks  BY <1>5, <3>2, <3>3, IsSeqLen
      <4>2. QED  BY <2>2, <4>1 DEF PublicChunkDigests
    <3>6. VerifyTransition(verifier.mode, TrAt(trail, i), Public(prover.chunks[i]),
                           PublicChunkDigest(Public(prover.chunks[i])), ClaimsAt(trail, i),
                           session.chunks[i]).ok
      <4> DEFINE vmode == verifier.mode
      <4>1. SameBinding(prover.mode, vmode)  BY <2>2
      <4> HIDE DEF vmode
      <4>2. VerifyTransition(vmode, TrAt(trail, i), Public(prover.chunks[i]),
                             PublicChunkDigest(Public(prover.chunks[i])), ClaimsAt(trail, i),
                             session.chunks[i]).ok
        BY <1>4, <3>2, <4>1, HonestVerifierStep
      <4>3. QED  BY <4>2 DEF vmode
    <3>7. verified.ok  BY <1>5, <3>1, <3>3, <3>5, <3>6 DEF verified, proof
    <3>8. QED  BY <1>8, <3>4, <3>7
  <2> HIDE DEF checked
  <2>3. HonestSessionAccepted'  BY <1>1, <2>1, <2>2 DEF HonestSessionAccepted
  <2>4. VerifierInv' /\ AcceptedInv'  BY <2>1 DEF VerifierInv, AcceptedInv
  <2>5. QED  BY <2>3, <2>4 DEF ReaderInv
<1>9. QED  BY <1>7, <1>8

\* A package is the one made for the session it comes with.
LEMMA PackageFacts ==
  ASSUME ProverInv, package.made
  PROVE  /\ Proved /\ package = PackageSession(PublicAll(prover.chunks), session)
         /\ package.chunks = PublicAll(prover.chunks) /\ package.sched = session.sched
         /\ package.final = session.final /\ package.count = Len(PublicAll(prover.chunks))
         /\ package.digest = StatementDigest(session.sched, PublicChunkDigests(PublicAll(prover.chunks)),
                                             session.final)
         /\ package.proofDigest = FinalProofDigest(package.digest, session,
                                                   PublicChunkDigests(PublicAll(prover.chunks)),
                                                   CarriedRelations(session))
<1>1. Proved /\ package = PackageSession(PublicAll(prover.chunks), session)
  BY DEF ProverInv, StorageInv, NoPackage
<1>2. QED  BY <1>1 DEF PackageSession

\* The relation digests the chunk proofs carry are those of their claims.
LEMMA RelationsAgree ==
  ASSUME NEW p, NEW s, NEW h, History(p, s, h)
  PROVE  RecomputedRelations(s) = CarriedRelations(s)
<1>1. DOMAIN s.chunks = 1..Len(h)  BY IsSeqLen DEF History
<1>2. ASSUME NEW i \in 1..Len(h)
      PROVE  s.chunks[i].relation
               = ChunkRelationDigest(s.chunks[i].outputs, s.chunks[i].parent, s.chunks[i].children)
  <2> DEFINE c == s.chunks[i]
  <2>1. ChunkShape(p, s, h, i)  BY ChunkFacts
  <2>2. c = [chunk |-> Public(p.chunks[i]),
             relation |-> ChunkRelationDigest(c.outputs, c.parent, c.children),
             outputs |-> c.outputs, header |-> c.header, rounds |-> c.rounds,
             parent |-> c.parent, children |-> c.children]
    BY <2>1 DEF ChunkShape
  <2> HIDE DEF c
  <2>3. c.relation = ChunkRelationDigest(c.outputs, c.parent, c.children)  BY <2>2
  <2>4. QED  BY <2>3 DEF c
<1>3. QED  BY <1>1, <1>2 DEF RecomputedRelations, CarriedRelations

\* The statement of an undamaged package holds of the session it was made for.
LEMMA HonestStatement ==
  ASSUME ProverInv, package.made, damage = "none"
  PROVE  /\ StatementHolds(PublicChunkDigests(package.chunks), RecomputedRelations(Stored))
         /\ StatementHolds(PublicChunkDigests(package.chunks), CarriedRelations(Stored))
         /\ Len(package.chunks) = Len(PublicChunkDigests(package.chunks))
<1> DEFINE chunks == PublicAll(prover.chunks)
           digests == PublicChunkDigests(chunks)
<1>1. /\ Proved
      /\ package.chunks = chunks /\ package.sched = session.sched
      /\ package.final = session.final /\ package.count = Len(chunks)
      /\ package.digest = StatementDigest(session.sched, digests, session.final)
      /\ package.proofDigest = FinalProofDigest(package.digest, session, digests,
                                                CarriedRelations(session))
  BY PackageFacts
<1>2. /\ Stored = session /\ LayoutValid(Stored.sched, chunks)
      /\ Len(digests) = Len(chunks)
  BY <1>1, HonestLayout
<1>3. ScheduleValid(session.sched) /\ ChunkCount(session.sched, StepCount(chunks)) = Len(chunks)
  BY <1>2 DEF LayoutValid
<1>4. RecomputedRelations(session) = CarriedRelations(session)  BY RelationsAgree DEF ProverInv
<1> HIDE DEF chunks, digests
<1>5. PublicChunkDigests(package.chunks) = digests  BY <1>1 DEF digests
<1>6. StatementHolds(digests, CarriedRelations(Stored))
  BY <1>1, <1>2, <1>3 DEF StatementHolds
<1>7. QED  BY <1>1, <1>2, <1>4, <1>5, <1>6

\* Each entry point of the verifier.
LEMMA EntriesKeepReader ==
  ASSUME ProverInv, \/ VerifyChunks \/ VerifyRun \/ VerifyPackaged \/ VerifyPackagedPrecomputed
  PROVE  ReaderInv'
<1>1. ASSUME NEW chunks \in PublicChunks \union {PublicAll(prover.chunks)} PROVE ChunkList(chunks)
  BY CallsTyped, PublicAllFacts DEF ProverInv, History
<1>2. ASSUME VerifyChunks PROVE ReaderInv'
  <2>1. PICK mode \in Modes, chunks \in PublicChunks \union {PublicAll(prover.chunks)} :
          StartVerifying("chunks", mode, chunks, PublicChunkDigests(chunks), TRUE)
    BY <1>2 DEF VerifyChunks
  <2>2. IsSeq(chunks)  BY <1>1 DEF ChunkList
  <2> DEFINE may == TRUE
             entry == "chunks"
             digests == PublicChunkDigests(chunks)
  <2>3. StartVerifying(entry, mode, chunks, digests, may)  BY <2>1
  <2>4. StartMeans(entry, digests)  BY DEF StartMeans
  <2>5. SoundStart(entry, chunks, digests, may)  BY <2>2, <2>4 DEF SoundStart
  <2> HIDE DEF may, entry, digests
  <2>6. QED  BY <2>3, <2>5, StartKeepsReader
<1>3. ASSUME VerifyRun PROVE ReaderInv'
  <2>1. PICK mode \in Modes, chunks \in PublicChunks \union {PublicAll(prover.chunks)} :
          LET cut == IF ScheduleValid(Stored.sched)
                     THEN PartitionItems(Stored.sched, Flatten(chunks)) ELSE <<>>
          IN  StartVerifying("run", mode, cut, PublicChunkDigests(cut), ScheduleValid(Stored.sched))
    BY <1>3 DEF VerifyRun
  <2> DEFINE sched == Stored.sched
             steps == Flatten(chunks)
             cut == IF ScheduleValid(sched) THEN PartitionItems(sched, steps) ELSE <<>>
             digests == PublicChunkDigests(cut)
             may == ScheduleValid(sched)
             entry == "run"
  <2>2. StartVerifying(entry, mode, cut, digests, may)  BY <2>1
  <2>3. Proved  BY <2>1 DEF StartVerifying, Proved
  <2>4. StoredShape  BY <2>3, StoredFacts DEF ProverInv
  <2>5. IsSeq(cut)
    <3>1. sched \in Schedules  BY <2>4 DEF StoredShape
    <3>2. IsSeq(steps)  BY <1>1, FlattenFacts
    <3> HIDE DEF sched, steps
    <3>3. CASE ScheduleValid(sched)
      <4>1. ChunkList(PartitionItems(sched, steps))  BY <3>1, <3>2, <3>3, CutIsValid
      <4>2. QED  BY <3>3, <4>1 DEF ChunkList
    <3>4. CASE ~ScheduleValid(sched)  BY <3>4, EmptyIsSeq
    <3>5. QED  BY <3>3, <3>4
  <2>6. damage = "none" => may  BY <2>3, HonestLayout DEF LayoutValid
  <2>7. StartMeans(entry, digests)  BY DEF StartMeans
  <2> HIDE DEF cut, digests, entry
  <2>8. SoundStart(entry, cut, digests, may)
    BY <2>5, <2>6, <2>7, Zenon DEF SoundStart, HonestStart
  <2> HIDE DEF may
  <2>9. QED  BY <2>2, <2>8, StartKeepsReader
<1>4. ASSUME VerifyPackaged PROVE ReaderInv'
  <2> DEFINE chunks == package.chunks
             digests == PublicChunkDigests(chunks)
             may == StatementHolds(digests, RecomputedRelations(Stored))
             entry == "packaged"
  <2>1. package.made  BY <1>4 DEF VerifyPackaged
  <2>2. PICK mode \in Modes : StartVerifying(entry, mode, chunks, digests, may)
    BY <1>4 DEF VerifyPackaged
  <2>3. IsSeq(chunks)
    <3>1. chunks = PublicAll(prover.chunks)  BY <2>1, PackageFacts
    <3>2. QED  BY <3>1, PublicAllFacts DEF ProverInv, History, ChunkList
  <2>4. damage = "none" => may  BY <2>1, HonestStatement
  <2>5. may => StartMeans(entry, digests)  BY <2>1 DEF StatementHolds, StartMeans
  <2> HIDE DEF chunks, digests, entry
  <2>6. SoundStart(entry, chunks, digests, may)
    BY <2>3, <2>4, <2>5, Zenon DEF SoundStart, HonestStart
  <2>7. StartVerifying(entry, mode, chunks, digests, may)  BY <2>2
  <2> HIDE DEF may
  <2>8. QED  BY <2>6, <2>7, StartKeepsReader
<1>5. ASSUME VerifyPackagedPrecomputed PROVE ReaderInv'
  <2>1. package.made  BY <1>5 DEF VerifyPackagedPrecomputed
  <2>2. PICK mode \in Modes, own \in PublicChunks \union {package.chunks} :
          LET digests == PublicChunkDigests(own)
          IN  StartVerifying("precomputed", mode, package.chunks, digests,
                             /\ Len(package.chunks) = Len(digests)
                             /\ StatementHolds(digests, CarriedRelations(Stored)))
    BY <1>5 DEF VerifyPackagedPrecomputed
  <2> DEFINE chunks == package.chunks
             digests == PublicChunkDigests(own)
             may == /\ Len(package.chunks) = Len(digests)
                    /\ StatementHolds(digests, CarriedRelations(Stored))
             entry == "precomputed"
  <2>3. StartVerifying(entry, mode, chunks, digests, may)  BY <2>2
  <2>4. IsSeq(chunks)
    <3>1. chunks = PublicAll(prover.chunks)  BY <2>1, PackageFacts
    <3>2. QED  BY <3>1, PublicAllFacts DEF ProverInv, History, ChunkList
  <2>5. damage = "none" /\ digests = PublicChunkDigests(chunks) => may
    <3> HIDE DEF digests
    <3>1. QED  BY <2>1, HonestStatement
  <2>6. may => StartMeans(entry, digests)  BY <2>1 DEF StatementHolds, StartMeans
  <2> HIDE DEF chunks, digests, entry
  <2>7. SoundStart(entry, chunks, digests, may)
    BY <2>4, <2>5, <2>6, Zenon DEF SoundStart, HonestStart
  <2> HIDE DEF may
  <2>8. QED  BY <2>3, <2>7, StartKeepsReader
<1>6. QED  BY <1>2, <1>3, <1>4, <1>5

\* What follows the loop.
LEMMA FinishKeepsReader ==
  ASSUME ProverInv, ReaderInv, FinishVerifying
  PROVE  ReaderInv'
<1> DEFINE accepts == /\ Len(verifier.chunks) = Len(Stored.chunks)
                      /\ verifier.claims = Stored.final
                      /\ verifier.entry \in {"packaged", "precomputed"} => verifier.claims = package.final
<1>1. /\ pc = "verifying" /\ verifier.next > Len(Stored.chunks)
      /\ pc' = (IF accepts THEN "accepted" ELSE "rejected")
      /\ prover' = prover /\ session' = session /\ package' = package /\ trail' = trail
      /\ damage' = damage /\ verifier' = verifier
  BY DEF FinishVerifying
<1>2. Proved /\ StoredShape /\ Stored' = Stored  BY <1>1, StoredFacts, StoredStays DEF ProverInv, Proved
<1>3. History(prover, session, trail)  BY DEF ProverInv
<1>4. /\ verifier.next \in 1..(Len(trail) + 1) /\ verifier.next <= Len(Stored.chunks) + 1
      /\ verifier.claims = ClaimsAt(trail, verifier.next)
      /\ verifier.entry \in {"packaged", "precomputed"} => Packaged
  BY <1>1 DEF ReaderInv, VerifierInv
<1>5. Len(Stored.chunks) \in Nat /\ Len(trail) \in Nat  BY <1>2, <1>3, IsSeqLen DEF StoredShape, History
<1>6. verifier.next = Len(Stored.chunks) + 1  BY <1>1, <1>4, <1>5
<1>7. VerifierInv'  BY <1>1, <1>2 DEF ReaderInv, VerifierInv, Packaged
<1>8. AcceptedInv'  BY <1>1, <1>2, <1>6 DEF AcceptedInv
<1>9. ASSUME damage = "none", verifier.chunks = PublicAll(prover.chunks) PROVE accepts
  <2>1. Stored = session  BY <1>2, <1>9 DEF StoredShape
  <2>2. Len(trail) = Len(prover.chunks) /\ session.final = prover.claims
    BY <1>2 DEF ProverInv, PhaseInv
  <2>3. Len(session.chunks) = Len(trail) /\ prover.claims = ClaimsAt(trail, Len(trail) + 1)
    BY <1>3 DEF History
  <2>4. Len(verifier.chunks) = Len(prover.chunks)
    BY <1>3, <1>9, PublicAllFacts DEF History
  <2>5. verifier.claims = session.final  BY <1>4, <1>6, <2>1, <2>2, <2>3
  <2>6. package.made => package.final = session.final  BY PackageFacts
  <2>7. QED  BY <1>4, <2>1, <2>2, <2>3, <2>4, <2>5, <2>6 DEF Packaged
<1> HIDE DEF accepts
<1>10. HonestSessionAccepted'  BY <1>1, <1>9 DEF HonestSessionAccepted
<1>11. QED  BY <1>7, <1>8, <1>10 DEF ReaderInv

-----------------------------------------------------------------------------
(* The replayer.                                                           *)

\* As long as nothing is stored the replayer has not begun.
LEMMA IdleReplay ==
  ASSUME ReplayInv, ~Proved, IsSeq(trail)', replay' = replay
  PROVE  ReplayInv'
<1>1. /\ replay.ok /\ IsSeq(replay.relations) /\ Len(replay.relations) = 0
      /\ replay.tr = TrAt(trail, 1) /\ replay.claims = ClaimsAt(trail, 1)
      /\ replay.wits = Vals(replay.claims)
  BY DEF ReplayInv, Replayed
<1>2. replay.tr = TrAt(trail', 1) /\ replay.claims = ClaimsAt(trail', 1)  BY <1>1, FirstPosition
<1>3. Len(trail') \in Nat /\ 0 + 1 = 1 /\ 1..0 = {}  BY IsSeqLen
<1>4. Replayed(replay', session', trail')  BY <1>1, <1>2, <1>3 DEF Replayed
<1>5. QED  BY <1>1, <1>4 DEF ReplayInv

\* Steps that touch neither session nor replayer keep what the replayer has.
LEMMA ReplayStays ==
  ASSUME ReplayInv, UNCHANGED <<session, trail, replay>>, Proved => Proved'
  PROVE  ReplayInv'
BY DEF ReplayInv

\* Replaying the next chunk of the stored session follows the prover's run.
LEMMA ReplayKeepsReplay ==
  ASSUME ProverInv, ReplayInv, ReplayChunk
  PROVE  ReplayInv'
<1> DEFINE n == Len(replay.relations)
           chunk == prover.chunks[n + 1]
           proof == session.chunks[n + 1]
           replayed == ReplayTransition(replay.tr, chunk, replay.claims, replay.wits, proof)
<1>1. /\ pc = "stored" /\ prover.mode = "Optimized" /\ n < Len(session.chunks)
      /\ replay' = IF replayed.ok
                   THEN [tr |-> ChunkDone(replayed.tr), claims |-> replayed.claims,
                         wits |-> replayed.wits, ok |-> TRUE,
                         relations |-> Append(replay.relations, replayed.relation)]
                   ELSE [replay EXCEPT !.ok = FALSE]
      /\ pc' = pc /\ session' = session /\ trail' = trail
  BY DEF ReplayChunk
<1>2. History(prover, session, trail)  BY DEF ProverInv
<1>3. /\ IsSeq(replay.relations) /\ n \in Nat /\ Len(trail) \in Nat /\ Len(session.chunks) = Len(trail)
      /\ replay.tr = TrAt(trail, n + 1) /\ replay.claims = ClaimsAt(trail, n + 1)
      /\ replay.wits = Vals(replay.claims)
      /\ \A i \in 1..n : replay.relations[i] = session.chunks[i].relation
  BY <1>2, IsSeqLen DEF ReplayInv, Replayed, History
<1>4. n + 1 \in 1..Len(trail) /\ (n + 1) + 1 = n + 2  BY <1>1, <1>3
<1>5. replayed = ReplayTransition(TrAt(trail, n + 1), chunk, ClaimsAt(trail, n + 1),
                                  Vals(ClaimsAt(trail, n + 1)), proof)
  BY <1>3
<1>6. /\ replayed.ok /\ replayed.relation = proof.relation
      /\ ChunkDone(replayed.tr) = TrAt(trail, n + 2) /\ replayed.claims = ClaimsAt(trail, n + 2)
      /\ replayed.wits = Vals(ClaimsAt(trail, n + 2))
  BY <1>1, <1>2, <1>4, <1>5, ReplayStep
<1> HIDE DEF replayed
<1>7. /\ replay'.ok /\ replay'.tr = TrAt(trail, n + 2) /\ replay'.claims = ClaimsAt(trail, n + 2)
      /\ replay'.wits = Vals(replay'.claims)
      /\ replay'.relations = Append(replay.relations, replayed.relation)
  BY <1>1, <1>6
<1> HIDE DEF n, proof
<1>8. /\ IsSeq(replay'.relations) /\ Len(replay'.relations) = n + 1
      /\ \A i \in 1..n : replay'.relations[i] = replay.relations[i]
      /\ replay'.relations[n + 1] = replayed.relation
  <2> DEFINE r == replayed.relation
             q == replay.relations
  <2>1. replay'.relations = Append(q, r) /\ IsSeq(q) /\ Len(q) = n  BY <1>3, <1>7 DEF n
  <2> HIDE DEF r, q
  <2>2. QED  BY <2>1, AppendSeq DEF r, q
<1>9. \A i \in 1..(n + 1) : replay'.relations[i] = session.chunks[i].relation
  <2>1. \A i \in 1..(n + 1) : i = n + 1 \/ i \in 1..n  BY <1>3
  <2>2. replay'.relations[n + 1] = session.chunks[n + 1].relation  BY <1>6, <1>8 DEF proof
  <2>3. QED  BY <1>3, <1>8, <2>1, <2>2
<1>10. n + 1 <= Len(trail)  BY <1>4
<1>11. Replayed(replay', session, trail)
  BY <1>4, <1>7, <1>8, <1>9, <1>10 DEF Replayed
<1>12. Proved'  BY <1>1 DEF Proved
<1>13. QED  BY <1>1, <1>11, <1>12 DEF ReplayInv

-----------------------------------------------------------------------------
(* The invariant is inductive.                                             *)

\* While no verifier runs, nothing is claimed of one.
LEMMA NoReader == ASSUME pc \notin {"verifying", "accepted", "rejected"} PROVE ReaderInv
BY DEF ReaderInv, VerifierInv, AcceptedInv, HonestSessionAccepted

\* The invariant holds initially.
LEMMA InitSession == Init => SessionInv
<1> SUFFICES ASSUME Init PROVE SessionInv  OBVIOUS
<1>1. ProverInv  BY InitProver
<1>2. ReaderInv  BY NoReader DEF Init
<1>3. ReplayInv
  <2>1. /\ pc = "idle" /\ trail = <<>>
        /\ replay = [tr |-> NewSession, claims |-> <<>>, wits |-> <<>>, relations |-> <<>>, ok |-> TRUE]
    BY DEF Init
  <2>2. IsSeq(trail) /\ Len(trail) = 0 /\ IsSeq(replay.relations) /\ Len(replay.relations) = 0
    BY <2>1, EmptyIsSeq
  <2>3. 0 + 1 = 1 /\ 1..0 = {}  OBVIOUS
  <2>4. replay.tr = TrAt(trail, 1) /\ replay.claims = ClaimsAt(trail, 1)  BY <2>1, FirstPosition
  <2>5. replay.wits = Vals(replay.claims)
    <3>1. Vals(<<>>) = <<>>  BY VoidVals
    <3>2. QED  BY <2>1, <3>1
  <2>6. QED  BY <2>1, <2>2, <2>3, <2>4, <2>5 DEF ReplayInv, Replayed, Proved
<1>4. QED  BY <1>1, <1>2, <1>3 DEF SessionInv, ProverInv, ReaderInv

\* Every step of every actor keeps the invariant.
LEMMA NextSession == SessionInv /\ [Next]_vars => SessionInv'
<1> SUFFICES ASSUME SessionInv, [Next]_vars PROVE SessionInv'  OBVIOUS
<1>1. ProverInv /\ ReaderInv /\ ReplayInv  BY DEF SessionInv, ProverInv, ReaderInv
<1>2. SUFFICES ProverInv' /\ ReaderInv' /\ ReplayInv'  BY DEF SessionInv, ProverInv, ReaderInv
<1>3. CASE Prove
  <2>1. ProverInv'  BY <1>1, <1>3, ProvingKeepsProver
  <2>2. pc \in {"idle", "proving"} /\ pc' \in {"proving", "failed", "stored"} /\ replay' = replay
    <3>1. ASSUME ProveChunksWithCache \/ ProveChunksWithPerf \/ ProveRun \/ ProveAndPackage
          PROVE  pc = "idle" /\ pc' \in {"proving", "failed"} /\ replay' = replay
      BY <3>1 DEF ProveChunksWithCache, ProveChunksWithPerf, ProveRun, ProveAndPackage, StartProving,
                  RefuseSchedule
    <3>2. ASSUME ProveChunk
          PROVE  pc = "proving" /\ pc' \in {"proving", "failed"} /\ replay' = replay
      BY <3>2 DEF ProveChunk
    <3>3. ASSUME FinishProving
          PROVE  pc = "proving" /\ pc' \in {"stored", "failed"} /\ replay' = replay
      BY <3>3 DEF FinishProving
    <3>4. QED  BY <1>3, <3>1, <3>2, <3>3 DEF Prove
  <2>3. ReaderInv'  BY <2>2, NoReader DEF ReaderInv, VerifierInv, AcceptedInv, HonestSessionAccepted
  <2>4. ~Proved /\ IsSeq(trail)'  BY <2>1, <2>2 DEF ProverInv, History, Proved
  <2>5. ReplayInv'  BY <1>1, <2>2, <2>4, IdleReplay
  <2>6. QED  BY <2>1, <2>3, <2>5
<1>4. CASE DamageStore
  <2>1. /\ pc = "stored" /\ pc' = "stored"
        /\ session' = session /\ trail' = trail /\ replay' = replay
    BY <1>4 DEF DamageStore
  <2>2. ProverInv'  BY <1>1, <1>4, DamageKeepsProver
  <2>3. ReaderInv'  BY <2>1 DEF ReaderInv, VerifierInv, AcceptedInv, HonestSessionAccepted
  <2>4. Proved'  BY <2>1 DEF Proved
  <2>5. QED  BY <1>1, <2>1, <2>2, <2>3, <2>4, ReplayStays
<1>5. CASE Verify
  <2>1. /\ UNCHANGED <<prover, session, package, trail, damage, replay>> /\ Proved /\ Proved'
    <3>1. ASSUME VerifyChunks \/ VerifyRun \/ VerifyPackaged \/ VerifyPackagedPrecomputed
          PROVE  /\ UNCHANGED <<prover, session, package, trail, damage, replay>>
                 /\ pc = "stored" /\ pc' \in {"verifying", "rejected"}
      BY <3>1 DEF VerifyChunks, VerifyRun, VerifyPackaged, VerifyPackagedPrecomputed, StartVerifying
    <3>2. ASSUME VerifyChunk
          PROVE  /\ UNCHANGED <<prover, session, package, trail, damage, replay>>
                 /\ pc = "verifying" /\ pc' \in {"verifying", "rejected"}
      BY <3>2 DEF VerifyChunk
    <3>3. ASSUME FinishVerifying
          PROVE  /\ UNCHANGED <<prover, session, package, trail, damage, replay>>
                 /\ pc = "verifying" /\ pc' \in {"accepted", "rejected"}
      BY <3>3 DEF FinishVerifying
    <3>4. QED  BY <1>5, <3>1, <3>2, <3>3 DEF Verify, Proved
  <2>2. ProverInv'  BY <1>1, <2>1, ReadersKeepProver
  <2>3. ReaderInv'
    BY <1>1, <1>5, EntriesKeepReader, ChunkKeepsReader, FinishKeepsReader DEF Verify
  <2>4. ReplayInv'  BY <1>1, <2>1, ReplayStays
  <2>5. QED  BY <2>2, <2>3, <2>4
<1>6. CASE ReplayChunk
  <2>1. pc' = pc /\ pc = "stored" /\ UNCHANGED <<prover, session, package, trail, damage>>
    BY <1>6 DEF ReplayChunk
  <2>2. ProverInv'  BY <1>1, <2>1, ReadersKeepProver
  <2>3. ReaderInv'  BY <2>1 DEF ReaderInv, VerifierInv, AcceptedInv, HonestSessionAccepted
  <2>4. ReplayInv'  BY <1>1, <1>6, ReplayKeepsReplay
  <2>5. QED  BY <2>2, <2>3, <2>4
<1>7. CASE UNCHANGED vars
  <2>1. /\ pc' = pc /\ verifier' = verifier /\ replay' = replay
        /\ UNCHANGED <<prover, session, package, trail, damage>>
    BY <1>7 DEF vars
  <2>2. ProverInv'  BY <1>1, <2>1, ReadersKeepProver
  <2>3. Stored' = Stored  BY <2>1, StoredStays
  <2>4. ReaderInv'
    BY <1>1, <2>1, <2>3 DEF ReaderInv, VerifierInv, AcceptedInv, HonestSessionAccepted, Packaged
  <2>5. Proved => Proved'  BY <2>1 DEF Proved
  <2>6. ReplayInv'  BY <1>1, <2>1, <2>5, ReplayStays
  <2>7. QED  BY <2>2, <2>4, <2>6
<1>8. QED  BY <1>3, <1>4, <1>5, <1>6, <1>7 DEF Next

\* In every state a session, its trail, its package and what is stored of it are
\* one run of the chunk transition, and verifier and replayer follow that run.
THEOREM SessionInvariance == Spec => []SessionInv
<1>1. QED  BY InitSession, NextSession, PTL DEF Spec

-----------------------------------------------------------------------------
(* What the invariant says to callers.                                     *)

\* Whatever chunks, steps, schedules and modes are given to whichever entry
\* point of run.rs, the prover carries nothing or one digit set at one point,
\* each claim beside the witness that opens it.
THEOREM CarryStaysCoherent == Spec => []CarryCoherent
<1>1. ASSUME SessionInv PROVE CarryCoherent
  <2> DEFINE claims == prover.claims
  <2>1. /\ claims = ClaimsAt(trail, Len(trail) + 1) /\ prover.wits = Vals(claims)
        /\ IsSeq(trail) /\ \A i \in 1..(Len(trail) + 1) : Position(trail, i)
    BY <1>1 DEF SessionInv, History
  <2>2. Len(trail) + 1 \in 1..(Len(trail) + 1)  BY <2>1, IsSeqLen
  <2>3. Carry(claims)  BY <2>1, <2>2 DEF Position
  <2>4. /\ IsSeq(claims) /\ DOMAIN claims = 1..Len(claims) /\ Len(claims) \in {0, KRho}
        /\ SharedPoint(claims) /\ \A i \in DOMAIN claims : claims[i].com = claims[i].val
    BY <2>3, IsSeqLen DEF Carry
  <2>5. Len(prover.wits) = Len(claims) /\ \A i \in DOMAIN claims : prover.wits[i] = claims[i].val
    BY <2>1, <2>4, ValsSeq
  <2>6. QED  BY <2>4, <2>5 DEF CarryCoherent
<1>2. QED  BY <1>1, SessionInvariance, PTL

\* The lists of prover, session, verifier and replayer keep the lengths that
\* relate them, for chunk lists of any length.
THEOREM ListsInStep == Spec => []SessionTypeOK
<1>1. ASSUME SessionInv PROVE SessionTypeOK
  <2>1. /\ History(prover, session, trail) /\ PhaseInv /\ VerifierInv /\ Replayed(replay, session, trail)
    BY <1>1 DEF SessionInv, ReplayInv
  <2>2. QED  BY <2>1 DEF SessionTypeOK, History, PhaseInv, VerifierInv, Replayed, Proved
<1>2. QED  BY <1>1, SessionInvariance, PTL

\* After every chunk it lets through, the verifier is in the state the prover
\* was in after that chunk, whatever it was given and whatever became of the store.
THEOREM VerifierFollowsProver == Spec => []TranscriptsAgree
<1>1. ASSUME SessionInv PROVE TranscriptsAgree
  <2> SUFFICES ASSUME pc \in {"verifying", "accepted"}, verifier.next > 1
               PROVE  /\ verifier.tr = trail[verifier.next - 1].tr
                      /\ verifier.claims = trail[verifier.next - 1].claims
    BY DEF TranscriptsAgree
  <2>1. /\ verifier.next \in 1..(Len(trail) + 1)
        /\ verifier.tr = TrAt(trail, verifier.next) /\ verifier.claims = ClaimsAt(trail, verifier.next)
    BY <1>1 DEF SessionInv, VerifierInv
  <2>2. verifier.next # 1  BY <2>1
  <2>3. QED  BY <2>1, <2>2 DEF TrAt, ClaimsAt
<1>2. QED  BY <1>1, SessionInvariance, PTL

\* A whole session, checked against the data it was proved for, is never
\* rejected, by any entry point, in any mode that binds instances as the prover did.
THEOREM HonestSessionsPass == Spec => []HonestSessionAccepted
<1>1. SessionInv => HonestSessionAccepted  BY DEF SessionInv
<1>2. QED  BY <1>1, SessionInvariance, PTL

\* The replayer of the final relations comes, chunk by chunk, to the prover's
\* transcript, carry and relation digests.
THEOREM ReplayFollowsProver == Spec => []ReplayAgrees
<1>1. ASSUME SessionInv PROVE ReplayAgrees
  <2> DEFINE n == Len(replay.relations)
  <2>1. /\ replay.ok /\ IsSeq(replay.relations)
        /\ replay.tr = TrAt(trail, n + 1) /\ replay.claims = ClaimsAt(trail, n + 1)
        /\ \A i \in 1..n : replay.relations[i] = session.chunks[i].relation
    BY <1>1 DEF SessionInv, ReplayInv, Replayed
  <2>2. n \in Nat  BY <2>1, IsSeqLen
  <2>3. n > 0 => n + 1 # 1 /\ (n + 1) - 1 = n  BY <2>2
  <2> HIDE DEF n
  <2>4. n > 0 => replay.tr = trail[n].tr /\ replay.claims = trail[n].claims
    BY <2>1, <2>3 DEF TrAt, ClaimsAt
  <2>5. QED  BY <2>1, <2>4 DEF ReplayAgrees, n
<1>2. QED  BY <1>1, SessionInvariance, PTL

\* Whichever entry point is used, a session completes exactly when its layout is
\* a cut of its steps, every witness opens its commitment and satisfies the
\* constraints, and every chunk fits the norm bound.
THEOREM CompletesExactlyWhenFeasible == Spec => []OutcomeIsFeasibility
<1>1. ASSUME SessionInv PROVE OutcomeIsFeasibility
  <2>1. History(prover, session, trail) /\ PhaseInv  BY <1>1 DEF SessionInv
  <2>2. pc = "failed" => ~Feasible(prover)  BY <2>1 DEF PhaseInv
  <2>3. ASSUME Proved PROVE Feasible(prover)
    <3> DEFINE chunks == prover.chunks
               n == Len(trail)
    <3>1. /\ n \in Nat /\ DOMAIN chunks = 1..n /\ ChunkList(chunks)
          /\ LayoutValid(prover.sched, PublicAll(chunks))
      BY <2>1, <2>3, IsSeqLen DEF History, PhaseInv, ChunkList
    <3>2. LayoutValid(prover.sched, chunks)  BY <3>1, PublicLayout
    <3>3. ASSUME NEW i \in 1..n
          PROVE  Opens(chunks[i]) /\ Len(chunks[i].steps) + (IF i = 1 THEN 0 ELSE KRho) <= MaxClaims
      <4>1. ChunkShape(prover, session, trail, i)  BY <2>1, ChunkFacts
      <4>2. i \in 1..(n + 1)  BY <3>1
      <4>3. Position(trail, i)  BY <2>1, <4>2 DEF History
      <4>4. Len(ClaimsAt(trail, i)) = IF i = 1 THEN 0 ELSE KRho  BY <4>3 DEF Position
      <4>5. QED  BY <4>1, <4>4 DEF ChunkShape
    <3>4. WitnessesOpen(chunks)  BY <3>1, <3>3 DEF WitnessesOpen, Opens
    <3>5. FitsNormBound(chunks)  BY <3>1, <3>3 DEF FitsNormBound
    <3>6. QED  BY <3>2, <3>4, <3>5 DEF Feasible
  <2>4. QED  BY <2>2, <2>3 DEF OutcomeIsFeasibility, Feasible
<1>2. QED  BY <1>1, SessionInvariance, PTL

\* Two sessions of one length whose final proof digests agree carry the same
\* relation digests.
LEMMA DigestFixesRelations ==
  ASSUME NEW a, NEW b, NEW n \in Nat, Len(a.chunks) = n, Len(b.chunks) = n,
         DOMAIN a.chunks = 1..n, DOMAIN b.chunks = 1..n,
         NEW da, NEW db, Len(da) = n, Len(db) = n, NEW statement,
         FinalProofDigest(statement, a, da, CarriedRelations(a))
           = FinalProofDigest(statement, b, db, CarriedRelations(b))
  PROVE  \A i \in 1..n : a.chunks[i].relation = b.chunks[i].relation
<1> DEFINE ra == CarriedRelations(a)
           rb == CarriedRelations(b)
           ea == [i \in 1..n |-> CompactDigest(a.chunks[i], da[i], ra[i])]
           eb == [i \in 1..n |-> CompactDigest(b.chunks[i], db[i], rb[i])]
<1>1. /\ FinalProofDigest(statement, a, da, ra)
           = <<"final", statement, MetaWords(a.sched), Len(a.chunks), Len(a.final), ea>>
      /\ FinalProofDigest(statement, b, db, rb)
           = <<"final", statement, MetaWords(b.sched), Len(b.chunks), Len(b.final), eb>>
  BY DEF FinalProofDigest
<1>2. \A i \in 1..n : ra[i] = a.chunks[i].relation /\ rb[i] = b.chunks[i].relation
  BY DEF CarriedRelations
<1>3. \A i \in 1..n : /\ ea[i] = CompactDigest(a.chunks[i], da[i], ra[i])
                      /\ eb[i] = CompactDigest(b.chunks[i], db[i], rb[i])
  OBVIOUS
<1> HIDE DEF ea, eb, ra, rb
<1>4. ea = eb
  <2>1. FinalProofDigest(statement, a, da, ra) = FinalProofDigest(statement, b, db, rb)  BY DEF ra, rb
  <2>2. QED  BY <1>1, <2>1
<1>5. ASSUME NEW i \in 1..n PROVE ra[i] = rb[i]
  <2>1. CompactDigest(a.chunks[i], da[i], ra[i]) = CompactDigest(b.chunks[i], db[i], rb[i])
    BY <1>3, <1>4
  <2>2. QED  BY <2>1 DEF CompactDigest
<1>6. QED  BY <1>2, <1>5

\* What a verifier has accepted: the stored session is as long as the proved
\* one, so every chunk proof of it and the footer were checked at their place.
LEMMA AcceptedIsWhole ==
  ASSUME SessionInv, pc = "accepted"
  PROVE  /\ StoredShape /\ Len(trail) \in Nat
         /\ Len(Stored.chunks) = Len(trail) /\ Len(verifier.chunks) = Len(trail)
         /\ verifier.next = Len(trail) + 1
         /\ verifier.claims = prover.claims /\ Stored.final = session.final
<1>1. /\ Records /\ History(prover, session, trail) /\ PhaseInv /\ StorageInv /\ Proved
      /\ VerifierInv /\ AcceptedInv
  BY DEF SessionInv, Proved
<1>2. StoredShape  BY <1>1, StoredFacts
<1> DEFINE n == Len(trail)
           m == Len(Stored.chunks)
<1>3. /\ n \in Nat /\ m \in Nat /\ Len(session.chunks) = n /\ session.final = prover.claims
      /\ prover.claims = ClaimsAt(trail, n + 1)
  BY <1>1, <1>2, IsSeqLen DEF History, PhaseInv, StoredShape
<1>4. /\ verifier.next = m + 1 /\ Len(verifier.chunks) = m /\ verifier.claims = Stored.final
      /\ verifier.next \in 1..(n + 1) /\ verifier.claims = ClaimsAt(trail, m + 1)
  BY <1>1 DEF AcceptedInv, VerifierInv
<1>5. CASE damage = "old_footer"
  <2>1. Stored.chunks = session.chunks /\ Stored.final = ClaimsAt(trail, n) /\ n >= 1
    BY <1>2, <1>5 DEF StoredShape
  <2>2. m = n /\ ClaimsAt(trail, n) = ClaimsAt(trail, n + 1)  BY <1>3, <1>4, <2>1
  <2>3. n \in 1..(n + 1) /\ n + 1 \in 1..(n + 1)  BY <1>3, <2>1
  <2> HIDE DEF n, m
  <2>4. n = n + 1  BY <1>1, <2>2, <2>3, ClaimsDiffer DEF n
  <2>5. QED  BY <1>3, <2>4
<1>6. CASE damage # "old_footer"
  <2>1. Stored.final = session.final  BY <1>2, <1>6 DEF StoredShape
  <2>2. ClaimsAt(trail, m + 1) = ClaimsAt(trail, n + 1)  BY <1>3, <1>4, <2>1
  <2>3. m + 1 \in 1..(n + 1) /\ n + 1 \in 1..(n + 1)  BY <1>3, <1>4
  <2> HIDE DEF n, m
  <2>4. m + 1 = n + 1  BY <1>1, <2>2, <2>3, ClaimsDiffer DEF n
  <2>5. m = n  BY <1>3, <2>4
  <2>6. QED  BY <1>2, <1>3, <1>4, <2>1, <2>5 DEF m, n
<1>7. QED  BY <1>5, <1>6

\* What a verifier accepts is what was proved: the chunks in order and complete,
\* the final claims, the chunk proofs but for the relation digest they carry;
\* a package fixes the schedule too, and its precomputed check those digests.
THEOREM AcceptedWasProved == Spec => []AcceptedIsProved
<1>1. ASSUME SessionInv, pc = "accepted"
      PROVE  /\ verifier.chunks = PublicAll(prover.chunks)
             /\ verifier.claims = prover.claims
             /\ prover.chunks # <<>> => SameBinding(prover.mode, verifier.mode)
             /\ Stored.final = session.final
             /\ DOMAIN Stored.chunks = DOMAIN session.chunks
             /\ \A i \in DOMAIN session.chunks :
                  Stored.chunks[i] = [session.chunks[i] EXCEPT !.relation = Stored.chunks[i].relation]
             /\ verifier.entry \in {"packaged", "precomputed"} => Stored.sched = session.sched
             /\ verifier.entry = "precomputed" => Stored = session
  <2> DEFINE n == Len(trail)
             public == PublicAll(prover.chunks)
  <2>1. /\ Records /\ History(prover, session, trail) /\ PhaseInv /\ VerifierInv /\ ProverInv /\ Proved
    BY <1>1 DEF SessionInv, Proved, ProverInv
  <2>2. /\ StoredShape /\ n \in Nat /\ Len(Stored.chunks) = n /\ Len(verifier.chunks) = n
        /\ verifier.next = n + 1 /\ verifier.claims = prover.claims /\ Stored.final = session.final
    BY <1>1, AcceptedIsWhole
  <2>3. /\ IsSeq(verifier.chunks) /\ Len(verifier.digests) = Len(verifier.chunks)
        /\ \A i \in 1..(verifier.next - 1) :
             /\ SameButRelation(Stored.chunks[i], session.chunks[i])
             /\ verifier.chunks[i] = Public(prover.chunks[i])
        /\ verifier.next > 1 => SameBinding(prover.mode, verifier.mode)
        /\ verifier.entry \in {"packaged", "precomputed"} => Packaged
    BY <1>1, <2>1 DEF VerifierInv
  <2>4. verifier.next - 1 = n  BY <2>2
  <2>5. /\ ChunkList(prover.chunks) /\ Len(prover.chunks) = n /\ IsSeq(prover.chunks)
        /\ IsSeq(session.chunks) /\ Len(session.chunks) = n /\ DOMAIN session.chunks = 1..n
        /\ IsSeq(Stored.chunks) /\ DOMAIN Stored.chunks = 1..n
    BY <2>1, <2>2, IsSeqLen DEF History, PhaseInv, StoredShape, ChunkList
  <2>6. /\ ChunkList(public) /\ IsSeq(public) /\ Len(public) = n
        /\ \A i \in 1..n : public[i] = Public(prover.chunks[i])
    BY <2>5, PublicAllFacts DEF ChunkList
  <2> HIDE DEF n, public
  <2>7. verifier.chunks = public
    <3>1. \A i \in 1..n : verifier.chunks[i] = public[i]  BY <2>3, <2>4, <2>6
    <3>2. QED  BY <2>2, <2>3, <2>6, <3>1, SameSeq
  <2>8. prover.chunks # <<>> => SameBinding(prover.mode, verifier.mode)
    <3>1. prover.chunks # <<>> => n # 0  BY <2>5, LenZero
    <3>2. n # 0 => n + 1 > 1  BY <2>2
    <3>3. QED  BY <2>2, <2>3, <3>1, <3>2
  <2>9. \A i \in 1..n :
          Stored.chunks[i] = [session.chunks[i] EXCEPT !.relation = Stored.chunks[i].relation]
    BY <2>3, <2>4 DEF SameButRelation
  <2>10. Packaged => Stored.sched = session.sched
    BY <2>1, PackageFacts DEF Packaged
  <2>11. ASSUME verifier.entry = "precomputed" PROVE Stored = session
    <3>1. Packaged  BY <2>3, <2>11
    <3> DEFINE digests == PublicChunkDigests(public)
    <3>2. /\ package.made /\ Stored.sched = session.sched
          /\ FinalProofDigest(package.digest, Stored, verifier.digests, CarriedRelations(Stored))
               = FinalProofDigest(package.digest, session, digests, CarriedRelations(session))
      BY <2>1, <2>10, <2>11, <3>1, PackageFacts DEF Packaged, public
    <3>3. Len(digests) = n /\ Len(verifier.digests) = n  BY <2>2, <2>3, <2>6, DigestsLen
    <3> HIDE DEF digests
    <3>4. \A i \in 1..n : Stored.chunks[i].relation = session.chunks[i].relation
      BY <2>2, <2>5, <3>2, <3>3, DigestFixesRelations
    <3>5. ASSUME NEW i \in 1..n PROVE Stored.chunks[i] = session.chunks[i]
      <4> DEFINE c == session.chunks[i]
                 d == Stored.chunks[i]
      <4>1. ChunkShape(prover, session, trail, i)  BY <2>1, ChunkFacts DEF n
      <4>2. IsChunkProof(c)
        <5>1. c = [chunk |-> Public(prover.chunks[i]),
                   relation |-> ChunkRelationDigest(c.outputs, c.parent, c.children),
                   outputs |-> c.outputs, header |-> c.header, rounds |-> c.rounds,
                   parent |-> c.parent, children |-> c.children]
          BY <4>1 DEF ChunkShape
        <5> HIDE DEF c
        <5>2. QED  BY <5>1 DEF IsChunkProof
      <4>3. d = [c EXCEPT !.relation = d.relation] /\ d.relation = c.relation  BY <2>9, <3>4
      <4> HIDE DEF c, d
      <4>4. d = [c EXCEPT !.relation = c.relation]  BY <4>3
      <4>5. d = c  BY <4>2, <4>4 DEF IsChunkProof
      <4>6. QED  BY <4>5 DEF c, d
    <3>6. Stored.chunks = session.chunks  BY <2>2, <2>5, <3>5, SameSeq
    <3>7. Stored = [sched |-> Stored.sched, chunks |-> Stored.chunks, final |-> Stored.final]
      BY <2>2 DEF StoredShape
    <3>8. session = [sched |-> session.sched, chunks |-> session.chunks, final |-> session.final]
      BY <2>1 DEF Records
    <3>9. QED  BY <2>2, <3>2, <3>6, <3>7, <3>8
  <2>12. QED  BY <2>2, <2>3, <2>5, <2>7, <2>8, <2>9, <2>10, <2>11 DEF public
<1>2. SessionInv => AcceptedIsProved  BY <1>1 DEF AcceptedIsProved
<1>3. QED  BY <1>2, SessionInvariance, PTL
=============================================================================
