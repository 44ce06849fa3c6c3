-------------------------- MODULE Rv64PipelineProof --------------------------
(***************************************************************************)
(* Proofs about the RV64IM front end as a whole: no check refuses the      *)
(* trace of an honest run, and stage 2's replay of the rows runs the       *)
(* machine.  Rv64Proof says what each lowered sequence does; here the      *)
(* sequences are laid one after another, stage 2's timelines follow them   *)
(* row by row, and stage 3's continuity chain is theirs.                   *)
(***************************************************************************)
EXTENDS Rv64Proof

-----------------------------------------------------------------------------
(* The events still to be consumed.                                        *)

\* h[c] are the first c pieces one after another; s is what of all N follows them.
Chain(h, p, N) ==
  /\ N \in Nat /\ IsSeq(h[0])
  /\ \A c \in 1..N : IsSeq(p[c]) /\ h[c] = h[c - 1] \o p[c]

Follows(s, h, c, N) ==
  /\ IsSeq(s) /\ Len(h[N]) = Len(h[c]) + Len(s)
  /\ \A i \in 1..Len(s) : s[i] = h[N][Len(h[c]) + i]

\* The first pieces are where they were when the later ones follow them.
LEMMA ChainGrows ==
  ASSUME NEW h, NEW p, NEW N, Chain(h, p, N), NEW c \in 0..N
  PROVE  /\ IsSeq(h[c]) /\ IsSeq(h[N]) /\ Len(h[c]) \in Nat /\ Len(h[N]) \in Nat
         /\ Len(h[c]) <= Len(h[N]) /\ \A i \in 1..Len(h[c]) : h[N][i] = h[c][i]
<1> DEFINE S == {m \in 0..N : IsSeq(h[m])}
           T == {m \in 0..N : c <= m => Len(h[c]) <= Len(h[m]) /\ \A i \in 1..Len(h[c]) : h[m][i] = h[c][i]}
<1>1. N \in Nat  BY DEF Chain
<1>2. ASSUME NEW m \in 0..N, m < N
      PROVE  m + 1 \in 1..N /\ m + 1 \in 0..N /\ IsSeq(p[m + 1]) /\ h[m + 1] = h[m] \o p[m + 1]
  <2>1. m + 1 \in 1..N /\ m + 1 \in 0..N /\ (m + 1) - 1 = m  BY <1>1, <1>2
  <2>2. IsSeq(p[m + 1]) /\ h[m + 1] = h[(m + 1) - 1] \o p[m + 1]  BY <2>1 DEF Chain
  <2>3. h[(m + 1) - 1] = h[m]  BY <2>1
  <2>4. QED  BY <2>1, <2>2, <2>3
<1>3. \A m \in 0..N : m \in S
  <2>1. 0 \in S  BY <1>1 DEF Chain
  <2>2. ASSUME NEW m \in 0..N, m \in S /\ m < N PROVE m + 1 \in S
    <3>1. IsSeq(h[m] \o p[m + 1])  BY <1>2, <2>2, ConcatSeq
    <3>2. QED  BY <1>2, <2>2, <3>1
  <2> HIDE DEF S
  <2>3. QED  BY <1>1, <2>1, <2>2, InductionUpTo
<1>4. \A m \in 0..N : IsSeq(h[m]) /\ Len(h[m]) \in Nat  BY <1>3, IsSeqLen
<1>5. \A m \in 0..N : m \in T
  <2>1. 0 \in T
    <3>1. c <= 0 => c = 0  OBVIOUS
    <3>2. QED  BY <1>1, <1>4, <3>1
  <2>2. ASSUME NEW m \in 0..N, m \in T /\ m < N PROVE m + 1 \in T
    <3>1. m + 1 \in 0..N /\ IsSeq(p[m + 1]) /\ h[m + 1] = h[m] \o p[m + 1]  BY <1>2, <2>2
    <3>2. CASE c = m + 1
      <4>1. Len(h[c]) <= Len(h[m + 1])  BY <1>4, <3>2
      <4>2. QED  BY <3>1, <3>2, <4>1
    <3>3. CASE c <= m
      <4>1. Len(h[c]) <= Len(h[m]) /\ \A i \in 1..Len(h[c]) : h[m][i] = h[c][i]  BY <2>2, <3>3
      <4>2. /\ Len(h[m + 1]) = Len(h[m]) + Len(p[m + 1])
            /\ \A i \in 1..Len(h[m]) : h[m + 1][i] = h[m][i]
        <5> DEFINE u == h[m]
                   v == p[m + 1]
        <5>1. IsSeq(u) /\ IsSeq(v)  BY <1>4, <3>1
        <5>2. h[m + 1] = u \o v  BY <3>1
        <5> HIDE DEF u, v
        <5>3. Len(u \o v) = Len(u) + Len(v) /\ \A i \in 1..Len(u) : (u \o v)[i] = u[i]
          BY ONLY <5>1, ConcatSeq
        <5>4. Len(h[m + 1]) = Len(u) + Len(v) /\ \A i \in 1..Len(u) : h[m + 1][i] = u[i]  BY <5>2, <5>3
        <5>5. QED  BY <5>4 DEF u, v
      <4>3. Len(p[m + 1]) \in Nat /\ Len(h[m]) \in Nat /\ Len(h[c]) \in Nat  BY <1>4, <3>1, IsSeqLen
      <4> DEFINE x == Len(h[c])
                 y == Len(h[m])
                 z == Len(h[m + 1])
                 w == Len(p[m + 1])
      <4>4. x \in Nat /\ y \in Nat /\ w \in Nat /\ z = y + w /\ x <= y  BY <4>1, <4>2, <4>3
      <4>5. (\A i \in 1..y : h[m + 1][i] = h[m][i]) /\ (\A i \in 1..x : h[m][i] = h[c][i])
        BY <4>1, <4>2
      <4> HIDE DEF x, y, z, w
      <4>6. x <= z /\ \A i \in 1..x : h[m + 1][i] = h[c][i]  BY <4>4, <4>5
      <4>7. QED  BY <3>1, <4>6 DEF x, z
    <3>4. c <= m + 1 => c = m + 1 \/ c <= m  OBVIOUS
    <3>5. CASE ~(c <= m + 1)  BY <3>1, <3>5
    <3>6. QED  BY <3>2, <3>3, <3>4, <3>5
  <2> HIDE DEF T
  <2>3. QED  BY <1>1, <2>1, <2>2, InductionUpTo
<1>6. N \in 0..N /\ c <= N  BY <1>1
<1>7. N \in T  BY <1>5, <1>6
<1>8. QED  BY <1>4, <1>6, <1>7

\* The next piece is a prefix of what follows; without it, what follows the next piece is left.
LEMMA NextPiece ==
  ASSUME NEW h, NEW p, NEW N, Chain(h, p, N), NEW c \in 0..N, c < N, NEW s, Follows(s, h, c, N)
  PROVE  IsPrefix(p[c + 1], s) /\ Follows(Drop(s, Len(p[c + 1])), h, c + 1, N)
<1> DEFINE a == h[c]
           b == h[c + 1]
           e == h[N]
           q == p[c + 1]
           t == Drop(s, Len(q))
<1>1. N \in Nat /\ c + 1 \in 1..N /\ c + 1 \in 0..N /\ (c + 1) - 1 = c  BY DEF Chain
<1>2. IsSeq(q) /\ b = a \o q  BY <1>1 DEF Chain
<1>3. IsSeq(a) /\ IsSeq(e) /\ Len(a) \in Nat /\ Len(e) \in Nat  BY ChainGrows
<1>4. IsSeq(b) /\ Len(b) <= Len(e) /\ \A i \in 1..Len(b) : e[i] = b[i]  BY <1>1, ChainGrows
<1>5. IsSeq(s) /\ Len(e) = Len(a) + Len(s) /\ \A i \in 1..Len(s) : s[i] = e[Len(a) + i]
  BY DEF Follows
<1> HIDE DEF a, b, e, q
<1>6. Len(b) = Len(a) + Len(q) /\ \A i \in 1..Len(q) : b[Len(a) + i] = q[i]  BY <1>2, <1>3, ConcatSeq
<1> DEFINE x == Len(a)
           y == Len(q)
           z == Len(s)
<1>7. x \in Nat /\ y \in Nat /\ z \in Nat /\ y <= z
  <2>1. x \in Nat /\ y \in Nat /\ z \in Nat /\ Len(b) = x + y /\ Len(e) = x + z /\ Len(b) <= Len(e)
    BY <1>2, <1>3, <1>4, <1>5, <1>6, IsSeqLen
  <2> HIDE DEF x, y, z
  <2>2. QED  BY <2>1
<1>8. \A i \in 1..y : s[i] = q[i]
  <2> TAKE i \in 1..y
  <2>1. i \in 1..z /\ x + i \in 1..Len(b)  BY <1>6, <1>7
  <2>2. s[i] = e[x + i] /\ e[x + i] = b[x + i] /\ b[x + i] = q[i]  BY <1>4, <1>5, <1>6, <2>1
  <2>3. QED  BY <2>2
<1>9. IsPrefix(q, s)
  <2> DEFINE u == SubSeq(s, 1, y)
  <2>1. 1 \in Nat \ {0} /\ y \in Nat /\ y <= Len(s) /\ IsSeq(s)  BY <1>5, <1>7
  <2>2. /\ IsSeq(u) /\ Len(u) = (IF 1 <= y THEN y - 1 + 1 ELSE 0)
        /\ \A i \in 1..(y - 1 + 1) : u[i] = s[1 + i - 1]
    BY ONLY <2>1, SubSeqSeq
  <2> HIDE DEF u
  <2>3. Len(u) = y /\ \A i \in 1..y : u[i] = s[i]  BY <1>7, <2>2
  <2>4. u = q  BY <1>2, <1>8, <2>2, <2>3, SameSeq
  <2>5. SubSeq(q, 1, Len(q)) = q  BY <1>2, WholeSeq
  <2>6. QED  BY <1>7, <2>4, <2>5 DEF IsPrefix, u
<1>10. IsSeq(t) /\ Len(t) = z - y /\ \A i \in 1..(z - y) : t[i] = s[y + i]
  <2>1. y + 1 \in Nat \ {0} /\ z \in Nat /\ z <= Len(s) /\ IsSeq(s)  BY <1>5, <1>7
  <2>2. /\ IsSeq(SubSeq(s, y + 1, z)) /\ Len(SubSeq(s, y + 1, z)) = (IF y + 1 <= z THEN z - (y + 1) + 1 ELSE 0)
        /\ \A i \in 1..(z - (y + 1) + 1) : SubSeq(s, y + 1, z)[i] = s[(y + 1) + i - 1]
    BY ONLY <2>1, SubSeqSeq
  <2>3. t = SubSeq(s, y + 1, z)  BY DEF Drop
  <2> HIDE DEF t, x, y, z
  <2>4. \A i \in 1..(z - y) : (y + 1) + i - 1 = y + i /\ i \in 1..(z - (y + 1) + 1)  BY <1>7
  <2>5. QED  BY <1>7, <2>2, <2>3, <2>4
<1> HIDE DEF t
<1>11. \A i \in 1..(z - y) : t[i] = e[Len(b) + i]
  <2> TAKE i \in 1..(z - y)
  <2>1. y + i \in 1..z /\ x + (y + i) = Len(b) + i  BY <1>6, <1>7
  <2>2. QED  BY <1>5, <1>10, <2>1
<1>12. Len(e) = Len(b) + Len(t)  BY <1>5, <1>6, <1>7, <1>10
<1>13. Follows(t, h, c + 1, N)  BY <1>10, <1>11, <1>12 DEF Follows, e, b
<1>14. QED  BY <1>9, <1>13 DEF t, q

\* At first all is left, at last nothing.
LEMMA ChainEnds ==
  ASSUME NEW h, NEW p, NEW N, Chain(h, p, N), NEW s
  PROVE  /\ h[0] = <<>> /\ s = h[N] => Follows(s, h, 0, N)
         /\ Follows(s, h, N, N) => s = <<>>
<1>1. N \in Nat /\ 0 \in 0..N /\ N \in 0..N  BY DEF Chain
<1>2. IsSeq(h[N]) /\ Len(h[N]) \in Nat  BY <1>1, ChainGrows
<1>3. ASSUME h[0] = <<>>, s = h[N] PROVE Follows(s, h, 0, N)
  <2>1. Len(h[0]) = 0  BY <1>3, EmptyIsSeq
  <2>2. QED  BY <1>2, <1>3, <2>1 DEF Follows
<1>4. ASSUME Follows(s, h, N, N) PROVE s = <<>>
  <2>1. IsSeq(s) /\ Len(h[N]) = Len(h[N]) + Len(s)  BY <1>4 DEF Follows
  <2>2. Len(s) = 0
    <3>1. Len(s) \in Nat  BY <2>1, IsSeqLen
    <3>2. QED  BY <1>2, <2>1, <3>1
  <2>3. QED  BY <2>1, <2>2, LenZero
<1>5. QED  BY <1>3, <1>4

\* A row's events are sequences.
LEMMA EventsAreSeqs ==
  ASSUME NEW row
  PROVE  IsSeq(RegisterReads(row)) /\ IsSeq(RegisterWrites(row)) /\ IsSeq(RamEvents(row))
<1> DEFINE a == Rs1Read(row)
           b == Rs2Read(row)
           w == [trace_index |-> row.trace_index, step_index |-> row.step_index,
                 reg |-> row.rd, previous |-> row.rd_before, next |-> row.rd_after]
           m == [trace_index |-> row.trace_index, step_index |-> row.step_index,
                 kind |-> IF row.writes_ram THEN "Write" ELSE "Read",
                 addr |-> CanonicalRamAddr(row), previous |-> row.memory_before,
                 next |-> IF row.memory_after # None THEN row.memory_after ELSE row.memory_before]
           reads == RegisterReads(row)
           two == <<a, b>>
           one == <<a>>
           other == <<b>>
           none == <<>>
           ws == <<w>>
           ms == <<m>>
           writes == RegisterWrites(row)
           ram == RamEvents(row)
<1>1. reads = two \/ reads = one \/ reads = other \/ reads = none  BY ReadsAre
<1>2. writes = IF row.writes_rd THEN ws ELSE none  BY DEF RegisterWrites
<1>3. ram = IF row.effective_addr # None /\ row.memory_before # None THEN ms ELSE none  BY DEF RamEvents
<1> HIDE DEF a, b, w, m, reads, writes, ram
<1>4. IsSeq(two) /\ IsSeq(one) /\ IsSeq(none)  BY ONLY ShortSeqs
<1>5. IsSeq(other)  BY ONLY ShortSeqs
<1>6. IsSeq(ws)  BY ONLY ShortSeqs
<1>7. IsSeq(ms)  BY ONLY ShortSeqs
<1> HIDE DEF two, one, other, none, ws, ms
<1>8. IsSeq(reads) /\ IsSeq(writes) /\ IsSeq(ram)  BY <1>1, <1>2, <1>3, <1>4, <1>5, <1>6, <1>7
<1>9. QED  BY <1>8 DEF reads, writes, ram

SummaryNext(d, acc, row) == AddEvents(acc, row)

Summing == INSTANCE FoldFacts WITH Op <- SummaryNext

IsSummaryRun(g, trace) ==
  /\ g[0] = NoEvents /\ BuildStage2Summary(trace) = g[Len(trace)]
  /\ \A c \in 1..Len(trace) : g[c] = AddEvents(g[c - 1], trace[c])

\* The summary of a trace adds up the events of its rows.
LEMMA SummaryRuns ==
  ASSUME NEW trace, IsSeq(trace)
  PROVE  \E g : IsSummaryRun(g, trace)
<1>1. BuildStage2Summary(trace) = Summing!Fold(0, NoEvents, trace)
  BY DEF BuildStage2Summary, Summing!Fold, SummaryNext, FoldLeft, MapThenFoldSet, Summing!FoldLeft,
         Summing!MapThenFoldSet, Max, Summing!Max
<1>2. Summing!IsSeq(trace)  BY DEF IsSeq, Summing!IsSeq
<1>3. PICK g : Summing!IsRun(0, g, NoEvents, trace, Len(trace)) /\ Summing!Fold(0, NoEvents, trace) = g[Len(trace)]
  BY <1>2, Summing!FoldIsRun
<1>4. IsSummaryRun(g, trace)  BY <1>1, <1>3 DEF Summing!IsRun, SummaryNext, IsSummaryRun
<1>5. QED  BY <1>4

SummaryRun(trace) == CHOOSE g : IsSummaryRun(g, trace)

ReadsUpTo(trace)  == [c \in 0..Len(trace) |-> SummaryRun(trace)[c].reads]
WritesUpTo(trace) == [c \in 0..Len(trace) |-> SummaryRun(trace)[c].writes]
RamUpTo(trace)    == [c \in 0..Len(trace) |-> SummaryRun(trace)[c].ram]

\* s is what is left of the summary of a trace after its first c rows.
Remains(s, trace, c) ==
  /\ s = [reads |-> s.reads, writes |-> s.writes, ram |-> s.ram]
  /\ Follows(s.reads, ReadsUpTo(trace), c, Len(trace))
  /\ Follows(s.writes, WritesUpTo(trace), c, Len(trace))
  /\ Follows(s.ram, RamUpTo(trace), c, Len(trace))

\* The three kinds of events, piece after piece.
LEMMA SummaryChains ==
  ASSUME NEW trace, IsSeq(trace)
  PROVE  /\ Chain(ReadsUpTo(trace), [c \in 1..Len(trace) |-> RegisterReads(trace[c])], Len(trace))
         /\ Chain(WritesUpTo(trace), [c \in 1..Len(trace) |-> RegisterWrites(trace[c])], Len(trace))
         /\ Chain(RamUpTo(trace), [c \in 1..Len(trace) |-> RamEvents(trace[c])], Len(trace))
         /\ ReadsUpTo(trace)[0] = <<>> /\ WritesUpTo(trace)[0] = <<>> /\ RamUpTo(trace)[0] = <<>>
         /\ BuildStage2Summary(trace) = [reads  |-> ReadsUpTo(trace)[Len(trace)],
                                         writes |-> WritesUpTo(trace)[Len(trace)],
                                         ram    |-> RamUpTo(trace)[Len(trace)]]
<1> DEFINE g == SummaryRun(trace)
           N == Len(trace)
           hr == ReadsUpTo(trace)
           hw == WritesUpTo(trace)
           hm == RamUpTo(trace)
           pr == [c \in 1..N |-> RegisterReads(trace[c])]
           pw == [c \in 1..N |-> RegisterWrites(trace[c])]
           pm == [c \in 1..N |-> RamEvents(trace[c])]
<1>1. N \in Nat  BY IsSeqLen
<1>2. IsSummaryRun(g, trace)  BY SummaryRuns DEF SummaryRun
<1>3. /\ g[0] = NoEvents /\ BuildStage2Summary(trace) = g[N]
      /\ \A c \in 1..N : g[c] = AddEvents(g[c - 1], trace[c])
  BY <1>2 DEF IsSummaryRun
<1>4. \A c \in 0..N : hr[c] = g[c].reads /\ hw[c] = g[c].writes /\ hm[c] = g[c].ram
  BY DEF ReadsUpTo, WritesUpTo, RamUpTo
<1>5. \A c \in 1..N : pr[c] = RegisterReads(trace[c]) /\ pw[c] = RegisterWrites(trace[c])
                      /\ pm[c] = RamEvents(trace[c])
  OBVIOUS
<1> HIDE DEF g, hr, hw, hm, pr, pw, pm, N
<1>6. 0 \in 0..N /\ N \in 0..N  BY <1>1
<1>7. hr[0] = <<>> /\ hw[0] = <<>> /\ hm[0] = <<>>  BY <1>3, <1>4, <1>6 DEF NoEvents
<1>8. ASSUME NEW c \in 1..N
      PROVE  /\ IsSeq(pr[c]) /\ IsSeq(pw[c]) /\ IsSeq(pm[c])
             /\ hr[c] = hr[c - 1] \o pr[c] /\ hw[c] = hw[c - 1] \o pw[c] /\ hm[c] = hm[c - 1] \o pm[c]
  <2>1. c \in 0..N /\ c - 1 \in 0..N  BY <1>1
  <2>2. g[c] = AddEvents(g[c - 1], trace[c])  BY <1>3
  <2>3. /\ g[c].reads = g[c - 1].reads \o RegisterReads(trace[c])
        /\ g[c].writes = g[c - 1].writes \o RegisterWrites(trace[c])
        /\ g[c].ram = g[c - 1].ram \o RamEvents(trace[c])
    <3> DEFINE x == g[c]
               a == g[c - 1]
               row == trace[c]
    <3>1. x = AddEvents(a, row)  BY <2>2
    <3> HIDE DEF x, a, row
    <3>2. x = [reads |-> a.reads \o RegisterReads(row), writes |-> a.writes \o RegisterWrites(row),
               ram |-> a.ram \o RamEvents(row)]
      BY <3>1 DEF AddEvents
    <3>3. /\ x.reads = a.reads \o RegisterReads(row) /\ x.writes = a.writes \o RegisterWrites(row)
          /\ x.ram = a.ram \o RamEvents(row)
      BY <3>2
    <3>4. QED  BY <3>3 DEF x, a, row
  <2>4. QED  BY <1>4, <1>5, <2>1, <2>3, EventsAreSeqs
<1>9. Chain(hr, pr, N) /\ Chain(hw, pw, N) /\ Chain(hm, pm, N)  BY <1>1, <1>7, <1>8, EmptyIsSeq DEF Chain
<1>10. g[N] = [reads |-> g[N].reads, writes |-> g[N].writes, ram |-> g[N].ram]
  <2>1. CASE N = 0  BY <1>3, <2>1 DEF NoEvents
  <2>2. CASE N # 0
    <3>1. N \in 1..N  BY <1>1, <2>2
    <3>2. g[N] = AddEvents(g[N - 1], trace[N])  BY <1>3, <3>1
    <3>3. QED  BY <3>2 DEF AddEvents
  <2>3. QED  BY <2>1, <2>2
<1>11. BuildStage2Summary(trace) = [reads |-> hr[N], writes |-> hw[N], ram |-> hm[N]]
  BY <1>3, <1>4, <1>6, <1>10
<1>12. QED  BY <1>7, <1>9, <1>11 DEF hr, hw, hm, pr, pw, pm, N

\* At first the whole summary is left, after the last row none of it.
LEMMA RemainsEnds ==
  ASSUME NEW trace, IsSeq(trace), NEW s
  PROVE  /\ s = BuildStage2Summary(trace) => Remains(s, trace, 0)
         /\ Remains(s, trace, Len(trace)) => s = NoEvents
<1> DEFINE N == Len(trace)
           hr == ReadsUpTo(trace)
           hw == WritesUpTo(trace)
           hm == RamUpTo(trace)
           pr == [c \in 1..N |-> RegisterReads(trace[c])]
           pw == [c \in 1..N |-> RegisterWrites(trace[c])]
           pm == [c \in 1..N |-> RamEvents(trace[c])]
<1>1. /\ Chain(hr, pr, N) /\ Chain(hw, pw, N) /\ Chain(hm, pm, N)
      /\ hr[0] = <<>> /\ hw[0] = <<>> /\ hm[0] = <<>>
      /\ BuildStage2Summary(trace) = [reads |-> hr[N], writes |-> hw[N], ram |-> hm[N]]
  BY SummaryChains
<1>2. Remains(s, trace, 0) <=> /\ s = [reads |-> s.reads, writes |-> s.writes, ram |-> s.ram]
                               /\ Follows(s.reads, hr, 0, N) /\ Follows(s.writes, hw, 0, N) /\ Follows(s.ram, hm, 0, N)
  BY DEF Remains
<1>3. Remains(s, trace, N) => /\ s = [reads |-> s.reads, writes |-> s.writes, ram |-> s.ram]
                              /\ Follows(s.reads, hr, N, N) /\ Follows(s.writes, hw, N, N) /\ Follows(s.ram, hm, N, N)
  BY DEF Remains
<1> HIDE DEF hr, hw, hm, pr, pw, pm, N
<1>4. ASSUME s = BuildStage2Summary(trace) PROVE Remains(s, trace, 0)
  <2>1. s = [reads |-> s.reads, writes |-> s.writes, ram |-> s.ram]
        /\ s.reads = hr[N] /\ s.writes = hw[N] /\ s.ram = hm[N]
    BY <1>1, <1>4
  <2>2. Follows(s.reads, hr, 0, N)  BY <1>1, <2>1, ChainEnds
  <2>3. Follows(s.writes, hw, 0, N)  BY <1>1, <2>1, ChainEnds
  <2>4. Follows(s.ram, hm, 0, N)  BY <1>1, <2>1, ChainEnds
  <2>5. QED  BY <1>2, <2>1, <2>2, <2>3, <2>4
<1>5. ASSUME Remains(s, trace, N) PROVE s = NoEvents
  <2>1. s = [reads |-> s.reads, writes |-> s.writes, ram |-> s.ram]
        /\ Follows(s.reads, hr, N, N) /\ Follows(s.writes, hw, N, N) /\ Follows(s.ram, hm, N, N)
    BY <1>3, <1>5
  <2>2. s.reads = <<>> /\ s.writes = <<>> /\ s.ram = <<>>  BY <1>1, <2>1, ChainEnds
  <2>3. QED  BY <2>1, <2>2 DEF NoEvents
<1>6. QED  BY <1>4, <1>5 DEF N

\* The events of the next row are the next ones left.
LEMMA RemainsNext ==
  ASSUME NEW trace, IsSeq(trace), NEW s, NEW c \in 0..Len(trace), c < Len(trace), Remains(s, trace, c),
         NEW row, row = trace[c + 1]
  PROVE  /\ IsPrefix(RegisterReads(row), s.reads) /\ IsPrefix(RegisterWrites(row), s.writes)
         /\ IsPrefix(RamEvents(row), s.ram)
         /\ Remains([reads  |-> Drop(s.reads, Len(RegisterReads(row))),
                     writes |-> Drop(s.writes, Len(RegisterWrites(row))),
                     ram    |-> Drop(s.ram, Len(RamEvents(row)))], trace, c + 1)
<1> DEFINE N == Len(trace)
           hr == ReadsUpTo(trace)
           hw == WritesUpTo(trace)
           hm == RamUpTo(trace)
           pr == [k \in 1..N |-> RegisterReads(trace[k])]
           pw == [k \in 1..N |-> RegisterWrites(trace[k])]
           pm == [k \in 1..N |-> RamEvents(trace[k])]
           r == RegisterReads(row)
           w == RegisterWrites(row)
           m == RamEvents(row)
           t == [reads |-> Drop(s.reads, Len(r)), writes |-> Drop(s.writes, Len(w)), ram |-> Drop(s.ram, Len(m))]
<1>1. Chain(hr, pr, N) /\ Chain(hw, pw, N) /\ Chain(hm, pm, N)  BY SummaryChains
<1>2. c \in 0..N /\ c < N /\ c + 1 \in 1..N  BY IsSeqLen
<1>3. pr[c + 1] = r /\ pw[c + 1] = w /\ pm[c + 1] = m  BY <1>2
<1>4. Follows(s.reads, hr, c, N) /\ Follows(s.writes, hw, c, N) /\ Follows(s.ram, hm, c, N)
  BY DEF Remains
<1>5. Follows(t.reads, hr, c + 1, N) /\ Follows(t.writes, hw, c + 1, N) /\ Follows(t.ram, hm, c + 1, N)
      => Remains(t, trace, c + 1)
  <2>1. t = [reads |-> t.reads, writes |-> t.writes, ram |-> t.ram]  OBVIOUS
  <2> HIDE DEF t
  <2>2. QED  BY <2>1 DEF Remains
<1>6. t.reads = Drop(s.reads, Len(r)) /\ t.writes = Drop(s.writes, Len(w)) /\ t.ram = Drop(s.ram, Len(m))
  OBVIOUS
<1> HIDE DEF hr, hw, hm, pr, pw, pm, N, r, w, m, t
<1>7. IsPrefix(pr[c + 1], s.reads) /\ Follows(Drop(s.reads, Len(pr[c + 1])), hr, c + 1, N)
  BY ONLY <1>1, <1>2, <1>4, NextPiece
<1>8. IsPrefix(pw[c + 1], s.writes) /\ Follows(Drop(s.writes, Len(pw[c + 1])), hw, c + 1, N)
  BY ONLY <1>1, <1>2, <1>4, NextPiece
<1>9. IsPrefix(pm[c + 1], s.ram) /\ Follows(Drop(s.ram, Len(pm[c + 1])), hm, c + 1, N)
  BY ONLY <1>1, <1>2, <1>4, NextPiece
<1>10. Remains(t, trace, c + 1)  BY <1>3, <1>5, <1>6, <1>7, <1>8, <1>9
<1>11. QED  BY <1>3, <1>7, <1>8, <1>9, <1>10 DEF r, w, m, t

-----------------------------------------------------------------------------
(* Where a check of the rows is.                                           *)

\* What the first rows of a sequence write.
LEMMA WrittenGrows ==
  ASSUME NEW piece, Len(piece) \in Nat
  PROVE  /\ WrittenBy(piece, 0) = {}
         /\ \A j \in 1..Len(piece) :
               WrittenBy(piece, j) = WrittenBy(piece, j - 1)
                                     \cup (IF WritesScratch(piece[j]) THEN {piece[j].rd} ELSE {})
         /\ \A j \in 0..Len(piece) : WrittenBy(piece, j) \subseteq ScratchRegs
<1>1. WrittenBy(piece, 0) = {}
  <2>1. {i \in 1..0 : WritesScratch(piece[i])} = {}  OBVIOUS
  <2>2. QED  BY <2>1 DEF WrittenBy
<1>2. ASSUME NEW j \in 1..Len(piece)
      PROVE  WrittenBy(piece, j) = WrittenBy(piece, j - 1)
                                   \cup (IF WritesScratch(piece[j]) THEN {piece[j].rd} ELSE {})
  <2>1. \A i : i \in 1..j <=> i \in 1..(j - 1) \/ i = j  OBVIOUS
  <2>2. \A x : x \in WrittenBy(piece, j) <=> \E i \in 1..j : WritesScratch(piece[i]) /\ x = piece[i].rd
    BY DEF WrittenBy
  <2>3. \A x : x \in WrittenBy(piece, j - 1) <=> \E i \in 1..(j - 1) : WritesScratch(piece[i]) /\ x = piece[i].rd
    BY DEF WrittenBy
  <2>4. \A x : x \in WrittenBy(piece, j) <=>
                  x \in WrittenBy(piece, j - 1) \/ (WritesScratch(piece[j]) /\ x = piece[j].rd)
    BY <2>1, <2>2, <2>3
  <2>5. QED  BY <2>4
<1>3. \A j \in 0..Len(piece) : WrittenBy(piece, j) \subseteq ScratchRegs  BY DEF WrittenBy, WritesScratch
<1>4. QED  BY <1>1, <1>2, <1>3

\* A scratch register that is not yet written is zero.
LEMMA ScratchIsZero ==
  ASSUME NEW files, NEW e, NEW piece, FilesRun(files, e, piece), Len(piece) \in Nat,
         NEW j \in 0..Len(piece), NEW r \in ScratchRegs, r \notin WrittenBy(piece, j)
  PROVE  files[j][r] = 0
<1> DEFINE S == {i \in 0..Len(piece) : r \notin WrittenBy(piece, i) => files[i][r] = 0}
<1>1. 0 \in S  BY DEF FilesRun
<1>2. ASSUME NEW i \in 0..Len(piece), i \in S /\ i < Len(piece) PROVE i + 1 \in S
  <2>1. i + 1 \in 1..Len(piece) /\ i + 1 \in 0..Len(piece) /\ (i + 1) - 1 = i  BY <1>2
  <2>2. RowRuns(piece[i + 1], files[i], files[i + 1])
    <3>1. RowRuns(piece[i + 1], files[(i + 1) - 1], files[i + 1])  BY <2>1 DEF FilesRun
    <3>2. QED  BY <2>1, <3>1
  <2> DEFINE row == piece[i + 1]
             a == files[i]
             b == files[i + 1]
             W == WrittenBy(piece, i)
  <2>3. WrittenBy(piece, i + 1) = W \cup (IF WritesScratch(row) THEN {row.rd} ELSE {})
    <3>1. WrittenBy(piece, i + 1) = WrittenBy(piece, (i + 1) - 1) \cup (IF WritesScratch(row) THEN {row.rd} ELSE {})
      BY <2>1, WrittenGrows
    <3>2. QED  BY <2>1, <3>1
  <2>4. b[r] = IF row.writes_rd /\ r = row.rd THEN row.rd_after ELSE a[r]
    <3>1. r \in AllRegs  BY DEF AllRegs
    <3>2. QED  BY <2>2, <3>1 DEF RowRuns
  <2>5. row.writes_rd /\ r = row.rd => WritesScratch(row)  BY DEF WritesScratch
  <2> HIDE DEF row, a, b, W
  <2>6. r \notin W => a[r] = 0  BY <1>2 DEF W, a
  <2>7. r \notin WrittenBy(piece, i + 1) => b[r] = 0  BY <2>3, <2>4, <2>5, <2>6
  <2>8. QED  BY <2>1, <2>7 DEF b
<1> HIDE DEF S
<1>3. \A i \in 0..Len(piece) : i \in S  BY <1>1, <1>2, InductionUpTo
<1>4. j \in S  BY <1>3
<1>5. QED  BY <1>4 DEF S

\* The registers before and after each row of a step.
Files(k) == CHOOSE files : StepRuns(files, executed[k], k - 1, PieceOf(k))

Placed(k) ==
  /\ Off[k - 1] \in Nat /\ Off[k] \in Nat /\ Len(rows) \in Nat
  /\ Len(PieceOf(k)) \in Nat \ {0} /\ Off[k] = Off[k - 1] + Len(PieceOf(k)) /\ Off[k] <= Len(rows)
  /\ \A i \in 1..Len(PieceOf(k)) : rows[Off[k - 1] + i] = PieceOf(k)[i] /\ PieceOf(k)[i].step_index = k - 1
  /\ IsSeq(PieceOf(k)) /\ IsStep(executed[k], k - 1)
  /\ StepRuns(Files(k), executed[k], k - 1, PieceOf(k))
  /\ k = Len(executed) => Off[k] = Len(rows) /\ executed[k].next = state
  /\ k < Len(executed) => Off[k] < Len(rows) /\ executed[k + 1].prev = executed[k].next

\* Where the rows of a step are, and what they do.
LEMMA StepPlaced ==
  ASSUME MachineInv, LaidOut, NEW k \in 1..Len(executed)
  PROVE  Placed(k)
<1> DEFINE n == Len(executed)
<1>1. n \in Nat /\ k \in 0..n /\ k - 1 \in 0..n /\ n \in 0..n /\ k <= n /\ Len(rows) \in Nat /\ n # 0
  BY IsSeqLen DEF LaidOut
<1>2. IsStep(executed[k], k - 1) /\ (k < n => executed[k + 1].prev = executed[k].next)
  BY DEF MachineInv, StepInv
<1>3. IsSeq(PieceOf(k)) /\ \A i \in 1..Len(PieceOf(k)) : PieceOf(k)[i].step_index = k - 1
  BY <1>2, StepRows DEF PieceOf
<1>4. StepRuns(Files(k), executed[k], k - 1, PieceOf(k))
  <2>1. \E files : StepRuns(files, executed[k], k - 1, PieceOf(k))  BY <1>2, StepRunsExist DEF PieceOf
  <2>2. QED  BY <2>1 DEF Files
<1>5. /\ Len(PieceOf(k)) \in Nat \ {0} /\ Off[k] = Off[k - 1] + Len(PieceOf(k))
      /\ \A i \in 1..Len(PieceOf(k)) : rows[Off[k - 1] + i] = PieceOf(k)[i]
  BY DEF LaidOut
<1>6. Off[k - 1] \in Nat /\ Off[k] \in Nat /\ Off[k] <= Len(rows) /\ Off[n] = Len(rows)
  <2>1. Off[n] = Len(rows)  BY DEF LaidOut
  <2>2. Off[k] <= Off[n]  BY <1>1 DEF LaidOut
  <2>3. Off[k - 1] \in Nat /\ Off[k] \in Nat  BY <1>1 DEF LaidOut
  <2>4. QED  BY <2>1, <2>2, <2>3
<1>7. ASSUME k < n PROVE Off[k] < Len(rows)
  <2>1. k + 1 \in 1..n /\ k + 1 \in 0..n /\ (k + 1) - 1 = k  BY <1>1, <1>7
  <2>2. Len(PieceOf(k + 1)) \in Nat \ {0} /\ Off[k + 1] = Off[(k + 1) - 1] + Len(PieceOf(k + 1))
    BY <2>1 DEF LaidOut
  <2>3. Off[k + 1] \in Nat /\ Off[k + 1] <= Off[n]  BY <1>1, <2>1 DEF LaidOut
  <2>4. Off[(k + 1) - 1] = Off[k]  BY <2>1
  <2> DEFINE x == Off[k]
             y == Off[k + 1]
             z == Len(PieceOf(k + 1))
             m == Len(rows)
  <2>5. x \in Nat /\ y \in Nat /\ z \in Nat \ {0} /\ m \in Nat /\ y = x + z /\ y <= m
    BY <1>1, <1>6, <2>2, <2>3, <2>4
  <2> HIDE DEF x, y, z, m
  <2>6. x < m  BY <2>5
  <2>7. QED  BY <2>6 DEF x, m
<1>8. state = executed[n].next  BY <1>1 DEF MachineInv
<1>9. QED  BY <1>1, <1>2, <1>3, <1>4, <1>5, <1>6, <1>7, <1>8 DEF Placed

\* The checks leave the layout alone.
LEMMA LayoutStays ==
  ASSUME executed' = executed, rows' = rows
  PROVE  Off' = Off /\ \A k : PieceOf(k)' = PieceOf(k) /\ Files(k)' = Files(k)
<1>1. Off' = Off  BY DEF Off
<1>2. ASSUME NEW k PROVE PieceOf(k)' = PieceOf(k)  BY <1>1 DEF PieceOf
<1>3. ASSUME NEW k PROVE Files(k)' = Files(k)  BY <1>2 DEF Files
<1>4. QED  BY <1>1, <1>2, <1>3

-----------------------------------------------------------------------------
(* Stage 2, row by row.                                                    *)

\* Stage 2 is about to take the row after the first j of the k-th step.
At(k, j) ==
  /\ k \in 1..Len(executed) /\ j \in 0..(Len(PieceOf(k)) - 1) /\ cursor = Off[k - 1] + j
  /\ commits = k - 1 /\ committed = executed[k].prev /\ memory = executed[k].prev.mem
  /\ DOMAIN registers = AllRegs /\ \A r \in Regs : registers[r] = Files(k)[j][r]
  /\ written \subseteq ScratchRegs
  /\ j > 0 => Known(registers, Files(k)[j]) /\ written = WrittenBy(PieceOf(k), j)

\* It has taken all rows.
Done ==
  /\ cursor = Len(rows) /\ commits = Len(executed) /\ committed = state
  /\ DOMAIN registers = AllRegs /\ written \subseteq ScratchRegs

\* A new step begins where a step's first row does.
LEMMA NewStepIs ==
  ASSUME MachineInv, LaidOut, NEW k, NEW j, At(k, j)
  PROVE  NewStep <=> j = 0
<1>1. k \in 1..Len(executed) /\ j \in 0..(Len(PieceOf(k)) - 1) /\ cursor = Off[k - 1] + j  BY DEF At
<1>2. Placed(k)  BY <1>1, StepPlaced
<1> DEFINE x == Off[k - 1]
           m == Len(PieceOf(k))
<1>3. /\ x \in Nat /\ m \in Nat \ {0} /\ cursor = x + j /\ j \in 0..(m - 1)
      /\ \A i \in 1..m : rows[x + i].step_index = k - 1
  <2>1. x \in Nat /\ m \in Nat \ {0} /\ \A i \in 1..m : rows[x + i] = PieceOf(k)[i] /\ PieceOf(k)[i].step_index = k - 1
    BY <1>2 DEF Placed
  <2> HIDE DEF m
  <2>2. \A i \in 1..m : rows[x + i].step_index = k - 1  BY <2>1
  <2>3. QED  BY <1>1, <2>1, <2>2 DEF m
<1>4. ASSUME k > 1 PROVE x > 0 /\ rows[x].step_index = k - 2
  <2>1. k - 1 \in 1..Len(executed)  BY <1>1, <1>4, IsSeqLen DEF LaidOut
  <2>2. Placed(k - 1)  BY <2>1, StepPlaced
  <2> DEFINE y == Off[(k - 1) - 1]
             q == Len(PieceOf(k - 1))
  <2>3. /\ y \in Nat /\ q \in Nat \ {0} /\ x = y + q
        /\ rows[y + q] = PieceOf(k - 1)[q] /\ PieceOf(k - 1)[q].step_index = (k - 1) - 1
    <3>1. /\ y \in Nat /\ q \in Nat \ {0} /\ x = y + q
          /\ \A i \in 1..q : rows[y + i] = PieceOf(k - 1)[i] /\ PieceOf(k - 1)[i].step_index = (k - 1) - 1
      BY <2>2 DEF Placed
    <3> HIDE DEF y, x, q
    <3>2. q \in 1..q  BY <3>1
    <3>3. QED  BY <3>1, <3>2
  <2> HIDE DEF x, y, q
  <2>4. x > 0 /\ (k - 1) - 1 = k - 2  BY <1>1, <2>3
  <2>5. rows[x].step_index = (k - 1) - 1  BY <2>3
  <2>6. QED  BY <2>4, <2>5
<1>5. k = 1 => x = 0
  <2>1. k = 1 => k - 1 = 0  OBVIOUS
  <2>2. QED  BY <2>1 DEF LaidOut
<1>6. k \in Nat /\ k >= 1  BY <1>1
<1> HIDE DEF x, m
<1>7. rows[cursor + 1].step_index = k - 1
  <2>1. j + 1 \in 1..m /\ cursor + 1 = x + (j + 1)  BY <1>3
  <2>2. QED  BY <1>3, <2>1
<1>8. CASE j = 0
  <2>1. cursor = x  BY <1>3, <1>8
  <2>2. CASE k = 1  BY <1>5, <1>8, <2>1, <2>2 DEF NewStep
  <2>3. CASE k > 1
    <3>1. rows[cursor].step_index = k - 2 /\ k - 2 # k - 1  BY <1>4, <1>6, <2>1, <2>3
    <3>2. QED  BY <1>7, <1>8, <3>1 DEF NewStep
  <2>4. QED  BY <1>6, <2>2, <2>3
<1>9. CASE j > 0
  <2>1. j \in 1..m /\ cursor # 0  BY <1>3, <1>9
  <2>2. rows[cursor].step_index = k - 1  BY <1>3, <2>1
  <2>3. QED  BY <1>7, <1>9, <2>1, <2>2 DEF NewStep
<1>10. QED  BY <1>3, <1>8, <1>9

\* What stage 2 knows before it takes a row.
LEMMA TimelineIs ==
  ASSUME MachineInv, LaidOut, NEW k, NEW j, At(k, j)
  PROVE  Known(Timeline, Files(k)[j]) /\ Written = WrittenBy(PieceOf(k), j)
<1>1. NewStep <=> j = 0  BY NewStepIs
<1>2. /\ k \in 1..Len(executed) /\ j \in 0..(Len(PieceOf(k)) - 1)
      /\ DOMAIN registers = AllRegs /\ \A r \in Regs : registers[r] = Files(k)[j][r]
      /\ j > 0 => Known(registers, Files(k)[j]) /\ written = WrittenBy(PieceOf(k), j)
  BY DEF At
<1>3. Len(PieceOf(k)) \in Nat \ {0}  BY <1>2, StepPlaced DEF Placed
<1>4. CASE j = 0
  <2>1. NewStep  BY <1>1, <1>4
  <2>2. Timeline = [r \in DOMAIN registers |-> IF r \in ScratchRegs THEN None ELSE registers[r]] /\ Written = {}
    BY <2>1 DEF Timeline, Written
  <2>3. \A r \in AllRegs : Timeline[r] = IF r \in ScratchRegs THEN None ELSE registers[r]
    BY <1>2, <2>2
  <2>4. DOMAIN Timeline = AllRegs  BY <1>2, <2>2
  <2>5. (\A r \in Regs : r \in AllRegs /\ r \notin ScratchRegs) /\ (\A r \in ScratchRegs : r \in AllRegs)
    BY ScratchIs DEF AllRegs
  <2>6. Known(Timeline, Files(k)[j])  BY <1>2, <2>3, <2>4, <2>5 DEF Known
  <2>7. QED  BY <1>3, <1>4, <2>2, <2>6, WrittenGrows
<1>5. CASE j > 0
  <2>1. ~NewStep  BY <1>1, <1>5
  <2>2. Timeline = registers /\ Written = written  BY <2>1 DEF Timeline, Written
  <2>3. QED  BY <1>2, <1>5, <2>2
<1>6. QED  BY <1>2, <1>3, <1>4, <1>5

\* The next row of a step: what it is and what it does.
LEMMA NextRow ==
  ASSUME MachineInv, LaidOut, NEW k, NEW j, At(k, j), NEW row, row = rows[cursor + 1]
  PROVE  /\ cursor \in 0..Len(rows) /\ cursor < Len(rows)
         /\ RowRuns(row, Files(k)[j], Files(k)[j + 1])
         /\ Files(k)[j][0] = 0 /\ Files(k)[j + 1][0] = 0
         /\ RowReadsRs1(row) /\ row.rs1 \in ScratchRegs => row.rs1 \in WrittenBy(PieceOf(k), j)
         /\ RowReadsRs2(row) /\ row.rs2 \in ScratchRegs => row.rs2 \in WrittenBy(PieceOf(k), j)
         /\ row.rd \in ScratchRegs \ WrittenBy(PieceOf(k), j) => Files(k)[j][row.rd] = 0
         /\ WrittenBy(PieceOf(k), j + 1) = WrittenBy(PieceOf(k), j) \cup (IF WritesScratch(row) THEN {row.rd} ELSE {})
         /\ RowCommits(row, j + 1 = Len(PieceOf(k)), executed[k], k - 1)
<1> DEFINE x == Off[k - 1]
           piece == PieceOf(k)
           m == Len(piece)
           files == Files(k)
           e == executed[k]
<1>1. k \in 1..Len(executed) /\ j \in 0..(m - 1) /\ cursor = x + j  BY DEF At
<1>2. Placed(k)  BY <1>1, StepPlaced
<1>3. /\ x \in Nat /\ Len(rows) \in Nat /\ m \in Nat \ {0} /\ Off[k] = x + m /\ Off[k] <= Len(rows)
      /\ \A i \in 1..m : rows[x + i] = piece[i]
      /\ StepRuns(files, e, k - 1, piece)
  BY <1>2 DEF Placed
<1>4. /\ FilesRun(files, e, piece)
      /\ \A i \in 1..m : ReadsWritten(piece, i) /\ RowCommits(piece[i], i = m, e, k - 1)
  BY <1>3 DEF StepRuns
<1> HIDE DEF x, piece, m, files, e
<1> DEFINE i == j + 1
<1>5. i \in 1..m /\ i \in 0..m /\ j \in 0..m /\ i - 1 = j /\ cursor + 1 = x + i
  <2>1. x \in Nat /\ m \in Nat \ {0} /\ j \in 0..(m - 1) /\ cursor = x + j  BY <1>1, <1>3
  <2>2. QED  BY ONLY <2>1
<1>6. row = piece[i]  BY <1>3, <1>5
<1>7. cursor \in 0..Len(rows) /\ cursor < Len(rows)  BY <1>1, <1>3
<1>8. m = Len(piece)  BY DEF m
<1>9. RowRuns(row, files[j], files[i])
  <2>1. RowRuns(piece[i], files[i - 1], files[i])  BY <1>4, <1>5, <1>8 DEF FilesRun
  <2>2. QED  BY <1>5, <1>6, <2>1
<1>10. files[j][0] = 0 /\ files[i][0] = 0  BY <1>4, <1>5, <1>8 DEF FilesRun
<1>11. /\ RowReadsRs1(row) /\ row.rs1 \in ScratchRegs => row.rs1 \in WrittenBy(piece, j)
       /\ RowReadsRs2(row) /\ row.rs2 \in ScratchRegs => row.rs2 \in WrittenBy(piece, j)
  <2>1. ReadsWritten(piece, i)  BY <1>4, <1>5
  <2>2. QED  BY <1>5, <1>6, <2>1 DEF ReadsWritten
<1>12. row.rd \in ScratchRegs \ WrittenBy(piece, j) => files[j][row.rd] = 0
  <2>1. Len(piece) \in Nat /\ j \in 0..Len(piece)  BY <1>3, <1>5, <1>8
  <2>2. QED  BY <1>4, <2>1, ScratchIsZero
<1>13. WrittenBy(piece, i) = WrittenBy(piece, j) \cup (IF WritesScratch(row) THEN {row.rd} ELSE {})
  <2>1. Len(piece) \in Nat /\ i \in 1..Len(piece)  BY <1>3, <1>5, <1>8
  <2>2. WrittenBy(piece, i) = WrittenBy(piece, i - 1) \cup (IF WritesScratch(piece[i]) THEN {piece[i].rd} ELSE {})
    BY ONLY <2>1, WrittenGrows
  <2>3. QED  BY <1>5, <1>6, <2>2
<1>14. RowCommits(row, i = m, e, k - 1)  BY <1>4, <1>5, <1>6
<1>15. QED  BY <1>7, <1>9, <1>10, <1>11, <1>12, <1>13, <1>14 DEF piece, m, files, e

\* What stage 2 finds of the next row.
RowPasses(row, k, j) ==
  LET reads  == RegisterReads(row)
      writes == RegisterWrites(row)
      seen   == AfterReads(Timeline, SubSeq(reads, 1, Len(reads)))
  IN  /\ ReadsPass(reads, Timeline, Files(k)[j])
      /\ \A i \in DOMAIN RamEvents(row) : RamHolds(RamEvents(row)[i], row)
      /\ \A i \in DOMAIN writes : WriteHolds(writes[i], seen)
      /\ row.effective_addr = None => row.memory_before = None /\ row.memory_after = None
      /\ Known(AfterWrites(seen, writes), Files(k)[j + 1])
      /\ Written \cup {writes[i].reg : i \in {i \in DOMAIN writes : writes[i].reg \in ScratchRegs}} =
            WrittenBy(PieceOf(k), j + 1)
      /\ AfterRam(memory, RamEvents(row), row) =
            IF j + 1 = Len(PieceOf(k)) THEN executed[k].next.mem ELSE executed[k].prev.mem

\* The next row passes.
LEMMA NextRowPasses ==
  ASSUME MachineInv, LaidOut, NEW k, NEW j, At(k, j), NEW row, row = rows[cursor + 1]
  PROVE  RowPasses(row, k, j)
<1> DEFINE line == Timeline
           x == Files(k)[j]
           y == Files(k)[j + 1]
           reads == RegisterReads(row)
           writes == RegisterWrites(row)
           seen == AfterReads(line, SubSeq(reads, 1, Len(reads)))
           W == WrittenBy(PieceOf(k), j)
           X == WrittenBy(PieceOf(k), j + 1)
           last == (j + 1 = Len(PieceOf(k)))
           e == executed[k]
           mem == IF last THEN e.next.mem ELSE e.prev.mem
           regs == {writes[i].reg : i \in {i \in DOMAIN writes : writes[i].reg \in ScratchRegs}}
<1>1. Known(line, x) /\ Written = W  BY TimelineIs
<1>2. /\ RowRuns(row, x, y) /\ x[0] = 0 /\ y[0] = 0
      /\ RowReadsRs1(row) /\ row.rs1 \in ScratchRegs => row.rs1 \in W
      /\ RowReadsRs2(row) /\ row.rs2 \in ScratchRegs => row.rs2 \in W
      /\ row.rd \in ScratchRegs \ W => x[row.rd] = 0
      /\ X = W \cup (IF WritesScratch(row) THEN {row.rd} ELSE {})
      /\ RowCommits(row, last, e, k - 1)
  BY NextRow
<1>3. RowAccesses(row, memory, mem)
  <2>1. memory = e.prev.mem  BY DEF At
  <2>2. RowAccesses(row, e.prev.mem, mem)  BY <1>2 DEF RowCommits
  <2>3. QED  BY <2>1, <2>2
<1> HIDE DEF line, x, y, W, X, last, e, mem
<1>4. ReadsPass(reads, line, x)
  <2>1. RowReadsRs1(row) /\ row.rs1 \in ScratchRegs => row.rs1 \in Written  BY <1>1, <1>2
  <2>2. RowReadsRs2(row) /\ row.rs2 \in ScratchRegs => row.rs2 \in Written  BY <1>1, <1>2
  <2>3. RowRuns(row, x, y) /\ x[0] = 0 /\ Known(line, x)  BY <1>1, <1>2
  <2>4. QED  BY ONLY <2>1, <2>2, <2>3, RowReadsPass
<1>5. Known(seen, x)  BY <1>4 DEF ReadsPass
<1>6. /\ \A i \in DOMAIN writes : WriteHolds(writes[i], seen)
      /\ Known(AfterWrites(seen, writes), y)
      /\ regs = (IF WritesScratch(row) THEN {row.rd} ELSE {})
  <2>1. row.rd \in ScratchRegs \ Written => x[row.rd] = 0  BY <1>1, <1>2
  <2>2. RowRuns(row, x, y) /\ y[0] = 0  BY <1>2
  <2> HIDE DEF seen
  <2>3. QED  BY ONLY <1>5, <2>1, <2>2, RowWritesPass
<1>7. /\ \A i \in DOMAIN RamEvents(row) : RamHolds(RamEvents(row)[i], row)
      /\ AfterRam(memory, RamEvents(row), row) = mem
      /\ row.effective_addr = None => row.memory_before = None /\ row.memory_after = None
  BY ONLY <1>3, RowRamPasses
<1> HIDE DEF regs
<1>8. Written \cup regs = X  BY <1>1, <1>2, <1>6
<1>9. QED  BY <1>4, <1>6, <1>7, <1>8 DEF RowPasses, line, x, y, X, last, e, mem, regs, seen, reads, writes

\* What taking a row assigns.
LEMMA RowStep ==
  ASSUME VerifyStage2Row, NEW row, row = rows[cursor + 1],
         NEW reads, reads = RegisterReads(row), NEW writes, writes = RegisterWrites(row),
         NEW ram, ram = RamEvents(row),
         NEW seen, seen = AfterReads(Timeline, SubSeq(reads, 1, Len(reads)))
  PROVE  /\ phase = "stage2" /\ cursor < Len(rows) /\ cursor' = cursor + 1
         /\ summary' = [reads  |-> Drop(summary.reads, Len(reads)),
                        writes |-> Drop(summary.writes, Len(writes)),
                        ram    |-> Drop(summary.ram, Len(ram))]
         /\ registers' = AfterWrites(seen, writes)
         /\ written' = Written \cup {writes[i].reg : i \in {i \in DOMAIN writes : writes[i].reg \in ScratchRegs}}
         /\ memory' = AfterRam(memory, ram, row)
         /\ Commit(row)
         /\ UNCHANGED <<program, state, executed, status, rows>>
         /\ phase' = phase \/ phase' = "rejected"
         /\ /\ Consumes(row)
            /\ \A i \in DOMAIN reads : ReadHolds(reads[i], AfterReads(Timeline, SubSeq(reads, 1, i - 1)))
            /\ \A i \in DOMAIN ram : RamHolds(ram[i], row)
            /\ \A i \in DOMAIN writes : WriteHolds(writes[i], seen)
            /\ row.effective_addr = None => row.memory_before = None /\ row.memory_after = None
            => phase' = phase
<1>1. /\ phase = "stage2" /\ cursor < Len(rows) /\ cursor' = cursor + 1
      /\ summary' = [reads  |-> Drop(summary.reads, Len(reads)),
                     writes |-> Drop(summary.writes, Len(writes)),
                     ram    |-> Drop(summary.ram, Len(ram))]
      /\ Commit(row)
      /\ UNCHANGED <<program, state, executed, status, rows>>
  BY Zenon DEF VerifyStage2Row
<1>2. registers' = AfterWrites(seen, writes)  BY Zenon DEF VerifyStage2Row
<1>3. memory' = AfterRam(memory, ram, row)  BY Zenon DEF VerifyStage2Row
<1>4. written' = Written \cup {writes[i].reg : i \in {i \in DOMAIN writes : writes[i].reg \in ScratchRegs}}
  BY Zenon DEF VerifyStage2Row
<1>5. phase' = phase \/ phase' = "rejected"  BY Zenon DEF VerifyStage2Row
<1>6. ASSUME Consumes(row),
             \A i \in DOMAIN reads : ReadHolds(reads[i], AfterReads(Timeline, SubSeq(reads, 1, i - 1))),
             \A i \in DOMAIN ram : RamHolds(ram[i], row),
             \A i \in DOMAIN writes : WriteHolds(writes[i], seen),
             row.effective_addr = None => row.memory_before = None /\ row.memory_after = None
      PROVE  phase' = phase
  BY <1>6, Zenon DEF VerifyStage2Row
<1>7. QED  BY <1>1, <1>2, <1>3, <1>4, <1>5, <1>6

\* The next row is taken: nothing is refused, and the timelines are those after it.
LEMMA RowTaken ==
  ASSUME MachineInv, LaidOut, NEW k, NEW j, At(k, j), Remains(summary, rows, cursor), VerifyStage2Row,
         NEW last, last = (j + 1 = Len(PieceOf(k)))
  PROVE  /\ phase' = "stage2" /\ cursor' = cursor + 1 /\ Remains(summary', rows, cursor')
         /\ UNCHANGED <<program, state, executed, status, rows>>
         /\ Known(registers', Files(k)[j + 1]) /\ written' = WrittenBy(PieceOf(k), j + 1)
         /\ memory' = (IF last THEN executed[k].next.mem ELSE executed[k].prev.mem)
         /\ commits' = commits + (IF last THEN 1 ELSE 0)
         /\ committed' = IF last THEN executed[k].next ELSE committed
<1> DEFINE row == rows[cursor + 1]
           reads == RegisterReads(row)
           writes == RegisterWrites(row)
           ram == RamEvents(row)
           seen == AfterReads(Timeline, SubSeq(reads, 1, Len(reads)))
           e == executed[k]
           file == Files(k)[j + 1]
<1>1. RowPasses(row, k, j)  BY NextRowPasses
<1>2. /\ ReadsPass(reads, Timeline, Files(k)[j])
      /\ \A i \in DOMAIN ram : RamHolds(ram[i], row)
      /\ \A i \in DOMAIN writes : WriteHolds(writes[i], seen)
      /\ row.effective_addr = None => row.memory_before = None /\ row.memory_after = None
      /\ Known(AfterWrites(seen, writes), file)
      /\ Written \cup {writes[i].reg : i \in {i \in DOMAIN writes : writes[i].reg \in ScratchRegs}} =
            WrittenBy(PieceOf(k), j + 1)
      /\ AfterRam(memory, ram, row) = IF j + 1 = Len(PieceOf(k)) THEN e.next.mem ELSE e.prev.mem
  BY <1>1, Zenon DEF RowPasses
<1>3. \A i \in DOMAIN reads : ReadHolds(reads[i], AfterReads(Timeline, SubSeq(reads, 1, i - 1)))
  BY <1>2 DEF ReadsPass
<1>4. /\ cursor \in 0..Len(rows) /\ cursor < Len(rows) /\ RowCommits(row, j + 1 = Len(PieceOf(k)), e, k - 1)
  BY NextRow
<1>5. IsSeq(rows)  BY DEF LaidOut
<1>6. /\ IsPrefix(reads, summary.reads) /\ IsPrefix(writes, summary.writes) /\ IsPrefix(ram, summary.ram)
      /\ Remains([reads  |-> Drop(summary.reads, Len(reads)),
                  writes |-> Drop(summary.writes, Len(writes)),
                  ram    |-> Drop(summary.ram, Len(ram))], rows, cursor + 1)
  BY <1>4, <1>5, RemainsNext
<1>7. Consumes(row)  BY <1>6 DEF Consumes
<1>8. k \in 1..Len(executed) /\ Placed(k)
  <2>1. k \in 1..Len(executed)  BY DEF At
  <2>2. QED  BY <2>1, StepPlaced
<1> HIDE DEF row, reads, writes, ram, seen, e, file
<1> DEFINE Assigned ==
             /\ phase = "stage2" /\ cursor < Len(rows) /\ cursor' = cursor + 1
             /\ summary' = [reads  |-> Drop(summary.reads, Len(reads)),
                            writes |-> Drop(summary.writes, Len(writes)),
                            ram    |-> Drop(summary.ram, Len(ram))]
             /\ registers' = AfterWrites(seen, writes)
             /\ written' = Written \cup {writes[i].reg : i \in {i \in DOMAIN writes : writes[i].reg \in ScratchRegs}}
             /\ memory' = AfterRam(memory, ram, row)
             /\ Commit(row)
             /\ UNCHANGED <<program, state, executed, status, rows>>
             /\ phase' = phase \/ phase' = "rejected"
             /\ /\ Consumes(row)
                /\ \A i \in DOMAIN reads : ReadHolds(reads[i], AfterReads(Timeline, SubSeq(reads, 1, i - 1)))
                /\ \A i \in DOMAIN ram : RamHolds(ram[i], row)
                /\ \A i \in DOMAIN writes : WriteHolds(writes[i], seen)
                /\ row.effective_addr = None => row.memory_before = None /\ row.memory_after = None
                => phase' = phase
<1>9. Assigned
  <2>1. VerifyStage2Row  OBVIOUS
  <2>2. /\ row = rows[cursor + 1] /\ reads = RegisterReads(row) /\ writes = RegisterWrites(row)
        /\ ram = RamEvents(row) /\ seen = AfterReads(Timeline, SubSeq(reads, 1, Len(reads)))
    BY DEF row, reads, writes, ram, seen
  <2>3. QED  BY ONLY <2>1, <2>2, RowStep
<1>10. phase' = "stage2"
  <2>1. phase = "stage2"  BY <1>9
  <2>2. phase' = phase  BY <1>2, <1>3, <1>7, <1>9
  <2>3. QED  BY <2>1, <2>2
<1>11. /\ cursor' = cursor + 1 /\ UNCHANGED <<program, state, executed, status, rows>> /\ Commit(row)
       /\ registers' = AfterWrites(seen, writes) /\ memory' = AfterRam(memory, ram, row)
  BY <1>9
<1>12. Remains(summary', rows, cursor')  BY <1>6, <1>9
<1>13. Known(registers', file)  BY <1>2, <1>11
<1>14. written' = WrittenBy(PieceOf(k), j + 1)  BY <1>2, <1>9
<1>15. memory' = IF last THEN e.next.mem ELSE e.prev.mem  BY <1>2, <1>11
<1>16. RowCommits(row, last, e, k - 1) /\ last \in BOOLEAN  BY <1>4
<1>17. row.is_commit_row = last  BY <1>16 DEF RowCommits
<1>18. /\ commits' = commits + (IF last THEN 1 ELSE 0)
       /\ committed' = IF last
                       THEN [pc |-> row.next_pc, regs |-> [r \in Regs |-> registers'[r]],
                             mem |-> memory', halted |-> row.halted]
                       ELSE committed
  BY <1>11, <1>17 DEF Commit
<1>19. last => committed' = e.next
  <2> SUFFICES ASSUME last PROVE committed' = e.next  OBVIOUS
  <2>1. last = TRUE  BY <1>16
  <2>2. RowCommits(row, TRUE, e, k - 1)  BY <1>16, <2>1
  <2>3. IsStep(e, k - 1)  BY <1>8 DEF Placed, e
  <2>4. \A r \in Regs : registers'[r] = file[r]  BY <1>13 DEF Known
  <2>5. \A r \in Regs : file[r] = e.next.regs[r]
    <3>1. FilesRun(Files(k), e, PieceOf(k))  BY <1>8 DEF Placed, StepRuns, e
    <3>2. \A r \in Regs : Files(k)[Len(PieceOf(k))][r] = e.next.regs[r]  BY <3>1 DEF FilesRun
    <3>3. QED  BY <2>1, <3>2 DEF file
  <2>6. memory' = e.next.mem  BY <1>15, <2>1
  <2>7. [pc |-> row.next_pc, regs |-> [r \in Regs |-> registers'[r]], mem |-> memory', halted |-> row.halted] = e.next
    <3>1. row.next_pc = e.next.pc /\ row.halted = e.next.halted  BY <2>2 DEF RowCommits
    <3>2. /\ e.next = [pc |-> e.next.pc, regs |-> e.next.regs, mem |-> e.next.mem, halted |-> e.next.halted]
          /\ e.next.regs \in [Regs -> Word]
      BY <2>3, StepKeeps DEF StepDoes, IsMachineState
    <3>3. [r \in Regs |-> registers'[r]] = e.next.regs  BY <2>4, <2>5, <3>2
    <3>4. QED  BY <2>6, <3>1, <3>2, <3>3
  <2>8. QED  BY <1>18, <2>1, <2>7
<1>20. QED  BY <1>10, <1>11, <1>12, <1>13, <1>14, <1>15, <1>18, <1>19 DEF e, file

-----------------------------------------------------------------------------
(* Stage 1, step by step.                                                  *)

\* The rows of a step are those from where it begins to where the next one does.
IsGroup(end) ==
  /\ \A j \in (cursor + 1)..end : rows[j].step_index = rows[cursor + 1].step_index
  /\ end < Len(rows) => rows[end + 1].step_index # rows[cursor + 1].step_index

\* The row after a step's rows is of the next step.
LEMMA RowAfter ==
  ASSUME MachineInv, LaidOut, NEW k \in 1..Len(executed), k < Len(executed)
  PROVE  rows[Off[k] + 1].step_index = k
<1>1. Len(executed) \in Nat  BY IsSeqLen DEF LaidOut
<1>2. k + 1 \in 1..Len(executed) /\ (k + 1) - 1 = k  BY <1>1
<1>3. Placed(k + 1)  BY <1>2, StepPlaced
<1> DEFINE piece == PieceOf(k + 1)
           x == Off[(k + 1) - 1]
<1>4. /\ Len(piece) \in Nat \ {0}
      /\ \A i \in 1..Len(piece) : rows[x + i] = piece[i] /\ piece[i].step_index = (k + 1) - 1
  BY <1>3 DEF Placed
<1>5. x = Off[k]  BY <1>2
<1> HIDE DEF piece, x
<1>6. 1 \in 1..Len(piece)  BY <1>4
<1>7. rows[x + 1].step_index = (k + 1) - 1  BY <1>4, <1>6
<1>8. QED  BY <1>2, <1>5, <1>7

\* The next group of rows is that of a step.
LEMMA GroupIs ==
  ASSUME MachineInv, LaidOut, NEW k \in 1..Len(executed), cursor = Off[k - 1]
  PROVE  /\ Off[k] \in (cursor + 1)..Len(rows) /\ IsGroup(Off[k])
         /\ \A end \in (cursor + 1)..Len(rows) : IsGroup(end) => end = Off[k]
         /\ SubSeq(rows, cursor + 1, Off[k]) = PieceOf(k)
<1> DEFINE piece == PieceOf(k)
           m == Len(piece)
           x == Off[k - 1]
           y == Off[k]
           N == Len(rows)
<1>1. Placed(k)  BY StepPlaced
<1>2. /\ x \in Nat /\ y \in Nat /\ N \in Nat /\ m \in Nat \ {0} /\ y = x + m /\ y <= N /\ cursor = x
      /\ IsSeq(piece) /\ m = Len(piece)
      /\ \A i \in 1..m : rows[x + i] = piece[i] /\ piece[i].step_index = k - 1
      /\ k = Len(executed) => y = N
  BY <1>1 DEF Placed
<1>3. k < Len(executed) => rows[y + 1].step_index = k  BY RowAfter
<1>4. IsSeq(rows) /\ N = Len(rows) /\ k \in Nat /\ Len(executed) \in Nat /\ k <= Len(executed)
  BY IsSeqLen DEF LaidOut
<1> HIDE DEF piece, m, x, y, N
<1>5. \A i \in (x + 1)..y : rows[i].step_index = k - 1 /\ rows[i] = piece[i - x]
  <2> TAKE i \in (x + 1)..y
  <2>1. i - x \in 1..m /\ x + (i - x) = i  BY <1>2
  <2>2. rows[x + (i - x)] = piece[i - x] /\ piece[i - x].step_index = k - 1  BY <1>2, <2>1
  <2>3. QED  BY <2>1, <2>2
<1>6. y \in (cursor + 1)..N /\ x + 1 \in (x + 1)..y  BY <1>2
<1>7. rows[cursor + 1].step_index = k - 1  BY <1>2, <1>5, <1>6
<1>8. y < N => rows[y + 1].step_index # k - 1
  <2>1. ASSUME y < N PROVE k < Len(executed)  BY <1>2, <1>4, <2>1
  <2>2. k # k - 1  BY <1>4
  <2>3. QED  BY <1>3, <2>1, <2>2
<1>9. IsGroup(y)  BY <1>2, <1>4, <1>5, <1>7, <1>8 DEF IsGroup
<1>10. ASSUME NEW end \in (cursor + 1)..N, IsGroup(end) PROVE end = y
  <2>1. CASE end < y
    <3>1. end + 1 \in (x + 1)..y /\ end < N  BY <1>2, <2>1
    <3>2. rows[end + 1].step_index = k - 1  BY <1>5, <3>1
    <3>3. rows[end + 1].step_index # rows[cursor + 1].step_index  BY <1>4, <1>10, <3>1 DEF IsGroup
    <3>4. QED  BY <1>7, <3>2, <3>3
  <2>2. CASE end > y
    <3>1. y + 1 \in (cursor + 1)..end /\ y < N  BY <1>2, <2>2
    <3>2. rows[y + 1].step_index = rows[cursor + 1].step_index  BY <1>10, <3>1 DEF IsGroup
    <3>3. QED  BY <1>7, <1>8, <3>1, <3>2
  <2>3. QED  BY <1>2, <2>1, <2>2
<1>11. SubSeq(rows, cursor + 1, y) = piece
  <2> DEFINE s == SubSeq(rows, x + 1, y)
             lo == x + 1
  <2>1. lo \in Nat \ {0} /\ y \in Nat /\ y <= Len(rows) /\ IsSeq(rows)  BY <1>2, <1>4
  <2>2. /\ IsSeq(SubSeq(rows, lo, y)) /\ Len(SubSeq(rows, lo, y)) = (IF lo <= y THEN y - lo + 1 ELSE 0)
        /\ \A i \in 1..(y - lo + 1) : SubSeq(rows, lo, y)[i] = rows[lo + i - 1]
    <3> HIDE DEF lo
    <3>1. QED  BY ONLY <2>1, SubSeqSeq
  <2>3. s = SubSeq(rows, lo, y)  OBVIOUS
  <2> HIDE DEF s
  <2>4. IsSeq(s) /\ Len(s) = m /\ \A i \in 1..m : s[i] = rows[x + i]
    <3>1. lo <= y /\ y - lo + 1 = m /\ \A i \in 1..m : lo + i - 1 = x + i  BY <1>2
    <3> HIDE DEF lo
    <3>2. QED  BY <2>2, <2>3, <3>1
  <2>5. s = piece  BY <1>2, <2>4, SameSeq
  <2>6. QED  BY <1>2, <2>5 DEF s
<1>12. QED  BY <1>6, <1>9, <1>10, <1>11 DEF y, N, piece

\* The rows of a step pass, and the check goes on after them.
LEMMA GroupTaken ==
  ASSUME MachineInv, LaidOut, NEW k \in 1..Len(executed), cursor = Off[k - 1], VerifyStage1
  PROVE  /\ phase = "stage1"
         /\ phase' = IF k = Len(executed) THEN "stage2" ELSE "stage1"
         /\ cursor' = IF k = Len(executed) THEN 0 ELSE Off[k]
         /\ UNCHANGED <<program, state, executed, status, rows, summary, registers, written, memory,
                        committed, commits>>
<1> DEFINE end == CHOOSE i \in (cursor + 1)..Len(rows) : IsGroup(i)
<1>1. /\ phase = "stage1"
      /\ phase' = (IF ~SequenceHolds(SubSeq(rows, cursor + 1, end)) THEN "rejected"
                   ELSE IF end = Len(rows) THEN "stage2" ELSE phase)
      /\ cursor' = (IF end = Len(rows) THEN 0 ELSE end)
      /\ UNCHANGED <<program, state, executed, status, rows, summary, registers, written, memory,
                     committed, commits>>
  BY Zenon DEF VerifyStage1, IsGroup
<1>2. end = Off[k]  BY GroupIs
<1> HIDE DEF end
<1>3. SubSeq(rows, cursor + 1, end) = PieceOf(k)  BY <1>2, GroupIs
<1>4. Placed(k)  BY StepPlaced
<1>5. SequenceHolds(PieceOf(k))
  <2>1. IsStep(executed[k], k - 1)  BY <1>4 DEF Placed
  <2>2. QED  BY <2>1, StepHolds DEF PieceOf
<1>6. end = Len(rows) <=> k = Len(executed)
  <2>1. k = Len(executed) => Off[k] = Len(rows)  BY <1>4 DEF Placed
  <2>2. k < Len(executed) => Off[k] < Len(rows)  BY <1>4 DEF Placed
  <2>3. k <= Len(executed) /\ k \in Nat /\ Len(executed) \in Nat /\ Len(rows) \in Nat  BY IsSeqLen DEF LaidOut
  <2>4. QED  BY <1>2, <2>1, <2>2, <2>3
<1>7. QED  BY <1>1, <1>2, <1>3, <1>5, <1>6

-----------------------------------------------------------------------------
(* Stage 3.                                                                *)

KeepReal(d, real, row) == IF row.is_real THEN Append(real, row) ELSE real

Keeping == INSTANCE FoldFacts WITH Op <- KeepReal

\* The real rows are the last of each step.
LEMMA RealRowsAre ==
  ASSUME MachineInv, LaidOut
  PROVE  /\ IsSeq(RealRows(rows)) /\ Len(RealRows(rows)) = Len(executed)
         /\ \A k \in 1..Len(executed) : RealRows(rows)[k] = PieceOf(k)[Len(PieceOf(k))]
<1> DEFINE n == Len(executed)
           N == Len(rows)
           Closing(k) == PieceOf(k)[Len(PieceOf(k))]
<1>1. RealRows(rows) = Keeping!Fold(0, <<>>, rows)
  BY DEF RealRows, Keeping!Fold, KeepReal, FoldLeft, MapThenFoldSet, Keeping!FoldLeft,
         Keeping!MapThenFoldSet, Max, Keeping!Max
<1>2. IsSeq(rows) /\ Keeping!IsSeq(rows) /\ N \in Nat /\ n \in Nat
  BY IsSeqLen DEF LaidOut, IsSeq, Keeping!IsSeq
<1>3. PICK g : Keeping!IsRun(0, g, <<>>, rows, N) /\ Keeping!Fold(0, <<>>, rows) = g[N]
  BY <1>2, Keeping!FoldIsRun
<1>4. g[0] = <<>> /\ \A c \in 1..N : g[c] = IF rows[c].is_real THEN Append(g[c - 1], rows[c]) ELSE g[c - 1]
  BY <1>3 DEF Keeping!IsRun, KeepReal
<1> DEFINE IsReal(k) == IsSeq(g[Off[k]]) /\ Len(g[Off[k]]) = k /\ \A i \in 1..k : g[Off[k]][i] = Closing(i)
           S == {k \in 0..n : IsReal(k)}
<1>5. 0 \in S
  <2>1. Off[0] = 0  BY DEF LaidOut
  <2>2. IsReal(0)  BY <1>4, <2>1, EmptyIsSeq
  <2>3. QED  BY <1>2, <2>2
<1>6. ASSUME NEW k \in 0..n, k \in S /\ k < n PROVE k + 1 \in S
  <2>1. k + 1 \in 1..n /\ k + 1 \in 0..n /\ (k + 1) - 1 = k  BY <1>2, <1>6
  <2>2. Placed(k + 1)  BY <2>1, StepPlaced
  <2> DEFINE piece == PieceOf(k + 1)
             m == Len(piece)
             x == Off[k]
             y == Off[k + 1]
             a == g[x]
  <2>3. x = Off[(k + 1) - 1]  BY <2>1
  <2>4. /\ Off[(k + 1) - 1] \in Nat /\ m \in Nat \ {0} /\ y = Off[(k + 1) - 1] + m /\ y <= N /\ m = Len(piece)
        /\ \A i \in 1..m : rows[Off[(k + 1) - 1] + i] = piece[i]
        /\ StepRuns(Files(k + 1), executed[k + 1], (k + 1) - 1, piece)
    BY <2>2 DEF Placed
  <2>5. \A i \in 1..m : piece[i].is_real = (i = m)  BY <2>4 DEF StepRuns, RowCommits
  <2>6. x \in Nat /\ m \in Nat \ {0} /\ y = x + m /\ y <= N /\ \A i \in 1..m : rows[x + i] = piece[i]
    BY <2>3, <2>4
  <2>7. IsSeq(a) /\ Len(a) = k /\ \A i \in 1..k : a[i] = Closing(i)  BY <1>6
  <2>8. Closing(k + 1) = piece[m]  OBVIOUS
  <2> HIDE DEF piece, m, x, y, a, Closing, n, N, S
  <2>9. N \in Nat  BY <1>2 DEF N
  <2>10. ASSUME NEW i \in 1..m
         PROVE  g[x + i] = IF i = m THEN Append(g[x + i - 1], piece[m]) ELSE g[x + i - 1]
    <3>1. x + i \in 1..N /\ (x + i) - 1 = x + i - 1
      <4>1. x \in Nat /\ m \in Nat /\ N \in Nat /\ y = x + m /\ y <= N  BY <2>6, <2>9
      <4>2. QED  BY ONLY <4>1
    <3>2. rows[x + i] = piece[i] /\ piece[i].is_real = (i = m)  BY <2>5, <2>6
    <3>3. g[x + i] = IF rows[x + i].is_real THEN Append(g[(x + i) - 1], rows[x + i]) ELSE g[(x + i) - 1]
      BY <1>4, <3>1
    <3>4. QED  BY <3>1, <3>2, <3>3
  <2> DEFINE T == {i \in 0..(m - 1) : g[x + i] = a}
  <2>11. 0 \in T  BY <2>6 DEF a
  <2>12. ASSUME NEW i \in 0..(m - 1), i \in T /\ i < m - 1 PROVE i + 1 \in T
    <3>1. i + 1 \in 1..m /\ i + 1 # m /\ x + (i + 1) - 1 = x + i /\ i + 1 \in 0..(m - 1)  BY <2>6, <2>12
    <3>2. g[x + (i + 1)] = g[x + (i + 1) - 1]  BY <2>10, <3>1
    <3>3. QED  BY <2>12, <3>1, <3>2
  <2>13. m - 1 \in Nat  BY <2>6
  <2> HIDE DEF T
  <2>14. \A i \in 0..(m - 1) : i \in T  BY <2>11, <2>12, <2>13, InductionUpTo
  <2>15. g[y] = Append(a, piece[m])
    <3>1. m - 1 \in T  BY <2>13, <2>14
    <3>2. g[x + (m - 1)] = a  BY <3>1 DEF T
    <3>3. m \in 1..m /\ x + m - 1 = x + (m - 1)  BY <2>6
    <3>4. g[x + m] = Append(g[x + m - 1], piece[m])  BY <2>10, <3>3
    <3>5. QED  BY <2>6, <3>2, <3>3, <3>4
  <2>16. /\ IsSeq(g[y]) /\ Len(g[y]) = k + 1 /\ \A i \in 1..k : g[y][i] = a[i]
         /\ g[y][k + 1] = piece[m]
    <3>1. /\ IsSeq(Append(a, piece[m])) /\ Len(Append(a, piece[m])) = Len(a) + 1
          /\ \A i \in 1..Len(a) : Append(a, piece[m])[i] = a[i]
          /\ Append(a, piece[m])[Len(a) + 1] = piece[m]
      BY ONLY <2>7, AppendSeq
    <3>2. QED  BY <2>7, <2>15, <3>1
  <2>17. \A i \in 1..(k + 1) : g[y][i] = Closing(i)
    <3> TAKE i \in 1..(k + 1)
    <3>1. i \in 1..k \/ i = k + 1  OBVIOUS
    <3>2. QED  BY <2>7, <2>8, <2>16, <3>1
  <2>18. IsReal(k + 1)  BY <2>16, <2>17 DEF y
  <2>19. QED  BY <2>1, <2>18 DEF S
<1> HIDE DEF S
<1>7. \A k \in 0..n : k \in S  BY <1>2, <1>5, <1>6, InductionUpTo
<1>8. n \in S  BY <1>2, <1>7
<1>9. IsReal(n)  BY <1>8 DEF S
<1>10. Off[n] = N  BY DEF LaidOut
<1>11. QED  BY <1>1, <1>3, <1>9, <1>10

\* The continuity of an honest trace verifies.
LEMMA ContinuityHolds ==
  ASSUME MachineInv, LaidOut, status = "halted"
  PROVE  ContinuityVerifies(BuildContinuity(rows), rows, StartPc, state.pc)
<1> DEFINE n == Len(executed)
           real == RealRows(rows)
           continuity == BuildContinuity(rows)
<1>1. n \in Nat /\ n # 0 /\ state.halted /\ executed[1].prev.pc = StartPc
  BY IsSeqLen DEF MachineInv
<1>2. /\ IsSeq(real) /\ Len(real) = n
      /\ \A k \in 1..n : real[k] = PieceOf(k)[Len(PieceOf(k))]
  BY RealRowsAre
<1>3. ASSUME NEW k \in 1..n PROVE RowCommits(real[k], TRUE, executed[k], k - 1) /\ Placed(k)
  <2>1. Placed(k)  BY StepPlaced
  <2> DEFINE piece == PieceOf(k)
             m == Len(piece)
  <2>2. m \in Nat \ {0} /\ StepRuns(Files(k), executed[k], k - 1, piece)  BY <2>1 DEF Placed
  <2>3. m \in 1..m /\ (m = m) = TRUE  BY <2>2
  <2>4. RowCommits(piece[m], m = m, executed[k], k - 1)  BY <2>2, <2>3 DEF StepRuns
  <2>5. RowCommits(piece[m], TRUE, executed[k], k - 1)  BY <2>3, <2>4
  <2>6. QED  BY <1>2, <2>1, <2>5
<1>4. 1 \in 1..n /\ n \in 1..n  BY <1>1
<1>5. real[1].pc = StartPc  BY <1>1, <1>3, <1>4 DEF RowCommits
<1>6. /\ real[n].is_commit_row /\ real[n].halted /\ real[n].trace_opcode = "Ecall" /\ real[n].next_pc = state.pc
  <2>1. executed[n].next = state /\ IsStep(executed[n], n - 1)  BY <1>3, <1>4 DEF Placed
  <2>2. executed[n].decoded.op = "Ecall"
    <3>1. executed[n].next.halted = (executed[n].decoded.op = "Ecall")  BY <2>1, StepKeeps DEF StepDoes
    <3>2. QED  BY <1>1, <2>1, <3>1
  <2>3. RowCommits(real[n], TRUE, executed[n], n - 1)  BY <1>3, <1>4
  <2>4. real[n].is_commit_row = TRUE /\ real[n].halted = executed[n].next.halted  BY <2>3 DEF RowCommits
  <2>5. real[n].trace_opcode = "Ecall" /\ real[n].next_pc = executed[n].next.pc  BY <2>2, <2>3 DEF RowCommits
  <2>6. QED  BY <1>1, <2>1, <2>4, <2>5
<1>7. continuity # <<>>
  <2>1. DOMAIN continuity = DOMAIN real  BY DEF BuildContinuity
  <2>2. DOMAIN real = 1..n  BY <1>2, IsSeqLen
  <2>3. 1 \in DOMAIN continuity  BY <1>4, <2>1, <2>2
  <2>4. QED  BY <2>3, EmptyIsSeq
<1>8. Len(real) = n  BY <1>2
<1> HIDE DEF n
<1>9. QED  BY <1>5, <1>6, <1>7, <1>8 DEF ContinuityVerifies

-----------------------------------------------------------------------------
(* The invariant of the pipeline.                                          *)

\* Before stage 2: the timelines start from the state before the first step.
Fresh ==
  /\ commits = 0 /\ written = {} /\ DOMAIN registers = AllRegs
  /\ memory = committed.mem /\ \A r \in Regs : registers[r] = committed.regs[r]
  /\ committed = IF Len(executed) = 0 THEN state ELSE executed[1].prev

PipelineInv ==
  /\ LoweringInv
  /\ phase # "rejected"
  /\ phase \in {"execute", "stage1"} => Fresh
  /\ phase = "execute" => cursor = 0
  /\ phase = "stage1" => /\ summary = BuildStage2Summary(rows)
                         /\ cursor = 0 \/ \E k \in 1..Len(executed) : cursor = Off[k - 1]
  /\ phase = "stage2" => Remains(summary, rows, cursor) /\ (Done \/ \E k, j \in Nat : At(k, j))
  /\ phase \in {"stage3", "accepted"} => Done

\* The invariant holds initially: the timelines are the machine's registers and memory.
LEMMA PipelineStarts == Init => PipelineInv
<1> SUFFICES ASSUME Init PROVE PipelineInv  OBVIOUS
<1>1. LoweringInv  BY LoweringStarts
<1>2. /\ phase = "execute" /\ cursor = 0 /\ commits = 0 /\ written = {} /\ committed = state
      /\ registers = [r \in AllRegs |-> IF r \in Regs THEN state.regs[r] ELSE None]
      /\ memory = state.mem /\ executed = <<>>
  BY DEF Init, MInit, AllRegs
<1>3. Len(executed) = 0  BY <1>2, EmptyIsSeq
<1>4. DOMAIN registers = AllRegs /\ \A r \in Regs : registers[r] = state.regs[r]  BY <1>2 DEF AllRegs
<1>5. Fresh  BY <1>2, <1>3, <1>4 DEF Fresh
<1>6. QED  BY <1>1, <1>2, <1>5 DEF PipelineInv

\* A step of the machine is recorded after those before it.
LEMMA MachineRecords ==
  ASSUME MNext
  PROVE  \/ executed' = executed /\ state' = state
         \/ \E e : executed' = Append(executed, e) /\ e.prev = state
<1>1. ASSUME NEW next, NEW result, NEW addr, NEW before, NEW after, Step(next, result, addr, before, after)
      PROVE  \E e : executed' = Append(executed, e) /\ e.prev = state
  <2> DEFINE e == [step_index |-> Len(executed), decoded |-> Current, prev |-> state, next |-> next,
                   rs1_value |-> Rs1Value, rs2_value |-> Rs2Value, rd_before |-> state.regs[Current.rd],
                   alu_result |-> result, effective_addr |-> addr,
                   memory_before |-> before, memory_after |-> after]
  <2>1. executed' = Append(executed, e)  BY <1>1 DEF Step
  <2>2. e.prev = state  OBVIOUS
  <2> HIDE DEF e
  <2>3. QED  BY <2>1, <2>2
<1>2. ASSUME NEW next, NEW result, Advance(next, result)
      PROVE  \E e : executed' = Append(executed, e) /\ e.prev = state
  BY <1>1, <1>2 DEF Advance
<1>3. CASE ExecuteAlu  BY <1>2, <1>3, Zenon DEF ExecuteAlu
<1>4. CASE ExecuteUpper  BY <1>2, <1>4, Zenon DEF ExecuteUpper
<1>5. CASE ExecuteLoad  BY <1>1, <1>5, Zenon DEF ExecuteLoad
<1>6. CASE ExecuteStore  BY <1>1, <1>6, Zenon DEF ExecuteStore
<1>7. CASE ExecuteJump  BY <1>2, <1>7, Zenon DEF ExecuteJump
<1>8. CASE ExecuteBranch  BY <1>2, <1>8, Zenon DEF ExecuteBranch
<1>9. CASE ExecuteFence  BY <1>2, <1>9, Zenon DEF ExecuteFence
<1>10. CASE ExecuteEcall  BY <1>2, <1>10, Zenon DEF ExecuteEcall
<1>11. CASE Fail  BY <1>11 DEF Fail
<1>12. QED  BY <1>3, <1>4, <1>5, <1>6, <1>7, <1>8, <1>9, <1>10, <1>11 DEF MNext

\* Executing keeps the timelines where they start.
LEMMA FreshStays ==
  ASSUME Fresh, MachineInv, MNext, UNCHANGED pvars
  PROVE  Fresh'
<1>1. /\ commits' = 0 /\ written' = {} /\ DOMAIN registers' = AllRegs /\ committed' = committed
      /\ memory' = committed'.mem /\ \A r \in Regs : registers'[r] = committed'.regs[r]
      /\ committed = IF Len(executed) = 0 THEN state ELSE executed[1].prev
  BY DEF Fresh, pvars
<1>2. IsSeq(executed) /\ Len(executed) \in Nat  BY IsSeqLen DEF MachineInv
<1>3. committed' = IF Len(executed') = 0 THEN state' ELSE executed'[1].prev
  <2>1. CASE executed' = executed /\ state' = state  BY <1>1, <2>1
  <2>2. ASSUME NEW e, executed' = Append(executed, e), e.prev = state
        PROVE  committed' = IF Len(executed') = 0 THEN state' ELSE executed'[1].prev
    <3> DEFINE n == Len(executed)
    <3>1. /\ Len(executed') = n + 1 /\ executed'[n + 1] = e
          /\ \A i \in 1..n : executed'[i] = executed[i]
      BY <1>2, <2>2, AppendSeq
    <3>2. CASE n = 0
      <4>1. executed'[1] = e /\ Len(executed') # 0  BY <3>1, <3>2
      <4>2. committed = state  BY <1>1, <3>2
      <4>3. QED  BY <1>1, <2>2, <4>1, <4>2
    <3>3. CASE n # 0
      <4>1. executed'[1] = executed[1] /\ Len(executed') # 0  BY <1>2, <3>1, <3>3
      <4>2. QED  BY <1>1, <3>3, <4>1
    <3>4. QED  BY <3>2, <3>3
  <2>3. QED  BY <2>1, <2>2, MachineRecords
<1>4. QED  BY <1>1, <1>3 DEF Fresh

\* Stage 2 begins at the first row, with the timelines where they start.
LEMMA FirstRow ==
  ASSUME MachineInv, LaidOut, status = "halted", Fresh, NEW c, c = 0
  PROVE  /\ 1 \in 1..Len(executed) /\ Off[1 - 1] = c /\ 0 \in 0..(Len(PieceOf(1)) - 1)
         /\ commits = 1 - 1 /\ committed = executed[1].prev /\ memory = executed[1].prev.mem
         /\ DOMAIN registers = AllRegs /\ \A r \in Regs : registers[r] = Files(1)[0][r]
         /\ written \subseteq ScratchRegs
<1>1. Len(executed) \in Nat /\ Len(executed) # 0  BY IsSeqLen DEF MachineInv
<1>2. 1 \in 1..Len(executed) /\ Off[1 - 1] = 0  BY <1>1 DEF LaidOut
<1>3. Placed(1)  BY <1>2, StepPlaced
<1>4. FilesRun(Files(1), executed[1], PieceOf(1)) /\ Len(PieceOf(1)) \in Nat \ {0}
  BY <1>3 DEF Placed, StepRuns
<1>5. \A r \in Regs : Files(1)[0][r] = executed[1].prev.regs[r]  BY <1>4 DEF FilesRun
<1>6. committed = executed[1].prev  BY <1>1 DEF Fresh
<1>7. 0 \in 0..(Len(PieceOf(1)) - 1)  BY <1>4
<1>8. QED  BY <1>2, <1>5, <1>6, <1>7 DEF Fresh

\* After a row stage 2 is before the next one, or done.
LEMMA NextPosition ==
  ASSUME MachineInv, LaidOut, NEW k, NEW j, At(k, j), Remains(summary, rows, cursor), VerifyStage2Row
  PROVE  Done' \/ \E l, i \in Nat : At(l, i)'
<1> DEFINE n == Len(executed)
           m == Len(PieceOf(k))
           e == executed[k]
           last == (j + 1 = m)
<1>1. /\ k \in 1..n /\ j \in 0..(m - 1) /\ cursor = Off[k - 1] + j /\ commits = k - 1
      /\ committed = e.prev
  BY DEF At
<1>2. Placed(k) /\ n \in Nat  BY <1>1, StepPlaced, IsSeqLen DEF LaidOut
<1>3. /\ Off[k - 1] \in Nat /\ m \in Nat \ {0} /\ Off[k] = Off[k - 1] + m
      /\ StepRuns(Files(k), e, k - 1, PieceOf(k))
      /\ k = n => Off[k] = Len(rows) /\ e.next = state
      /\ k < n => executed[k + 1].prev = e.next
  BY <1>2 DEF Placed
<1>4. /\ cursor' = cursor + 1
      /\ UNCHANGED <<program, state, executed, status, rows>>
      /\ Known(registers', Files(k)[j + 1]) /\ written' = WrittenBy(PieceOf(k), j + 1)
      /\ memory' = (IF last THEN e.next.mem ELSE e.prev.mem)
      /\ commits' = commits + (IF last THEN 1 ELSE 0)
      /\ committed' = IF last THEN e.next ELSE committed
  <2>1. last = (j + 1 = Len(PieceOf(k)))  OBVIOUS
  <2> HIDE DEF last, m
  <2>2. QED  BY <2>1, RowTaken
<1>5. Off' = Off /\ \A l : PieceOf(l)' = PieceOf(l) /\ Files(l)' = Files(l)  BY <1>4, LayoutStays
<1>6. /\ DOMAIN registers' = AllRegs /\ \A r \in Regs : registers'[r] = Files(k)[j + 1][r]
  BY <1>4 DEF Known
<1>7. written' \subseteq ScratchRegs
  <2>1. j + 1 \in 0..m  BY <1>1, <1>3
  <2>2. WrittenBy(PieceOf(k), j + 1) \subseteq ScratchRegs  BY <1>3, <2>1, WrittenGrows
  <2>3. QED  BY <1>4, <2>2
<1>8. CASE ~last
  <2>1. j + 1 \in 0..(m - 1) /\ j + 1 \in Nat /\ k \in Nat /\ j + 1 > 0
        /\ cursor' = Off[k - 1] + (j + 1)
    <3>1. Off[k - 1] \in Nat /\ m \in Nat /\ j \in 0..(m - 1) /\ j + 1 # m /\ cursor = Off[k - 1] + j
          /\ cursor' = cursor + 1 /\ k \in 1..n
      BY <1>1, <1>3, <1>4, <1>8
    <3> DEFINE x == Off[k - 1]
    <3> HIDE DEF x, m, n
    <3>2. QED  BY <3>1 DEF x
  <2>2. commits' = k - 1 /\ committed' = e.prev /\ memory' = e.prev.mem
    <3>1. commits' = commits + 0  BY <1>4, <1>8
    <3>2. k - 1 + 0 = k - 1  BY <1>1
    <3>3. QED  BY <1>1, <1>4, <1>8, <3>1, <3>2
  <2>3. At(k, j + 1)'
    <3>1. /\ executed' = executed /\ Off' = Off /\ PieceOf(k)' = PieceOf(k) /\ Files(k)' = Files(k)
      BY <1>4, <1>5
    <3>2. /\ k \in 1..Len(executed') /\ j + 1 \in 0..(Len(PieceOf(k)') - 1) /\ cursor' = Off'[k - 1] + (j + 1)
      BY <1>1, <2>1, <3>1
    <3>3. commits' = k - 1 /\ committed' = executed'[k].prev /\ memory' = executed'[k].prev.mem
      BY <2>2, <3>1
    <3>4. /\ DOMAIN registers' = AllRegs /\ \A r \in Regs : registers'[r] = Files(k)'[j + 1][r]
          /\ written' \subseteq ScratchRegs
      BY <1>6, <1>7, <3>1
    <3>5. Known(registers', Files(k)'[j + 1]) /\ written' = WrittenBy(PieceOf(k)', j + 1)  BY <1>4, <3>1
    <3>6. QED  BY <3>2, <3>3, <3>4, <3>5 DEF At
  <2>4. QED  BY <2>1, <2>3
<1>9. CASE last
  <2>1. cursor' = Off[k] /\ commits' = k /\ committed' = e.next /\ memory' = e.next.mem
    <3>1. /\ Off[k - 1] \in Nat /\ j + 1 = m /\ Off[k] = Off[k - 1] + m
          /\ cursor = Off[k - 1] + j /\ cursor' = cursor + 1 /\ j \in 0..(m - 1) /\ m \in Nat
      BY <1>1, <1>3, <1>4, <1>9
    <3>2. cursor' = Off[k]
      <4> DEFINE x == Off[k - 1]
                 y == Off[k]
      <4>1. x \in Nat /\ j + 1 = m /\ y = x + m /\ cursor = x + j /\ cursor' = cursor + 1 /\ j \in 0..(m - 1)
            /\ m \in Nat
        BY <3>1
      <4> HIDE DEF x, y, m
      <4>2. cursor' = y  BY <4>1
      <4>3. QED  BY <4>2 DEF y
    <3>3. commits' = (k - 1) + 1 /\ k \in Nat  BY <1>1, <1>4, <1>9
    <3>4. (k - 1) + 1 = k  BY <3>3
    <3>5. QED  BY <1>4, <1>9, <3>2, <3>3, <3>4
  <2>2. \A r \in Regs : registers'[r] = e.next.regs[r]
    <3>1. FilesRun(Files(k), e, PieceOf(k))  BY <1>3 DEF StepRuns
    <3>2. \A r \in Regs : Files(k)[Len(PieceOf(k))][r] = e.next.regs[r]  BY <3>1 DEF FilesRun
    <3>3. j + 1 = Len(PieceOf(k))  BY <1>9
    <3>4. QED  BY <1>6, <3>2, <3>3
  <2>3. CASE k = n
    <3>1. cursor' = Len(rows') /\ commits' = Len(executed') /\ committed' = state'
      BY <1>3, <1>4, <2>1, <2>3
    <3>2. Done'  BY <1>6, <1>7, <3>1 DEF Done
    <3>3. QED  BY <3>2
  <2>4. CASE k < n
    <3> DEFINE l == k + 1
    <3>1. l \in 1..n /\ l - 1 = k /\ l \in Nat /\ 0 \in Nat  BY <1>1, <1>2, <2>4
    <3>2. Placed(l)  BY <3>1, StepPlaced
    <3>3. FilesRun(Files(l), executed[l], PieceOf(l)) /\ Len(PieceOf(l)) \in Nat \ {0}
      BY <3>2 DEF Placed, StepRuns
    <3>4. executed[l].prev = e.next  BY <1>3, <2>4
    <3> HIDE DEF l
    <3>5. \A r \in Regs : registers'[r] = Files(l)[0][r]
      <4>1. \A r \in Regs : Files(l)[0][r] = executed[l].prev.regs[r]  BY <3>3 DEF FilesRun
      <4>2. QED  BY <2>2, <3>4, <4>1
    <3>6. At(l, 0)'
      <4>1. /\ executed' = executed /\ Off' = Off /\ PieceOf(l)' = PieceOf(l) /\ Files(l)' = Files(l)
        BY <1>4, <1>5
      <4>2. 0 \in 0..(Len(PieceOf(l)) - 1)  BY <3>3
      <4>3. cursor' = Off[l - 1] + 0
        <5>1. Off[k] \in Nat  BY <1>2 DEF Placed
        <5>2. QED  BY <2>1, <3>1, <5>1
      <4>4. /\ l \in 1..Len(executed') /\ 0 \in 0..(Len(PieceOf(l)') - 1) /\ cursor' = Off'[l - 1] + 0
        BY <3>1, <4>1, <4>2, <4>3
      <4>5. commits' = l - 1 /\ committed' = executed'[l].prev /\ memory' = executed'[l].prev.mem
        BY <2>1, <3>1, <3>4, <4>1
      <4>6. /\ DOMAIN registers' = AllRegs /\ \A r \in Regs : registers'[r] = Files(l)'[0][r]
            /\ written' \subseteq ScratchRegs
        BY <1>6, <1>7, <3>5, <4>1
      <4>7. QED  BY <4>4, <4>5, <4>6 DEF At
    <3>7. QED  BY <3>1, <3>6
  <2>5. QED  BY <1>1, <1>2, <2>3, <2>4
<1>10. QED  BY <1>8, <1>9

\* A step that moves nothing leaves stage 2 where it is.
LEMMA PositionStays ==
  ASSUME UNCHANGED allvars
  PROVE  /\ Fresh' <=> Fresh
         /\ Done' <=> Done
         /\ \A k, j : At(k, j)' <=> At(k, j)
<1>1. /\ UNCHANGED <<state, executed, rows, cursor, registers, written, memory, committed, commits>>
  BY DEF allvars
<1>2. Off' = Off /\ \A k : PieceOf(k)' = PieceOf(k) /\ Files(k)' = Files(k)  BY <1>1, LayoutStays
<1>3. Fresh' <=> Fresh  BY <1>1 DEF Fresh
<1>4. Done' <=> Done  BY <1>1 DEF Done
<1>5. ASSUME NEW k, NEW j PROVE At(k, j)' <=> At(k, j)  BY <1>1, <1>2 DEF At
<1>6. QED  BY <1>3, <1>4, <1>5

\* Stage 1 takes the sequence of one step, and leaves the summary and the timelines to stage 2.
LEMMA Stage1Keeps ==
  ASSUME PipelineInv, VerifyStage1, LoweringInv'
  PROVE  PipelineInv'
<1>1. phase = "stage1"  BY Zenon DEF VerifyStage1
<1>2. /\ MachineInv /\ rows = LowerProgram(executed) /\ status = "halted" /\ Fresh
      /\ summary = BuildStage2Summary(rows)
      /\ cursor = 0 \/ \E k \in 1..Len(executed) : cursor = Off[k - 1]
  BY <1>1 DEF PipelineInv, LoweringInv
<1>3. LaidOut  BY <1>2, RowsLaidOut
<1>4. \E k \in 1..Len(executed) : cursor = Off[k - 1]
  <2>1. CASE cursor = 0
    <3>1. 1 \in 1..Len(executed) /\ Off[1 - 1] = 0
      BY <1>2, <1>3, <2>1, FirstRow
    <3>2. QED  BY <2>1, <3>1
  <2>2. QED  BY <1>2, <2>1
<1>5. PICK k \in 1..Len(executed) : cursor = Off[k - 1]  BY <1>4
<1>6. /\ phase' = IF k = Len(executed) THEN "stage2" ELSE "stage1"
      /\ cursor' = IF k = Len(executed) THEN 0 ELSE Off[k]
      /\ UNCHANGED <<program, state, executed, status, rows, summary, registers, written, memory,
                     committed, commits>>
  BY <1>2, <1>3, <1>5, GroupTaken
<1>7. Off' = Off /\ \A l : PieceOf(l)' = PieceOf(l) /\ Files(l)' = Files(l)  BY <1>6, LayoutStays
<1>8. CASE k = Len(executed)
  <2>1. phase' = "stage2" /\ cursor' = 0  BY <1>6, <1>8
  <2>2. At(1, 0)'
    <3>1. /\ 1 \in 1..Len(executed) /\ Off[1 - 1] = cursor' /\ 0 \in 0..(Len(PieceOf(1)) - 1)
          /\ commits = 1 - 1 /\ committed = executed[1].prev /\ memory = executed[1].prev.mem
          /\ DOMAIN registers = AllRegs /\ \A r \in Regs : registers[r] = Files(1)[0][r]
          /\ written \subseteq ScratchRegs
      BY <1>2, <1>3, <2>1, FirstRow
    <3>2. cursor' = Off[1 - 1] + 0  BY <2>1, <3>1
    <3>3. /\ 1 \in 1..Len(executed') /\ 0 \in 0..(Len(PieceOf(1)') - 1) /\ cursor' = Off'[1 - 1] + 0
      BY <1>6, <1>7, <3>1, <3>2
    <3>4. commits' = 1 - 1 /\ committed' = executed'[1].prev /\ memory' = executed'[1].prev.mem
      BY <1>6, <3>1
    <3>5. /\ DOMAIN registers' = AllRegs /\ \A r \in Regs : registers'[r] = Files(1)'[0][r]
          /\ written' \subseteq ScratchRegs
      BY <1>6, <1>7, <3>1
    <3>6. QED  BY <3>3, <3>4, <3>5 DEF At
  <2>3. Remains(summary', rows', cursor')
    <3>1. Remains(summary, rows, 0)  BY <1>2, <1>3, RemainsEnds DEF LaidOut
    <3>2. QED  BY <1>6, <2>1, <3>1
  <2>4. \E l, i \in Nat : At(l, i)'  BY <2>2
  <2>5. QED  BY <2>1, <2>3, <2>4 DEF PipelineInv
<1>9. CASE k # Len(executed)
  <2>1. phase' = "stage1" /\ cursor' = Off[k]  BY <1>6, <1>9
  <2>2. Fresh'  BY <1>2, <1>6 DEF Fresh
  <2>3. \E l \in 1..Len(executed') : cursor' = Off'[l - 1]
    <3>1. Len(executed) \in Nat  BY <1>3, IsSeqLen DEF LaidOut
    <3>2. k + 1 \in 1..Len(executed) /\ (k + 1) - 1 = k  BY <1>9, <3>1
    <3>3. QED  BY <1>6, <1>7, <2>1, <3>2
  <2>4. summary' = BuildStage2Summary(rows')  BY <1>2, <1>6
  <2>5. QED  BY <2>1, <2>2, <2>3, <2>4 DEF PipelineInv
<1>10. QED  BY <1>8, <1>9

\* Stage 2 takes the next row and is before the one after it, or done.
LEMMA Stage2Keeps ==
  ASSUME PipelineInv, VerifyStage2Row, LoweringInv'
  PROVE  /\ PipelineInv'
         /\ MachineInv /\ LaidOut /\ Remains(summary, rows, cursor)
         /\ \E k, j \in Nat : At(k, j)
<1>1. phase = "stage2" /\ cursor < Len(rows)  BY Zenon DEF VerifyStage2Row
<1>2. /\ MachineInv /\ rows = LowerProgram(executed) /\ status = "halted"
      /\ Remains(summary, rows, cursor) /\ (Done \/ \E k, j \in Nat : At(k, j))
  BY <1>1 DEF PipelineInv, LoweringInv
<1>3. LaidOut  BY <1>2, RowsLaidOut
<1>4. ~Done
  <2>1. Len(rows) \in Nat  BY <1>3, IsSeqLen DEF LaidOut
  <2>2. QED  BY <1>1, <2>1 DEF Done
<1>5. PICK k \in Nat, j \in Nat : At(k, j)  BY <1>2, <1>4
<1>6. Done' \/ \E l, i \in Nat : At(l, i)'  BY <1>2, <1>3, <1>5, NextPosition
<1>7. phase' = "stage2" /\ rows' = rows /\ Remains(summary', rows, cursor')
  BY <1>2, <1>3, <1>5, RowTaken
<1>8. Remains(summary', rows', cursor')  BY <1>7
<1>9. PipelineInv'  BY <1>6, <1>7, <1>8 DEF PipelineInv
<1>10. QED  BY <1>2, <1>3, <1>5, <1>9

\* Every step keeps the invariant: no check refuses the trace of an honest run.
LEMMA PipelineKeeps == PipelineInv /\ [Next]_allvars => PipelineInv'
<1> SUFFICES ASSUME PipelineInv, [Next]_allvars PROVE PipelineInv'  OBVIOUS
<1>1. LoweringInv /\ LoweringInv'  BY LoweringKeeps DEF PipelineInv
<1>2. MachineInv  BY <1>1 DEF LoweringInv
<1>3. ASSUME phase # "execute" PROVE LaidOut /\ rows = LowerProgram(executed) /\ status = "halted"
  <2>1. rows = LowerProgram(executed) /\ status = "halted"  BY <1>1, <1>3 DEF LoweringInv
  <2>2. QED  BY <1>2, <2>1, RowsLaidOut
<1>4. CASE Execute
  <2>1. phase = "execute" /\ MNext /\ UNCHANGED pvars  BY <1>4 DEF Execute
  <2>2. Fresh /\ cursor = 0  BY <2>1 DEF PipelineInv
  <2>3. Fresh'  BY <1>2, <2>1, <2>2, FreshStays
  <2>4. phase' = "execute" /\ cursor' = 0  BY <2>1, <2>2 DEF pvars
  <2>5. QED  BY <1>1, <2>3, <2>4 DEF PipelineInv
<1>5. CASE Lower
  <2>1. /\ phase = "execute" /\ phase' = "stage1" /\ summary' = BuildStage2Summary(rows')
        /\ UNCHANGED <<program, state, executed, status, cursor, registers, written, memory,
                       committed, commits>>
    BY <1>5 DEF Lower
  <2>2. Fresh /\ cursor = 0  BY <2>1 DEF PipelineInv
  <2>3. Fresh'  BY <2>1, <2>2 DEF Fresh
  <2>4. cursor' = 0  BY <2>1, <2>2
  <2>5. QED  BY <1>1, <2>1, <2>3, <2>4 DEF PipelineInv
<1>6. CASE VerifyStage1  BY <1>1, <1>6, Stage1Keeps
<1>7. CASE VerifyStage2Row  BY <1>1, <1>7, Stage2Keeps
<1>8. CASE VerifyStage2End
  <2>1. /\ phase = "stage2" /\ cursor = Len(rows)
        /\ phase' = (IF summary = NoEvents THEN "stage3" ELSE "rejected")
        /\ UNCHANGED <<program, state, executed, status, rows, summary, cursor, registers, written,
                       memory, committed, commits>>
    BY <1>8 DEF VerifyStage2End
  <2>2. Remains(summary, rows, cursor) /\ (Done \/ \E k, j \in Nat : At(k, j))  BY <2>1 DEF PipelineInv
  <2>3. LaidOut  BY <1>3, <2>1
  <2>4. Done
    <3>1. ASSUME NEW k, NEW j, At(k, j) PROVE FALSE
      <4>1. cursor < Len(rows)  BY <1>2, <2>3, <3>1, NextRow
      <4>2. Len(rows) \in Nat  BY <2>3, IsSeqLen DEF LaidOut
      <4>3. QED  BY <2>1, <4>1, <4>2
    <3>2. QED  BY <2>2, <3>1
  <2>5. summary = NoEvents  BY <2>1, <2>2, <2>3, RemainsEnds DEF LaidOut
  <2>6. phase' = "stage3"  BY <2>1, <2>5
  <2>7. Done'  BY <2>1, <2>4 DEF Done
  <2>8. QED  BY <1>1, <2>6, <2>7 DEF PipelineInv
<1>9. CASE VerifyStage3
  <2>1. /\ phase = "stage3"
        /\ phase' = (IF ContinuityVerifies(BuildContinuity(rows), rows, StartPc, state.pc)
                     THEN "accepted" ELSE "rejected")
        /\ UNCHANGED <<program, state, executed, status, rows, summary, cursor, registers, written,
                       memory, committed, commits>>
    BY <1>9 DEF VerifyStage3
  <2>2. LaidOut /\ status = "halted"  BY <1>3, <2>1
  <2>3. phase' = "accepted"  BY <1>2, <2>1, <2>2, ContinuityHolds
  <2>4. Done  BY <2>1 DEF PipelineInv
  <2>5. Done'  BY <2>1, <2>4 DEF Done
  <2>6. QED  BY <1>1, <2>3, <2>5 DEF PipelineInv
<1>10. CASE UNCHANGED allvars
  <2>1. /\ Fresh' <=> Fresh
        /\ Done' <=> Done
        /\ \A k, j : At(k, j)' <=> At(k, j)
    BY <1>10, PositionStays
  <2>2. /\ phase' = phase /\ cursor' = cursor /\ summary' = summary /\ rows' = rows /\ executed' = executed
    BY <1>10 DEF allvars
  <2>3. Off' = Off  BY <2>2, LayoutStays
  <2>4. QED  BY <1>1, <2>1, <2>2, <2>3, Zenon DEF PipelineInv
<1>11. QED  BY <1>4, <1>5, <1>6, <1>7, <1>8, <1>9, <1>10 DEF Next

\* In every reachable state, no check of the verifier (verify_stage1_semantics,
\* verify_stage2_semantics_from_events and stage 3's continuity checks) has refused the trace of an
\* honest run, whatever the program, the initial registers and memory, and the registers in use.
THEOREM HonestTraces == PipelineSpec => []HonestTraceAccepted
<1>1. PipelineInv => HonestTraceAccepted  BY DEF PipelineInv, HonestTraceAccepted
<1>2. QED  BY <1>1, PipelineStarts, PipelineKeeps, PTL DEF PipelineSpec

\* What the invariant says of the shape of the state.
LEMMA PipelineShape == PipelineInv => TypeOK
<1> SUFFICES ASSUME PipelineInv PROVE TypeOK  OBVIOUS
<1>1. /\ MachineInv
      /\ phase \in {"execute", "stage1", "stage2", "stage3", "accepted", "rejected"}
      /\ IF phase = "execute" THEN rows = <<>> ELSE rows = LowerProgram(executed) /\ status = "halted"
  BY DEF PipelineInv, LoweringInv
<1>2. /\ state.pc \in Nat /\ state.halted \in BOOLEAN /\ state.regs \in [Regs -> Word]
      /\ state.regs[0] = 0 /\ IsMemory(state.mem) /\ status \in {"running", "halted", "failed"}
      /\ Len(executed) \in Nat
  BY <1>1, IsSeqLen DEF MachineInv, IsMachineState
<1>3. /\ cursor \in 0..Len(rows) /\ commits \in 0..Len(executed)
      /\ written \subseteq ScratchRegs /\ DOMAIN registers = AllRegs
  <2>1. CASE phase = "execute"
    <3>1. Fresh /\ cursor = 0 /\ rows = <<>>  BY <1>1, <2>1 DEF PipelineInv
    <3>2. Len(rows) = 0  BY <3>1, EmptyIsSeq
    <3>3. QED  BY <1>2, <3>1, <3>2 DEF Fresh
  <2>2. ASSUME phase # "execute" PROVE LaidOut /\ Len(rows) \in Nat
    <3>1. LaidOut  BY <1>1, <2>2, RowsLaidOut
    <3>2. QED  BY <3>1, IsSeqLen DEF LaidOut
  <2>3. CASE phase = "stage1"
    <3>1. Fresh /\ (cursor = 0 \/ \E k \in 1..Len(executed) : cursor = Off[k - 1])
      BY <2>3 DEF PipelineInv
    <3>2. cursor \in 0..Len(rows)
      <4>1. ASSUME NEW k \in 1..Len(executed), cursor = Off[k - 1] PROVE cursor \in 0..Len(rows)
        <5> DEFINE x == Off[k - 1]
                   y == Off[k]
                   m == Len(PieceOf(k))
        <5>1. Placed(k)  BY <1>1, <2>2, <2>3, StepPlaced
        <5>2. x \in Nat /\ m \in Nat /\ y = x + m /\ y <= Len(rows) /\ cursor = x /\ Len(rows) \in Nat
          BY <4>1, <5>1 DEF Placed
        <5> HIDE DEF x, y, m
        <5>3. QED  BY <5>2
      <4>2. QED  BY <2>2, <2>3, <3>1, <4>1
    <3>3. QED  BY <1>2, <3>1, <3>2 DEF Fresh
  <2>4. ASSUME Done, phase # "execute"
        PROVE  /\ cursor \in 0..Len(rows) /\ commits \in 0..Len(executed)
               /\ written \subseteq ScratchRegs /\ DOMAIN registers = AllRegs
    BY <1>2, <2>2, <2>4 DEF Done
  <2>5. CASE phase = "stage2"
    <3>1. ASSUME NEW k, NEW j, At(k, j)
          PROVE  /\ cursor \in 0..Len(rows) /\ commits \in 0..Len(executed)
                 /\ written \subseteq ScratchRegs /\ DOMAIN registers = AllRegs
      <4>1. cursor \in 0..Len(rows)  BY <1>1, <2>2, <2>5, <3>1, NextRow
      <4>2. /\ k \in 1..Len(executed) /\ commits = k - 1
            /\ written \subseteq ScratchRegs /\ DOMAIN registers = AllRegs
        BY <3>1 DEF At
      <4>3. commits \in 0..Len(executed)  BY <1>2, <4>2
      <4>4. QED  BY <4>1, <4>2, <4>3
    <3>2. QED  BY <2>4, <2>5, <3>1 DEF PipelineInv
  <2>6. CASE phase \in {"stage3", "accepted"}
    <3>1. Done /\ phase # "execute"  BY <2>6 DEF PipelineInv
    <3>2. QED  BY <2>4, <3>1
  <2>7. QED  BY <1>1, <2>1, <2>3, <2>5, <2>6 DEF PipelineInv
<1>4. QED  BY <1>1, <1>2, <1>3 DEF TypeOK, AllRegs

\* The state of the executor, of the pipeline and of stage 2's timelines has its shape in every
\* reachable state.
THEOREM PipelineTyped == PipelineSpec => []TypeOK
<1>1. QED  BY PipelineShape, PipelineStarts, PipelineKeeps, PTL DEF PipelineSpec

\* The replay computes on words as the machine does.
LEMMA ReplayWords ==
  /\ \A n : Replay!TwoTo(n) = TwoTo(n)
  /\ \A x : Replay!Wrap(x) = Wrap(x) /\ Replay!Signed(x) = Signed(x) /\ Replay!Low(x) = Low(x)
            /\ Replay!SignedLow(x) = SignedLow(x) /\ Replay!SignExtendWord(x) = SignExtendWord(x)
            /\ Replay!Bool(x) = Bool(x)
  /\ Replay!WordSize = WordSize /\ Replay!MaxWord = MaxWord
  /\ Replay!SignedMin = SignedMin /\ Replay!SignedLowMin = SignedLowMin
  /\ \A x, y : Replay!TruncDiv(x, y) = TruncDiv(x, y) /\ Replay!TruncRem(x, y) = TruncRem(x, y)
<1>1. ASSUME NEW n PROVE Replay!TwoTo(n) = TwoTo(n)  BY DEF Replay!TwoTo, TwoTo
<1>2. /\ Replay!WordSize = WordSize /\ Replay!SignBit = SignBit /\ Replay!LowSize = LowSize
      /\ Replay!LowSign = LowSign
  BY <1>1 DEF Replay!WordSize, WordSize, Replay!SignBit, SignBit, Replay!LowSize, LowSize, Replay!LowSign, LowSign
<1>3. /\ Replay!MaxWord = MaxWord /\ Replay!SignedMin = SignedMin /\ Replay!SignedLowMin = SignedLowMin
  BY <1>2 DEF Replay!MaxWord, MaxWord, Replay!SignedMin, SignedMin, Replay!SignedLowMin, SignedLowMin
<1>4. ASSUME NEW x
      PROVE  /\ Replay!Wrap(x) = Wrap(x) /\ Replay!Signed(x) = Signed(x) /\ Replay!Low(x) = Low(x)
             /\ Replay!Bool(x) = Bool(x)
  BY <1>2 DEF Replay!Wrap, Wrap, Replay!Signed, Signed, Replay!Low, Low, Replay!Bool, Bool
<1>5. ASSUME NEW x PROVE Replay!SignedLow(x) = SignedLow(x)
  BY <1>2, <1>4 DEF Replay!SignedLow, SignedLow
<1>6. ASSUME NEW x PROVE Replay!SignExtendWord(x) = SignExtendWord(x)
  BY <1>4, <1>5 DEF Replay!SignExtendWord, SignExtendWord
<1>7. ASSUME NEW x, NEW y PROVE Replay!TruncDiv(x, y) = TruncDiv(x, y)
  BY DEF Replay!TruncDiv, TruncDiv, Replay!Magnitude, Magnitude
<1>8. ASSUME NEW x, NEW y PROVE Replay!TruncRem(x, y) = TruncRem(x, y)
  BY <1>7 DEF Replay!TruncRem, TruncRem
<1>9. QED  BY <1>1, <1>2, <1>3, <1>4, <1>5, <1>6, <1>7, <1>8

\* Its bit operations are the machine's.
LEMMA ReplayBits ==
  \A a, b : /\ Replay!BitAnd(a, b) = BitAnd(a, b) /\ Replay!BitOr(a, b) = BitOr(a, b)
            /\ Replay!BitXor(a, b) = BitXor(a, b)
<1>1. ASSUME NEW x, NEW i PROVE Replay!Bit(x, i) = Bit(x, i)
  BY DEF Replay!Bit, Bit, Replay!TwoTo, TwoTo
<1>2. ASSUME NEW bits PROVE Replay!OfBits(bits) = OfBits(bits)
  BY DEF Replay!OfBits, OfBits, Replay!TwoTo, TwoTo
<1> SUFFICES ASSUME NEW a, NEW b
             PROVE  /\ Replay!BitAnd(a, b) = BitAnd(a, b) /\ Replay!BitOr(a, b) = BitOr(a, b)
                    /\ Replay!BitXor(a, b) = BitXor(a, b)
  OBVIOUS
<1>3. Replay!BitAnd(a, b) = BitAnd(a, b)
  BY DEF Replay!BitAnd, BitAnd, Replay!OfBits, OfBits, Replay!Bit, Bit, Replay!TwoTo, TwoTo
<1>4. Replay!BitOr(a, b) = BitOr(a, b)
  BY DEF Replay!BitOr, BitOr, Replay!OfBits, OfBits, Replay!Bit, Bit, Replay!TwoTo, TwoTo
<1>5. Replay!BitXor(a, b) = BitXor(a, b)
  BY DEF Replay!BitXor, BitXor, Replay!OfBits, OfBits, Replay!Bit, Bit, Replay!TwoTo, TwoTo
<1>6. QED  BY <1>3, <1>4, <1>5

\* Its multiplications and divisions are the machine's.
LEMMA ReplayDivisions ==
  ASSUME NEW a, NEW b
  PROVE  /\ Replay!MulHighSigned(a, b) = MulHighSigned(a, b)
         /\ Replay!MulHighSignedUnsigned(a, b) = MulHighSignedUnsigned(a, b)
         /\ Replay!MulHighUnsigned(a, b) = MulHighUnsigned(a, b) /\ Replay!MulWord(a, b) = MulWord(a, b)
         /\ Replay!DivSigned(a, b) = DivSigned(a, b) /\ Replay!RemSigned(a, b) = RemSigned(a, b)
         /\ Replay!DivUnsigned(a, b) = DivUnsigned(a, b) /\ Replay!RemUnsigned(a, b) = RemUnsigned(a, b)
         /\ Replay!DivWordSigned(a, b) = DivWordSigned(a, b)
         /\ Replay!RemWordSigned(a, b) = RemWordSigned(a, b)
         /\ Replay!DivWordUnsigned(a, b) = DivWordUnsigned(a, b)
         /\ Replay!RemWordUnsigned(a, b) = RemWordUnsigned(a, b)
<1>1. /\ Replay!MulHighSigned(a, b) = MulHighSigned(a, b)
      /\ Replay!MulHighSignedUnsigned(a, b) = MulHighSignedUnsigned(a, b)
      /\ Replay!MulHighUnsigned(a, b) = MulHighUnsigned(a, b)
  BY ReplayWords DEF Replay!MulHighSigned, MulHighSigned, Replay!MulHighSignedUnsigned, MulHighSignedUnsigned,
     Replay!MulHighUnsigned, MulHighUnsigned
<1>2. Replay!MulWord(a, b) = MulWord(a, b)
  BY ReplayWords DEF Replay!MulWord, MulWord
<1>3. Replay!DivSigned(a, b) = DivSigned(a, b)
  BY ReplayWords DEF Replay!DivSigned, DivSigned
<1>4. Replay!RemSigned(a, b) = RemSigned(a, b)
  BY ReplayWords DEF Replay!RemSigned, RemSigned
<1>5. Replay!DivUnsigned(a, b) = DivUnsigned(a, b) /\ Replay!RemUnsigned(a, b) = RemUnsigned(a, b)
  BY ReplayWords DEF Replay!DivUnsigned, DivUnsigned, Replay!RemUnsigned, RemUnsigned
<1>6. Replay!DivWordSigned(a, b) = DivWordSigned(a, b)
  BY ReplayWords DEF Replay!DivWordSigned, DivWordSigned
<1>7. Replay!RemWordSigned(a, b) = RemWordSigned(a, b)
  BY ReplayWords DEF Replay!RemWordSigned, RemWordSigned
<1>8. Replay!DivWordUnsigned(a, b) = DivWordUnsigned(a, b)
  BY ReplayWords DEF Replay!DivWordUnsigned, DivWordUnsigned
<1>9. Replay!RemWordUnsigned(a, b) = RemWordUnsigned(a, b)
  BY ReplayWords DEF Replay!RemWordUnsigned, RemWordUnsigned
<1>10. QED  BY <1>1, <1>2, <1>3, <1>4, <1>5, <1>6, <1>7, <1>8, <1>9

\* It has the machine's arithmetic instructions and branches.
LEMMA ReplayAlu ==
  /\ \A op, a, b : Replay!Alu(op, a, b) = Alu(op, a, b)
  /\ \A op, a, b : Replay!Taken(op, a, b) = Taken(op, a, b)
<1>1. ASSUME NEW op, NEW a, NEW b PROVE Replay!Alu(op, a, b) = Alu(op, a, b)
  BY ReplayWords, ReplayBits, ReplayDivisions DEF Replay!Alu, Alu
<1>2. ASSUME NEW op, NEW a, NEW b PROVE Replay!Taken(op, a, b) = Taken(op, a, b)
  BY ReplayWords DEF Replay!Taken, Taken
<1>3. QED  BY <1>1, <1>2

\* It has the machine's loads and stores.
LEMMA ReplayMemory ==
  /\ \A op, addr : Replay!Aligned(op, addr) = Aligned(op, addr)
  /\ \A addr : Replay!BackingAddr(addr) = BackingAddr(addr)
  /\ \A op, word, addr : Replay!ExtractNarrow(word, addr, op) = ExtractNarrow(word, addr, op)
  /\ \A op, word, addr, v : Replay!BlendNarrow(word, addr, op, v) = BlendNarrow(word, addr, op, v)
  /\ \A mem, addr : Replay!ReadMem(mem, addr) = ReadMem(mem, addr)
  /\ \A mem, addr, word : Replay!WriteMem(mem, addr, word) = WriteMem(mem, addr, word)
  /\ \A regs, rd, v : Replay!WriteReg(regs, rd, v) = WriteReg(regs, rd, v)
<1>1. ASSUME NEW op
      PROVE  Replay!NarrowBytes(op) = NarrowBytes(op) /\ Replay!NarrowSigned(op) = NarrowSigned(op)
             /\ Replay!ByteBits = ByteBits
  BY DEF Replay!NarrowBytes, NarrowBytes, Replay!NarrowSigned, NarrowSigned, Replay!ByteBits, ByteBits
<1>2. ASSUME NEW addr
      PROVE  Replay!ByteOffset(addr) = ByteOffset(addr) /\ Replay!BackingAddr(addr) = BackingAddr(addr)
  BY DEF Replay!ByteOffset, ByteOffset, Replay!BackingAddr, BackingAddr
<1>3. ASSUME NEW op, NEW addr PROVE Replay!Aligned(op, addr) = Aligned(op, addr)
  BY <1>1, <1>2 DEF Replay!Aligned, Aligned
<1>4. ASSUME NEW op, NEW word, NEW addr
      PROVE  Replay!ExtractNarrow(word, addr, op) = ExtractNarrow(word, addr, op)
  BY <1>1, <1>2, ReplayWords DEF Replay!ExtractNarrow, ExtractNarrow
<1>5. ASSUME NEW op, NEW word, NEW addr, NEW v
      PROVE  Replay!BlendNarrow(word, addr, op, v) = BlendNarrow(word, addr, op, v)
  BY <1>1, <1>2, ReplayWords DEF Replay!BlendNarrow, BlendNarrow
<1>6. ASSUME NEW mem, NEW addr, NEW word
      PROVE  /\ Replay!ReadMem(mem, addr) = ReadMem(mem, addr)
             /\ Replay!WriteMem(mem, addr, word) = WriteMem(mem, addr, word)
  BY DEF Replay!ReadMem, ReadMem, Replay!WriteMem, WriteMem
<1>7. ASSUME NEW regs, NEW rd, NEW v PROVE Replay!WriteReg(regs, rd, v) = WriteReg(regs, rd, v)
  BY DEF Replay!WriteReg, WriteReg
<1>8. QED  BY <1>2, <1>3, <1>4, <1>5, <1>6, <1>7

\* What a commit does to the replayed machine: it takes the executed step e.
Replays(e) ==
  /\ committed = e.prev /\ committed' = e.next /\ program' = program
  /\ Len(SubSeq(executed, 1, commits)) = e.step_index
  /\ SubSeq(executed, 1, commits)' = Append(SubSeq(executed, 1, commits), e)

\* The replayed machine reads the instruction and the operands of the step.
LEMMA ReplayReads ==
  ASSUME NEW e, NEW n, IsStep(e, n), FetchedBy(e), Replays(e)
  PROVE  /\ Replay!Fetches /\ Replay!Current = e.decoded /\ Replay!Op = e.decoded.op
         /\ Replay!Imm = ImmOf(e) /\ Replay!Rs1Value = e.rs1_value /\ Replay!Rs2Value = e.rs2_value
         /\ Replay!Address = AddrOf(e) /\ Replay!BranchTarget = Wrap(e.prev.pc + ImmOf(e))
         /\ Replay!JalrTarget = 2 * (AddrOf(e) \div 2)
         /\ e.decoded.op \in BranchOps => (Replay!BranchTaken <=> TakenBy(e))
<1>1. committed = e.prev  BY DEF Replays
<1>2. Replay!Fetches /\ Replay!Current = e.decoded
  BY <1>1 DEF FetchedBy, Replay!Fetches, Replay!FetchIndex, Replay!Current
<1>3. /\ Replay!Op = e.decoded.op /\ Replay!Imm = ImmOf(e)
      /\ Replay!Rs1Value = e.rs1_value /\ Replay!Rs2Value = e.rs2_value
  BY <1>1, <1>2, StepFields, ReplayWords
     DEF Replay!Op, Replay!Imm, ImmOf, Replay!Rs1Value, Replay!Rs2Value
<1>4. /\ Replay!Address = AddrOf(e) /\ Replay!BranchTarget = Wrap(e.prev.pc + ImmOf(e))
  BY <1>1, <1>3, ReplayWords DEF Replay!Address, AddrOf, Replay!BranchTarget
<1>5. Replay!JalrTarget = 2 * (AddrOf(e) \div 2)  BY <1>4 DEF Replay!JalrTarget
<1>6. Replay!BranchOps = BranchOps  BY DEF Replay!BranchOps, BranchOps
<1>7. e.decoded.op \in BranchOps => (Replay!BranchTaken <=> TakenBy(e))
  BY <1>3, <1>6, ReplayAlu DEF Replay!BranchTaken, TakenBy
<1>8. QED  BY <1>2, <1>3, <1>4, <1>5, <1>7

\* It records the step that was executed.
LEMMA ReplayRecords ==
  ASSUME NEW e, NEW n, IsStep(e, n), FetchedBy(e), Replays(e),
         NEW next, NEW result, NEW addr, NEW before, NEW after,
         e.next = next, e.alu_result = result, Accesses(e, addr, before, after)
  PROVE  Replay!Step(next, result, addr, before, after)
<1>1. /\ committed = e.prev /\ committed' = next /\ program' = program
      /\ Len(SubSeq(executed, 1, commits)) = n
      /\ SubSeq(executed, 1, commits)' = Append(SubSeq(executed, 1, commits), e)
  BY StepFields DEF Replays
<1>2. e = StepRecord(n, e.decoded, e.prev, next, result, addr, before, after)
  BY DEF IsStep, Accesses
<1>3. Replay!Current = e.decoded /\ Replay!Rs1Value = e.rs1_value /\ Replay!Rs2Value = e.rs2_value
  BY ReplayReads
<1>4. e = [step_index |-> Len(SubSeq(executed, 1, commits)), decoded |-> Replay!Current, prev |-> committed,
           next |-> next, rs1_value |-> Replay!Rs1Value, rs2_value |-> Replay!Rs2Value,
           rd_before |-> committed.regs[Replay!Current.rd], alu_result |-> result, effective_addr |-> addr,
           memory_before |-> before, memory_after |-> after]
  BY <1>1, <1>2, <1>3, StepFields DEF StepRecord
<1>5. SubSeq(executed, 1, commits)'
        = Append(SubSeq(executed, 1, commits),
                 [step_index |-> Len(SubSeq(executed, 1, commits)), decoded |-> Replay!Current, prev |-> committed,
                  next |-> next, rs1_value |-> Replay!Rs1Value, rs2_value |-> Replay!Rs2Value,
                  rd_before |-> committed.regs[Replay!Current.rd], alu_result |-> result, effective_addr |-> addr,
                  memory_before |-> before, memory_after |-> after])
  BY <1>1, <1>4
<1>6. (IF committed.halted THEN "halted" ELSE "running")' = IF next.halted THEN "halted" ELSE "running"
  BY <1>1
<1>7. QED  BY <1>1, <1>5, <1>6, Zenon DEF Replay!Step

\* It may take the step: there is room for it, and the instruction does not fault.
LEMMA ReplayExecutes ==
  ASSUME NEW e, NEW n, IsStep(e, n), FetchedBy(e), Replays(e), n < MaxSteps, NEW ops, e.decoded.op \in ops
  PROVE  Replay!Executes(ops)
<1>1. committed = e.prev /\ Len(SubSeq(executed, 1, commits)) = n /\ ~e.prev.halted
  BY StepFields DEF Replays, IsStep
<1>2. /\ Replay!Fetches /\ Replay!Op = e.decoded.op /\ Replay!Address = AddrOf(e)
      /\ Replay!BranchTarget = Wrap(e.prev.pc + ImmOf(e))
      /\ Replay!JalrTarget = 2 * (AddrOf(e) \div 2)
      /\ e.decoded.op \in BranchOps => (Replay!BranchTaken <=> TakenBy(e))
  BY ReplayReads
<1>3. /\ Replay!NarrowOps = NarrowOps /\ Replay!BranchOps = BranchOps
  BY DEF Replay!NarrowOps, Replay!NarrowLoads, Replay!NarrowStores, NarrowOps, NarrowLoads, NarrowStores,
         Replay!BranchOps, BranchOps
<1>4. e.decoded.op # "Illegal" /\ (e.decoded.op \in NarrowOps \cup {"Ld", "Sd"} => AccessIsAligned(e))
  <2>1. IsOutcome(e)  BY DEF IsStep
  <2>2. CASE IsLoadStep(e)
    BY <2>2 DEF IsLoadStep, LoadOps, NarrowLoads
  <2>3. CASE IsStoreStep(e)
    BY <2>3 DEF IsStoreStep, StoreOps, NarrowStores
  <2>4. CASE e.decoded.op \in AluOps \cup BranchOps \cup {"Lui", "Auipc", "Jal", "Jalr", "Fence", "Ecall"}
    BY <2>4 DEF AluOps, BranchOps, NarrowOps, NarrowLoads, NarrowStores
  <2>5. QED
    BY <2>1, <2>2, <2>3, <2>4
    DEF IsOutcome, IsAluStep, IsUpperStep, IsJumpStep, IsBranchStep, IsFenceStep, IsEcallStep
<1>5. e.decoded.op = "Jalr" => (2 * (AddrOf(e) \div 2)) % 4 = 0
  BY DEF IsStep, IsOutcome, IsAluStep, IsUpperStep, IsLoadStep, IsStoreStep, IsJumpStep, IsBranchStep,
         IsFenceStep, IsEcallStep, AluOps, LoadOps, StoreOps, NarrowLoads, NarrowStores, BranchOps
<1>6. e.decoded.op \in BranchOps /\ TakenBy(e) => Wrap(e.prev.pc + ImmOf(e)) % 4 = 0
  BY DEF IsStep, IsOutcome, IsAluStep, IsUpperStep, IsLoadStep, IsStoreStep, IsJumpStep, IsBranchStep,
         IsFenceStep, IsEcallStep, AluOps, LoadOps, StoreOps, NarrowLoads, NarrowStores, BranchOps
<1>7. ~Replay!Faults
  <2>1. Replay!Op \in NarrowOps => Replay!Aligned(Replay!Op, Replay!Address)
    BY <1>2, <1>4, ReplayMemory DEF AccessIsAligned
  <2>2. Replay!Op \in {"Ld", "Sd"} => Replay!Address % 8 = 0
    BY <1>2, <1>4 DEF AccessIsAligned, NarrowOps, NarrowLoads, NarrowStores
  <2>3. Replay!Op = "Jalr" => Replay!JalrTarget % 4 = 0  BY <1>2, <1>5
  <2>4. Replay!BranchTaken => Replay!BranchTarget % 4 = 0
    <3>1. Replay!BranchTaken => e.decoded.op \in BranchOps  BY <1>2, <1>3 DEF Replay!BranchTaken
    <3>2. QED  BY <1>2, <1>6, <3>1
  <2>5. QED  BY <1>2, <1>3, <1>4, <2>1, <2>2, <2>3, <2>4 DEF Replay!Faults
<1>8. QED  BY <1>1, <1>2, <1>7 DEF Replay!Executes

\* So every commit is a step of the architecture.
LEMMA ReplaySteps ==
  ASSUME NEW e, NEW n, IsStep(e, n), FetchedBy(e), Replays(e), n < MaxSteps
  PROVE  Replay!MNext
<1>1. /\ committed = e.prev /\ Replay!Current = e.decoded /\ Replay!Op = e.decoded.op
      /\ Replay!Imm = ImmOf(e) /\ Replay!Rs1Value = e.rs1_value /\ Replay!Rs2Value = e.rs2_value
      /\ Replay!Address = AddrOf(e) /\ Replay!BranchTarget = Wrap(e.prev.pc + ImmOf(e))
      /\ Replay!JalrTarget = 2 * (AddrOf(e) \div 2)
      /\ e.decoded.op \in BranchOps => (Replay!BranchTaken <=> TakenBy(e))
  BY ReplayReads DEF Replays
<1>2. ASSUME NEW v PROVE Replay!Retire(v) = Retired(e.prev, e.decoded.rd, v)
  BY <1>1, ReplayMemory DEF Replay!Retire, Retired
<1>3. ASSUME NEW ops, e.decoded.op \in ops PROVE Replay!Executes(ops)  BY <1>3, ReplayExecutes
<1>4. ASSUME NEW next, NEW result, NEW addr, NEW before, NEW after,
             e.next = next, e.alu_result = result, Accesses(e, addr, before, after)
      PROVE  Replay!Step(next, result, addr, before, after)
  BY <1>4, ReplayRecords
<1>5. ASSUME NEW next, NEW result, e.next = next, e.alu_result = result, Accesses(e, None, None, None)
      PROVE  Replay!Advance(next, result)
  BY <1>4, <1>5 DEF Replay!Advance
<1>6. CASE IsAluStep(e)
  <2> DEFINE v == Replay!Alu(Replay!Op, Replay!Rs1Value, IF Replay!Op \in Replay!ImmediateOps THEN Replay!Imm
                                                          ELSE Replay!Rs2Value)
  <2>1. Replay!ImmediateOps = ImmediateOps /\ Replay!AluOps = AluOps
    BY DEF Replay!ImmediateOps, ImmediateOps, Replay!AluOps, AluOps
  <2>2. e.alu_result = v  BY <1>1, <1>6, <2>1, ReplayAlu DEF IsAluStep
  <2>3. e.next = Replay!Retire(v) /\ Accesses(e, None, None, None)
    BY <1>2, <1>6, <2>2 DEF IsAluStep
  <2>4. Replay!Advance(Replay!Retire(v), v)  BY <1>5, <2>2, <2>3
  <2>5. Replay!Executes(Replay!AluOps)  BY <1>3, <1>6, <2>1 DEF IsAluStep
  <2>6. Replay!ExecuteAlu  BY <2>4, <2>5, Zenon DEF Replay!ExecuteAlu
  <2>7. QED  BY <2>6 DEF Replay!MNext
<1>7. CASE IsUpperStep(e)
  <2> DEFINE v == IF Replay!Op = "Lui" THEN Replay!Imm ELSE Replay!Wrap(committed.pc + Replay!Imm)
  <2>1. e.alu_result = v  BY <1>1, <1>7, ReplayWords DEF IsUpperStep
  <2>2. e.next = Replay!Retire(v) /\ Accesses(e, None, None, None)
    BY <1>2, <1>7, <2>1 DEF IsUpperStep
  <2>3. Replay!Advance(Replay!Retire(v), v)  BY <1>5, <2>1, <2>2
  <2>4. Replay!Executes({"Lui", "Auipc"})  BY <1>3, <1>7 DEF IsUpperStep
  <2>5. Replay!ExecuteUpper  BY <2>3, <2>4, Zenon DEF Replay!ExecuteUpper
  <2>6. QED  BY <2>5 DEF Replay!MNext
<1>8. CASE IsLoadStep(e)
  <2> DEFINE word == Replay!ReadMem(committed.mem, Replay!BackingAddr(Replay!Address))
             v == IF Replay!Op = "Ld" THEN word ELSE Replay!ExtractNarrow(word, Replay!Address, Replay!Op)
  <2>1. word = ReadMem(e.prev.mem, BackingAddr(AddrOf(e)))  BY <1>1, ReplayMemory
  <2>2. e.alu_result = v  BY <1>1, <1>8, <2>1, ReplayMemory DEF IsLoadStep
  <2>3. e.next = Replay!Retire(v) /\ Accesses(e, Replay!Address, word, word)
    BY <1>1, <1>2, <1>8, <2>1, <2>2 DEF IsLoadStep
  <2>4. Replay!Step(Replay!Retire(v), v, Replay!Address, word, word)  BY <1>4, <2>2, <2>3
  <2>5. Replay!Executes(Replay!NarrowLoads \cup {"Ld"})
    BY <1>3, <1>8 DEF IsLoadStep, LoadOps, NarrowLoads, Replay!NarrowLoads
  <2>6. Replay!ExecuteLoad  BY <2>4, <2>5, Zenon DEF Replay!ExecuteLoad
  <2>7. QED  BY <2>6 DEF Replay!MNext
<1>9. CASE IsStoreStep(e)
  <2> DEFINE addr == Replay!BackingAddr(Replay!Address)
             word == Replay!ReadMem(committed.mem, addr)
             after == IF Replay!Op = "Sd" THEN Replay!Rs2Value
                      ELSE Replay!BlendNarrow(word, Replay!Address, Replay!Op, Replay!Rs2Value)
             next == [committed EXCEPT !.pc = @ + 4, !.mem = Replay!WriteMem(@, addr, after)]
  <2>1. addr = BackingAddr(AddrOf(e)) /\ word = ReadMem(e.prev.mem, addr)  BY <1>1, ReplayMemory
  <2>2. e.alu_result = after  BY <1>1, <1>9, <2>1, ReplayMemory DEF IsStoreStep
  <2>3. e.next = [e.prev EXCEPT !.pc = @ + 4, !.mem = WriteMem(@, addr, after)]
    BY <1>9, <2>1, <2>2 DEF IsStoreStep
  <2>4. e.next = next  BY <1>1, <2>3, ReplayMemory
  <2>5. Accesses(e, Replay!Address, word, after)  BY <1>1, <1>9, <2>1, <2>2 DEF IsStoreStep
  <2>6. Replay!Step(next, after, Replay!Address, word, after)  BY <1>4, <2>2, <2>4, <2>5
  <2>7. Replay!Executes(Replay!NarrowStores \cup {"Sd"})
    BY <1>3, <1>9 DEF IsStoreStep, StoreOps, NarrowStores, Replay!NarrowStores
  <2>8. Replay!ExecuteStore  BY <2>6, <2>7, Zenon DEF Replay!ExecuteStore
  <2>9. QED  BY <2>8 DEF Replay!MNext
<1>10. CASE IsJumpStep(e)
  <2> DEFINE link == committed.pc + 4
             next == [committed EXCEPT !.pc = IF Replay!Op = "Jal" THEN Replay!BranchTarget ELSE Replay!JalrTarget,
                                       !.regs = Replay!WriteReg(@, Replay!Current.rd, link)]
  <2>1. e.alu_result = link /\ Accesses(e, None, None, None)  BY <1>1, <1>10 DEF IsJumpStep
  <2>2. e.next = [e.prev EXCEPT !.pc = IF Replay!Op = "Jal" THEN Replay!BranchTarget ELSE Replay!JalrTarget,
                                !.regs = WriteReg(@, Replay!Current.rd, link)]
    BY <1>1, <1>10, <2>1 DEF IsJumpStep
  <2>3. e.next = next  BY <1>1, <2>2, ReplayMemory
  <2>4. Replay!Advance(next, link)  BY <1>5, <2>1, <2>3
  <2>5. Replay!Executes({"Jal", "Jalr"})  BY <1>3, <1>10 DEF IsJumpStep
  <2>6. Replay!ExecuteJump  BY <2>4, <2>5, Zenon DEF Replay!ExecuteJump
  <2>7. QED  BY <2>6 DEF Replay!MNext
<1>11. CASE IsBranchStep(e)
  <2> DEFINE next == [committed EXCEPT !.pc = IF Replay!BranchTaken THEN Replay!BranchTarget ELSE @ + 4]
             v == Replay!Bool(Replay!BranchTaken)
  <2>1. /\ e.decoded.op \in BranchOps /\ e.alu_result = Bool(TakenBy(e)) /\ Accesses(e, None, None, None)
        /\ e.next = [e.prev EXCEPT !.pc = IF TakenBy(e) THEN Wrap(e.prev.pc + ImmOf(e)) ELSE @ + 4]
        /\ (Replay!BranchTaken <=> TakenBy(e))
    BY <1>1, <1>11 DEF IsBranchStep
  <2>2. e.alu_result = v
    <3>1. CASE TakenBy(e)  BY <2>1, <3>1 DEF Bool, Replay!Bool
    <3>2. CASE ~TakenBy(e)  BY <2>1, <3>2 DEF Bool, Replay!Bool
    <3>3. QED  BY <3>1, <3>2
  <2>3. e.next = next
    <3>1. CASE TakenBy(e)  BY <1>1, <2>1, <3>1
    <3>2. CASE ~TakenBy(e)  BY <1>1, <2>1, <3>2
    <3>3. QED  BY <3>1, <3>2
  <2>4. Replay!Advance(next, v)  BY <1>5, <2>1, <2>2, <2>3
  <2>5. Replay!Executes(Replay!BranchOps)  BY <1>3, <2>1 DEF BranchOps, Replay!BranchOps
  <2>6. Replay!ExecuteBranch  BY <2>4, <2>5, Zenon DEF Replay!ExecuteBranch
  <2>7. QED  BY <2>6 DEF Replay!MNext
<1>12. CASE IsFenceStep(e)
  <2>1. e.next = [committed EXCEPT !.pc = @ + 4] /\ e.alu_result = 0 /\ Accesses(e, None, None, None)
    BY <1>1, <1>12 DEF IsFenceStep
  <2>2. Replay!Advance([committed EXCEPT !.pc = @ + 4], 0)  BY <1>5, <2>1
  <2>3. Replay!Executes({"Fence"})  BY <1>3, <1>12 DEF IsFenceStep
  <2>4. Replay!ExecuteFence  BY <2>2, <2>3, Zenon DEF Replay!ExecuteFence
  <2>5. QED  BY <2>4 DEF Replay!MNext
<1>13. CASE IsEcallStep(e)
  <2>1. /\ e.next = [committed EXCEPT !.pc = @ + 4, !.halted = TRUE] /\ e.alu_result = 0
        /\ Accesses(e, None, None, None)
    BY <1>1, <1>13 DEF IsEcallStep
  <2>2. Replay!Advance([committed EXCEPT !.pc = @ + 4, !.halted = TRUE], 0)  BY <1>5, <2>1
  <2>3. Replay!Executes({"Ecall"})  BY <1>3, <1>13 DEF IsEcallStep
  <2>4. Replay!ExecuteEcall  BY <2>2, <2>3, Zenon DEF Replay!ExecuteEcall
  <2>5. QED  BY <2>4 DEF Replay!MNext
<1>14. IsOutcome(e)  BY DEF IsStep
<1>15. QED
  BY <1>6, <1>7, <1>8, <1>9, <1>10, <1>11, <1>12, <1>13, <1>14 DEF IsOutcome

\* The first k steps are the first k - 1 and the k-th.
LEMMA OneMore ==
  ASSUME NEW s, IsSeq(s), NEW k \in 1..Len(s)
  PROVE  /\ Len(SubSeq(s, 1, k - 1)) = k - 1
         /\ SubSeq(s, 1, k) = Append(SubSeq(s, 1, k - 1), s[k])
<1> DEFINE a == SubSeq(s, 1, k - 1)
           b == SubSeq(s, 1, k)
           c == Append(a, s[k])
<1>1. Len(s) \in Nat /\ k \in Nat /\ k - 1 \in Nat /\ k <= Len(s) /\ k - 1 <= Len(s) /\ 1 <= k /\ 1 \in Nat \ {0}
  BY IsSeqLen
<1>2. /\ IsSeq(a) /\ Len(a) = (IF 1 <= k - 1 THEN (k - 1) - 1 + 1 ELSE 0)
      /\ \A i \in 1..((k - 1) - 1 + 1) : a[i] = s[1 + i - 1]
  BY <1>1, SubSeqSeq
<1>3. /\ IsSeq(b) /\ Len(b) = (IF 1 <= k THEN k - 1 + 1 ELSE 0)
      /\ \A i \in 1..(k - 1 + 1) : b[i] = s[1 + i - 1]
  BY <1>1, SubSeqSeq
<1>4. Len(a) = k - 1 /\ Len(b) = k  BY <1>1, <1>2, <1>3
<1>5. (\A i \in 1..(k - 1) : a[i] = s[i]) /\ (\A i \in 1..k : b[i] = s[i])  BY <1>1, <1>2, <1>3
<1>6. /\ IsSeq(c) /\ Len(c) = Len(a) + 1 /\ c[Len(a) + 1] = s[k]
      /\ \A i \in 1..Len(a) : c[i] = a[i]
  BY <1>2, AppendSeq
<1> HIDE DEF a, b, c
<1>7. Len(c) = k /\ c[k] = s[k] /\ \A i \in 1..(k - 1) : c[i] = s[i]  BY <1>1, <1>4, <1>5, <1>6
<1>8. \A i \in 1..Len(b) : b[i] = c[i]
  <2>1. ASSUME NEW i \in 1..k PROVE b[i] = c[i]
    <3>1. i = k \/ i \in 1..(k - 1)  BY <1>1
    <3>2. QED  BY <1>5, <1>7, <3>1
  <2>2. QED  BY <1>4, <2>1
<1>9. b = c  BY <1>3, <1>4, <1>6, <1>7, <1>8, SameSeq
<1>10. QED  BY <1>4, <1>9 DEF a, b, c

\* The replay begins with the machine that the program starts in.
LEMMA ReplayStarts == Init => Replay!MInit
<1> SUFFICES ASSUME Init PROVE Replay!MInit  OBVIOUS
<1>1. MInit /\ committed = state /\ commits = 0  BY DEF Init
<1>2. PICK scenario \in Scenarios :
        /\ program = scenario.program
        /\ state = [pc |-> StartPc, regs |-> [scenario.regs EXCEPT ![0] = 0],
                    mem |-> scenario.mem, halted |-> FALSE]
  BY <1>1 DEF MInit
<1>3. committed = [pc |-> StartPc, regs |-> [scenario.regs EXCEPT ![0] = 0],
                   mem |-> scenario.mem, halted |-> FALSE]
  BY <1>1, <1>2
<1>4. (IF committed.halted THEN "halted" ELSE "running") = "running"  BY <1>3
<1>5. SubSeq(executed, 1, commits) = <<>>
  <2>1. IsSeq(executed) /\ Len(executed) = 0  BY <1>1, EmptyIsSeq DEF MInit
  <2>2. 0 \in 0..Len(executed) /\ 0 \in 0..Len(executed)  BY <2>1
  <2>3. IsSeq(SubSeq(executed, 1, 0)) /\ Len(SubSeq(executed, 1, 0)) = 0  BY <2>1, <2>2, SplitSeq
  <2>4. QED  BY <1>1, <2>3, LenZero
<1>6. QED  BY <1>2, <1>3, <1>4, <1>5 DEF Replay!MInit

\* While nothing is committed, whatever is executed, the replay has taken no step.
LEMMA NothingReplayed == MachineInv /\ commits = 0 => SubSeq(executed, 1, commits) = <<>>
<1> SUFFICES ASSUME MachineInv, commits = 0 PROVE SubSeq(executed, 1, commits) = <<>>  OBVIOUS
<1>1. IsSeq(executed) /\ Len(executed) \in Nat  BY IsSeqLen DEF MachineInv
<1>2. 0 \in 0..Len(executed)  BY <1>1
<1>3. IsSeq(SubSeq(executed, 1, 0)) /\ Len(SubSeq(executed, 1, 0)) = 0  BY <1>1, <1>2, SplitSeq
<1>4. QED  BY <1>3, LenZero

\* A commit row is a step of the replay; a row before it moves nothing.
LEMMA ReplayRow ==
  ASSUME PipelineInv, LoweringInv', VerifyStage2Row
  PROVE  Replay!MNext \/ UNCHANGED Replay!mvars
<1>1. MachineInv /\ LaidOut /\ Remains(summary, rows, cursor)  BY Stage2Keeps
<1>2. PICK k \in Nat, j \in Nat : At(k, j)  BY Stage2Keeps
<1> DEFINE e == executed[k]
           last == (j + 1 = Len(PieceOf(k)))
<1>3. k \in 1..Len(executed) /\ commits = k - 1 /\ committed = e.prev  BY <1>2 DEF At
<1>4. /\ UNCHANGED <<program, state, executed, status, rows>>
      /\ commits' = commits + (IF last THEN 1 ELSE 0)
      /\ committed' = (IF last THEN e.next ELSE committed)
  <2>1. last = (j + 1 = Len(PieceOf(k)))  OBVIOUS
  <2> HIDE DEF last
  <2>2. QED  BY <1>1, <1>2, <2>1, RowTaken
<1>5. CASE last
  <2>1. IsStep(e, k - 1) /\ FetchedBy(e) /\ k - 1 < MaxSteps /\ IsSeq(executed)
    BY <1>1, <1>3 DEF MachineInv, StepInv
  <2>2. committed' = e.next /\ commits' = k
    <3>1. commits' = (k - 1) + 1  BY <1>3, <1>4, <1>5
    <3>2. QED  BY <1>4, <1>5, <3>1
  <2>3. /\ Len(SubSeq(executed, 1, k - 1)) = k - 1
        /\ SubSeq(executed, 1, k) = Append(SubSeq(executed, 1, k - 1), executed[k])
    BY <1>3, <2>1, OneMore
  <2>4. SubSeq(executed, 1, commits)' = Append(SubSeq(executed, 1, commits), e)
    BY <1>3, <1>4, <2>2, <2>3
  <2>5. Len(SubSeq(executed, 1, commits)) = e.step_index  BY <1>3, <2>1, <2>3, StepFields
  <2>6. Replays(e)  BY <1>3, <1>4, <2>2, <2>4, <2>5 DEF Replays
  <2>7. QED  BY <2>1, <2>6, ReplaySteps
<1>6. CASE ~last
  <2>1. commits' = commits
    <3>1. commits' = commits + 0  BY <1>4, <1>6
    <3>2. QED  BY <1>3, <3>1
  <2>2. committed' = committed /\ executed' = executed /\ program' = program  BY <1>4, <1>6
  <2>3. UNCHANGED Replay!mvars  BY <2>1, <2>2 DEF Replay!mvars
  <2>4. QED  BY <2>3
<1>7. QED  BY <1>5, <1>6

\* Every step of the pipeline is a step of the replay, or moves nothing of it.
LEMMA ReplayNext == PipelineInv /\ [Next]_allvars => [Replay!MNext]_Replay!mvars
<1> SUFFICES ASSUME PipelineInv, [Next]_allvars PROVE Replay!MNext \/ UNCHANGED Replay!mvars  OBVIOUS
<1>1. LoweringInv /\ LoweringInv' /\ MachineInv /\ MachineInv'
  <2>1. LoweringInv /\ LoweringInv'  BY LoweringKeeps DEF PipelineInv
  <2>2. QED  BY <2>1 DEF LoweringInv
<1>2. ASSUME UNCHANGED <<program, executed, committed, commits>> PROVE UNCHANGED Replay!mvars
  BY <1>2 DEF Replay!mvars
<1>3. CASE Execute
  <2>1. phase = "execute" /\ MNext /\ UNCHANGED pvars  BY <1>3 DEF Execute
  <2>2. commits = 0  BY <2>1 DEF PipelineInv, Fresh
  <2>3. commits' = 0 /\ committed' = committed  BY <2>1, <2>2 DEF pvars
  <2>4. SubSeq(executed, 1, commits) = <<>>  BY <1>1, <2>2, NothingReplayed
  <2>5. SubSeq(executed, 1, commits)' = <<>>
    <3>1. (MachineInv /\ commits = 0 => SubSeq(executed, 1, commits) = <<>>)'  BY NothingReplayed, PTL
    <3>2. QED  BY <1>1, <2>3, <3>1
  <2>6. program' = program
    BY <2>1, Zenon
    DEF MNext, ExecuteAlu, ExecuteUpper, ExecuteLoad, ExecuteStore, ExecuteJump, ExecuteBranch, ExecuteFence,
        ExecuteEcall, Fail, Advance, Step
  <2>7. QED  BY <2>3, <2>4, <2>5, <2>6 DEF Replay!mvars
<1>4. CASE Lower  BY <1>2, <1>4 DEF Lower
<1>5. CASE VerifyStage1
  <2>1. UNCHANGED <<program, executed, committed, commits>>  BY <1>5, Zenon DEF VerifyStage1
  <2>2. QED  BY <1>2, <2>1
<1>6. CASE VerifyStage2Row  BY <1>1, <1>6, ReplayRow
<1>7. CASE VerifyStage2End  BY <1>2, <1>7 DEF VerifyStage2End
<1>8. CASE VerifyStage3  BY <1>2, <1>8 DEF VerifyStage3
<1>9. CASE UNCHANGED allvars  BY <1>2, <1>9 DEF allvars
<1>10. QED  BY <1>3, <1>4, <1>5, <1>6, <1>7, <1>8, <1>9 DEF Next

\* The pipeline implements the machine: replayed by stage 2 from the rows alone, every lowered
\* sequence, from commit row to commit row, is one step of the architecture with the same registers,
\* memory and pc, and between commits nothing architectural shows.
THEOREM TraceReplays == PipelineSpec => ReplayRunsTheMachine
<1>1. QED
  BY ReplayStarts, ReplayNext, PipelineStarts, PipelineKeeps, PTL
  DEF PipelineSpec, ReplayRunsTheMachine, Replay!MSpec
=============================================================================
