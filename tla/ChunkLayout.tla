---------------------------- MODULE ChunkLayout ----------------------------
(***************************************************************************)
(* How a run's steps are cut into chunks, and the two validators that      *)
(* decide whether a chunk list is such a cut: the one of the run API       *)
(* (run.rs) and the one of the fixed-shape final relation (finalize.rs),   *)
(* which only sees per-chunk summaries.                                    *)
(***************************************************************************)
EXTENDS Integers, Sequences, SequencesExt

\* A FoldSchedule.  rows is 0 under WholeTrace, as in the meta words.
WholeTrace == [whole |-> TRUE, rows |-> 0]
RowsPerChunk(rows) == [whole |-> FALSE, rows |-> rows]
Schedules == [whole : BOOLEAN, rows : Nat]

ScheduleValid(sched) == sched.whole \/ sched.rows # 0

MetaWords(sched) == IF sched.whole THEN <<0, 0>> ELSE <<1, sched.rows>>

\* Asked for a valid schedule only: chunk_count validates first.
ChunkCount(sched, steps) ==
  IF steps = 0 THEN 0
  ELSE IF sched.whole THEN 1 ELSE (steps + sched.rows - 1) \div sched.rows

\* The running start index advances by the chunk length, not by the size of the
\* chunk just made.
PartitionItems_lostTail(sched, items) ==
  LET total == Len(items)
      chunkLen == IF sched.whole THEN total ELSE sched.rows
      From[start \in 0..(total + chunkLen)] ==
        IF start + chunkLen > total \/ start = total THEN <<>>
        ELSE <<[start |-> start, steps |-> SubSeq(items, start + 1, start + chunkLen)]>>
               \o From[start + chunkLen]
  IN  From[0]

\* The partitioning loop: a cursor over the items and a running start index.
\* The result is the list of [start, steps]; asked for a valid schedule only.
PartitionItems(sched, items) ==
  LET total == Len(items)
      chunkLen == IF sched.whole THEN total ELSE sched.rows
      From[start \in 0..total] ==
        LET stop == IF start + chunkLen < total THEN start + chunkLen ELSE total
        IN  IF start = total THEN <<>>
            ELSE <<[start |-> start, steps |-> SubSeq(items, start + 1, stop)]>>
                   \o From[stop]
  IN  From[0]

\* The running count both validators keep: the sum of the first k numbers.
Totals(counts) ==
  LET Upto[k \in 0..Len(counts)] == IF k = 0 THEN 0 ELSE Upto[k - 1] + counts[k]
  IN  Upto

\* The steps that precede chunk i.
StartOf(chunks, i) == Totals([j \in DOMAIN chunks |-> Len(chunks[j].steps)])[i - 1]

StepCount(chunks) == StartOf(chunks, Len(chunks) + 1)

\* Every step in order, whatever chunk it is in.
Flatten(chunks) == FlattenSeq([i \in DOMAIN chunks |-> chunks[i].steps])

Contiguous(chunks) ==
  \A i \in DOMAIN chunks : chunks[i].steps # <<>> /\ chunks[i].start = StartOf(chunks, i)

\* The exact size asked of the last chunk and of no other.
RowCapRespected_lastOnly(sched, chunks) ==
  \A i \in DOMAIN chunks :
    /\ Len(chunks[i].steps) <= sched.rows
    /\ i = Len(chunks) => Len(chunks[i].steps) = sched.rows

RowCapRespected(sched, chunks) ==
  \A i \in DOMAIN chunks :
    /\ Len(chunks[i].steps) <= sched.rows
    /\ i # Len(chunks) => Len(chunks[i].steps) = sched.rows

\* validate_chunk_layout of run.rs.
LayoutValid(sched, chunks) ==
  /\ ScheduleValid(sched)
  /\ Contiguous(chunks)
  /\ ~sched.whole => RowCapRespected(sched, chunks)
  /\ sched.whole => Len(chunks) <= 1
  /\ ChunkCount(sched, StepCount(chunks)) = Len(chunks)

-----------------------------------------------------------------------------
(* The fixed-shape summaries: the numbers of a chunk without its contents.  *)

FromPublicChunk(chunk) == [start_index |-> chunk.start, public_step_count |-> Len(chunk.steps)]

Summaries(chunks) == [i \in DOMAIN chunks |-> FromPublicChunk(chunks[i])]

CoverageStart(summaries, i) ==
  Totals([j \in DOMAIN summaries |-> summaries[j].public_step_count])[i - 1]

\* fixed_shape_chunk_coverage_terminal_index: the step after the last one, or
\* -1 for the error.
CoverageTerminalIndex(summaries) ==
  IF \A i \in DOMAIN summaries :
       /\ summaries[i].public_step_count # 0
       /\ summaries[i].start_index = CoverageStart(summaries, i)
  THEN CoverageStart(summaries, Len(summaries) + 1)
  ELSE -1

FixedShapeCoverageValid(semanticSteps, summaries) ==
  CoverageTerminalIndex(summaries) = semanticSteps

\* validate_fixed_shape_chunk_layout of finalize.rs.
FixedShapeLayoutValid(sched, semanticSteps, summaries) ==
  /\ ScheduleValid(sched)
  /\ FixedShapeCoverageValid(semanticSteps, summaries)
  /\ Len(summaries) = ChunkCount(sched, semanticSteps)
  /\ ~sched.whole =>
       \A i \in DOMAIN summaries :
         /\ summaries[i].public_step_count <= sched.rows
         /\ i # Len(summaries) => summaries[i].public_step_count = sched.rows
=============================================================================
