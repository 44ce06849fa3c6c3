--------------------------- MODULE MCFoldSession ---------------------------
(* Two digits, and at most three claims mixed per chunk, so that two fresh  *)
(* steps after a first chunk are already too many, and sessions of up to    *)
(* three chunks.                                                            *)
EXTENDS FoldSession

Good(i) == [com |-> <<"step", i>>, wit |-> <<"step", i>>, ok |-> TRUE]
Stale(i) == [com |-> <<"step", i>>, wit |-> <<"step", 9>>, ok |-> TRUE]
Broken(i) == [com |-> <<"step", i>>, wit |-> <<"step", 9>>, ok |-> FALSE]

StepLists == { <<>>, <<Good(1)>>, <<Good(1), Good(2)>>,
               <<Good(1), Stale(2)>>, <<Broken(1), Good(2)>> }

AllSteps == {Good(i) : i \in 1..4} \union {Stale(i) : i \in 2..3} \union {Broken(1)}

BothModes == {"Optimized", "PaperExact"}

Call(mode, sched, steps) == [mode |-> mode, sched |-> sched, steps |-> steps]

Runs == [mode : BothModes, sched : {WholeTrace, RowsPerChunk(1), RowsPerChunk(2)}, steps : StepLists]
          \union {Call("PaperExact", RowsPerChunk(2), <<Good(1), Good(2), Good(3)>>),
                  Call("Optimized", WholeTrace, <<Good(1), Good(2), Good(3)>>),
                  Call("Optimized", RowsPerChunk(2), <<Good(1), Good(2), Good(3), Good(4)>>),
                  Call("Optimized", RowsPerChunk(1), <<Good(1), Good(2), Good(3)>>),
                  Call("Optimized", RowsPerChunk(1), <<Good(1), Good(2), Stale(3)>>),
                  Call("Optimized", RowsPerChunk(0), <<Good(1)>>)}

Chunk(start, steps) == [start |-> start, steps |-> steps]

Layouts == { <<>>,
             <<Chunk(0, <<Good(1), Good(2)>>)>>,
             <<Chunk(0, <<Good(1)>>), Chunk(1, <<Good(2)>>)>>,
             <<Chunk(0, <<Good(1)>>), Chunk(1, <<Good(2), Good(3)>>)>>,
             <<Chunk(0, <<Good(1), Good(2)>>), Chunk(2, <<>>)>>,
             <<Chunk(0, <<Good(1)>>), Chunk(2, <<Good(2)>>)>>,
             <<Chunk(1, <<Good(1), Good(2)>>)>> }

Calls == [mode : BothModes, sched : {WholeTrace, RowsPerChunk(0), RowsPerChunk(1), RowsPerChunk(2)}, chunks : Layouts]

Others == { PublicAll(PartitionItems(RowsPerChunk(1), steps)) :
              steps \in {<<Good(1)>>, <<Good(2), Good(1)>>} }

Kinds == {"truncated", "repeated", "swapped", "old_footer", "other_schedule", "old_relation", "old_children"}
=============================================================================
