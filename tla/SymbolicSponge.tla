--------------------------- MODULE SymbolicSponge ---------------------------
(***************************************************************************)
(* A permutation without collisions, in place of Poseidon2: a sponge state *)
(* is what was written to its lanes between permutations, and a lane names *)
(* the state it is of, so that two states are equal only if they were fed  *)
(* alike.                                                                  *)
(***************************************************************************)
EXTENDS TranscriptSponge

Untouched == -1

Blank == [i \in 0..(Rate - 1) |-> Untouched]

SymZero == [past |-> <<>>, lanes |-> Blank]
SymOverwrite(st, i, x) == [st EXCEPT !.lanes[i] = x]
SymPermute(st) == [past |-> Append(st.past, st.lanes), lanes |-> Blank]
SymLane(st, i) == <<st, i>>

(* The sponge is this one. *)
Symbolic ==
    /\ ZeroState = SymZero
    /\ \A st, i, x : Overwrite(st, i, x) = SymOverwrite(st, i, x)
    /\ \A st : Permute(st) = SymPermute(st)
    /\ \A st, i : Lane(st, i) = SymLane(st, i)

=============================================================================
