---------------------------- MODULE MCPhase0Claims ----------------------------
(* Builders of claims for objects of the same three sizes, none of which   *)
(* is registered yet, except perhaps, by another part of the program, one  *)
(* of the Prepared ones.                                                   *)
EXTENDS Phase0Claims

CONSTANTS c1, c2, w1, w2, w3, w4, x, s1, s2, g1

MCKeys      == 1..3
MCThreads   == Stages \cup Others
MCGoalOf(t) == [key |-> t[3], kappa |-> 1, seed |-> s1]

WorkerSymmetry == Permutations(Workers) \cup Permutations(Callers)
==============================================================================
