--------------------------- MODULE MCAjtaiRegistry ---------------------------
(* Model values and the symmetry of threads for the registry's runs.       *)
EXTENDS AjtaiRegistry, TLC

CONSTANTS t1, t2, t3, k1, k2, s1, s2, g1

ThreadSymmetry == Permutations(Threads)
==============================================================================
