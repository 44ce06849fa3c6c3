----------------------------- MODULE WriteOncePp -----------------------------
(***************************************************************************)
(* What the Ajtai public-parameter registry promises to its callers: for   *)
(* every dimension key there is at most one commitment matrix in the life  *)
(* of the process, and whoever commits, whenever, commits with that one.   *)
(* Loading, unloading and the two ways of registering are not visible at   *)
(* this level.                                                             *)
(***************************************************************************)
CONSTANTS Keys,      \* dimension keys (d, m)
          Matrices,  \* the commitment matrices
          None       \* no matrix fixed yet; not a matrix

VARIABLES matrix,    \* matrix[k]: the matrix fixed for k, or None
          served     \* served[k]: the matrices callers have been given for k

wvars == <<matrix, served>>

WInit == /\ matrix = [k \in Keys |-> None]
         /\ served = [k \in Keys |-> {}]

\* The first registration of a key fixes its matrix.
Fix(k, m) == /\ matrix[k] = None
             /\ matrix' = [matrix EXCEPT ![k] = m]
             /\ UNCHANGED served

\* A caller obtains, or commits with, the matrix fixed for the key.
Serve(k) == /\ matrix[k] # None
            /\ served' = [served EXCEPT ![k] = @ \cup {matrix[k]}]
            /\ UNCHANGED matrix

WNext == \E k \in Keys : Serve(k) \/ \E m \in Matrices : Fix(k, m)

WSpec == WInit /\ [][WNext]_wvars
==============================================================================
