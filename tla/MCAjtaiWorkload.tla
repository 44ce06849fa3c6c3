--------------------------- MODULE MCAjtaiWorkload ---------------------------
(***************************************************************************)
(* The registry under a finite workload: the threads of a process make at  *)
(* most MaxCalls registry calls between them.  The bound is what makes     *)
(* weak fairness enough: std's RwLock lets an endless stream of writers    *)
(* keep a reader waiting, and a prover does not produce one.               *)
(***************************************************************************)
EXTENDS AjtaiRegistry

CONSTANTS MaxCalls, t1, t2, t3, k1, k2, s1, s2, g1

VARIABLE calls  \* calls made so far

wlvars == <<registry, pc, key, want, result, got, served, sure, calls>>

WLInit == Init /\ calls = 0

WLNext == \E t \in Threads :
             \/ calls < MaxCalls /\ calls' = calls + 1 /\ Call(t)
             \/ Progress(t) /\ UNCHANGED calls

\* A thread inside a call is scheduled again.
WLSpec == WLInit /\ [][WLNext]_wlvars /\ \A t \in Threads : WF_wlvars(Progress(t) /\ UNCHANGED calls)
==============================================================================
