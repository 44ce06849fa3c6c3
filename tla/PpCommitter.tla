----------------------------- MODULE PpCommitter -----------------------------
(***************************************************************************)
(* How the provers obtain a committer for a dimension key.  Each of        *)
(* ExactVectorPackageContext::new, phase0_family_committer, the root lane  *)
(* and the CHIP-8 lane look the key up, compare what is registered with    *)
(* the (kappa, seed) they need or register it, and build an AjtaiSModule:  *)
(* three to four registry calls, with no lock across them, in one process  *)
(* where other subsystems register, load and unload the same keys.         *)
(***************************************************************************)
EXTENDS AjtaiRegistry

VARIABLES step,      \* step[t]: the next registry call of t's look-up
          goal,      \* goal[t]: the key and seeding t needs, None outside a look-up
          committer, \* committer[t]: the AjtaiSModule t obtained, None before
          refused    \* refused[t]: the last look-up of t ended with an error

cvars   == <<step, goal, committer, refused>>
allvars == <<registry, pc, key, want, result, got, served, sure,
             step, goal, committer, refused>>

Goals == [key : Keys, kappa : Kappas, seed : Seeds]

ASSUME NoneIsNoGoal == None \notin Goals

Proceed(t, s) == /\ step' = [step EXCEPT ![t] = s]
                 /\ UNCHANGED <<goal, committer, refused>>

Refuse(t) == /\ step' = [step EXCEPT ![t] = "off"]
             /\ goal' = [goal EXCEPT ![t] = None]
             /\ refused' = [refused EXCEPT ![t] = TRUE]
             /\ UNCHANGED committer

\* has_global_pp_for_dims decides between checking and registering.
EnsureHas(t) ==
    /\ step[t] = "off" /\ pc[t] = "idle" /\ MayRead
    /\ \E g \in Goals :
          /\ goal' = [goal EXCEPT ![t] = g]
          /\ step' = [step EXCEPT ![t] = IF Registered(g.key) THEN "params" ELSE "register"]
    /\ committer' = [committer EXCEPT ![t] = None]
    /\ refused' = [refused EXCEPT ![t] = FALSE]
    /\ UNCHANGED vars

\* SimpleKernelRootContext::new registers without looking first.
EnsureRoot(t) ==
    /\ step[t] = "off" /\ pc[t] = "idle"
    /\ \E g \in Goals : goal' = [goal EXCEPT ![t] = g]
    /\ step' = [step EXCEPT ![t] = "register"]
    /\ committer' = [committer EXCEPT ![t] = None]
    /\ refused' = [refused EXCEPT ![t] = FALSE]
    /\ UNCHANGED vars

\* get_global_pp_seeded_params_for_dims: compare a seeded entry; load the
\* matrix of an unseeded one.
EnsureParams(t) ==
    LET g == goal[t]
        e == registry[g.key]
    IN  /\ step[t] = "params" /\ MayRead
        /\ IF Registered(g.key) /\ e.seed # None
           THEN /\ IF e.kappa = g.kappa /\ e.seed = g.seed THEN Proceed(t, "module") ELSE Refuse(t)
                /\ UNCHANGED vars
           ELSE /\ Begin(t, g.key, "fast", None)
                /\ Proceed(t, "loaded")

EnsureLoaded_unchecked(t) ==
    /\ step[t] = "loaded" /\ pc[t] = "idle"
    /\ IF result[t] = "ok" THEN Proceed(t, "module") ELSE Refuse(t)
    /\ UNCHANGED vars

\* The load returned: an unseeded matrix is accepted on its kappa alone.
EnsureLoaded(t) ==
    /\ step[t] = "loaded" /\ pc[t] = "idle"
    /\ IF result[t] = "ok" /\ got[t].kappa = goal[t].kappa THEN Proceed(t, "module") ELSE Refuse(t)
    /\ UNCHANGED vars

EnsureRegister_ignored(t) ==
    /\ step[t] = "register"
    /\ Begin(t, goal[t].key, "seed", Derive(goal[t].seed, goal[t].kappa))
    /\ Proceed(t, "module")

\* set_global_pp_seeded is called ...
EnsureRegister(t) ==
    /\ step[t] = "register"
    /\ Begin(t, goal[t].key, "seed", Derive(goal[t].seed, goal[t].kappa))
    /\ Proceed(t, "registered")

\* ... and returned.
EnsureRegistered(t) ==
    /\ step[t] = "registered" /\ pc[t] = "idle"
    /\ IF result[t] = "ok" THEN Proceed(t, "module") ELSE Refuse(t)
    /\ UNCHANGED vars

\* AjtaiSModule::from_global_for_dims.
EnsureModule(t) ==
    /\ step[t] = "module" /\ MayRead
    /\ IF Registered(goal[t].key)
       THEN /\ step' = [step EXCEPT ![t] = "off"]
            /\ goal' = [goal EXCEPT ![t] = None]
            /\ committer' = [committer EXCEPT ![t] = goal[t]]
            /\ UNCHANGED refused
       ELSE Refuse(t)
    /\ UNCHANGED vars

Ensure(t) == \/ EnsureHas(t) \/ EnsureRoot(t) \/ EnsureParams(t) \/ EnsureLoaded(t)
             \/ EnsureRegister(t) \/ EnsureRegistered(t) \/ EnsureModule(t)

\* A thread in the middle of a look-up makes no other call.
CNext == \E t \in Threads :
            \/ Ensure(t)
            \/ step[t] = "off" /\ Call(t) /\ UNCHANGED cvars
            \/ Progress(t) /\ UNCHANGED cvars

CInit == /\ Init
         /\ step = [t \in Threads |-> "off"]
         /\ goal = [t \in Threads |-> None]
         /\ committer = [t \in Threads |-> None]
         /\ refused = [t \in Threads |-> FALSE]

CSpec == CInit /\ [][CNext]_allvars

------------------------------------------------------------------------------
\* The shape of the look-ups, and that a thread in the middle of one waits only
\* for the registry call that look-up made, about the key it is for.
CTypeOK ==
    /\ TypeOK
    /\ step \in [Threads -> {"off", "params", "loaded", "register", "registered", "module"}]
    /\ goal \in [Threads -> Goals \cup {None}]
    /\ committer \in [Threads -> Goals \cup {None}]
    /\ refused \in [Threads -> BOOLEAN]
    /\ \A t \in Threads : step[t] = "off" <=> goal[t] = None
    /\ \A t \in Threads : (step[t] # "off" /\ pc[t] # "idle") =>
          step[t] \in {"loaded", "registered"} /\ key[t] = goal[t].key

\* A committer that was handed out commits, for as long as it exists, with the
\* number of rows its owner asked for, and with the owner's seed unless the key
\* was registered with a caller-sampled matrix: no registration, load or unload
\* racing the four look-up calls can slip another seeded matrix under it.
CommitterSound ==
    \A t \in Threads : committer[t] # None =>
        LET m == Effective(committer[t].key)
        IN  /\ Registered(committer[t].key)
            /\ m.kappa = committer[t].kappa
            /\ m.origin \in Seeds => m.origin = committer[t].seed

\* Subsystems that need the same parameters do not fail each other: a look-up is
\* refused only when the key is by then registered with another kappa, another
\* seed or a caller-sampled matrix, so two look-ups of one seeding that both find
\* the key absent and both register it both succeed.
RefusedOnlyOnConflict ==
    [][\A t \in Threads : refused'[t] /\ ~refused[t] =>
          /\ Registered(goal[t].key)
          /\ Effective(goal[t].key) # Derive(goal[t].seed, goal[t].kappa)]_allvars
==============================================================================
