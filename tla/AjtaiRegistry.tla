---------------------------- MODULE AjtaiRegistry ----------------------------
(***************************************************************************)
(* The process-global registry of Ajtai public parameters                  *)
(* (neo-ajtai/src/s_module.rs): a map behind one RwLock, from a dimension  *)
(* key (d, m) to an entry that holds kappa, an optional seed and an        *)
(* optional materialised matrix.  Threads call it concurrently.            *)
(*                                                                         *)
(* Every critical section of the write lock is one step of a queued        *)
(* writer; a critical section of the read lock is one step, except that of *)
(* a commitment, which keeps its guard while it computes.  setup_par, the  *)
(* derivation of a matrix from a seed, runs with no lock held.             *)
(***************************************************************************)
EXTENDS FiniteSets, Naturals

CONSTANTS Threads,
          Keys,      \* dimension keys (d, m)
          BadDims,   \* the keys whose d is not the ring dimension D
          Kappas,
          Seeds,
          Sampled,   \* matrices a caller sampled itself, for set_global_pp
          None

\* A matrix is known by its number of rows and by what determines its content.
Matrix == [kappa : Kappas, origin : Seeds \cup Sampled]

Derive(seed, kappa) == [kappa |-> kappa, origin |-> seed]

ASSUME RegistryAssumption ==
    /\ BadDims \subseteq Keys
    /\ Seeds \cap Sampled = {}
    /\ None \notin Seeds \cup Sampled \cup Matrix \cup Keys

Entry == [kappa : Kappas, seed : Seeds \cup {None}, pp : Matrix \cup {None}]

ASSUME NoneIsNoEntry == None \notin Entry

VARIABLES registry,  \* AJTAI_PP_REGISTRY: registry[k] is an entry, or None
          pc,        \* pc[t]: where thread t is in its current call
          key,       \* key[t]: the key that call is about
          want,      \* want[t]: the matrix that call carries
          result,    \* result[t]: how the last call of t ended
          got,       \* got[t]: the PPRef the last call of t returned, if any
          served,    \* history: the matrices callers were served, per key
          sure       \* history: the key was registered when t's call began

vars == <<registry, pc, key, want, result, got, served, sure>>

PC == {"idle", "set", "seed", "unload", "fast", "slow", "derive", "publish", "commit"}
WritePC == {"set", "seed", "unload", "publish"}

Registered(k) == registry[k] # None

\* The matrix commitments under key k are made with, loaded or not.
Effective(k) ==
    IF ~Registered(k) THEN None
    ELSE IF registry[k].pp # None THEN registry[k].pp
    ELSE Derive(registry[k].seed, registry[k].kappa)

------------------------------------------------------------------------------
(* std::sync::RwLock as its futex implementation schedules it: a writer    *)
(* waits for the readers to leave, and a new reader waits behind a writer. *)
ReadGuards_kept == {t \in Threads : pc[t] \in {"commit", "derive", "publish"}}
ReadGuards    == {t \in Threads : pc[t] = "commit"}
QueuedWriters == {t \in Threads : pc[t] \in WritePC}
MayRead       == QueuedWriters = {}
MayWrite      == ReadGuards = {}

Goto(t, label) == pc' = [pc EXCEPT ![t] = label]

\* The call of t returns.
Finish(t, r, m) == /\ pc' = [pc EXCEPT ![t] = "idle"]
                   /\ want' = [want EXCEPT ![t] = None]
                   /\ result' = [result EXCEPT ![t] = r]
                   /\ got' = [got EXCEPT ![t] = m]

Return(t, r) == Finish(t, r, None)

\* A call returns a PPRef.  The matrix behind it is immutable: whatever the
\* caller commits with later, through an Owned source, it was served here.
ReturnPp(t, m) ==
    /\ Finish(t, "ok", m)
    /\ served' = [served EXCEPT ![key[t]] = @ \cup {m}]

Begin(t, k, label, m) ==
    /\ pc[t] = "idle"
    /\ Goto(t, label)
    /\ key' = [key EXCEPT ![t] = k]
    /\ want' = [want EXCEPT ![t] = m]
    /\ sure' = [sure EXCEPT ![t] = Registered(k)]
    /\ result' = [result EXCEPT ![t] = "none"]
    /\ got' = [got EXCEPT ![t] = None]
    /\ UNCHANGED <<registry, served>>

------------------------------------------------------------------------------
(* Calls.  A writer queues for the lock; a reader takes it when it may.    *)
CallSetGlobalPp(t) ==
    \E k \in Keys \ BadDims, kappa \in Kappas, p \in Sampled :
        Begin(t, k, "set", [kappa |-> kappa, origin |-> p])

CallSetGlobalPpSeeded(t) ==
    \E k \in Keys, kappa \in Kappas, s \in Seeds : Begin(t, k, "seed", Derive(s, kappa))

CallUnload(t) == \E k \in Keys : Begin(t, k, "unload", None)

CallGet(t) == \E k \in Keys : Begin(t, k, "fast", None)

\* get_global_pp: with a single entry, drop the read guard and load that key.
CallGetSole(t) ==
    /\ MayRead
    /\ \E k \in Keys :
          /\ {j \in Keys : Registered(j)} = {k}
          /\ Begin(t, k, "fast", None)

\* AjtaiSModule::commit and commit_many on a Global source, which exists only
\* for a registered key.  The guard is kept from the look-up to the end of the
\* computation; with nothing to commit with, the call falls back to a load.
CommitBegin(t) ==
    /\ MayRead
    /\ \E k \in Keys \ BadDims :
          /\ Registered(k)
          /\ IF registry[k].pp # None \/ registry[k].seed # None
             THEN Begin(t, k, "commit", Effective(k))
             ELSE Begin(t, k, "fast", None)

------------------------------------------------------------------------------
(* Critical sections of the write lock.                                    *)
SetGlobalPp_overwrites(t) ==
    /\ pc[t] = "set"
    /\ MayWrite
    /\ \/ /\ Registered(key[t])
          /\ registry[key[t]].seed # None
          /\ Return(t, "err")
          /\ UNCHANGED registry
       \/ /\ Registered(key[t]) => registry[key[t]].seed = None
          /\ registry' = [registry EXCEPT ![key[t]] =
                             [kappa |-> want[t].kappa, seed |-> None, pp |-> want[t]]]
          /\ Return(t, "ok")
    /\ UNCHANGED <<key, served, sure>>

SetGlobalPp(t) ==
    /\ pc[t] = "set"
    /\ MayWrite
    /\ \/ /\ Registered(key[t])
          /\ registry[key[t]].seed # None
          /\ Return(t, "err")
          /\ UNCHANGED registry
       \/ /\ Registered(key[t])
          /\ registry[key[t]].seed = None
          /\ Return(t, "ok")
          /\ UNCHANGED registry
       \/ /\ ~Registered(key[t])
          /\ registry' = [registry EXCEPT ![key[t]] =
                             [kappa |-> want[t].kappa, seed |-> None, pp |-> want[t]]]
          /\ Return(t, "ok")
    /\ UNCHANGED <<key, served, sure>>

SameSeeding_never(e, kappa, seed) == FALSE

\* Is (kappa, seed) the configuration already registered?  A loaded matrix
\* has to have the requested kappa too.
SameSeeding(e, kappa, seed) ==
    /\ e.seed = seed
    /\ e.kappa = kappa
    /\ e.pp # None => e.pp.kappa = kappa

SetGlobalPpSeeded_reseeds(t) ==
    LET e     == registry[key[t]]
        fixed == Registered(key[t]) /\ e.pp # None
    IN  /\ pc[t] = "seed"
        /\ MayWrite
        /\ \/ /\ fixed
              /\ Return(t, IF SameSeeding(e, want[t].kappa, want[t].origin) THEN "ok" ELSE "err")
              /\ UNCHANGED registry
           \/ /\ ~fixed
              /\ registry' = [registry EXCEPT ![key[t]] =
                                 [kappa |-> want[t].kappa, seed |-> want[t].origin, pp |-> None]]
              /\ Return(t, "ok")
        /\ UNCHANGED <<key, served, sure>>

SetGlobalPpSeeded_unloads(t) ==
    LET e     == registry[key[t]]
        fixed == Registered(key[t]) /\ e.seed # None
    IN  /\ pc[t] = "seed"
        /\ MayWrite
        /\ \/ /\ fixed
              /\ Return(t, IF SameSeeding(e, want[t].kappa, want[t].origin) THEN "ok" ELSE "err")
              /\ UNCHANGED registry
           \/ /\ ~fixed
              /\ registry' = [registry EXCEPT ![key[t]] =
                                 [kappa |-> want[t].kappa, seed |-> want[t].origin, pp |-> None]]
              /\ Return(t, "ok")
        /\ UNCHANGED <<key, served, sure>>

SetGlobalPpSeeded(t) ==
    LET kappa == want[t].kappa
        seed  == want[t].origin
        e     == registry[key[t]]
        fixed == Registered(key[t]) /\ (e.pp # None \/ e.seed # None)
    IN  /\ pc[t] = "seed"
        /\ MayWrite
        /\ \/ /\ fixed
              /\ Return(t, IF SameSeeding(e, kappa, seed) THEN "ok" ELSE "err")
              /\ UNCHANGED registry
           \/ /\ ~fixed
              /\ registry' = [registry EXCEPT ![key[t]] =
                                 [kappa |-> kappa, seed |-> seed, pp |-> None]]
              /\ Return(t, "ok")
        /\ UNCHANGED <<key, served, sure>>

Unload_sampled(t) ==
    /\ pc[t] = "unload"
    /\ MayWrite
    /\ registry' = [registry EXCEPT ![key[t]] = IF @ = None THEN @ ELSE [@ EXCEPT !.pp = None]]
    /\ Return(t, "ok")
    /\ UNCHANGED <<key, served, sure>>

Unload_removes(t) ==
    /\ pc[t] = "unload"
    /\ MayWrite
    /\ registry' = [registry EXCEPT ![key[t]] = None]
    /\ Return(t, "ok")
    /\ UNCHANGED <<key, served, sure>>

Unload(t) ==
    /\ pc[t] = "unload"
    /\ MayWrite
    /\ \/ /\ ~Registered(key[t])
          /\ Return(t, "ok")
          /\ UNCHANGED registry
       \/ /\ Registered(key[t])
          /\ registry[key[t]].seed = None
          /\ Return(t, "err")
          /\ UNCHANGED registry
       \/ /\ Registered(key[t])
          /\ registry[key[t]].seed # None
          /\ registry' = [registry EXCEPT ![key[t]].pp = None]
          /\ Return(t, "ok")
    /\ UNCHANGED <<key, served, sure>>

------------------------------------------------------------------------------
(* get_or_load_global_pp_for_dims: two read sections, a derivation without *)
(* a lock, and a write section that publishes what was derived.            *)
GetFast(t) ==
    /\ pc[t] = "fast"
    /\ MayRead
    /\ \/ /\ Registered(key[t])
          /\ registry[key[t]].pp # None
          /\ ReturnPp(t, registry[key[t]].pp)
          /\ UNCHANGED <<registry, key, sure>>
       \/ /\ Registered(key[t]) => registry[key[t]].pp = None
          /\ Goto(t, "slow")
          /\ UNCHANGED <<registry, key, want, result, got, served, sure>>

GetSlow_unseeded(t) ==
    /\ pc[t] = "slow"
    /\ MayRead
    /\ \/ /\ Registered(key[t])
          /\ Goto(t, "derive")
          /\ want' = [want EXCEPT ![t] = Derive(registry[key[t]].seed, registry[key[t]].kappa)]
          /\ UNCHANGED <<result, got>>
       \/ /\ ~Registered(key[t])
          /\ Return(t, "err")
    /\ UNCHANGED <<registry, key, served, sure>>

GetSlow(t) ==
    /\ pc[t] = "slow"
    /\ MayRead
    /\ \/ /\ Registered(key[t])
          /\ registry[key[t]].seed # None
          /\ Goto(t, "derive")
          /\ want' = [want EXCEPT ![t] = Derive(registry[key[t]].seed, registry[key[t]].kappa)]
          /\ UNCHANGED <<result, got>>
       \/ /\ Registered(key[t]) => registry[key[t]].seed = None
          /\ Return(t, "err")
    /\ UNCHANGED <<registry, key, served, sure>>

\* setup_par fails exactly when d is not the ring dimension.
GetDerive(t) ==
    /\ pc[t] = "derive"
    /\ \/ /\ key[t] \in BadDims
          /\ Return(t, "err")
       \/ /\ key[t] \notin BadDims
          /\ Goto(t, "publish")
          /\ UNCHANGED <<want, result, got>>
    /\ UNCHANGED <<registry, key, served, sure>>

GetPublish_unseeded(t) ==
    /\ pc[t] = "publish"
    /\ MayWrite
    /\ registry' = [registry EXCEPT ![key[t]] =
                       [kappa |-> want[t].kappa, seed |-> None, pp |-> want[t]]]
    /\ ReturnPp(t, want[t])
    /\ UNCHANGED <<key, sure>>

GetPublish(t) ==
    /\ pc[t] = "publish"
    /\ MayWrite
    /\ registry' = [registry EXCEPT ![key[t]] =
                       [kappa |-> want[t].kappa, seed |-> want[t].origin, pp |-> want[t]]]
    /\ ReturnPp(t, want[t])
    /\ UNCHANGED <<key, sure>>

CommitEnd(t) ==
    /\ pc[t] = "commit"
    /\ served' = [served EXCEPT ![key[t]] = @ \cup {want[t]}]
    /\ Return(t, "ok")
    /\ UNCHANGED <<registry, key, sure>>

------------------------------------------------------------------------------
Init == /\ registry = [k \in Keys |-> None]
        /\ pc = [t \in Threads |-> "idle"]
        /\ key = [t \in Threads |-> None]
        /\ want = [t \in Threads |-> None]
        /\ result = [t \in Threads |-> "none"]
        /\ got = [t \in Threads |-> None]
        /\ served = [k \in Keys |-> {}]
        /\ sure = [t \in Threads |-> FALSE]

Call(t) == \/ CallSetGlobalPp(t) \/ CallSetGlobalPpSeeded(t) \/ CallUnload(t)
           \/ CallGet(t) \/ CallGetSole(t) \/ CommitBegin(t)

Progress(t) == \/ SetGlobalPp(t) \/ SetGlobalPpSeeded(t) \/ Unload(t)
               \/ GetFast(t) \/ GetSlow(t) \/ GetDerive(t) \/ GetPublish(t)
               \/ CommitEnd(t)

Next == \E t \in Threads : Call(t) \/ Progress(t)

Spec == Init /\ [][Next]_vars
------------------------------------------------------------------------------
(* Properties.                                                             *)

\* Every variable has the shape the code gives it.
TypeOK ==
    /\ registry \in [Keys -> Entry \cup {None}]
    /\ pc \in [Threads -> PC]
    /\ key \in [Threads -> Keys \cup {None}]
    /\ want \in [Threads -> Matrix \cup {None}]
    /\ result \in [Threads -> {"none", "ok", "err"}]
    /\ got \in [Threads -> Matrix \cup {None}]
    /\ served \in [Keys -> SUBSET Matrix]
    /\ sure \in [Threads -> BOOLEAN]

\* An entry can always be committed with: what is not materialised can be
\* derived again, and a materialised seeded matrix is the one its seed gives,
\* so that unloading it loses nothing (set_global_pp_seeded's refusals, the
\* refusal to unload an unseeded entry, the loader's write-back).
EntryOK(e) ==
    /\ e.pp = None => e.seed # None
    /\ e.pp # None => e.pp.kappa = e.kappa
    /\ e.pp # None /\ e.seed # None => e.pp = Derive(e.seed, e.kappa)

RegistryOK == \A k \in Keys : Registered(k) => EntryOK(registry[k])

\* A loader between its unlocked derivation and its write-back still holds the
\* matrix of the entry it read, whatever the other threads did to the entry
\* meanwhile: its write-back cannot change what commitments mean.
LoaderCurrent ==
    \A t \in Threads : pc[t] \in {"derive", "publish"} =>
        /\ Registered(key[t])
        /\ registry[key[t]].seed # None
        /\ want[t] = Derive(registry[key[t]].seed, registry[key[t]].kappa)

\* All commitments ever made under a key, by any thread, before or after any
\* unload and reload, used one matrix: the one a commitment made now would use.
CommitmentsAgree ==
    \A k \in Keys : \A m \in served[k] : Registered(k) /\ m = Effective(k)

\* A call for a PP that was registered before the call began does not fail
\* because of what other threads do during the call (the fast and the slow look
\* up of get_or_load_global_pp_for_dims are two critical sections).
RegisteredNeverFails ==
    [][\A t \in Threads :
          /\ pc[t] \in {"fast", "slow", "derive", "publish"}
          /\ sure[t]
          /\ key[t] \notin BadDims
          /\ pc'[t] = "idle"
          => result'[t] = "ok"]_vars

\* The registry implements the write-once cell of WriteOncePp: the matrix of a
\* key is fixed by the first registration and served ever after.
Cell == INSTANCE WriteOncePp WITH
           Matrices <- Matrix,
           matrix   <- [k \in Keys |-> Effective(k)]

ImplementsCell == Cell!WSpec

\* No call waits for ever: no guard is held across a request for the lock.  The
\* threads are those of the operating system; what happens to commitments that
\* share a pool of workers is the subject of Phase0Claims.
CallsReturn == \A t \in Threads : pc[t] # "idle" ~> pc[t] = "idle"

\* A registered key stays registered, and no write changes the kappa or the
\* seed an entry was created with: AjtaiSModule::kappa and a committer's
\* checks stay true for the life of the process.
RegistrationStable ==
    [][\A k \in Keys : Registered(k) =>
          /\ registry'[k] # None
          /\ registry'[k].kappa = registry[k].kappa
          /\ registry'[k].seed = registry[k].seed]_vars
==============================================================================
