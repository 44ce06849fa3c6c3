---------------------------- MODULE Phase0Proof ----------------------------
(***************************************************************************)
(* Proofs about the PP registry, the committer look-ups built on it and    *)
(* the builders of claims, for any number of threads, callers, workers,    *)
(* columns, keys, kappas, seeds and sampled matrices.                      *)
(*                                                                         *)
(* First the registry on its own: its consistency is an inductive          *)
(* invariant, and it implements the write-once cell.  Then the look-ups,   *)
(* while every other registry call may fall between two calls of a         *)
(* look-up.  They rest on the registry's inductive invariant, which every  *)
(* step of a look-up keeps, because to the registry such a step is one of  *)
(* its own calls or no step at all.  Last the builders of claims: their    *)
(* stages are look-ups and commitments of PpCommitter, whose invariants    *)
(* they therefore keep; no job is in two places; and no stage starts on    *)
(* top of a commitment on the same worker.                                 *)
(***************************************************************************)
EXTENDS Phase0Claims, SequenceFacts

-----------------------------------------------------------------------------
(* The registry.                                                           *)

\* What each thread's local variables are while it is inside a call.
ThreadOK(t) ==
    /\ pc[t] # "idle" => key[t] \in Keys
    /\ pc[t] = "set" => want[t] \in Matrix /\ want[t].origin \in Sampled
    /\ pc[t] = "seed" => want[t] \in Matrix /\ want[t].origin \in Seeds
    /\ pc[t] = "commit" => Registered(key[t]) /\ want[t] = Effective(key[t])
    /\ pc[t] \in {"fast", "slow", "derive", "publish"} /\ sure[t] => Registered(key[t])
    /\ pc[t] = "slow" /\ sure[t] => registry[key[t]].seed # None

ThreadsOK == \A t \in Threads : ThreadOK(t)

\* The inductive invariant.
IInv == TypeOK /\ RegistryOK /\ LoaderCurrent /\ ThreadsOK /\ CommitmentsAgree

-----------------------------------------------------------------------------
\* The matrix of an entry, loaded or not.
EntryMatrix(e) == IF e.pp # None THEN e.pp ELSE Derive(e.seed, e.kappa)

\* Two entries that stand for the same registration.
SameRegistration(e, f) == f.kappa = e.kappa /\ f.seed = e.seed

LEMMA EffectiveOfEntry ==
    ASSUME NEW k \in Keys, registry[k] # None
    PROVE  Effective(k) = EntryMatrix(registry[k])
  BY DEF Effective, Registered, EntryMatrix

LEMMA DerivedIsMatrix ==
    ASSUME NEW s \in Seeds, NEW kappa \in Kappas
    PROVE  /\ Derive(s, kappa) \in Matrix
           /\ Derive(s, kappa) # None
           /\ Derive(s, kappa).kappa = kappa
           /\ Derive(s, kappa).origin = s
<1>1. Derive(s, kappa) \in Matrix  BY DEF Derive, Matrix
<1>2. Derive(s, kappa) # None  BY <1>1, RegistryAssumption
<1>3. QED  BY <1>1, <1>2 DEF Derive

LEMMA EntryMatrixIsMatrix ==
    ASSUME NEW e \in Entry, EntryOK(e)
    PROVE  EntryMatrix(e) \in Matrix /\ EntryMatrix(e) # None
<1>1. CASE e.pp = None
  <2>1. e.seed \in Seeds /\ e.kappa \in Kappas  BY <1>1 DEF Entry, EntryOK
  <2>2. QED  BY <1>1, <2>1, DerivedIsMatrix DEF EntryMatrix
<1>2. CASE e.pp # None
  BY <1>2 DEF Entry, EntryMatrix
<1>3. QED  BY <1>1, <1>2

-----------------------------------------------------------------------------
\* What no step undoes: a registered key keeps its registration and its matrix.
Grows ==
    \A k \in Keys : registry[k] # None =>
        /\ registry'[k] # None
        /\ SameRegistration(registry[k], registry'[k])
        /\ EntryMatrix(registry'[k]) = EntryMatrix(registry[k])

\* A step that writes at most one entry, registering a key or keeping what it
\* was registered with.
Writes(k, e) ==
    /\ registry' = [registry EXCEPT ![k] = e]
    /\ e \in Entry /\ EntryOK(e)
    /\ registry[k] # None =>
          SameRegistration(registry[k], e) /\ EntryMatrix(e) = EntryMatrix(registry[k])

LEMMA WritesGrows ==
    ASSUME TypeOK, RegistryOK, NEW k \in Keys, NEW e, Writes(k, e)
    PROVE  Grows /\ RegistryOK' /\ registry' \in [Keys -> Entry \cup {None}]
<1>1. registry' \in [Keys -> Entry \cup {None}]  BY DEF Writes, TypeOK
<1>2. \A j \in Keys : registry'[j] = IF j = k THEN e ELSE registry[j]
  BY DEF Writes, TypeOK
<1>3. e # None  BY NoneIsNoEntry DEF Writes
<1>4. Grows  BY <1>2, <1>3 DEF Grows, Writes, SameRegistration
<1>5. RegistryOK'  BY <1>2 DEF RegistryOK, Registered, Writes, EntryOK
<1>6. QED  BY <1>1, <1>4, <1>5

LEMMA UnchangedGrows ==
    ASSUME TypeOK, RegistryOK, UNCHANGED registry
    PROVE  Grows /\ RegistryOK' /\ registry' \in [Keys -> Entry \cup {None}]
BY DEF Grows, RegistryOK, Registered, SameRegistration, TypeOK

LEMMA SetGlobalPpWrites ==
    ASSUME IInv, NEW t \in Threads, SetGlobalPp(t)
    PROVE  \/ UNCHANGED registry
           \/ \E e \in Entry : Writes(key[t], e)
<1>1. CASE UNCHANGED registry  BY <1>1
<1>2. CASE ~Registered(key[t])
  <2> DEFINE e == [kappa |-> want[t].kappa, seed |-> None, pp |-> want[t]]
  <2>1. want[t] \in Matrix  BY DEF IInv, ThreadsOK, ThreadOK, SetGlobalPp
  <2>2. want[t] # None /\ want[t].kappa \in Kappas  BY <2>1, RegistryAssumption DEF Matrix
  <2>3. e \in Entry /\ EntryOK(e)  BY <2>1, <2>2 DEF Entry, EntryOK
  <2>4. registry' = [registry EXCEPT ![key[t]] = e]  BY <1>2 DEF SetGlobalPp
  <2>5. QED  BY <1>2, <2>3, <2>4 DEF Writes, Registered
<1>3. QED  BY <1>1, <1>2 DEF SetGlobalPp

LEMMA SetGlobalPpSeededWrites ==
    ASSUME IInv, NEW t \in Threads, SetGlobalPpSeeded(t)
    PROVE  \/ UNCHANGED registry
           \/ \E e \in Entry : Writes(key[t], e)
<1> DEFINE fixed == Registered(key[t]) /\ (registry[key[t]].pp # None \/ registry[key[t]].seed # None)
           e == [kappa |-> want[t].kappa, seed |-> want[t].origin, pp |-> None]
<1>1. key[t] \in Keys /\ want[t] \in Matrix /\ want[t].origin \in Seeds
  BY DEF IInv, ThreadsOK, ThreadOK, SetGlobalPpSeeded
<1>2. Registered(key[t]) => fixed  BY <1>1 DEF IInv, RegistryOK, EntryOK
<1>3. CASE fixed  BY <1>3 DEF SetGlobalPpSeeded
<1>4. CASE ~fixed
  <2>1. registry' = [registry EXCEPT ![key[t]] = e]  BY <1>4 DEF SetGlobalPpSeeded
  <2>2. want[t].origin # None  BY <1>1, RegistryAssumption
  <2>3. e \in Entry /\ EntryOK(e)  BY <1>1, <2>2 DEF Entry, EntryOK, Matrix
  <2>4. QED  BY <1>2, <1>4, <2>1, <2>3 DEF Writes, Registered
<1>5. QED  BY <1>3, <1>4

LEMMA UnloadWrites ==
    ASSUME IInv, NEW t \in Threads, Unload(t)
    PROVE  \/ UNCHANGED registry
           \/ \E e \in Entry : Writes(key[t], e)
<1>1. CASE UNCHANGED registry  BY <1>1
<1>2. CASE Registered(key[t]) /\ registry[key[t]].seed # None
  <2> DEFINE old == registry[key[t]]
             e == [old EXCEPT !.pp = None]
  <2>1. key[t] \in Keys  BY DEF IInv, ThreadsOK, ThreadOK, Unload
  <2>2. old \in Entry /\ EntryOK(old)
    BY <1>2, <2>1 DEF IInv, TypeOK, RegistryOK, Registered
  <2>3. e \in Entry /\ e.pp = None /\ e.kappa = old.kappa /\ e.seed = old.seed
    BY <2>2 DEF Entry
  <2>4. EntryOK(e) /\ EntryMatrix(e) = EntryMatrix(old)
    BY <1>2, <2>2, <2>3 DEF EntryOK, EntryMatrix
  <2>5. UNCHANGED registry \/ registry' = [registry EXCEPT ![key[t]].pp = None]
    BY DEF Unload
  <2>6. QED  BY <2>3, <2>4, <2>5 DEF Writes, SameRegistration
<1>3. QED  BY <1>1, <1>2 DEF Unload

LEMMA GetPublishWrites ==
    ASSUME IInv, NEW t \in Threads, GetPublish(t)
    PROVE  \E e \in Entry : Writes(key[t], e)
<1> DEFINE old == registry[key[t]]
           e == [kappa |-> want[t].kappa, seed |-> want[t].origin, pp |-> want[t]]
<1>1. key[t] \in Keys  BY DEF IInv, ThreadsOK, ThreadOK, GetPublish
<1>2. Registered(key[t]) /\ old.seed # None /\ want[t] = Derive(old.seed, old.kappa)
  BY DEF IInv, LoaderCurrent, GetPublish
<1>3. old \in Entry /\ EntryOK(old)
  BY <1>1, <1>2 DEF IInv, TypeOK, RegistryOK, Registered
<1>4. old.seed \in Seeds /\ old.kappa \in Kappas  BY <1>2, <1>3 DEF Entry
<1>5. want[t] \in Matrix /\ want[t] # None /\ want[t].kappa = old.kappa /\ want[t].origin = old.seed
  BY <1>2, <1>4, DerivedIsMatrix
<1>6. e \in Entry  BY <1>4, <1>5 DEF Entry
<1>7. EntryOK(e)  BY <1>2, <1>5 DEF EntryOK
<1>8. EntryMatrix(e) = EntryMatrix(old) /\ SameRegistration(old, e)
  BY <1>2, <1>3, <1>5 DEF EntryOK, EntryMatrix, SameRegistration
<1>9. registry' = [registry EXCEPT ![key[t]] = e]  BY DEF GetPublish
<1>10. QED  BY <1>6, <1>7, <1>8, <1>9 DEF Writes

\* Calls change nothing but the locals of the thread that makes them.
LEMMA CallKeepsRegistry ==
    ASSUME NEW t \in Threads, Call(t)
    PROVE  UNCHANGED <<registry, served>>
BY DEF Call, CallSetGlobalPp, CallSetGlobalPpSeeded, CallUnload, CallGet, CallGetSole,
       CommitBegin, Begin

LEMMA StepGrows ==
    ASSUME IInv, [Next]_vars
    PROVE  Grows /\ RegistryOK' /\ registry' \in [Keys -> Entry \cup {None}]
<1>1. TypeOK /\ RegistryOK  BY DEF IInv
<1>2. CASE UNCHANGED registry  BY <1>1, <1>2, UnchangedGrows
<1>3. ASSUME NEW t \in Threads, NEW e \in Entry, Writes(key[t], e), pc[t] # "idle"
      PROVE  Grows /\ RegistryOK' /\ registry' \in [Keys -> Entry \cup {None}]
  <2>1. key[t] \in Keys  BY <1>3 DEF IInv, ThreadsOK, ThreadOK
  <2>2. QED  BY <1>1, <1>3, <2>1, WritesGrows
<1>4. ASSUME NEW t \in Threads, Call(t)  PROVE UNCHANGED registry
  BY <1>4, CallKeepsRegistry
<1>5. ASSUME NEW t \in Threads, Progress(t)
      PROVE  \/ UNCHANGED registry
             \/ pc[t] # "idle" /\ \E e \in Entry : Writes(key[t], e)
  <2>1. CASE SetGlobalPp(t)
    BY <2>1, SetGlobalPpWrites DEF SetGlobalPp
  <2>2. CASE SetGlobalPpSeeded(t)
    <3>1. pc[t] # "idle"  BY <2>2 DEF SetGlobalPpSeeded
    <3>2. QED  BY <2>2, <3>1, SetGlobalPpSeededWrites
  <2>3. CASE Unload(t)
    BY <2>3, UnloadWrites DEF Unload
  <2>4. CASE GetPublish(t)
    BY <2>4, GetPublishWrites DEF GetPublish
  <2>5. CASE GetFast(t)  BY <2>5 DEF GetFast
  <2>6. CASE GetSlow(t)  BY <2>6 DEF GetSlow
  <2>7. CASE GetDerive(t)  BY <2>7 DEF GetDerive
  <2>8. CASE CommitEnd(t)  BY <2>8 DEF CommitEnd
  <2>9. QED  BY <1>5, <2>1, <2>2, <2>3, <2>4, <2>5, <2>6, <2>7, <2>8 DEF Progress
<1>6. CASE UNCHANGED vars  BY <1>2, <1>6 DEF vars
<1>7. CASE Next
  BY <1>2, <1>3, <1>4, <1>5, <1>7 DEF Next
<1>8. QED  BY <1>6, <1>7

-----------------------------------------------------------------------------
\* The loader's share of LoaderCurrent.
LoaderOK(t) ==
    pc[t] \in {"derive", "publish"} =>
        /\ Registered(key[t])
        /\ registry[key[t]].seed # None
        /\ want[t] = Derive(registry[key[t]].seed, registry[key[t]].kappa)

LEMMA GrowsEffective ==
    ASSUME TypeOK, Grows, NEW k \in Keys, Registered(k)
    PROVE  Registered(k)' /\ Effective(k)' = Effective(k)
<1>1. registry[k] # None  BY DEF Registered
<1>2. registry'[k] # None /\ EntryMatrix(registry'[k]) = EntryMatrix(registry[k])
  BY <1>1 DEF Grows
<1>3. Effective(k) = EntryMatrix(registry[k])  BY <1>1 DEF Effective, Registered, EntryMatrix
<1>4. Effective(k)' = EntryMatrix(registry'[k])  BY <1>2 DEF Effective, Registered, EntryMatrix
<1>5. QED  BY <1>2, <1>3, <1>4 DEF Registered

LEMMA EffectiveIsMatrix ==
    ASSUME TypeOK, RegistryOK, NEW k \in Keys, Registered(k)
    PROVE  Effective(k) \in Matrix /\ Effective(k) # None
<1>1. registry[k] \in Entry /\ EntryOK(registry[k])  BY DEF TypeOK, RegistryOK, Registered
<1>2. Effective(k) = EntryMatrix(registry[k])  BY DEF Effective, Registered, EntryMatrix
<1>3. QED  BY <1>1, <1>2, EntryMatrixIsMatrix

\* A thread that does not move keeps its part of the invariant.
LEMMA OtherThread ==
    ASSUME IInv, Grows, NEW u \in Threads,
           pc'[u] = pc[u], key'[u] = key[u], want'[u] = want[u], sure'[u] = sure[u]
    PROVE  ThreadOK(u)' /\ LoaderOK(u)'
<1>1. TypeOK /\ ThreadOK(u) /\ LoaderOK(u)
  BY DEF IInv, ThreadsOK, LoaderCurrent, LoaderOK
<1>2. CASE pc[u] = "idle"
  BY <1>2 DEF ThreadOK, LoaderOK
<1>3. CASE pc[u] # "idle"
  <2>1. key[u] \in Keys  BY <1>1, <1>3 DEF ThreadOK
  <2>2. Registered(key[u]) =>
           /\ Registered(key[u])'
           /\ Effective(key[u])' = Effective(key[u])
           /\ SameRegistration(registry[key[u]], registry'[key[u]])
    BY <1>1, <2>1, GrowsEffective DEF Grows, Registered
  <2>3. (pc[u] = "slow" /\ sure[u]) => registry'[key[u]].seed # None
    BY <1>1, <2>2 DEF ThreadOK, SameRegistration
  <2>4. LoaderOK(u)'
    BY <1>1, <2>2 DEF LoaderOK, Registered, SameRegistration
  <2>5. ThreadOK(u)'
    BY <1>1, <2>1, <2>2, <2>3 DEF ThreadOK, Registered, Effective
  <2>6. QED  BY <2>4, <2>5
<1>4. QED  BY <1>2, <1>3

\* A thread whose call ends has nothing left to keep.
LEMMA IdleThread ==
    ASSUME NEW u \in Threads, pc'[u] = "idle"
    PROVE  ThreadOK(u)' /\ LoaderOK(u)'
BY DEF ThreadOK, LoaderOK

-----------------------------------------------------------------------------
\* What one step does to the locals: at most one thread moves.
MovesOnly(t) ==
    \A u \in Threads \ {t} :
        pc'[u] = pc[u] /\ key'[u] = key[u] /\ want'[u] = want[u] /\ sure'[u] = sure[u]

LEMMA BeginEffect ==
    ASSUME TypeOK, NEW t \in Threads, NEW k \in Keys, NEW label \in PC,
           NEW m \in Matrix \cup {None}, Begin(t, k, label, m)
    PROVE  /\ TypeOK'
           /\ MovesOnly(t)
           /\ pc'[t] = label /\ key'[t] = k /\ want'[t] = m
           /\ sure'[t] = Registered(k)
           /\ UNCHANGED <<registry, served>>
BY DEF TypeOK, Begin, Goto, MovesOnly, Registered

LEMMA FinishEffect ==
    ASSUME TypeOK, NEW t \in Threads, NEW r \in {"ok", "err"}, NEW m \in Matrix \cup {None},
           Finish(t, r, m)
    PROVE  /\ pc' \in [Threads -> PC]
           /\ want' \in [Threads -> Matrix \cup {None}]
           /\ result' \in [Threads -> {"none", "ok", "err"}]
           /\ got' \in [Threads -> Matrix \cup {None}]
           /\ pc'[t] = "idle" /\ result'[t] = r
           /\ \A u \in Threads \ {t} : pc'[u] = pc[u] /\ want'[u] = want[u]
BY DEF TypeOK, Finish, PC

\* A call's first step: the thread's own part of the invariant.
LEMMA BeginThread ==
    ASSUME IInv, NEW t \in Threads, NEW k \in Keys, NEW label \in PC,
           NEW m \in Matrix \cup {None}, Begin(t, k, label, m),
           label \in {"set", "seed", "unload", "fast", "commit"},
           label = "set" => m \in Matrix /\ m.origin \in Sampled,
           label = "seed" => m \in Matrix /\ m.origin \in Seeds,
           label = "commit" => Registered(k) /\ m = Effective(k)
    PROVE  TypeOK' /\ MovesOnly(t) /\ ThreadOK(t)' /\ LoaderOK(t)'
<1>1. TypeOK  BY DEF IInv
<1>2. /\ TypeOK' /\ MovesOnly(t)
      /\ pc'[t] = label /\ key'[t] = k /\ want'[t] = m
      /\ sure'[t] = Registered(k)
      /\ UNCHANGED <<registry, served>>
  BY <1>1, BeginEffect
<1>3. LoaderOK(t)'  BY <1>2 DEF LoaderOK
<1>4. ThreadOK(t)'  BY <1>2 DEF ThreadOK, Registered, Effective
<1>5. QED  BY <1>2, <1>3, <1>4

LEMMA CallThread ==
    ASSUME IInv, NEW t \in Threads, Call(t)
    PROVE  TypeOK' /\ MovesOnly(t) /\ ThreadOK(t)' /\ LoaderOK(t)'
<1>1. CASE CallSetGlobalPp(t)
  <2>1. PICK k \in Keys \ BadDims, kappa \in Kappas, p \in Sampled :
           Begin(t, k, "set", [kappa |-> kappa, origin |-> p])
    BY <1>1 DEF CallSetGlobalPp
  <2>2. [kappa |-> kappa, origin |-> p] \in Matrix  BY DEF Matrix
  <2>3. QED  BY <2>1, <2>2, BeginThread DEF PC
<1>2. CASE CallSetGlobalPpSeeded(t)
  <2>1. PICK k \in Keys, kappa \in Kappas, s \in Seeds : Begin(t, k, "seed", Derive(s, kappa))
    BY <1>2 DEF CallSetGlobalPpSeeded
  <2>2. QED  BY <2>1, DerivedIsMatrix, BeginThread DEF PC
<1>3. CASE CallUnload(t)
  BY <1>3, BeginThread DEF PC, CallUnload
<1>4. CASE CallGet(t)
  BY <1>4, BeginThread DEF PC, CallGet
<1>5. CASE CallGetSole(t)
  BY <1>5, BeginThread DEF PC, CallGetSole
<1>6. CASE CommitBegin(t)
  <2>1. PICK k \in Keys \ BadDims :
           /\ Registered(k)
           /\ \/ Begin(t, k, "commit", Effective(k))
              \/ Begin(t, k, "fast", None)
    BY <1>6 DEF CommitBegin
  <2>2. Effective(k) \in Matrix  BY <2>1, EffectiveIsMatrix DEF IInv
  <2>3. CASE Begin(t, k, "commit", Effective(k))
    BY <2>1, <2>2, <2>3, BeginThread DEF PC
  <2>4. CASE Begin(t, k, "fast", None)
    BY <2>4, BeginThread DEF PC
  <2>5. QED  BY <2>1, <2>3, <2>4
<1>7. QED  BY <1>1, <1>2, <1>3, <1>4, <1>5, <1>6 DEF Call

-----------------------------------------------------------------------------
\* The history of served matrices: a step adds at most the matrix in force.
Serves(k, m) ==
    /\ Registered(k)'
    /\ m = Effective(k)'
    /\ served' = [served EXCEPT ![k] = @ \cup {m}]

LEMMA ServesAgree ==
    ASSUME IInv, Grows, RegistryOK', registry' \in [Keys -> Entry \cup {None}],
           UNCHANGED served \/ \E k \in Keys : \E m \in Matrix : Serves(k, m)
    PROVE  CommitmentsAgree' /\ served' \in [Keys -> SUBSET Matrix]
<1>1. TypeOK /\ CommitmentsAgree  BY DEF IInv
<1>2. \A k \in Keys : \A m \in served[k] : Registered(k)' /\ m = Effective(k)'
  BY <1>1, GrowsEffective DEF CommitmentsAgree
<1>3. CASE UNCHANGED served
  BY <1>1, <1>2, <1>3 DEF CommitmentsAgree, TypeOK, Registered, Effective
<1>4. ASSUME NEW k \in Keys, NEW m \in Matrix, Serves(k, m)
      PROVE  CommitmentsAgree' /\ served' \in [Keys -> SUBSET Matrix]
  <2>1. served \in [Keys -> SUBSET Matrix]  BY <1>1 DEF TypeOK
  <2>2. \A j \in Keys : served'[j] = IF j = k THEN served[k] \cup {m} ELSE served[j]
    BY <1>4, <2>1 DEF Serves
  <2>3. \A j \in Keys : \A n \in served'[j] : Registered(j)' /\ n = Effective(j)'
    BY <1>2, <1>4, <2>2 DEF Serves
  <2>4. served' \in [Keys -> SUBSET Matrix]  BY <1>4, <2>1 DEF Serves
  <2>5. QED  BY <2>3, <2>4 DEF CommitmentsAgree, Registered, Effective
<1>5. QED  BY <1>3, <1>4

\* Every step that is not a call's first: what it does to the mover and to the
\* history.
LEMMA ProgressServes ==
    ASSUME IInv, NEW t \in Threads, Progress(t)
    PROVE  \/ UNCHANGED served
           \/ \E k \in Keys : \E m \in Matrix : Serves(k, m)
<1>1. TypeOK /\ RegistryOK  BY DEF IInv
<1>2. CASE SetGlobalPp(t) \/ SetGlobalPpSeeded(t) \/ Unload(t) \/ GetSlow(t) \/ GetDerive(t)
  BY <1>2 DEF SetGlobalPp, SetGlobalPpSeeded, Unload, GetSlow, GetDerive
<1>3. CASE GetFast(t)
  <2>1. key[t] \in Keys  BY <1>3 DEF IInv, ThreadsOK, ThreadOK, GetFast
  <2>2. CASE ReturnPp(t, registry[key[t]].pp) /\ Registered(key[t]) /\ registry[key[t]].pp # None
    <3>1. UNCHANGED <<registry, key>>  BY <2>2 , <1>3 DEF GetFast, ReturnPp, Finish
    <3>2. registry[key[t]].pp \in Matrix  BY <1>1, <2>1, <2>2 DEF TypeOK, Registered, Entry
    <3>3. registry[key[t]].pp = Effective(key[t])'
      BY <2>2, <3>1 DEF Effective, Registered
    <3>4. Serves(key[t], registry[key[t]].pp)
      BY <2>2, <3>1, <3>3 DEF Serves, ReturnPp, Registered, Effective
    <3>5. QED  BY <2>1, <3>2, <3>4
  <2>3. QED  BY <1>3, <2>2 DEF GetFast
<1>4. CASE GetPublish(t)
  <2>1. key[t] \in Keys  BY <1>4 DEF IInv, ThreadsOK, ThreadOK, GetPublish
  <2>2. registry[key[t]] \in Entry /\ registry[key[t]].seed # None
        /\ want[t] = Derive(registry[key[t]].seed, registry[key[t]].kappa)
    BY <1>1, <1>4, <2>1 DEF IInv, LoaderCurrent, GetPublish, TypeOK, Registered
  <2>3. registry[key[t]].seed \in Seeds /\ registry[key[t]].kappa \in Kappas
    BY <2>2 DEF Entry
  <2>4. want[t] \in Matrix /\ want[t] # None  BY <2>2, <2>3, DerivedIsMatrix
  <2>5. registry'[key[t]] = [kappa |-> want[t].kappa, seed |-> want[t].origin, pp |-> want[t]]
    BY <1>1, <1>4, <2>1 DEF GetPublish, TypeOK
  <2>6. registry'[key[t]] \in Entry /\ UNCHANGED key
    BY <1>4, <2>2, <2>3, <2>4, <2>5, DerivedIsMatrix DEF Entry, GetPublish
  <2>7. Registered(key[t])' /\ Effective(key[t])' = want[t]
    BY <2>4, <2>5, <2>6, NoneIsNoEntry DEF Registered, Effective
  <2>8. served' = [served EXCEPT ![key[t]] = @ \cup {want[t]}]
    BY <1>4 DEF GetPublish, ReturnPp
  <2>9. QED  BY <2>1, <2>4, <2>6, <2>7, <2>8 DEF Serves
<1>5. CASE CommitEnd(t)
  <2>1. key[t] \in Keys /\ Registered(key[t]) /\ want[t] = Effective(key[t])
    BY <1>5 DEF IInv, ThreadsOK, ThreadOK, CommitEnd
  <2>2. want[t] \in Matrix  BY <1>1, <2>1, EffectiveIsMatrix
  <2>3. UNCHANGED <<registry, key>> /\ served' = [served EXCEPT ![key[t]] = @ \cup {want[t]}]
    BY <1>5 DEF CommitEnd
  <2>4. Registered(key[t])' /\ want[t] = Effective(key[t])'
    BY <2>1, <2>3 DEF Registered, Effective
  <2>5. QED  BY <2>1, <2>2, <2>3, <2>4 DEF Serves
<1>6. QED  BY <1>2, <1>3, <1>4, <1>5 DEF Progress

LocalsOK ==
    /\ pc \in [Threads -> PC]
    /\ key \in [Threads -> Keys \cup {None}]
    /\ want \in [Threads -> Matrix \cup {None}]
    /\ result \in [Threads -> {"none", "ok", "err"}]
    /\ got \in [Threads -> Matrix \cup {None}]
    /\ sure \in [Threads -> BOOLEAN]

\* A step that ends a call.
LEMMA FinishThread ==
    ASSUME IInv, NEW t \in Threads, NEW r \in {"ok", "err"}, NEW m \in Matrix \cup {None},
           Finish(t, r, m), UNCHANGED <<key, sure>>
    PROVE  LocalsOK' /\ MovesOnly(t) /\ ThreadOK(t)' /\ LoaderOK(t)'
<1>1. TypeOK  BY DEF IInv
<1>2. /\ pc' \in [Threads -> PC]
      /\ want' \in [Threads -> Matrix \cup {None}]
      /\ result' \in [Threads -> {"none", "ok", "err"}]
      /\ got' \in [Threads -> Matrix \cup {None}]
      /\ pc'[t] = "idle"
      /\ \A u \in Threads \ {t} : pc'[u] = pc[u] /\ want'[u] = want[u]
  BY <1>1, FinishEffect
<1>3. LocalsOK' /\ MovesOnly(t)  BY <1>1, <1>2 DEF LocalsOK, MovesOnly, TypeOK
<1>4. QED  BY <1>2, <1>3, IdleThread

LEMMA ProgressThread ==
    ASSUME IInv, NEW t \in Threads, Progress(t)
    PROVE  LocalsOK' /\ MovesOnly(t) /\ ThreadOK(t)' /\ LoaderOK(t)'
<1>1. TypeOK /\ RegistryOK /\ ThreadOK(t) /\ LoaderOK(t)
  BY DEF IInv, ThreadsOK, LoaderCurrent, LoaderOK
<1>2. CASE SetGlobalPp(t) \/ SetGlobalPpSeeded(t) \/ Unload(t)
  <2>1. \E r \in {"ok", "err"} : Finish(t, r, None) /\ UNCHANGED <<key, sure>>
    BY <1>2 DEF SetGlobalPp, SetGlobalPpSeeded, Unload, Return
  <2>2. QED  BY <2>1, FinishThread
<1>3. CASE GetFast(t)
  <2>1. key[t] \in Keys  BY <1>1, <1>3 DEF ThreadOK, GetFast
  <2>2. CASE Registered(key[t]) /\ ReturnPp(t, registry[key[t]].pp) /\ UNCHANGED <<registry, key, sure>>
    <3>1. registry[key[t]].pp \in Matrix \cup {None}
      BY <1>1, <2>1, <2>2 DEF TypeOK, Registered, Entry
    <3>2. QED  BY <2>2, <3>1, FinishThread DEF ReturnPp
  <2>3. CASE /\ Registered(key[t]) => registry[key[t]].pp = None
             /\ Goto(t, "slow")
             /\ UNCHANGED <<registry, key, want, result, got, served, sure>>
    <3>1. LocalsOK' /\ MovesOnly(t) /\ pc'[t] = "slow"
      BY <1>1, <2>3 DEF LocalsOK, MovesOnly, Goto, TypeOK, PC
    <3>2. sure[t] => Registered(key[t])  BY <1>1, <1>3 DEF ThreadOK, GetFast
    <3>3. sure[t] => registry[key[t]].seed # None
      BY <1>1, <2>1, <2>3, <3>2 DEF RegistryOK, EntryOK
    <3>4. ThreadOK(t)' /\ LoaderOK(t)'
      BY <2>1, <2>3, <3>1, <3>2, <3>3 DEF ThreadOK, LoaderOK, Registered
    <3>5. QED  BY <3>1, <3>4
  <2>4. QED  BY <1>3, <2>2, <2>3 DEF GetFast
<1>4. CASE GetSlow(t)
  <2>1. key[t] \in Keys  BY <1>1, <1>4 DEF ThreadOK, GetSlow
  <2>2. CASE Return(t, "err")
    BY <1>4, <2>2, FinishThread DEF Return, GetSlow
  <2>3. CASE /\ Registered(key[t])
             /\ registry[key[t]].seed # None
             /\ Goto(t, "derive")
             /\ want' = [want EXCEPT ![t] = Derive(registry[key[t]].seed, registry[key[t]].kappa)]
             /\ UNCHANGED <<result, got, registry, key, served, sure>>
    <3>1. registry[key[t]].seed \in Seeds /\ registry[key[t]].kappa \in Kappas
      BY <1>1, <2>1, <2>3 DEF TypeOK, Registered, Entry
    <3>2. Derive(registry[key[t]].seed, registry[key[t]].kappa) \in Matrix
      BY <3>1, DerivedIsMatrix
    <3>3. LocalsOK' /\ MovesOnly(t) /\ pc'[t] = "derive"
          /\ want'[t] = Derive(registry[key[t]].seed, registry[key[t]].kappa)
      BY <1>1, <2>3, <3>2 DEF LocalsOK, MovesOnly, Goto, TypeOK, PC
    <3>4. ThreadOK(t)' /\ LoaderOK(t)'
      BY <2>1, <2>3, <3>3 DEF ThreadOK, LoaderOK, Registered
    <3>5. QED  BY <3>3, <3>4
  <2>4. QED  BY <1>4, <2>2, <2>3 DEF GetSlow
<1>5. CASE GetDerive(t)
  <2>1. CASE Return(t, "err")
    BY <1>5, <2>1, FinishThread DEF Return, GetDerive
  <2>2. CASE Goto(t, "publish") /\ UNCHANGED <<want, result, got>>
    <3>1. UNCHANGED <<registry, key, served, sure>> /\ pc[t] = "derive"  BY <1>5 DEF GetDerive
    <3>2. LocalsOK' /\ MovesOnly(t) /\ pc'[t] = "publish"
      BY <1>1, <2>2, <3>1 DEF LocalsOK, MovesOnly, Goto, TypeOK, PC
    <3>3. ThreadOK(t)' /\ LoaderOK(t)'
      BY <1>1, <2>2, <3>1, <3>2 DEF ThreadOK, LoaderOK, Registered
    <3>4. QED  BY <3>2, <3>3
  <2>3. QED  BY <1>5, <2>1, <2>2 DEF GetDerive
<1>6. CASE GetPublish(t)
  <2>1. want[t] \in Matrix \cup {None}  BY <1>1 DEF TypeOK
  <2>2. QED  BY <1>6, <2>1, FinishThread DEF GetPublish, ReturnPp
<1>7. CASE CommitEnd(t)
  BY <1>7, FinishThread DEF CommitEnd, Return
<1>8. QED  BY <1>2, <1>3, <1>4, <1>5, <1>6, <1>7 DEF Progress

-----------------------------------------------------------------------------
LEMMA InitIInv == Init => IInv
BY DEF Init, IInv, TypeOK, RegistryOK, LoaderCurrent, ThreadsOK, ThreadOK, CommitmentsAgree,
       Registered, PC

LEMMA NextIInv == IInv /\ [Next]_vars => IInv'
<1> SUFFICES ASSUME IInv, [Next]_vars PROVE IInv'
  OBVIOUS
<1>1. Grows /\ RegistryOK' /\ registry' \in [Keys -> Entry \cup {None}]
  BY StepGrows
<1>2. CASE UNCHANGED vars
  BY <1>2 DEF IInv, TypeOK, RegistryOK, LoaderCurrent, ThreadsOK, ThreadOK, CommitmentsAgree,
              Registered, Effective, vars
<1>3. ASSUME NEW t \in Threads, Call(t) \/ Progress(t)
      PROVE  IInv'
  <2>1. UNCHANGED served \/ \E k \in Keys : \E m \in Matrix : Serves(k, m)
    BY <1>3, ProgressServes, CallKeepsRegistry
  <2>2. CommitmentsAgree' /\ served' \in [Keys -> SUBSET Matrix]
    BY <1>1, <2>1, ServesAgree
  <2>3. LocalsOK' /\ MovesOnly(t) /\ ThreadOK(t)' /\ LoaderOK(t)'
    BY <1>3, CallThread, ProgressThread DEF LocalsOK, TypeOK
  <2>4. TypeOK'  BY <1>1, <2>2, <2>3 DEF TypeOK, LocalsOK
  <2>5. \A u \in Threads : ThreadOK(u)' /\ LoaderOK(u)'
    BY <1>1, <2>3, OtherThread DEF MovesOnly
  <2>6. ThreadsOK' /\ LoaderCurrent'
    BY <2>5 DEF ThreadsOK, LoaderCurrent, LoaderOK
  <2>7. QED  BY <1>1, <2>2, <2>4, <2>6 DEF IInv
<1>4. QED  BY <1>2, <1>3 DEF Next

\* The registry's state is consistent in every reachable state: the inductive
\* invariant of the whole module.
THEOREM Invariance == Spec => []IInv
<1>1. QED  BY InitIInv, NextIInv, PTL DEF Spec

\* The registry's variables keep their types whatever the threads do.
THEOREM TypeCorrect == Spec => []TypeOK
<1>1. IInv => TypeOK  BY DEF IInv
<1>2. QED  BY <1>1, Invariance, PTL

\* Every entry can be committed with, and an unloaded one derived again.
THEOREM RegistryConsistent == Spec => []RegistryOK
<1>1. IInv => RegistryOK  BY DEF IInv
<1>2. QED  BY <1>1, Invariance, PTL

\* A loader that worked without the lock never publishes a stale matrix.
THEOREM LoadersCurrent == Spec => []LoaderCurrent
<1>1. IInv => LoaderCurrent  BY DEF IInv
<1>2. QED  BY <1>1, Invariance, PTL

\* All commitments made under a key agree, for any number of racing threads.
THEOREM Agreement == Spec => []CommitmentsAgree
<1>1. IInv => CommitmentsAgree  BY DEF IInv
<1>2. QED  BY <1>1, Invariance, PTL

-----------------------------------------------------------------------------
\* The registry implements the write-once cell: what each step does to the
\* matrix in force and to the history.
SameMatrices == \A k \in Keys : Effective(k)' = Effective(k)

FixesOne == \E k \in Keys : \E m \in Matrix :
               /\ Effective(k) = None
               /\ \A j \in Keys : Effective(j)' = IF j = k THEN m ELSE Effective(j)

LEMMA UnchangedMatrices ==
    ASSUME UNCHANGED registry
    PROVE  SameMatrices
BY DEF SameMatrices, Effective, Registered

LEMMA WritesMatrices ==
    ASSUME IInv, NEW k \in Keys, NEW e \in Entry, Writes(k, e)
    PROVE  /\ Registered(k) => SameMatrices
           /\ ~Registered(k) => FixesOne
<1>1. TypeOK /\ RegistryOK  BY DEF IInv
<1>2. \A j \in Keys : registry'[j] = IF j = k THEN e ELSE registry[j]
  BY <1>1 DEF Writes, TypeOK
<1>3. e # None  BY NoneIsNoEntry
<1>4. \A j \in Keys : j # k => Effective(j)' = Effective(j)
  BY <1>2 DEF Effective, Registered
<1>5. Effective(k)' = EntryMatrix(e)
  BY <1>2, <1>3 DEF Effective, Registered, EntryMatrix
<1>6. ASSUME Registered(k)  PROVE SameMatrices
  <2>1. EntryMatrix(e) = EntryMatrix(registry[k])  BY <1>6 DEF Writes, Registered
  <2>2. Effective(k) = EntryMatrix(registry[k])
    BY <1>6 DEF Effective, Registered, EntryMatrix
  <2>3. QED  BY <1>4, <1>5, <2>1, <2>2 DEF SameMatrices
<1>7. ASSUME ~Registered(k)  PROVE FixesOne
  <2>1. Effective(k) = None  BY <1>7 DEF Effective
  <2>2. EntryMatrix(e) \in Matrix  BY EntryMatrixIsMatrix DEF Writes
  <2>3. QED  BY <1>4, <1>5, <2>1, <2>2 DEF FixesOne
<1>8. QED  BY <1>6, <1>7

LEMMA StepMatrices ==
    ASSUME IInv, NEW t \in Threads, Call(t) \/ Progress(t)
    PROVE  \/ SameMatrices
           \/ FixesOne /\ UNCHANGED served
<1>1. CASE UNCHANGED registry  BY <1>1, UnchangedMatrices
<1>2. CASE SetGlobalPp(t) \/ SetGlobalPpSeeded(t) \/ Unload(t)
  <2>1. key[t] \in Keys
    BY <1>2 DEF IInv, ThreadsOK, ThreadOK, SetGlobalPp, SetGlobalPpSeeded, Unload
  <2>2. UNCHANGED served  BY <1>2 DEF SetGlobalPp, SetGlobalPpSeeded, Unload
  <2>3. UNCHANGED registry \/ \E e \in Entry : Writes(key[t], e)
    BY <1>2, SetGlobalPpWrites, SetGlobalPpSeededWrites, UnloadWrites
  <2>4. QED  BY <1>1, <2>1, <2>2, <2>3, WritesMatrices
<1>3. CASE GetPublish(t)
  <2>1. key[t] \in Keys  BY <1>3 DEF IInv, ThreadsOK, ThreadOK, GetPublish
  <2>2. Registered(key[t])  BY <1>3 DEF IInv, LoaderCurrent, GetPublish
  <2>3. QED  BY <1>3, <2>1, <2>2, GetPublishWrites, WritesMatrices
<1>4. CASE GetFast(t) \/ GetSlow(t) \/ GetDerive(t) \/ CommitEnd(t)
  BY <1>1, <1>4 DEF GetFast, GetSlow, GetDerive, CommitEnd
<1>5. CASE Call(t)
  BY <1>1, <1>5, CallKeepsRegistry
<1>6. QED  BY <1>2, <1>3, <1>4, <1>5 DEF Progress

LEMMA StepImplementsCell == IInv /\ [Next]_vars => [Cell!WNext]_(Cell!wvars)
<1> SUFFICES ASSUME IInv, [Next]_vars PROVE [Cell!WNext]_(Cell!wvars)
  OBVIOUS
<1>1. TypeOK /\ RegistryOK  BY DEF IInv
<1> DEFINE M == [k \in Keys |-> Effective(k)]
<1>2. SameMatrices => UNCHANGED M  BY DEF SameMatrices
<1>3. CASE UNCHANGED vars
  <2>1. UNCHANGED registry /\ UNCHANGED served  BY <1>3 DEF vars
  <2>2. UNCHANGED M  BY <1>2, <2>1, UnchangedMatrices
  <2>3. QED  BY <2>1, <2>2 DEF Cell!wvars
<1>4. ASSUME NEW t \in Threads, Call(t) \/ Progress(t)
      PROVE  [Cell!WNext]_(Cell!wvars)
  <2>1. UNCHANGED served \/ \E k \in Keys : \E m \in Matrix : Serves(k, m)
    BY <1>4, ProgressServes, CallKeepsRegistry
  <2>2. CASE FixesOne /\ UNCHANGED served
    <3>1. PICK k \in Keys, m \in Matrix :
             /\ Effective(k) = None
             /\ \A j \in Keys : Effective(j)' = IF j = k THEN m ELSE Effective(j)
      BY <2>2 DEF FixesOne
    <3>2. M' = [M EXCEPT ![k] = m]  BY <3>1
    <3>3. Cell!Fix(k, m)  BY <2>2, <3>1, <3>2 DEF Cell!Fix
    <3>4. QED  BY <3>3 DEF Cell!WNext
  <2>3. CASE SameMatrices /\ UNCHANGED served
    BY <1>2, <2>3 DEF Cell!wvars
  <2>4. ASSUME SameMatrices, NEW k \in Keys, NEW m \in Matrix, Serves(k, m)
        PROVE  [Cell!WNext]_(Cell!wvars)
    <3>1. m = Effective(k)' /\ served' = [served EXCEPT ![k] = @ \cup {m}]
      BY <2>4 DEF Serves
    <3>2. Effective(k) = m /\ m # None
      BY <2>4, <3>1, RegistryAssumption DEF SameMatrices
    <3>3. Cell!Serve(k)  BY <1>2, <2>4, <3>1, <3>2 DEF Cell!Serve
    <3>4. QED  BY <3>3 DEF Cell!WNext
  <2>5. SameMatrices \/ (FixesOne /\ UNCHANGED served)  BY <1>4, StepMatrices
  <2>6. QED  BY <2>1, <2>2, <2>3, <2>4, <2>5
<1>5. QED  BY <1>3, <1>4 DEF Next

LEMMA InitImplementsCell == Init => Cell!WInit
BY DEF Init, Cell!WInit, Effective, Registered

\* The concurrent, loading and unloading registry is, to its callers, a cell
\* per key that is written once.
THEOREM RegistryImplementsCell == Spec => ImplementsCell
<1>1. QED
  BY InitImplementsCell, StepImplementsCell, Invariance, PTL DEF Spec, Cell!WSpec, ImplementsCell

-----------------------------------------------------------------------------
\* What was registered stays registered as it was.
THEOREM Stability == Spec => RegistrationStable
<1>1. IInv /\ [Next]_vars =>
        [\A k \in Keys : Registered(k) =>
            /\ registry'[k] # None
            /\ registry'[k].kappa = registry[k].kappa
            /\ registry'[k].seed = registry[k].seed]_vars
  BY StepGrows DEF Grows, SameRegistration, Registered
<1>2. QED  BY <1>1, Invariance, PTL DEF Spec, RegistrationStable

\* A get of a key that was registered when the call began succeeds.
THEOREM GetSucceeds == Spec => RegisteredNeverFails
<1> DEFINE Calling(t) == /\ pc[t] \in {"fast", "slow", "derive", "publish"}
                         /\ sure[t]
                         /\ key[t] \notin BadDims
                         /\ pc'[t] = "idle"
<1>1. ASSUME IInv, NEW t \in Threads, NEW u \in Threads, Calling(t), Call(u) \/ Progress(u)
      PROVE  result'[t] = "ok"
  <2>1. MovesOnly(u)  BY <1>1, CallThread, ProgressThread
  <2>2. u = t  BY <1>1, <2>1 DEF MovesOnly
  <2>3. ThreadOK(t) /\ TypeOK  BY <1>1 DEF IInv, ThreadsOK
  <2>4. Progress(t)
    BY <1>1, <2>2 DEF Call, CallSetGlobalPp, CallSetGlobalPpSeeded, CallUnload, CallGet,
                      CallGetSole, CommitBegin, Begin
  <2>5. CASE GetFast(t)
    <3>1. CASE Finish(t, "ok", registry[key[t]].pp)
      BY <2>3, <3>1 DEF Finish, TypeOK
    <3>2. CASE Goto(t, "slow")
      BY <1>1, <2>3, <3>2 DEF Goto, TypeOK
    <3>3. QED  BY <2>5, <3>1, <3>2 DEF GetFast, ReturnPp
  <2>6. CASE GetSlow(t)
    <3>1. Registered(key[t]) /\ registry[key[t]].seed # None
      BY <1>1, <2>3, <2>6 DEF ThreadOK, GetSlow
    <3>2. Goto(t, "derive")  BY <2>6, <3>1 DEF GetSlow
    <3>3. QED  BY <1>1, <2>3, <3>2 DEF Goto, TypeOK
  <2>7. CASE GetDerive(t)
    <3>1. Goto(t, "publish")  BY <1>1, <2>7 DEF GetDerive
    <3>2. QED  BY <1>1, <2>3, <3>1 DEF Goto, TypeOK
  <2>8. CASE GetPublish(t)
    BY <2>3, <2>8 DEF GetPublish, ReturnPp, Finish, TypeOK
  <2>9. QED
    BY <1>1, <2>4, <2>5, <2>6, <2>7, <2>8
       DEF Progress, SetGlobalPp, SetGlobalPpSeeded, Unload, CommitEnd
<1>2. IInv /\ [Next]_vars => [\A t \in Threads : Calling(t) => result'[t] = "ok"]_vars
  BY <1>1 DEF Next
<1>3. QED  BY <1>2, Invariance, PTL DEF Spec, RegisteredNeverFails

-----------------------------------------------------------------------------
(* The committer look-ups.                                                 *)

\* The matrix that t's look-up asks for.
Wanted(t) == Derive(goal[t].seed, goal[t].kappa)

\* A matrix that the owner of goal g may commit with.
Suits(m, g) == m.kappa = g.kappa /\ (m.origin \in Seeds => m.origin = g.seed)

\* A key registered without a seed has a caller-sampled matrix.
SampledAt(k) == Registered(k) /\ registry[k].seed = None => Effective(k).origin \in Sampled

AllSampled == \A k \in Keys : SampledAt(k)

\* What a look-up knows at each of its steps.
KnowsParams(t) == step[t] = "params" => Registered(goal[t].key)

KnowsLoaded(t) == step[t] = "loaded" =>
    /\ Registered(goal[t].key)
    /\ registry[goal[t].key].seed = None
    /\ pc[t] \in {"idle", "fast", "slow", "derive", "publish"}
    /\ pc[t] = "idle" /\ result[t] = "ok" => got[t] = Effective(goal[t].key)

KnowsRegistered(t) == step[t] = "registered" =>
    /\ pc[t] \in {"idle", "seed"}
    /\ pc[t] = "seed" => want[t] = Wanted(t)
    /\ pc[t] = "idle" =>
          /\ Registered(goal[t].key)
          /\ result[t] = "ok" <=> Effective(goal[t].key) = Wanted(t)

KnowsModule(t) == step[t] = "module" =>
    /\ Registered(goal[t].key)
    /\ Suits(Effective(goal[t].key), goal[t])

LookupOK(t) == KnowsParams(t) /\ KnowsLoaded(t) /\ KnowsRegistered(t) /\ KnowsModule(t)

\* The parts of CTypeOK and CommitterSound that are about one thread.
ShapeOK(t) ==
    /\ step[t] = "off" <=> goal[t] = None
    /\ (step[t] # "off" /\ pc[t] # "idle") =>
          step[t] \in {"loaded", "registered"} /\ key[t] = goal[t].key

CommitterOK(t) == committer[t] # None =>
    /\ Registered(committer[t].key)
    /\ Suits(Effective(committer[t].key), committer[t])

ThreadsLookup == \A t \in Threads : ShapeOK(t) /\ LookupOK(t) /\ CommitterOK(t)

LookupTypes ==
    /\ step \in [Threads -> {"off", "params", "loaded", "register", "registered", "module"}]
    /\ goal \in [Threads -> Goals \cup {None}]
    /\ committer \in [Threads -> Goals \cup {None}]
    /\ refused \in [Threads -> BOOLEAN]

\* The inductive invariant.
CInv == IInv /\ AllSampled /\ LookupTypes /\ ThreadsLookup

-----------------------------------------------------------------------------
LEMMA GoalParts ==
    ASSUME LookupTypes, NEW t \in Threads, goal[t] # None
    PROVE  goal[t].key \in Keys /\ goal[t].kappa \in Kappas /\ goal[t].seed \in Seeds
BY DEF LookupTypes, Goals

LEMMA ShapeGoal ==
    ASSUME CInv, NEW t \in Threads, step[t] # "off"
    PROVE  /\ goal[t] # None
           /\ goal[t] \in Goals
           /\ goal[t].key \in Keys /\ goal[t].kappa \in Kappas /\ goal[t].seed \in Seeds
<1>1. goal[t] # None  BY DEF CInv, ThreadsLookup, ShapeOK
<1>2. LookupTypes  BY DEF CInv
<1>3. QED  BY <1>1, <1>2, GoalParts DEF LookupTypes

\* An entry's matrix, by how the entry was registered.
LEMMA SeededEffective ==
    ASSUME IInv, NEW k \in Keys, Registered(k), registry[k].seed # None
    PROVE  Effective(k) = Derive(registry[k].seed, registry[k].kappa)
BY DEF IInv, RegistryOK, EntryOK, Effective

-----------------------------------------------------------------------------
\* To the registry a step of a look-up is one of its own calls, or nothing.
LEMMA LookupIsCall ==
    ASSUME CInv, NEW t \in Threads, Ensure(t)
    PROVE  UNCHANGED vars \/ Call(t)
<1>1. CASE EnsureParams(t)
  <2>1. goal[t].key \in Keys  BY <1>1, ShapeGoal DEF EnsureParams
  <2>2. UNCHANGED vars \/ Begin(t, goal[t].key, "fast", None)  BY <1>1 DEF EnsureParams
  <2>3. QED  BY <2>1, <2>2 DEF Call, CallGet
<1>2. CASE EnsureRegister(t)
  <2>1. goal[t].key \in Keys /\ goal[t].kappa \in Kappas /\ goal[t].seed \in Seeds
    BY <1>2, ShapeGoal DEF EnsureRegister
  <2>2. Begin(t, goal[t].key, "seed", Derive(goal[t].seed, goal[t].kappa))
    BY <1>2 DEF EnsureRegister
  <2>3. QED  BY <2>1, <2>2 DEF Call, CallSetGlobalPpSeeded
<1>3. QED
  BY <1>1, <1>2 DEF Ensure, EnsureHas, EnsureRoot, EnsureLoaded, EnsureRegistered, EnsureModule

LEMMA CStepIsStep ==
    ASSUME CInv, [CNext]_allvars
    PROVE  [Next]_vars
<1>1. CASE UNCHANGED allvars  BY <1>1 DEF allvars, vars
<1>2. ASSUME NEW t \in Threads, Ensure(t)  PROVE [Next]_vars
  BY <1>2, LookupIsCall DEF Next
<1>3. ASSUME NEW t \in Threads, Call(t) \/ Progress(t)  PROVE [Next]_vars
  BY <1>3 DEF Next
<1>4. QED  BY <1>1, <1>2, <1>3 DEF CNext

-----------------------------------------------------------------------------
\* Only set_global_pp makes an entry without a seed.
LEMMA NewEntrySampled ==
    ASSUME IInv, NEW t \in Threads, Progress(t), NEW k \in Keys,
           ~Registered(k), Registered(k)'
    PROVE  SampledAt(k)'
<1>1. TypeOK /\ registry[k] = None /\ registry'[k] # None  BY DEF IInv, Registered
<1>2. CASE SetGlobalPp(t)
  <2>1. registry' = [registry EXCEPT ![key[t]] =
                       [kappa |-> want[t].kappa, seed |-> None, pp |-> want[t]]]
    BY <1>1, <1>2 DEF SetGlobalPp
  <2>2. key[t] \in Keys /\ want[t] \in Matrix /\ want[t].origin \in Sampled
    BY <1>2 DEF IInv, ThreadsOK, ThreadOK, SetGlobalPp
  <2>3. registry'[k] = [kappa |-> want[t].kappa, seed |-> None, pp |-> want[t]]
    BY <1>1, <2>1, <2>2 DEF TypeOK
  <2>4. want[t] # None  BY <2>2, RegistryAssumption
  <2>5. Effective(k)' = want[t]  BY <1>1, <2>3, <2>4 DEF Effective, Registered
  <2>6. QED  BY <2>2, <2>5 DEF SampledAt
<1>3. CASE SetGlobalPpSeeded(t)
  <2>1. key[t] \in Keys /\ want[t].origin \in Seeds
    BY <1>3 DEF IInv, ThreadsOK, ThreadOK, SetGlobalPpSeeded
  <2>2. registry' = [registry EXCEPT ![key[t]] =
                       [kappa |-> want[t].kappa, seed |-> want[t].origin, pp |-> None]]
    BY <1>1, <1>3 DEF SetGlobalPpSeeded
  <2>3. registry'[k] = [kappa |-> want[t].kappa, seed |-> want[t].origin, pp |-> None]
    BY <1>1, <2>1, <2>2 DEF TypeOK
  <2>4. registry'[k].seed # None  BY <2>1, <2>3, RegistryAssumption
  <2>5. QED  BY <2>4 DEF SampledAt
<1>4. CASE GetPublish(t)
  <2>1. key[t] \in Keys /\ Registered(key[t])
    BY <1>4 DEF IInv, ThreadsOK, ThreadOK, LoaderCurrent, GetPublish
  <2>2. registry'[k] = registry[k]
    BY <1>1, <1>4, <2>1 DEF GetPublish, TypeOK, Registered
  <2>3. QED  BY <1>1, <2>2
<1>5. CASE Unload(t)
  <2>1. key[t] \in Keys  BY <1>5 DEF IInv, ThreadsOK, ThreadOK, Unload
  <2>2. UNCHANGED registry \/ (Registered(key[t]) /\ \E e : registry' = [registry EXCEPT ![key[t]] = e])
    BY <1>5, <2>1 DEF Unload
  <2>3. QED  BY <1>1, <2>1, <2>2 DEF Registered, TypeOK
<1>6. CASE GetFast(t) \/ GetSlow(t) \/ GetDerive(t) \/ CommitEnd(t)
  BY <1>1, <1>6 DEF GetFast, GetSlow, GetDerive, CommitEnd
<1>7. QED  BY <1>2, <1>3, <1>4, <1>5, <1>6 DEF Progress

LEMMA StepSampled ==
    ASSUME IInv, AllSampled, [Next]_vars
    PROVE  AllSampled'
<1> SUFFICES ASSUME NEW k \in Keys PROVE SampledAt(k)'
  BY DEF AllSampled
<1>1. Grows /\ TypeOK  BY StepGrows DEF IInv
<1>2. CASE Registered(k)
  <2>1. Registered(k)' /\ Effective(k)' = Effective(k)  BY <1>1, <1>2, GrowsEffective
  <2>2. registry'[k].seed = registry[k].seed
    BY <1>1, <1>2 DEF Grows, SameRegistration, Registered
  <2>3. SampledAt(k)  BY DEF AllSampled
  <2>4. QED  BY <1>2, <2>1, <2>2, <2>3 DEF SampledAt
<1>3. CASE ~Registered(k) /\ Registered(k)'
  <2>1. ~UNCHANGED registry  BY <1>3 DEF Registered
  <2>2. PICK t \in Threads : Call(t) \/ Progress(t)  BY <2>1 DEF Next, vars
  <2>3. Progress(t)  BY <2>1, <2>2, CallKeepsRegistry
  <2>4. QED  BY <1>3, <2>3, NewEntrySampled
<1>4. CASE ~Registered(k)'
  BY <1>4 DEF SampledAt
<1>5. QED  BY <1>2, <1>3, <1>4

-----------------------------------------------------------------------------
\* A step of one thread leaves what the others' calls returned.
ReturnsOnly(t) ==
    \A u \in Threads \ {t} : result'[u] = result[u] /\ got'[u] = got[u]

LEMMA StepReturns ==
    ASSUME TypeOK, NEW t \in Threads, Call(t) \/ Progress(t)
    PROVE  ReturnsOnly(t)
<1>1. CASE UNCHANGED <<result, got>>  BY <1>1 DEF ReturnsOnly
<1>2. ASSUME NEW r, NEW m, Finish(t, r, m)  PROVE ReturnsOnly(t)
  BY <1>2 DEF ReturnsOnly, Finish, TypeOK
<1>3. ASSUME NEW k, NEW label, NEW m, Begin(t, k, label, m)  PROVE ReturnsOnly(t)
  BY <1>3 DEF ReturnsOnly, Begin, TypeOK
<1>4. CASE Call(t)
  BY <1>3, <1>4 DEF Call, CallSetGlobalPp, CallSetGlobalPpSeeded, CallUnload, CallGet,
                    CallGetSole, CommitBegin
<1>5. CASE SetGlobalPp(t) \/ SetGlobalPpSeeded(t) \/ Unload(t)
  BY <1>2, <1>5 DEF SetGlobalPp, SetGlobalPpSeeded, Unload, Return
<1>6. CASE GetFast(t) \/ GetSlow(t) \/ GetDerive(t) \/ GetPublish(t) \/ CommitEnd(t)
  BY <1>1, <1>2, <1>6 DEF GetFast, GetSlow, GetDerive, GetPublish, CommitEnd, Return, ReturnPp
<1>7. QED  BY <1>4, <1>5, <1>6 DEF Progress

\* What a thread knows survives any step in which neither its call nor its
\* look-up moves.
LEMMA StillKnows ==
    ASSUME CInv, Grows, NEW u \in Threads,
           pc'[u] = pc[u], key'[u] = key[u], want'[u] = want[u],
           result'[u] = result[u], got'[u] = got[u],
           step'[u] = step[u], goal'[u] = goal[u]
    PROVE  ShapeOK(u)' /\ LookupOK(u)'
<1>1. ShapeOK(u)'  BY DEF CInv, ThreadsLookup, ShapeOK
<1>2. LookupOK(u) /\ TypeOK  BY DEF CInv, ThreadsLookup, IInv
<1>3. CASE step[u] = "off"
  BY <1>1, <1>3 DEF LookupOK, KnowsParams, KnowsLoaded, KnowsRegistered, KnowsModule
<1>4. CASE step[u] # "off"
  <2> DEFINE k == goal[u].key
  <2>1. k \in Keys  BY <1>4, ShapeGoal
  <2>2. Registered(k) => /\ Registered(k)'
                         /\ Effective(k)' = Effective(k)
                         /\ registry'[k].seed = registry[k].seed
    BY <1>2, <2>1, GrowsEffective DEF Grows, SameRegistration, Registered
  <2>3. KnowsParams(u)'  BY <1>2, <2>2 DEF LookupOK, KnowsParams, Registered
  <2>4. KnowsLoaded(u)'
    BY <1>2, <2>2 DEF LookupOK, KnowsLoaded, Registered, Effective
  <2>5. KnowsRegistered(u)'
    BY <1>2, <2>2 DEF LookupOK, KnowsRegistered, Registered, Effective, Wanted
  <2>6. KnowsModule(u)'
    BY <1>2, <2>2 DEF LookupOK, KnowsModule, Registered, Effective, Suits
  <2>7. QED  BY <1>1, <2>3, <2>4, <2>5, <2>6 DEF LookupOK
<1>5. QED  BY <1>3, <1>4

\* A committer that was handed out stays good.
LEMMA StillCommits ==
    ASSUME CInv, Grows, NEW u \in Threads, committer'[u] \in {committer[u], None}
    PROVE  CommitterOK(u)'
<1>1. CASE committer'[u] = None  BY <1>1 DEF CommitterOK
<1>2. CASE committer'[u] = committer[u] /\ committer[u] # None
  <2>1. committer[u].key \in Keys  BY <1>2 DEF CInv, LookupTypes, Goals
  <2>2. CommitterOK(u) /\ TypeOK  BY DEF CInv, ThreadsLookup, IInv
  <2>3. Registered(committer[u].key)' /\ Effective(committer[u].key)' = Effective(committer[u].key)
    BY <1>2, <2>1, <2>2, GrowsEffective DEF CommitterOK
  <2>4. QED  BY <1>2, <2>2, <2>3 DEF CommitterOK, Suits, Registered, Effective
<1>3. QED  BY <1>1, <1>2
-----------------------------------------------------------------------------
\* What a load answers: an error, or the key's matrix.
LEMMA LoadAnswers ==
    ASSUME IInv, NEW t \in Threads, Progress(t), pc[t] \in {"fast", "slow", "derive", "publish"}
    PROVE  /\ key'[t] = key[t]
           /\ pc'[t] \in {"idle", "slow", "derive", "publish"}
           /\ pc'[t] = "idle" /\ result'[t] = "ok" => got'[t] = Effective(key[t])'
<1>1. TypeOK /\ key[t] \in Keys  BY DEF IInv, ThreadsOK, ThreadOK
<1>2. CASE GetFast(t)
  <2>1. CASE Registered(key[t]) /\ registry[key[t]].pp # None
             /\ ReturnPp(t, registry[key[t]].pp) /\ UNCHANGED <<registry, key>>
    <3>1. got'[t] = registry[key[t]].pp /\ pc'[t] = "idle" /\ key'[t] = key[t]
      BY <1>1, <2>1 DEF ReturnPp, Finish, TypeOK
    <3>2. registry[key[t]].pp = Effective(key[t])'  BY <2>1 DEF Effective, Registered
    <3>3. QED  BY <3>1, <3>2
  <2>2. CASE Goto(t, "slow") /\ UNCHANGED key
    BY <1>1, <2>2 DEF Goto, TypeOK
  <2>3. QED  BY <1>2, <2>1, <2>2 DEF GetFast
<1>3. CASE GetSlow(t)
  <2>1. key'[t] = key[t]  BY <1>3 DEF GetSlow
  <2>2. CASE Return(t, "err")
    BY <1>1, <2>1, <2>2 DEF Return, Finish, TypeOK
  <2>3. CASE Goto(t, "derive")
    BY <1>1, <2>1, <2>3 DEF Goto, TypeOK
  <2>4. QED  BY <1>3, <2>2, <2>3 DEF GetSlow
<1>4. CASE GetDerive(t)
  <2>1. key'[t] = key[t]  BY <1>4 DEF GetDerive
  <2>2. CASE Return(t, "err")
    BY <1>1, <2>1, <2>2 DEF Return, Finish, TypeOK
  <2>3. CASE Goto(t, "publish")
    BY <1>1, <2>1, <2>3 DEF Goto, TypeOK
  <2>4. QED  BY <1>4, <2>2, <2>3 DEF GetDerive
<1>5. CASE GetPublish(t)
  <2>1. want[t] # None
    <3>1. Registered(key[t]) /\ registry[key[t]] \in Entry
          /\ registry[key[t]].seed # None
          /\ want[t] = Derive(registry[key[t]].seed, registry[key[t]].kappa)
      BY <1>1, <1>5 DEF IInv, LoaderCurrent, GetPublish, TypeOK, Registered
    <3>2. QED  BY <3>1, DerivedIsMatrix DEF Entry
  <2>2. registry'[key[t]] = [kappa |-> want[t].kappa, seed |-> want[t].origin, pp |-> want[t]]
    BY <1>1, <1>5 DEF GetPublish, TypeOK
  <2>3. registry'[key[t]] # None
    <3>1. Grows /\ Registered(key[t])
      BY <1>5, StepGrows DEF Next, IInv, LoaderCurrent, GetPublish, Progress
    <3>2. QED  BY <1>1, <3>1 DEF Grows, Registered
  <2>4. Effective(key[t])' = want[t]  BY <1>5, <2>1, <2>2, <2>3 DEF Effective, Registered, GetPublish
  <2>5. got'[t] = want[t] /\ pc'[t] = "idle" /\ key'[t] = key[t]
    BY <1>1, <1>5 DEF GetPublish, ReturnPp, Finish, TypeOK
  <2>6. QED  BY <2>4, <2>5
<1>6. QED
  BY <1>2, <1>3, <1>4, <1>5 DEF Progress, SetGlobalPp, SetGlobalPpSeeded, Unload, CommitEnd

\* A seeded entry is the one asked for exactly when its matrix is.
LEMMA SameSeedingMatrix ==
    ASSUME IInv, AllSampled, NEW k \in Keys, Registered(k),
           NEW s \in Seeds, NEW kappa \in Kappas
    PROVE  SameSeeding(registry[k], kappa, s) <=> Effective(k) = Derive(s, kappa)
<1>1. registry[k] \in Entry /\ EntryOK(registry[k])
  BY DEF IInv, TypeOK, RegistryOK, Registered
<1>2. CASE registry[k].seed = None
  <2>1. Effective(k).origin \in Sampled  BY <1>2 DEF AllSampled, SampledAt
  <2>2. Derive(s, kappa).origin = s  BY DerivedIsMatrix
  <2>3. Effective(k) # Derive(s, kappa)  BY <2>1, <2>2, RegistryAssumption
  <2>4. ~SameSeeding(registry[k], kappa, s)  BY <1>2, RegistryAssumption DEF SameSeeding
  <2>5. QED  BY <2>3, <2>4
<1>3. CASE registry[k].seed # None
  <2>1. Effective(k) = Derive(registry[k].seed, registry[k].kappa)  BY <1>3, SeededEffective
  <2>2. ASSUME SameSeeding(registry[k], kappa, s)  PROVE Effective(k) = Derive(s, kappa)
    BY <2>1, <2>2 DEF SameSeeding
  <2>3. ASSUME Effective(k) = Derive(s, kappa)  PROVE SameSeeding(registry[k], kappa, s)
    <3>1. registry[k].seed = s /\ registry[k].kappa = kappa
      BY <2>1, <2>3 DEF Derive
    <3>2. QED  BY <1>1, <3>1 DEF SameSeeding, EntryOK
  <2>4. QED  BY <2>2, <2>3
<1>4. QED  BY <1>2, <1>3

\* What a registration answers: whether the key now has the matrix it carried.
LEMMA SeedAnswers ==
    ASSUME IInv, AllSampled, NEW t \in Threads, Progress(t), pc[t] = "seed"
    PROVE  /\ key'[t] = key[t]
           /\ pc'[t] = "idle"
           /\ Registered(key[t])'
           /\ result'[t] = "ok" <=> Effective(key[t])' = want[t]
<1> DEFINE k == key[t]
           e == [kappa |-> want[t].kappa, seed |-> want[t].origin, pp |-> None]
<1>1. TypeOK /\ k \in Keys /\ want[t] \in Matrix /\ want[t].origin \in Seeds
  BY DEF IInv, ThreadsOK, ThreadOK
<1>2. want[t].kappa \in Kappas /\ want[t] = Derive(want[t].origin, want[t].kappa)
  BY <1>1 DEF Matrix, Derive
<1>3. SetGlobalPpSeeded(t)
  BY DEF Progress, SetGlobalPp, SetGlobalPpSeeded, Unload, GetFast, GetSlow, GetDerive,
         GetPublish, CommitEnd
<1>4. key'[t] = k  BY <1>3 DEF SetGlobalPpSeeded
<1>5. CASE Registered(k)
  <2>1. registry[k].pp # None \/ registry[k].seed # None
    BY <1>1, <1>5 DEF IInv, RegistryOK, EntryOK
  <2>2. UNCHANGED registry
        /\ Return(t, IF SameSeeding(registry[k], want[t].kappa, want[t].origin)
                     THEN "ok" ELSE "err")
    BY <1>3, <1>5, <2>1 DEF SetGlobalPpSeeded
  <2>3. pc'[t] = "idle"
        /\ result'[t] = IF SameSeeding(registry[k], want[t].kappa, want[t].origin)
                        THEN "ok" ELSE "err"
    BY <1>1, <2>2 DEF Return, Finish, TypeOK
  <2>4. Registered(k)' /\ Effective(k)' = Effective(k)
    BY <1>4, <1>5, <2>2 DEF Registered, Effective
  <2>5. SameSeeding(registry[k], want[t].kappa, want[t].origin) <=> Effective(k) = want[t]
    BY <1>1, <1>2, <1>5, SameSeedingMatrix
  <2>6. QED  BY <1>4, <2>3, <2>4, <2>5
<1>6. CASE ~Registered(k)
  <2>1. registry' = [registry EXCEPT ![k] = e] /\ Return(t, "ok")
    BY <1>3, <1>6 DEF SetGlobalPpSeeded
  <2>2. registry'[k] = e  BY <1>1, <2>1 DEF TypeOK
  <2>3. want[t].origin # None  BY <1>1, RegistryAssumption
  <2>4. e \in Entry  BY <1>1, <1>2 DEF Entry
  <2>5. e # None  BY <2>4, NoneIsNoEntry
  <2>6. Registered(k)' /\ Effective(k)' = want[t]
    BY <1>2, <1>4, <2>2, <2>5 DEF Registered, Effective
  <2>7. pc'[t] = "idle" /\ result'[t] = "ok"  BY <1>1, <2>1 DEF Return, Finish, TypeOK
  <2>8. QED  BY <1>4, <2>6, <2>7
<1>7. QED  BY <1>5, <1>6
-----------------------------------------------------------------------------
\* The steps of a look-up: what each does to its own thread.
LookupsOnly(t) == \A u \in Threads \ {t} :
    step'[u] = step[u] /\ goal'[u] = goal[u] /\ committer'[u] = committer[u]

Moved(t) == LookupTypes' /\ LookupsOnly(t) /\ ShapeOK(t)' /\ LookupOK(t)' /\ CommitterOK(t)'

LEMMA ProceedEffect ==
    ASSUME LookupTypes, NEW t \in Threads,
           NEW s \in {"off", "params", "loaded", "register", "registered", "module"}, Proceed(t, s)
    PROVE  /\ LookupTypes' /\ LookupsOnly(t)
           /\ step'[t] = s /\ goal'[t] = goal[t] /\ committer'[t] = committer[t]
BY DEF LookupTypes, Proceed, LookupsOnly

LEMMA RefuseMoves ==
    ASSUME CInv, Grows, NEW t \in Threads, Refuse(t)
    PROVE  Moved(t)
<1>1. LookupTypes  BY DEF CInv
<1>2. /\ LookupTypes' /\ LookupsOnly(t)
      /\ step'[t] = "off" /\ goal'[t] = None /\ committer'[t] = committer[t]
  BY <1>1 DEF LookupTypes, Refuse, LookupsOnly
<1>3. ShapeOK(t)'  BY <1>2 DEF ShapeOK
<1>4. LookupOK(t)'
  BY <1>2 DEF LookupOK, KnowsParams, KnowsLoaded, KnowsRegistered, KnowsModule
<1>5. CommitterOK(t)'  BY <1>2, StillCommits
<1>6. QED  BY <1>2, <1>3, <1>4, <1>5 DEF Moved

\* A look-up that goes on to build its module, the registry being as it was.
LEMMA ProceedToModule ==
    ASSUME CInv, Grows, NEW t \in Threads, step[t] # "off", pc[t] = "idle", UNCHANGED vars,
           Proceed(t, "module"), Registered(goal[t].key), Suits(Effective(goal[t].key), goal[t])
    PROVE  Moved(t)
<1>1. LookupTypes /\ goal[t] # None  BY ShapeGoal DEF CInv
<1>2. /\ LookupTypes' /\ LookupsOnly(t)
      /\ step'[t] = "module" /\ goal'[t] = goal[t] /\ committer'[t] = committer[t]
  BY <1>1, ProceedEffect
<1>3. UNCHANGED <<registry, pc>>  BY DEF vars
<1>4. ShapeOK(t)'  BY <1>1, <1>2, <1>3 DEF ShapeOK
<1>5. LookupOK(t)'
  BY <1>2, <1>3 DEF LookupOK, KnowsParams, KnowsLoaded, KnowsRegistered, KnowsModule,
                    Registered, Effective, Suits
<1>6. CommitterOK(t)'  BY <1>2, StillCommits
<1>7. QED  BY <1>2, <1>4, <1>5, <1>6 DEF Moved

\* The first step of a look-up, by either way in.
LEMMA StartMoves ==
    ASSUME CInv, Grows, NEW t \in Threads, EnsureHas(t) \/ EnsureRoot(t)
    PROVE  Moved(t)
<1>1. LookupTypes /\ UNCHANGED vars /\ pc[t] = "idle"  BY DEF CInv, EnsureHas, EnsureRoot
<1>2. PICK g \in Goals :
         /\ goal' = [goal EXCEPT ![t] = g]
         /\ \/ step' = [step EXCEPT ![t] = "params"] /\ Registered(g.key)
            \/ step' = [step EXCEPT ![t] = "register"]
  BY DEF EnsureHas, EnsureRoot
<1>3. committer' = [committer EXCEPT ![t] = None] /\ refused' = [refused EXCEPT ![t] = FALSE]
  BY DEF EnsureHas, EnsureRoot
<1>4. LookupTypes' /\ LookupsOnly(t)  BY <1>1, <1>2, <1>3 DEF LookupTypes, LookupsOnly
<1>5. goal'[t] = g /\ committer'[t] = None /\ g # None
  BY <1>1, <1>2, <1>3, NoneIsNoGoal DEF LookupTypes
<1>6. \/ step'[t] = "params" /\ Registered(g.key)
      \/ step'[t] = "register"
  BY <1>1, <1>2 DEF LookupTypes
<1>7. UNCHANGED <<registry, pc>>  BY <1>1 DEF vars
<1>8. ShapeOK(t)'  BY <1>1, <1>5, <1>6, <1>7 DEF ShapeOK
<1>9. LookupOK(t)'
  BY <1>5, <1>6, <1>7 DEF LookupOK, KnowsParams, KnowsLoaded, KnowsRegistered, KnowsModule,
                          Registered
<1>10. CommitterOK(t)'  BY <1>5 DEF CommitterOK
<1>11. QED  BY <1>4, <1>8, <1>9, <1>10 DEF Moved

LEMMA ParamsMoves ==
    ASSUME CInv, Grows, NEW t \in Threads, EnsureParams(t)
    PROVE  Moved(t)
<1> DEFINE k == goal[t].key
           e == registry[k]
<1>1. step[t] = "params"  BY DEF EnsureParams
<1>2. goal[t] # None /\ k \in Keys /\ LookupTypes /\ TypeOK  BY <1>1, ShapeGoal DEF CInv, IInv
<1>3. Registered(k)  BY <1>1 DEF CInv, ThreadsLookup, LookupOK, KnowsParams
<1>4. pc[t] = "idle"  BY <1>1, <1>2 DEF CInv, ThreadsLookup, ShapeOK, LookupTypes
<1>5. CASE Refuse(t)  BY <1>5, RefuseMoves
<1>6. CASE e.seed # None /\ e.kappa = goal[t].kappa /\ e.seed = goal[t].seed
           /\ Proceed(t, "module") /\ UNCHANGED vars
  <2>1. Effective(k) = Wanted(t)  BY <1>2, <1>3, <1>6, SeededEffective DEF CInv, Wanted
  <2>2. Suits(Effective(k), goal[t])  BY <2>1 DEF Suits, Wanted, Derive
  <2>3. QED  BY <1>1, <1>3, <1>4, <1>6, <2>2, ProceedToModule
<1>7. CASE e.seed = None /\ Begin(t, k, "fast", None) /\ Proceed(t, "loaded")
  <2>1. /\ LookupTypes' /\ LookupsOnly(t)
        /\ step'[t] = "loaded" /\ goal'[t] = goal[t] /\ committer'[t] = committer[t]
    BY <1>2, <1>7, ProceedEffect
  <2>2. pc'[t] = "fast" /\ key'[t] = k /\ UNCHANGED registry
    BY <1>2, <1>7 DEF Begin, Goto, TypeOK
  <2>3. ShapeOK(t)'  BY <1>2, <2>1, <2>2 DEF ShapeOK
  <2>4. LookupOK(t)'
    BY <1>3, <1>7, <2>1, <2>2 DEF LookupOK, KnowsParams, KnowsLoaded, KnowsRegistered,
                                  KnowsModule, Registered
  <2>5. CommitterOK(t)'  BY <2>1, StillCommits
  <2>6. QED  BY <2>1, <2>3, <2>4, <2>5 DEF Moved
<1>8. QED  BY <1>3, <1>5, <1>6, <1>7 DEF EnsureParams

LEMMA LoadedMoves ==
    ASSUME CInv, Grows, NEW t \in Threads, EnsureLoaded(t)
    PROVE  Moved(t)
<1>1. CASE Refuse(t)  BY <1>1, RefuseMoves
<1>2. CASE result[t] = "ok" /\ got[t].kappa = goal[t].kappa /\ Proceed(t, "module")
  <2>1. step[t] = "loaded" /\ pc[t] = "idle" /\ UNCHANGED vars  BY DEF EnsureLoaded
  <2>2. goal[t].key \in Keys  BY <2>1, ShapeGoal
  <2>3. /\ Registered(goal[t].key) /\ registry[goal[t].key].seed = None
        /\ got[t] = Effective(goal[t].key)
    BY <1>2, <2>1 DEF CInv, ThreadsLookup, LookupOK, KnowsLoaded
  <2>4. Effective(goal[t].key).origin \in Sampled
    BY <2>2, <2>3 DEF CInv, AllSampled, SampledAt
  <2>5. Suits(Effective(goal[t].key), goal[t])
    BY <1>2, <2>3, <2>4, RegistryAssumption DEF Suits
  <2>6. QED  BY <1>2, <2>1, <2>3, <2>5, ProceedToModule
<1>3. QED  BY <1>1, <1>2 DEF EnsureLoaded

LEMMA RegisterMoves ==
    ASSUME CInv, Grows, NEW t \in Threads, EnsureRegister(t)
    PROVE  Moved(t)
<1>1. step[t] = "register"  BY DEF EnsureRegister
<1>2. goal[t] # None /\ LookupTypes /\ TypeOK  BY <1>1, ShapeGoal DEF CInv, IInv
<1>3. Begin(t, goal[t].key, "seed", Wanted(t)) /\ Proceed(t, "registered")
  BY DEF EnsureRegister, Wanted
<1>4. /\ LookupTypes' /\ LookupsOnly(t)
      /\ step'[t] = "registered" /\ goal'[t] = goal[t] /\ committer'[t] = committer[t]
  BY <1>2, <1>3, ProceedEffect
<1>5. pc'[t] = "seed" /\ key'[t] = goal[t].key /\ want'[t] = Wanted(t)
  BY <1>2, <1>3 DEF Begin, Goto, TypeOK
<1>6. ShapeOK(t)'  BY <1>2, <1>4, <1>5 DEF ShapeOK
<1>7. LookupOK(t)'
  BY <1>4, <1>5 DEF LookupOK, KnowsParams, KnowsLoaded, KnowsRegistered, KnowsModule, Wanted
<1>8. CommitterOK(t)'  BY <1>4, StillCommits
<1>9. QED  BY <1>4, <1>6, <1>7, <1>8 DEF Moved

LEMMA RegisteredMoves ==
    ASSUME CInv, Grows, NEW t \in Threads, EnsureRegistered(t)
    PROVE  Moved(t)
<1>1. CASE Refuse(t)  BY <1>1, RefuseMoves
<1>2. CASE result[t] = "ok" /\ Proceed(t, "module")
  <2>1. step[t] = "registered" /\ pc[t] = "idle" /\ UNCHANGED vars  BY DEF EnsureRegistered
  <2>2. Registered(goal[t].key) /\ Effective(goal[t].key) = Wanted(t)
    BY <1>2, <2>1 DEF CInv, ThreadsLookup, LookupOK, KnowsRegistered
  <2>3. Suits(Effective(goal[t].key), goal[t])  BY <2>2 DEF Suits, Wanted, Derive
  <2>4. QED  BY <1>2, <2>1, <2>2, <2>3, ProceedToModule
<1>3. QED  BY <1>1, <1>2 DEF EnsureRegistered

LEMMA ModuleMoves ==
    ASSUME CInv, Grows, NEW t \in Threads, EnsureModule(t)
    PROVE  Moved(t)
<1>1. step[t] = "module" /\ UNCHANGED vars  BY DEF EnsureModule
<1>2. Registered(goal[t].key) /\ Suits(Effective(goal[t].key), goal[t])
  BY <1>1 DEF CInv, ThreadsLookup, LookupOK, KnowsModule
<1>3. LookupTypes /\ UNCHANGED refused  BY <1>2 DEF CInv, EnsureModule
<1>4. /\ step' = [step EXCEPT ![t] = "off"]
      /\ goal' = [goal EXCEPT ![t] = None]
      /\ committer' = [committer EXCEPT ![t] = goal[t]]
  BY <1>2 DEF EnsureModule
<1>5. LookupTypes' /\ LookupsOnly(t)  BY <1>3, <1>4 DEF LookupTypes, LookupsOnly
<1>6. step'[t] = "off" /\ goal'[t] = None /\ committer'[t] = goal[t]
  BY <1>3, <1>4 DEF LookupTypes
<1>7. UNCHANGED registry  BY <1>1 DEF vars
<1>8. ShapeOK(t)' /\ LookupOK(t)'
  BY <1>6 DEF ShapeOK, LookupOK, KnowsParams, KnowsLoaded, KnowsRegistered, KnowsModule
<1>9. CommitterOK(t)'
  BY <1>2, <1>6, <1>7 DEF CommitterOK, Registered, Effective, Suits
<1>10. QED  BY <1>5, <1>8, <1>9 DEF Moved

\* A step of the call that a look-up waits for, or a call made outside one.
LEMMA CallMoves ==
    ASSUME CInv, Grows, NEW t \in Threads, UNCHANGED cvars,
           (step[t] = "off" /\ Call(t)) \/ Progress(t)
    PROVE  Moved(t)
<1>1. IInv /\ AllSampled /\ LookupTypes /\ ShapeOK(t) /\ LookupOK(t)
  BY DEF CInv, ThreadsLookup
<1>2. UNCHANGED <<step, goal, committer, refused>>  BY DEF cvars
<1>3. LookupTypes' /\ LookupsOnly(t)  BY <1>1, <1>2 DEF LookupTypes, LookupsOnly
<1>4. CommitterOK(t)'  BY <1>2, StillCommits
<1>5. CASE step[t] = "off"
  BY <1>1, <1>2, <1>3, <1>4, <1>5
     DEF Moved, ShapeOK, LookupOK, KnowsParams, KnowsLoaded, KnowsRegistered, KnowsModule
<1>6. CASE step[t] # "off"
  <2> DEFINE k == goal[t].key
  <2>1. Progress(t)  BY <1>6
  <2>2. pc[t] # "idle"
    BY <2>1 DEF Progress, SetGlobalPp, SetGlobalPpSeeded, Unload, GetFast, GetSlow, GetDerive,
                GetPublish, CommitEnd
  <2>3. step[t] \in {"loaded", "registered"} /\ key[t] = k  BY <1>1, <1>6, <2>2 DEF ShapeOK
  <2>4. goal[t] # None /\ k \in Keys  BY <1>6, ShapeGoal
  <2>5. CASE step[t] = "loaded"
    <3>1. Registered(k) /\ registry[k].seed = None
          /\ pc[t] \in {"fast", "slow", "derive", "publish"}
      BY <1>1, <2>2, <2>5 DEF LookupOK, KnowsLoaded
    <3>2. /\ key'[t] = key[t]
          /\ pc'[t] \in {"idle", "slow", "derive", "publish"}
          /\ pc'[t] = "idle" /\ result'[t] = "ok" => got'[t] = Effective(key[t])'
      BY <1>1, <2>1, <3>1, LoadAnswers
    <3>3. registry'[k] # None /\ registry'[k].seed = None
      BY <2>4, <3>1 DEF Grows, SameRegistration, Registered
    <3>4. KnowsLoaded(t)'
      BY <1>2, <2>3, <3>2, <3>3 DEF KnowsLoaded, Registered, Effective
    <3>5. LookupOK(t)'
      BY <1>2, <2>5, <3>4 DEF LookupOK, KnowsParams, KnowsRegistered, KnowsModule
    <3>6. ShapeOK(t)'  BY <1>2, <2>3, <2>4, <2>5, <3>2 DEF ShapeOK
    <3>7. QED  BY <1>3, <1>4, <3>5, <3>6 DEF Moved
  <2>6. CASE step[t] = "registered"
    <3>1. pc[t] = "seed" /\ want[t] = Wanted(t)
      BY <1>1, <2>2, <2>6 DEF LookupOK, KnowsRegistered
    <3>2. /\ key'[t] = key[t] /\ pc'[t] = "idle" /\ Registered(key[t])'
          /\ result'[t] = "ok" <=> Effective(key[t])' = want[t]
      BY <1>1, <2>1, <3>1, SeedAnswers
    <3>3. KnowsRegistered(t)'
      BY <1>2, <2>3, <3>1, <3>2 DEF KnowsRegistered, Registered, Effective, Wanted
    <3>4. LookupOK(t)'
      BY <1>2, <2>6, <3>3 DEF LookupOK, KnowsParams, KnowsLoaded, KnowsModule
    <3>5. ShapeOK(t)'  BY <1>2, <2>3, <2>4, <2>6, <3>2 DEF ShapeOK
    <3>6. QED  BY <1>3, <1>4, <3>4, <3>5 DEF Moved
  <2>7. QED  BY <2>3, <2>5, <2>6
<1>7. QED  BY <1>5, <1>6
-----------------------------------------------------------------------------
LEMMA InitCInv == CInit => CInv
<1> SUFFICES ASSUME CInit PROVE CInv
  OBVIOUS
<1>1. IInv  BY InitIInv DEF CInit
<1>2. AllSampled  BY DEF CInit, Init, AllSampled, SampledAt, Registered
<1>3. LookupTypes  BY DEF CInit, LookupTypes
<1>4. ThreadsLookup
  BY DEF CInit, ThreadsLookup, ShapeOK, LookupOK, CommitterOK, KnowsParams, KnowsLoaded,
         KnowsRegistered, KnowsModule
<1>5. QED  BY <1>1, <1>2, <1>3, <1>4 DEF CInv

\* Threads that take no step in CNext keep what they know.
LEMMA OthersMove ==
    ASSUME CInv, Grows, NEW t \in Threads, Moved(t),
           UNCHANGED vars \/ Call(t) \/ Progress(t),
           NEW u \in Threads \ {t}
    PROVE  ShapeOK(u)' /\ LookupOK(u)' /\ CommitterOK(u)'
<1>1. IInv /\ TypeOK  BY DEF CInv, IInv
<1>2. step'[u] = step[u] /\ goal'[u] = goal[u] /\ committer'[u] = committer[u]
  BY DEF Moved, LookupsOnly
<1>3. pc'[u] = pc[u] /\ key'[u] = key[u] /\ want'[u] = want[u]
      /\ result'[u] = result[u] /\ got'[u] = got[u]
  <2>1. CASE UNCHANGED vars  BY <2>1 DEF vars
  <2>2. CASE Call(t) \/ Progress(t)
    BY <1>1, <2>2, CallThread, ProgressThread, StepReturns DEF MovesOnly, ReturnsOnly
  <2>3. QED  BY <2>1, <2>2
<1>4. QED  BY <1>2, <1>3, StillKnows, StillCommits

LEMMA NextCInv == CInv /\ [CNext]_allvars => CInv'
<1> SUFFICES ASSUME CInv, [CNext]_allvars PROVE CInv'
  OBVIOUS
<1>1. IInv /\ AllSampled /\ [Next]_vars  BY CStepIsStep DEF CInv
<1>2. IInv' /\ AllSampled' /\ Grows  BY <1>1, NextIInv, StepSampled, StepGrows
<1>3. CASE UNCHANGED allvars
  <2>1. UNCHANGED <<step, goal, committer, refused, registry, pc, key, want, result, got>>
    BY <1>3 DEF allvars
  <2>2. LookupTypes'  BY <2>1 DEF CInv, LookupTypes
  <2>3. ThreadsLookup'
    <3>1. \A u \in Threads : ShapeOK(u)' /\ LookupOK(u)' /\ CommitterOK(u)'
      BY <1>2, <2>1, StillKnows, StillCommits
    <3>2. QED  BY <3>1 DEF ThreadsLookup
  <2>4. QED  BY <1>2, <2>2, <2>3 DEF CInv
<1>4. ASSUME NEW t \in Threads,
             \/ Ensure(t)
             \/ step[t] = "off" /\ Call(t) /\ UNCHANGED cvars
             \/ Progress(t) /\ UNCHANGED cvars
      PROVE  CInv'
  <2>1. Moved(t)
    BY <1>2, <1>4, StartMoves, ParamsMoves, LoadedMoves, RegisterMoves, RegisteredMoves,
       ModuleMoves, CallMoves DEF Ensure
  <2>2. UNCHANGED vars \/ Call(t) \/ Progress(t)  BY <1>4, LookupIsCall
  <2>3. \A u \in Threads : ShapeOK(u)' /\ LookupOK(u)' /\ CommitterOK(u)'
    BY <1>2, <2>1, <2>2, OthersMove DEF Moved
  <2>4. ThreadsLookup'  BY <2>3 DEF ThreadsLookup
  <2>5. QED  BY <1>2, <2>1, <2>4 DEF CInv, Moved
<1>5. QED  BY <1>3, <1>4 DEF CNext

\* What look-ups know of the registry they share, in every reachable state: the
\* inductive invariant of the composition.
THEOREM LookupInvariance == CSpec => []CInv
<1>1. QED  BY InitCInv, NextCInv, PTL DEF CSpec

\* The look-ups keep their shape, and wait only for calls of their own.
THEOREM LookupsTyped == CSpec => []CTypeOK
<1>1. CInv => CTypeOK  BY DEF CInv, IInv, CTypeOK, LookupTypes, ThreadsLookup, ShapeOK
<1>2. QED  BY <1>1, LookupInvariance, PTL

\* A committer that was handed out is the one its owner asked for, whatever any
\* number of other threads register, load and unload.
THEOREM CommittersSound == CSpec => []CommitterSound
<1>1. CInv => CommitterSound
  BY DEF CInv, CommitterSound, ThreadsLookup, CommitterOK, Suits
<1>2. QED  BY <1>1, LookupInvariance, PTL

\* A look-up is refused for a conflict only, never because of a race.
THEOREM RefusalsAreConflicts == CSpec => RefusedOnlyOnConflict
<1> DEFINE Conflict(t) == /\ Registered(goal[t].key)
                         /\ Effective(goal[t].key) # Wanted(t)
           Refusing(t) == refused'[t] /\ ~refused[t]
<1>1. ASSUME CInv, NEW t \in Threads, NEW u \in Threads, Refusing(t), Ensure(u)
      PROVE  Conflict(t)
  <2>1. LookupTypes  BY <1>1 DEF CInv
  <2>2. u = t /\ Refuse(t)
    BY <1>1, <2>1 DEF Ensure, EnsureHas, EnsureRoot, EnsureParams, EnsureLoaded, EnsureRegister,
                      EnsureRegistered, EnsureModule, Proceed, Refuse, LookupTypes
  <2>3. LookupOK(t) /\ IInv  BY <1>1 DEF CInv, ThreadsLookup
  <2> DEFINE k == goal[t].key
  <2>4. step[t] # "off" => /\ goal[t] # None
                           /\ k \in Keys /\ goal[t].kappa \in Kappas /\ goal[t].seed \in Seeds
    BY <1>1, ShapeGoal
  <2>5. CASE EnsureParams(t)
    <3>1. step[t] = "params" /\ Registered(k)
      BY <2>3, <2>5 DEF EnsureParams, LookupOK, KnowsParams
    <3>2. registry[k].seed # None
          /\ ~(registry[k].kappa = goal[t].kappa /\ registry[k].seed = goal[t].seed)
      BY <2>1, <2>2, <2>5, <3>1 DEF EnsureParams, Proceed, Refuse, LookupTypes
    <3>3. Effective(k) = Derive(registry[k].seed, registry[k].kappa)
      BY <2>3, <2>4, <3>1, <3>2, SeededEffective
    <3>4. QED  BY <3>1, <3>2, <3>3 DEF Wanted, Derive
  <2>6. CASE EnsureLoaded(t)
    <3>1. step[t] = "loaded"  BY <2>6 DEF EnsureLoaded
    <3>2. Registered(k) /\ registry[k].seed = None
      BY <2>3, <3>1 DEF LookupOK, KnowsLoaded
    <3>3. Effective(k).origin \in Sampled
      BY <1>1, <2>4, <3>1, <3>2 DEF CInv, AllSampled, SampledAt
    <3>4. Wanted(t).origin \in Seeds  BY <2>4, <3>1, DerivedIsMatrix DEF Wanted
    <3>5. QED  BY <3>2, <3>3, <3>4, RegistryAssumption
  <2>7. CASE EnsureRegistered(t)
    <3>1. step[t] = "registered" /\ pc[t] = "idle" /\ result[t] # "ok"
      BY <2>1, <2>2, <2>7 DEF EnsureRegistered, Proceed, Refuse, LookupTypes
    <3>2. QED  BY <2>3, <3>1 DEF LookupOK, KnowsRegistered
  <2>8. CASE EnsureModule(t)
    <3>1. step[t] = "module" /\ Registered(k)
      BY <2>3, <2>8 DEF EnsureModule, LookupOK, KnowsModule
    <3>2. UNCHANGED refused  BY <2>8, <3>1 DEF EnsureModule
    <3>3. QED  BY <1>1, <3>2
  <2>9. CASE EnsureHas(t) \/ EnsureRoot(t) \/ EnsureRegister(t)
    BY <1>1, <2>1, <2>9 DEF EnsureHas, EnsureRoot, EnsureRegister, Proceed, LookupTypes
  <2>10. QED  BY <1>1, <2>2, <2>5, <2>6, <2>7, <2>8, <2>9 DEF Ensure
<1>2. CInv /\ [CNext]_allvars =>
        [\A t \in Threads : refused'[t] /\ ~refused[t] =>
            /\ Registered(goal[t].key)
            /\ Effective(goal[t].key) # Derive(goal[t].seed, goal[t].kappa)]_allvars
  BY <1>1 DEF CNext, cvars, Wanted
<1>3. QED  BY <1>2, LookupInvariance, PTL DEF CSpec, RefusedOnlyOnConflict

-----------------------------------------------------------------------------
\* With look-ups going on in any of its threads the registry is still a cell
\* that is written once: composing the two adds no behaviour to it.
THEOREM LookupsUseACell == CSpec => ImplementsCell
<1>1. CInv /\ [CNext]_allvars => [Cell!WNext]_(Cell!wvars)
  BY CStepIsStep, StepImplementsCell DEF CInv
<1>2. CInit => Cell!WInit  BY InitImplementsCell DEF CInit
<1>3. QED
  BY <1>1, <1>2, LookupInvariance, PTL DEF CSpec, Cell!WSpec, ImplementsCell

-----------------------------------------------------------------------------
(* The builders: the inductive invariant.                                  *)

\* The jobs that are somewhere, those that run or ran, those on a stack.
Stay(p) == Range(Held(p))
Placed  == UNION {Stay(p) : p \in Places}
StackOf(w) == Stay(<<"stack", w>>)
Stacked == UNION {StackOf(w) : w \in Workers}
Used    == Placed \cup done
Begun   == Stacked \cup done

\* No job is in two places, or twice in one.
Apart ==
    /\ stack = [w \in Workers |-> stack[w]] /\ deque = [w \in Workers |-> deque[w]]
    /\ \A p \in Places : /\ IsSeq(Held(p)) /\ IsInjective(Held(p))
                         /\ Stay(p) \subseteq Jobs /\ Stay(p) \cap done = {}
    /\ \A p, q \in Places : p # q => Stay(p) \cap Stay(q) = {}

\* One build at a time uses the pool for its stages.
OneBuild ==
    /\ mode \in [Callers -> {"idle", "parallel", "serial", "returned"}]
    /\ in_use = \E c \in Callers : mode[c] = "parallel"
    /\ \A c, d \in Callers : mode[c] = "parallel" /\ mode[d] = "parallel" => c = d

\* A caller that builds without the pool.
Alone(c) == mode[c] \in {"serial", "returned"} /\ All(c) \notin Used

\* The job that starts stage n.
Parent(c, n) == IF n = 1 THEN All(c) ELSE Rest(c)

\* What must have begun, or ended, before a job is anywhere, or ends.
Nested ==
    \A c \in Callers :
        /\ All(c) \in Used => mode[c] = "parallel" \/ (mode[c] = "returned" /\ All(c) \in done)
        /\ Rest(c) \in Used => All(c) \in Begun
        /\ \A n \in StageNo : Stage(c, n) \in Used =>
              Parent(c, n) \in Begun \/ (Stage(c, n) \in done /\ Alone(c))
        /\ All(c) \in done => Rest(c) \in done
        /\ Rest(c) \in done => Stage(c, 3) \in done

\* What may wait to be taken.
Pieces  == UNION {ColumnsOf(t) : t \in Stages}
CanWait == Joins \cup {Stage(c, 3) : c \in Callers} \cup Pieces

OnlyWaiting == Stay(<<"injector">>) \subseteq CanWait /\ \A w \in Workers : Stay(<<"deque", w>>) \subseteq CanWait

\* Columns come from a commitment, and a commitment from a stage that runs.
FromCommit(t) == ColumnsOf(t) \cap Used # {} => pc[t] = "commit" \/ t \in done
Commits(t)    == pc[t] = "commit" => t \in Stacked \/ Alone(t[2])

\* On a worker only the last stage's commitment splits, as only its key may have
\* a matrix that is loaded.
SplitLast(t) == t \in Stacked /\ pc[t] = "commit" /\ ~(ColumnsOf(t) \subseteq done) => t[3] = 3

CommitsInPlace == \A t \in Stages : FromCommit(t) /\ Commits(t) /\ SplitLast(t)

\* Above a commitment there are only columns.
NothingAbove ==
    \A w \in Workers : \A i, j \in DOMAIN stack[w] :
        i < j /\ stack[w][i] \in Stages /\ pc[stack[w][i]] = "commit" => stack[w][j] \in Pieces

\* A stage looks up what it is to look up, and commits with what it got.
StageLookup(t) ==
    /\ goal[t] \in {None, GoalOf(t)} /\ committer[t] \in {None, GoalOf(t)}
    /\ committer[t] # None => step[t] = "off"
    /\ refused[t] => committer[t] = None /\ step[t] = "off"
    /\ pc[t] = "commit" => committer[t] # None

Lookups == (\A t \in Stages : StageLookup(t)) /\ (\A t \in Others : step[t] = "off")

\* A loaded matrix is one that was set up.
LoadedPrepared ==
    /\ \A k \in Keys : Registered(k) /\ registry[k].pp # None => k \in Prepared
    /\ \A t \in Threads : pc[t] = "set" => key[t] \in Prepared

PoolInv == Apart /\ OneBuild /\ Nested /\ OnlyWaiting /\ CommitsInPlace /\ NothingAbove
PInv    == CInv /\ Lookups /\ LoadedPrepared /\ PoolInv

-----------------------------------------------------------------------------
(* Jobs.                                                                   *)

JobsDiffer ==
    \A c, d \in Callers : \A n, m \in StageNo : \A i, j \in 1..Columns :
        /\ All(c) # Rest(d) /\ All(c) # Stage(d, m) /\ Rest(c) # Stage(d, m)
        /\ All(c) = All(d) => c = d
        /\ Rest(c) = Rest(d) => c = d
        /\ Stage(c, n) = Stage(d, m) => c = d /\ n = m
        /\ Column(Stage(c, n), i) \notin {All(d), Rest(d), Stage(d, m)}
        /\ Column(Stage(c, n), i) = Column(Stage(d, m), j) => c = d /\ n = m /\ i = j
        /\ Stage(c, n)[2] = c /\ Stage(c, n)[3] = n

\* Jobs of different kinds, or of different callers, stages and columns, differ.
LEMMA JobsAreApart == JobsDiffer
<1> SUFFICES ASSUME NEW c \in Callers, NEW d \in Callers, NEW n \in StageNo, NEW m \in StageNo,
                    NEW i \in 1..Columns, NEW j \in 1..Columns
             PROVE  /\ All(c) # Rest(d) /\ All(c) # Stage(d, m) /\ Rest(c) # Stage(d, m)
                    /\ All(c) = All(d) => c = d
                    /\ Rest(c) = Rest(d) => c = d
                    /\ Stage(c, n) = Stage(d, m) => c = d /\ n = m
                    /\ Column(Stage(c, n), i) \notin {All(d), Rest(d), Stage(d, m)}
                    /\ Column(Stage(c, n), i) = Column(Stage(d, m), j) => c = d /\ n = m /\ i = j
                    /\ Stage(c, n)[2] = c /\ Stage(c, n)[3] = n
  BY DEF JobsDiffer
<1>1. QED  BY DEF All, Rest, Stage, Column

\* The halves of a join.
LEMMA Halves ==
    ASSUME NEW c \in Callers
    PROVE  /\ FirstHalf(All(c)) = Stage(c, 1) /\ SecondHalf(All(c)) = Rest(c)
           /\ FirstHalf(Rest(c)) = Stage(c, 2) /\ SecondHalf(Rest(c)) = Stage(c, 3)
BY DEF FirstHalf, SecondHalf, All, Rest

\* Every job is of one kind.
LEMMA KindsOfJob ==
    ASSUME NEW job \in Jobs
    PROVE  /\ \/ \E c \in Callers : job = All(c) \/ job = Rest(c)
              \/ \E c \in Callers : \E n \in StageNo : job = Stage(c, n)
              \/ job \in Pieces
           /\ job \in Pieces => job \notin Stages \cup Joins
           /\ job \in Stages => job \notin Joins
<1>1. \/ \E c \in Callers : job = All(c) \/ job = Rest(c)
      \/ \E c \in Callers : \E n \in StageNo : job = Stage(c, n)
      \/ job \in Pieces
  BY DEF Jobs, Joins, Stages, Pieces
<1>2. ASSUME job \in Pieces PROVE job \notin Stages \cup Joins
  <2>1. PICK c \in Callers, n \in StageNo, i \in 1..Columns : job = Column(Stage(c, n), i)
    BY <1>2 DEF Pieces, ColumnsOf, Stages
  <2>2. QED  BY <2>1, JobsAreApart DEF JobsDiffer, Stages, Joins
<1>3. ASSUME job \in Stages PROVE job \notin Joins
  <2>1. PICK c \in Callers, n \in StageNo : job = Stage(c, n)  BY <1>3 DEF Stages
  <2>2. 1 \in 1..Columns  BY PoolAssumption
  <2>3. QED  BY <2>1, <2>2, JobsAreApart DEF JobsDiffer, Joins
<1>4. QED  BY <1>1, <1>2, <1>3

-----------------------------------------------------------------------------
(* The stages' look-ups and the registry.                                  *)

\* A stage is a thread of the registry, and so is a thread that sets parameters up.
LEMMA StagesAreThreads ==
    /\ Stages \subseteq Threads /\ Others \subseteq Threads
    /\ \A t \in Threads : t \in Stages \/ t \in Others
    /\ \A t \in Stages : t \notin Others
BY PoolAssumption

\* Every step of the pool is one that PpCommitter allows, or none of it.
LEMMA PStepIsCStep ==
    ASSUME PInv, [PNext]_phvars
    PROVE  [CNext]_allvars
<1>1. CASE UNCHANGED phvars  BY <1>1 DEF phvars, allvars
<1>2. ASSUME NEW c \in Callers, Build(c) PROVE UNCHANGED allvars
  BY <1>2 DEF Build, BuildParallel, BuildSerial, BuildReturns
<1>3. ASSUME NEW w \in Workers, Work(w) PROVE UNCHANGED allvars
  BY <1>3 DEF Work, TakeLocal, Steal, TakeInjected, JobReturns, Enter
<1>4. ASSUME NEW t \in Others, CallSetUp(t) \/ SetUp(t) PROVE CNext
  <2>1. t \in Threads /\ step[t] = "off"  BY StagesAreThreads DEF PInv, Lookups
  <2>2. CASE CallSetUp(t)
    <3>1. Call(t) /\ UNCHANGED cvars  BY <2>2 DEF CallSetUp, Call
    <3>2. QED  BY <2>1, <3>1 DEF CNext
  <2>3. CASE SetUp(t)
    <3>1. Progress(t) /\ UNCHANGED cvars  BY <2>3 DEF SetUp, Progress
    <3>2. QED  BY <2>1, <3>1 DEF CNext
  <2>4. QED  BY <1>4, <2>2, <2>3
<1>5. ASSUME NEW t \in Stages, InStage(t) PROVE CNext \/ UNCHANGED allvars
  <2>1. t \in Threads  BY StagesAreThreads
  <2>2. CASE LookUp(t)
    <3>1. Ensure(t)  BY <2>2 DEF LookUp, Ensure
    <3>2. QED  BY <2>1, <3>1 DEF CNext
  <2>3. CASE InCall(t)
    <3>1. Progress(t) /\ UNCHANGED cvars  BY <2>3 DEF InCall, Progress
    <3>2. QED  BY <2>1, <3>1 DEF CNext
  <2>4. CASE Commit(t)
    <3>1. committer[t] # None /\ CommitBegin(t) /\ UNCHANGED cvars  BY <2>4 DEF Commit
    <3>2. step[t] = "off"  BY <3>1 DEF PInv, Lookups, StageLookup
    <3>3. Call(t)  BY <3>1 DEF Call
    <3>4. QED  BY <2>1, <3>1, <3>2, <3>3 DEF CNext
  <2>5. CASE StageReturns(t)
    <3>1. (CommitEnd(t) /\ UNCHANGED cvars) \/ UNCHANGED allvars  BY <2>5 DEF StageReturns
    <3>2. CASE CommitEnd(t) /\ UNCHANGED cvars
      <4>1. Progress(t)  BY <3>2 DEF Progress
      <4>2. QED  BY <2>1, <3>2, <4>1 DEF CNext
    <3>3. QED  BY <3>1, <3>2
  <2>6. QED  BY <1>5, <2>2, <2>3, <2>4, <2>5 DEF InStage
<1>6. QED  BY <1>1, <1>2, <1>3, <1>4, <1>5 DEF PNext

\* What a step that t takes in the registry leaves alone, and what t comes to know.
OnlyThread(t) == \A u \in Threads \ {t} :
    /\ pc'[u] = pc[u] /\ key'[u] = key[u]
    /\ step'[u] = step[u] /\ goal'[u] = goal[u] /\ committer'[u] = committer[u]
    /\ refused'[u] = refused[u]

NothingLoaded == \A k \in Keys : Registered(k)' /\ registry'[k].pp # None =>
                    Registered(k) /\ registry[k].pp # None

\* A step of a stage that leaves the stage's own facts true leaves them all true.
LEMMA StageKeeps ==
    ASSUME PInv, NEW t \in Stages, OnlyThread(t), StageLookup(t)', NothingLoaded, pc'[t] # "set"
    PROVE  Lookups' /\ LoadedPrepared'
<1>1. \A u \in Stages \ {t} : StageLookup(u)'
  BY StagesAreThreads DEF PInv, Lookups, StageLookup, OnlyThread
<1>2. \A u \in Others : step'[u] = "off"
  BY StagesAreThreads DEF PInv, Lookups, OnlyThread
<1>3. Lookups'  BY <1>1, <1>2 DEF Lookups
<1>4. LoadedPrepared'  BY DEF LoadedPrepared, NothingLoaded, PInv, OnlyThread
<1>5. QED  BY <1>3, <1>4

\* A call that begins, or none.
LEMMA BeginsOnly ==
    ASSUME TypeOK, NEW t \in Threads, NEW k, NEW label, NEW m, Begin(t, k, label, m)
    PROVE  /\ pc[t] = "idle" /\ pc'[t] = label /\ key'[t] = k /\ UNCHANGED registry
           /\ \A u \in Threads \ {t} : pc'[u] = pc[u] /\ key'[u] = key[u]
BY DEF TypeOK, Begin, Goto

\* A look-up's step asks for what the stage's committer needs, and its end hands that out.
LEMMA LookUpKeeps ==
    ASSUME PInv, NEW t \in Stages, LookUp(t)
    PROVE  OnlyThread(t) /\ Lookups' /\ LoadedPrepared' /\ pc[t] # "commit" /\ pc'[t] # "commit"
<1> DEFINE Asks == /\ step[t] # "off"
                   /\ UNCHANGED vars \/ Begin(t, goal[t].key, "fast", None)
                      \/ Begin(t, goal[t].key, "seed", Derive(goal[t].seed, goal[t].kappa))
                   /\ \/ Refuse(t)
                      \/ \E s \in {"module", "loaded", "registered"} : Proceed(t, s)
                      \/ /\ step' = [step EXCEPT ![t] = "off"]
                         /\ goal' = [goal EXCEPT ![t] = None]
                         /\ committer' = [committer EXCEPT ![t] = goal[t]]
                         /\ UNCHANGED refused
<1>1. t \in Threads /\ CInv /\ TypeOK /\ LookupTypes /\ StageLookup(t)
  BY StagesAreThreads DEF PInv, CInv, IInv, Lookups
<1>2. CASE Fresh(t) /\ EnsureHas(t) /\ goal'[t] = GoalOf(t)
  <2>1. /\ pc[t] = "idle" /\ UNCHANGED vars
        /\ goal' = [goal EXCEPT ![t] = goal'[t]]
        /\ step' = [step EXCEPT ![t] = step'[t]]
        /\ committer' = [committer EXCEPT ![t] = None]
        /\ refused' = [refused EXCEPT ![t] = FALSE]
    BY <1>1, <1>2 DEF EnsureHas, LookupTypes
  <2>2. UNCHANGED <<pc, key, registry>>  BY <2>1 DEF vars
  <2>3. OnlyThread(t)  BY <1>1, <2>1, <2>2 DEF OnlyThread, LookupTypes
  <2>4. committer'[t] = None /\ ~refused'[t]  BY <1>1, <2>1 DEF LookupTypes
  <2>5. StageLookup(t)'  BY <1>2, <2>1, <2>2, <2>4 DEF StageLookup
  <2>6. NothingLoaded  BY <2>2 DEF NothingLoaded, Registered
  <2>7. QED  BY <2>1, <2>2, <2>3, <2>5, <2>6, StageKeeps
<1>3. CASE Asks
  <2>1. committer[t] = None /\ ~refused[t] /\ pc[t] # "commit"  BY <1>1, <1>3 DEF StageLookup
  <2>2. /\ UNCHANGED registry /\ \A u \in Threads \ {t} : pc'[u] = pc[u] /\ key'[u] = key[u]
        /\ pc'[t] \in {pc[t], "fast", "seed"}
    <3>1. CASE UNCHANGED vars  BY <3>1 DEF vars
    <3>2. CASE Begin(t, goal[t].key, "fast", None)  BY <1>1, <3>2, BeginsOnly
    <3>3. CASE Begin(t, goal[t].key, "seed", Derive(goal[t].seed, goal[t].kappa))
      BY <1>1, <3>3, BeginsOnly
    <3>4. QED  BY <1>3, <3>1, <3>2, <3>3
  <2>3. /\ \A u \in Threads \ {t} :
              /\ step'[u] = step[u] /\ goal'[u] = goal[u] /\ committer'[u] = committer[u]
              /\ refused'[u] = refused[u]
        /\ \/ step'[t] = "off" /\ goal'[t] = None /\ committer'[t] = None
           \/ step'[t] # "off" /\ goal'[t] = goal[t] /\ committer'[t] = None /\ ~refused'[t]
           \/ step'[t] = "off" /\ goal'[t] = None /\ committer'[t] = goal[t] /\ ~refused'[t]
    <3>1. CASE Refuse(t)  BY <1>1, <2>1, <3>1 DEF Refuse, LookupTypes
    <3>2. ASSUME NEW s \in {"module", "loaded", "registered"}, Proceed(t, s)
          PROVE  /\ UNCHANGED <<goal, committer, refused>> /\ step'[t] # "off"
                 /\ \A u \in Threads \ {t} : step'[u] = step[u]
      BY <1>1, <3>2 DEF Proceed, LookupTypes
    <3>3. CASE /\ step' = [step EXCEPT ![t] = "off"]
               /\ goal' = [goal EXCEPT ![t] = None]
               /\ committer' = [committer EXCEPT ![t] = goal[t]]
               /\ UNCHANGED refused
      BY <1>1, <2>1, <3>3 DEF LookupTypes
    <3>4. QED  BY <1>3, <2>1, <3>1, <3>2, <3>3
  <2>4. OnlyThread(t)  BY <2>2, <2>3 DEF OnlyThread
  <2>5. pc'[t] # "commit"  BY <2>1, <2>2
  <2>6. StageLookup(t)'  BY <1>1, <2>1, <2>3, <2>5 DEF StageLookup
  <2>7. NothingLoaded  BY <2>2 DEF NothingLoaded, Registered
  <2>8. pc[t] # "set"
    BY <1>1, <1>3 DEF CInv, ThreadsLookup, LookupOK, ShapeOK, KnowsLoaded, KnowsRegistered
  <2>9. QED  BY <2>1, <2>2, <2>4, <2>5, <2>6, <2>7, <2>8, StageKeeps
<1>4. EnsureParams(t) \/ EnsureLoaded(t) \/ EnsureRegister(t) \/ EnsureRegistered(t) \/ EnsureModule(t)
      => Asks
  BY DEF EnsureParams, EnsureLoaded, EnsureRegister, EnsureRegistered, EnsureModule
<1>5. QED  BY <1>2, <1>3, <1>4 DEF LookUp

\* A registry call of a look-up that waits: it loads no matrix.
LEMMA InCallKeeps ==
    ASSUME PInv, NEW t \in Stages, InCall(t)
    PROVE  OnlyThread(t) /\ Lookups' /\ LoadedPrepared' /\ pc[t] # "commit" /\ pc'[t] # "commit"
<1>1. t \in Threads /\ TypeOK /\ IInv /\ StageLookup(t) /\ Progress(t) /\ UNCHANGED cvars
  BY StagesAreThreads DEF PInv, CInv, IInv, Lookups, InCall, Progress
<1>2. UNCHANGED <<step, goal, committer, refused>>  BY <1>1 DEF cvars
<1>3. OnlyThread(t)
  <2>1. MovesOnly(t)  BY <1>1, ProgressThread
  <2>2. QED  BY <1>2, <2>1 DEF MovesOnly, OnlyThread
<1>4. pc[t] \in {"fast", "seed"} /\ pc'[t] \in {"idle", "slow"}
  BY <1>1 DEF InCall, SetGlobalPpSeeded, GetFast, ReturnPp, Return, Finish, Goto, TypeOK
<1>5. NothingLoaded
  <2>1. CASE GetFast(t)  BY <2>1 DEF GetFast, NothingLoaded, Registered
  <2>2. CASE SetGlobalPpSeeded(t)
    <3>1. \/ UNCHANGED registry
          \/ registry' = [registry EXCEPT ![key[t]] =
                [kappa |-> want[t].kappa, seed |-> want[t].origin, pp |-> None]]
      BY <2>2 DEF SetGlobalPpSeeded
    <3>2. CASE UNCHANGED registry  BY <3>2 DEF NothingLoaded, Registered
    <3>3. CASE registry' = [registry EXCEPT ![key[t]] =
                [kappa |-> want[t].kappa, seed |-> want[t].origin, pp |-> None]]
      <4>1. \A k \in Keys : k # key[t] => registry'[k] = registry[k]  BY <1>1, <3>3 DEF TypeOK
      <4>2. \A k \in Keys : k = key[t] => registry'[k].pp = None  BY <1>1, <3>3 DEF TypeOK
      <4>3. QED  BY <4>1, <4>2 DEF NothingLoaded, Registered
    <3>4. QED  BY <3>1, <3>2, <3>3
  <2>3. QED  BY <2>1, <2>2 DEF InCall
<1>6. StageLookup(t)'  BY <1>1, <1>2, <1>4 DEF StageLookup
<1>7. QED  BY <1>3, <1>4, <1>5, <1>6, StageKeeps

\* A commitment begins: only a key with nothing to commit with would send it to a load.
LEMMA CommitKeeps ==
    ASSUME PInv, NEW t \in Stages, Commit(t)
    PROVE  /\ OnlyThread(t) /\ Lookups' /\ LoadedPrepared' /\ pc[t] = "idle" /\ pc'[t] = "commit"
           /\ UNCHANGED registry /\ key'[t] = GoalOf(t).key /\ key'[t] \in Keys /\ Registered(key'[t])
<1>1. t \in Threads /\ TypeOK /\ RegistryOK /\ StageLookup(t) /\ CommitBegin(t)
  BY StagesAreThreads DEF PInv, CInv, IInv, Lookups, Commit
<1>2. committer[t] = GoalOf(t) /\ key'[t] = committer[t].key
      /\ UNCHANGED <<step, goal, committer, refused>>
  BY <1>1 DEF StageLookup, Commit, cvars
<1>3. PICK k \in Keys \ BadDims :
         /\ Registered(k)
         /\ IF registry[k].pp # None \/ registry[k].seed # None
            THEN Begin(t, k, "commit", Effective(k))
            ELSE Begin(t, k, "fast", None)
  BY <1>1 DEF CommitBegin
<1>4. registry[k].pp # None \/ registry[k].seed # None
  BY <1>1, <1>3 DEF RegistryOK, EntryOK, Registered
<1>5. Begin(t, k, "commit", Effective(k))  BY <1>3, <1>4
<1>6. /\ pc[t] = "idle" /\ pc'[t] = "commit" /\ key'[t] = k /\ UNCHANGED registry
      /\ \A u \in Threads \ {t} : pc'[u] = pc[u] /\ key'[u] = key[u]
  BY <1>1, <1>5, BeginsOnly
<1>7. OnlyThread(t)  BY <1>2, <1>6 DEF OnlyThread
<1>8. StageLookup(t)'  BY <1>1, <1>2 DEF StageLookup, Commit
<1>9. NothingLoaded  BY <1>6 DEF NothingLoaded, Registered
<1>10. Lookups' /\ LoadedPrepared'  BY <1>6, <1>7, <1>8, <1>9, StageKeeps
<1>11. QED  BY <1>2, <1>3, <1>6, <1>7, <1>10

\* A stage returns, and does not commit any more.
LEMMA StageReturnsKeeps ==
    ASSUME PInv, NEW t \in Stages, StageReturns(t)
    PROVE  OnlyThread(t) /\ Lookups' /\ LoadedPrepared' /\ pc'[t] # "commit"
<1>1. t \in Threads /\ TypeOK /\ IInv /\ StageLookup(t)
  BY StagesAreThreads DEF PInv, CInv, IInv, Lookups
<1>2. CASE refused[t] /\ UNCHANGED allvars
  <2>1. UNCHANGED <<registry, pc, key, step, goal, committer, refused>>  BY <1>2 DEF allvars
  <2>2. pc[t] # "commit"  BY <1>1, <1>2 DEF StageLookup
  <2>3. QED  BY <2>1, <2>2
             DEF OnlyThread, PInv, Lookups, StageLookup, LoadedPrepared, Registered
<1>3. CASE CommitEnd(t) /\ UNCHANGED cvars
  <2>1. UNCHANGED <<registry, step, goal, committer, refused>>  BY <1>3 DEF CommitEnd, cvars
  <2>2. Progress(t)  BY <1>3 DEF Progress
  <2>3. OnlyThread(t)
    <3>1. MovesOnly(t)  BY <1>1, <2>2, ProgressThread
    <3>2. QED  BY <2>1, <3>1 DEF MovesOnly, OnlyThread
  <2>4. pc'[t] = "idle"  BY <1>1, <1>3 DEF CommitEnd, Return, Finish, TypeOK
  <2>5. StageLookup(t)'  BY <1>1, <2>1, <2>4 DEF StageLookup
  <2>6. NothingLoaded  BY <2>1 DEF NothingLoaded, Registered
  <2>7. QED  BY <2>3, <2>4, <2>5, <2>6, StageKeeps
<1>4. QED  BY <1>2, <1>3 DEF StageReturns

\* Another part of the program sets parameters up, and only the prepared keys'.
LEMMA SetUpKeeps ==
    ASSUME PInv, NEW t \in Others, CallSetUp(t) \/ SetUp(t)
    PROVE  Lookups' /\ LoadedPrepared' /\ \A u \in Stages : pc'[u] = pc[u]
<1>1. t \in Threads /\ t \notin Stages /\ TypeOK /\ IInv /\ ThreadOK(t)
  BY StagesAreThreads DEF PInv, CInv, IInv, ThreadsOK
<1>2. UNCHANGED <<step, goal, committer, refused>>  BY DEF CallSetUp, SetUp, cvars
<1>3. CASE CallSetUp(t)
  <2>1. (CallSetGlobalPp(t) \/ CallSetGlobalPpSeeded(t)) /\ key'[t] \in Prepared
    BY <1>3 DEF CallSetUp
  <2>2. PICK k \in Keys : \E label, m : Begin(t, k, label, m)
    BY <2>1 DEF CallSetGlobalPp, CallSetGlobalPpSeeded
  <2>3. /\ UNCHANGED registry /\ \A u \in Threads \ {t} : pc'[u] = pc[u] /\ key'[u] = key[u]
    BY <1>1, <2>2, BeginsOnly
  <2>4. Lookups'  BY <1>1, <1>2, <2>3, StagesAreThreads DEF PInv, Lookups, StageLookup
  <2>5. LoadedPrepared'
    BY <1>1, <2>1, <2>3 DEF PInv, LoadedPrepared, Registered
  <2>6. QED  BY <1>1, <2>3, <2>4, <2>5, StagesAreThreads
<1>4. CASE SetUp(t)
  <2>1. Progress(t)  BY <1>4 DEF SetUp, Progress
  <2>2. MovesOnly(t)  BY <1>1, <2>1, ProgressThread
  <2>3. pc'[t] = "idle"
    BY <1>1, <1>4 DEF SetUp, SetGlobalPp, SetGlobalPpSeeded, Return, Finish, TypeOK
  <2>4. Lookups'  BY <1>1, <1>2, <2>2, StagesAreThreads DEF PInv, Lookups, StageLookup, MovesOnly
  <2>5. \A k \in Keys : Registered(k)' /\ registry'[k].pp # None => k \in Prepared
    <3>1. CASE UNCHANGED registry  BY <3>1 DEF PInv, LoadedPrepared, Registered
    <3>2. CASE SetGlobalPp(t) /\ registry' = [registry EXCEPT ![key[t]] =
                             [kappa |-> want[t].kappa, seed |-> None, pp |-> want[t]]]
      <4>1. key[t] \in Prepared  BY <1>1, <3>2 DEF SetGlobalPp, PInv, LoadedPrepared
      <4>2. \A k \in Keys : k # key[t] => registry'[k] = registry[k]  BY <1>1, <3>2 DEF TypeOK
      <4>3. QED  BY <4>1, <4>2 DEF PInv, LoadedPrepared, Registered
    <3>3. CASE registry' = [registry EXCEPT ![key[t]] =
                 [kappa |-> want[t].kappa, seed |-> want[t].origin, pp |-> None]]
      <4>1. \A k \in Keys : k # key[t] => registry'[k] = registry[k]  BY <1>1, <3>3 DEF TypeOK
      <4>2. \A k \in Keys : k = key[t] => registry'[k].pp = None  BY <1>1, <3>3 DEF TypeOK
      <4>3. QED  BY <4>1, <4>2 DEF PInv, LoadedPrepared, Registered
    <3>4. QED  BY <1>4, <3>1, <3>2, <3>3 DEF SetUp, SetGlobalPp, SetGlobalPpSeeded
  <2>6. \A u \in Threads : pc'[u] = "set" => key'[u] \in Prepared
    BY <2>2, <2>3 DEF MovesOnly, PInv, LoadedPrepared
  <2>7. LoadedPrepared'  BY <2>5, <2>6 DEF LoadedPrepared
  <2>8. QED  BY <1>1, <2>2, <2>4, <2>7, StagesAreThreads DEF MovesOnly
<1>5. QED  BY <1>3, <1>4

-----------------------------------------------------------------------------
(* Sequences without repetition.                                           *)

\* What it is to hold the jobs of a set, each once.
Holds(s, S) == IsSeq(s) /\ IsInjective(s) /\ Range(s) = S

\* Nothing holds nothing.
LEMMA EmptyHolds == Holds(<<>>, {})
BY EmptyIsSeq DEF Holds, IsInjective, Range

\* One after the other.
LEMMA ConcatHolds ==
    ASSUME NEW s, NEW S, NEW u, NEW U, Holds(s, S), Holds(u, U), S \cap U = {}
    PROVE  Holds(s \o u, S \cup U)
<1> DEFINE r == s \o u
           n == Len(s)
           m == Len(u)
<1>1. IsSeq(s) /\ IsSeq(u) /\ IsInjective(s) /\ IsInjective(u) /\ Range(s) = S /\ Range(u) = U
  BY DEF Holds
<1>2. /\ IsSeq(r) /\ Len(r) = n + m /\ \A i \in 1..n : r[i] = s[i]
      /\ \A i \in 1..m : r[n + i] = u[i]
  BY <1>1, ConcatSeq
<1>3. n \in Nat /\ m \in Nat /\ DOMAIN s = 1..n /\ DOMAIN u = 1..m /\ DOMAIN r = 1..(n + m)
  BY <1>1, <1>2, IsSeqLen
<1> HIDE DEF r, n, m
<1>4. ASSUME NEW i \in 1..(n + m)
      PROVE  \/ i \in 1..n /\ r[i] = s[i] /\ r[i] \in S
             \/ i > n /\ i - n \in 1..m /\ r[i] = u[i - n] /\ r[i] \in U
  <2>1. CASE i <= n
    <3>1. i \in 1..n  BY <1>3, <2>1
    <3>2. QED  BY <1>1, <1>2, <1>3, <3>1 DEF Range
  <2>2. CASE i > n
    <3>1. i - n \in 1..m /\ n + (i - n) = i  BY <1>3, <2>2
    <3>2. r[n + (i - n)] = u[i - n]  BY <1>2, <3>1
    <3>3. r[i] = u[i - n]  BY <3>1, <3>2
    <3>4. QED  BY <1>1, <1>3, <2>2, <3>1, <3>3 DEF Range
  <2>3. QED  BY <1>3, <2>1, <2>2
<1>5. ASSUME NEW i \in 1..(n + m), NEW j \in 1..(n + m), r[i] = r[j] PROVE i = j
  <2>1. CASE i \in 1..n /\ r[i] = s[i] /\ r[i] \in S
    <3>1. j \in 1..n /\ r[j] = s[j]  BY <1>4, <1>5, <2>1
    <3>2. QED  BY <1>1, <1>3, <1>5, <2>1, <3>1 DEF IsInjective
  <2>2. CASE i > n /\ i - n \in 1..m /\ r[i] = u[i - n] /\ r[i] \in U
    <3>1. j > n /\ j - n \in 1..m /\ r[j] = u[j - n]  BY <1>4, <1>5, <2>2
    <3>2. i - n = j - n  BY <1>1, <1>3, <1>5, <2>2, <3>1 DEF IsInjective
    <3>3. QED  BY <1>3, <3>2
  <2>3. QED  BY <1>4, <2>1, <2>2
<1>6. IsInjective(r)  BY <1>3, <1>5 DEF IsInjective
<1>7. ASSUME NEW x \in S \cup U PROVE \E i \in 1..(n + m) : r[i] = x
  <2>1. CASE x \in S
    <3>1. PICK i \in 1..n : s[i] = x  BY <1>1, <1>3, <2>1 DEF Range
    <3>2. i \in 1..(n + m)  BY <1>3
    <3>3. QED  BY <1>2, <3>1, <3>2
  <2>2. CASE x \in U
    <3>1. PICK i \in 1..m : u[i] = x  BY <1>1, <1>3, <2>2 DEF Range
    <3>2. n + i \in 1..(n + m)  BY <1>3
    <3>3. QED  BY <1>2, <3>1, <3>2
  <2>3. QED  BY <2>1, <2>2
<1>8. Range(r) = S \cup U
  <2>1. Range(r) \subseteq S \cup U  BY <1>3, <1>4 DEF Range
  <2>2. S \cup U \subseteq Range(r)  BY <1>3, <1>7 DEF Range
  <2>3. QED  BY <2>1, <2>2
<1>9. QED  BY <1>2, <1>6, <1>8 DEF Holds, r

\* One more at the end.
LEMMA AppendHolds ==
    ASSUME NEW s, NEW S, NEW x, Holds(s, S), x \notin S
    PROVE  Holds(Append(s, x), S \cup {x})
<1>1. Holds(<<x>>, {x})
  <2>1. <<x>> = [i \in 1..1 |-> <<x>>[i]]  OBVIOUS
  <2>2. IsSeq(<<x>>)  BY <2>1, FunctionIsSeq
  <2>3. QED  BY <2>2 DEF Holds, IsInjective, Range
<1>2. Holds(s \o <<x>>, S \cup {x})  BY <1>1, ConcatHolds
<1>3. Append(s, x) = s \o <<x>>
  <2>1. IsSeq(s)  BY DEF Holds
  <2>2. QED  BY <2>1, AppendIsConcat DEF IsSeq
<1>4. QED  BY <1>2, <1>3

\* The first entries, without the last; and the last ones, without the first.
LEMMA FrontHolds ==
    ASSUME NEW s, NEW S, Holds(s, S), s # <<>>
    PROVE  /\ Last(s) \in S /\ Holds(Front(s), S \ {Last(s)})
           /\ Len(s) \in Nat \ {0} /\ DOMAIN s = 1..Len(s) /\ DOMAIN Front(s) = 1..(Len(s) - 1)
           /\ \A i \in 1..(Len(s) - 1) : Front(s)[i] = s[i]
<1> DEFINE n == Len(s)
           f == Front(s)
<1>1. IsSeq(s) /\ IsInjective(s) /\ Range(s) = S  BY DEF Holds
<1>2. n \in Nat \ {0} /\ DOMAIN s = 1..n  BY <1>1, IsSeqLen, LenZero
<1>3. IsSeq(f) /\ Len(f) = n - 1 /\ \A i \in 1..(n - 1) : f[i] = s[i]
  <2>1. 1 \in Nat \ {0} /\ n - 1 \in Nat /\ n - 1 <= n  BY <1>2
  <2>2. /\ IsSeq(SubSeq(s, 1, n - 1))
        /\ Len(SubSeq(s, 1, n - 1)) = IF 1 <= n - 1 THEN n - 1 - 1 + 1 ELSE 0
        /\ \A i \in 1..(n - 1 - 1 + 1) : SubSeq(s, 1, n - 1)[i] = s[1 + i - 1]
    BY <1>1, <2>1, SubSeqSeq
  <2>3. n - 1 - 1 + 1 = n - 1 /\ \A i \in 1..(n - 1) : 1 + i - 1 = i  BY <1>2
  <2>4. f = SubSeq(s, 1, n - 1)  BY DEF Front
  <2> HIDE DEF f, n
  <2>5. QED  BY <1>2, <2>1, <2>2, <2>3, <2>4
<1>4. DOMAIN f = 1..(n - 1)  BY <1>3, IsSeqLen
<1>5. Last(s) = s[n]  BY DEF Last
<1> HIDE DEF f, n
<1>6. n \in 1..n /\ \A i \in 1..(n - 1) : i \in 1..n /\ i # n  BY <1>2
<1>7. Last(s) \in S  BY <1>1, <1>2, <1>5, <1>6 DEF Range
<1>8. IsInjective(f)  BY <1>1, <1>2, <1>3, <1>4, <1>6 DEF IsInjective
<1>9. ASSUME NEW i \in 1..(n - 1) PROVE f[i] \in S \ {Last(s)}
  <2>1. f[i] = s[i] /\ i \in 1..n /\ i # n  BY <1>3, <1>6
  <2>2. s[i] # s[n]  BY <1>1, <1>2, <1>6, <2>1 DEF IsInjective
  <2>3. QED  BY <1>1, <1>2, <1>5, <2>1, <2>2 DEF Range
<1>10. ASSUME NEW x \in S \ {Last(s)} PROVE x \in Range(f)
  <2>1. PICK i \in 1..n : s[i] = x  BY <1>1, <1>2 DEF Range
  <2>2. i \in 1..(n - 1)  BY <1>2, <1>5, <2>1
  <2>3. QED  BY <1>3, <1>4, <2>1, <2>2 DEF Range
<1>11. Range(f) = S \ {Last(s)}
  <2>1. Range(f) \subseteq S \ {Last(s)}  BY <1>4, <1>9 DEF Range
  <2>2. QED  BY <1>10, <2>1
<1>12. QED  BY <1>2, <1>3, <1>4, <1>7, <1>8, <1>11 DEF Holds, f, n

\* What is left without the first entry.
LEMMA TailHolds ==
    ASSUME NEW s, NEW S, Holds(s, S), s # <<>>
    PROVE  Head(s) \in S /\ Holds(Tail(s), S \ {Head(s)})
<1> DEFINE n == Len(s)
           u == Tail(s)
<1>1. IsSeq(s) /\ IsInjective(s) /\ Range(s) = S  BY DEF Holds
<1>2. n \in Nat \ {0} /\ DOMAIN s = 1..n  BY <1>1, IsSeqLen, LenZero
<1>3. /\ IsSeq(u) /\ Len(u) = n - 1 /\ Head(s) = s[1]
      /\ \A i \in 1..(n - 1) : u[i] = s[i + 1]
  <2> DEFINE T == {s[i] : i \in DOMAIN s}
  <2>1. s \in Seq(T)  BY <1>1 DEF IsSeq
  <2> HIDE DEF T
  <2>2. Head(s) = s[1] /\ u \in Seq(T) /\ Len(u) = n - 1 /\ \A i \in 1..Len(u) : u[i] = s[i + 1]
    BY <2>1, HeadTailProperties
  <2>3. IsSeq(u)  BY <2>2, IsSeqOfSet
  <2>4. QED  BY <2>2, <2>3
<1>4. DOMAIN u = 1..(n - 1)  BY <1>3, IsSeqLen
<1> HIDE DEF u, n
<1>5. 1 \in 1..n /\ \A i \in 1..(n - 1) : i + 1 \in 1..n /\ i + 1 # 1  BY <1>2
<1>6. Head(s) \in S  BY <1>1, <1>2, <1>3, <1>5 DEF Range
<1>7. IsInjective(u)
  <2>1. ASSUME NEW i \in 1..(n - 1), NEW j \in 1..(n - 1), u[i] = u[j] PROVE i = j
    <3>1. s[i + 1] = s[j + 1] /\ i + 1 \in 1..n /\ j + 1 \in 1..n  BY <1>3, <1>5, <2>1
    <3>2. i + 1 = j + 1  BY <1>1, <1>2, <3>1 DEF IsInjective
    <3>3. QED  BY <1>2, <3>2
  <2>2. QED  BY <1>4, <2>1 DEF IsInjective
<1>8. ASSUME NEW i \in 1..(n - 1) PROVE u[i] \in S \ {Head(s)}
  <2>1. u[i] = s[i + 1] /\ i + 1 \in 1..n /\ i + 1 # 1  BY <1>3, <1>5
  <2>2. s[i + 1] # s[1]  BY <1>1, <1>2, <1>5, <2>1 DEF IsInjective
  <2>3. QED  BY <1>1, <1>2, <1>3, <2>1, <2>2 DEF Range
<1>9. ASSUME NEW x \in S \ {Head(s)} PROVE x \in Range(u)
  <2>1. PICK i \in 1..n : s[i] = x  BY <1>1, <1>2 DEF Range
  <2>2. i - 1 \in 1..(n - 1) /\ (i - 1) + 1 = i  BY <1>2, <1>3, <2>1
  <2>3. u[i - 1] = x  BY <1>3, <2>1, <2>2
  <2>4. QED  BY <1>4, <2>2, <2>3 DEF Range
<1>10. Range(u) = S \ {Head(s)}
  <2>1. Range(u) \subseteq S \ {Head(s)}  BY <1>4, <1>8 DEF Range
  <2>2. QED  BY <1>9, <2>1
<1>11. QED  BY <1>3, <1>6, <1>7, <1>10 DEF Holds, u

-----------------------------------------------------------------------------
(* Jobs on the move.                                                       *)

\* A place is a stack, a deque or the injector.
LEMMA PlacesHold ==
    /\ <<"injector">> \in Places /\ Held(<<"injector">>) = injector /\ Held(<<"injector">>)' = injector'
    /\ \A w \in Workers :
          /\ <<"stack", w>> \in Places /\ <<"deque", w>> \in Places
          /\ Held(<<"stack", w>>) = stack[w] /\ Held(<<"stack", w>>)' = stack'[w]
          /\ Held(<<"deque", w>>) = deque[w] /\ Held(<<"deque", w>>)' = deque'[w]
          /\ \A v \in Workers : <<"stack", w>> # <<"deque", v>> /\ (<<"stack", w>> = <<"stack", v>> => w = v)
                                /\ (<<"deque", w>> = <<"deque", v>> => w = v)
          /\ <<"stack", w>> # <<"injector">> /\ <<"deque", w>> # <<"injector">>
    /\ \A p \in Places : p = <<"injector">> \/ \E w \in Workers : p = <<"stack", w>> \/ p = <<"deque", w>>
<1>1. <<"injector">> \in Places /\ Held(<<"injector">>) = injector /\ Held(<<"injector">>)' = injector'
  BY DEF Places, Held
<1>2. ASSUME NEW w \in Workers
      PROVE  /\ <<"stack", w>> \in Places /\ <<"deque", w>> \in Places
             /\ Held(<<"stack", w>>) = stack[w] /\ Held(<<"stack", w>>)' = stack'[w]
             /\ Held(<<"deque", w>>) = deque[w] /\ Held(<<"deque", w>>)' = deque'[w]
             /\ \A v \in Workers : <<"stack", w>> # <<"deque", v>> /\ (<<"stack", w>> = <<"stack", v>> => w = v)
                                   /\ (<<"deque", w>> = <<"deque", v>> => w = v)
             /\ <<"stack", w>> # <<"injector">> /\ <<"deque", w>> # <<"injector">>
  BY DEF Places, Held
<1>3. ASSUME NEW p \in Places
      PROVE  p = <<"injector">> \/ \E w \in Workers : p = <<"stack", w>> \/ p = <<"deque", w>>
  BY DEF Places
<1>4. QED  BY <1>1, <1>2, <1>3

\* Jobs leave the places they are in, come to others, and end.
Shift(Gone, D, Add) ==
    /\ stack' = [w \in Workers |-> stack'[w]] /\ deque' = [w \in Workers |-> deque'[w]]
    /\ done' = done \cup D
    /\ \A p \in Places : Holds(Held(p)', (Stay(p) \ Gone) \cup Add[p])

\* They come to one place each, and those that end are nowhere.
Fits(Gone, D, Add) ==
    /\ D \subseteq Jobs
    /\ \A p \in Places : \A x \in Add[p] : x \in Jobs /\ x \notin done \cup D /\ (x \in Placed => x \in Gone)
    /\ \A p, q \in Places : p # q => Add[p] \cap Add[q] = {}
    /\ \A x \in D : x \in Placed => x \in Gone

\* When jobs leave places, end or are added at places, and the places then hold
\* what that makes of them, the jobs stay apart.
LEMMA ShiftApart ==
    ASSUME Apart, NEW Gone, NEW D, NEW Add, Shift(Gone, D, Add), Fits(Gone, D, Add)
    PROVE  /\ Apart' /\ done' = done \cup D
           /\ \A p \in Places : Stay(p)' = (Stay(p) \ Gone) \cup Add[p]
<1>1. \A p \in Places : /\ IsSeq(Held(p)') /\ IsInjective(Held(p)')
                        /\ Range(Held(p)') = (Stay(p) \ Gone) \cup Add[p]
  BY DEF Shift, Holds
<1>2. \A p \in Places : Stay(p)' = (Stay(p) \ Gone) \cup Add[p]  BY <1>1 DEF Stay
<1>3. done' = done \cup D  BY DEF Shift
<1>4. \A p \in Places : Stay(p) \subseteq Placed  BY DEF Placed
<1>5. ASSUME NEW p \in Places PROVE Stay(p)' \subseteq Jobs /\ Stay(p)' \cap done' = {}
  BY <1>2, <1>3, <1>4 DEF Apart, Fits
<1>6. ASSUME NEW p \in Places, NEW q \in Places, p # q PROVE Stay(p)' \cap Stay(q)' = {}
  <2>1. Add[p] \cap Add[q] = {} /\ Stay(p) \cap Stay(q) = {}  BY <1>6 DEF Fits, Apart
  <2>2. (Stay(p) \ Gone) \cap Add[q] = {} /\ Add[p] \cap (Stay(q) \ Gone) = {}  BY <1>4 DEF Fits
  <2>3. QED  BY <1>2, <2>1, <2>2
<1>7. Apart'  BY <1>1, <1>5, <1>6 DEF Apart, Shift
<1>8. QED  BY <1>2, <1>3, <1>7

\* What a place holds.
LEMMA StayHolds ==
    ASSUME Apart, NEW p \in Places
    PROVE  Holds(Held(p), Stay(p)) /\ Stay(p) \subseteq Placed
BY DEF Apart, Holds, Stay, Placed

\* The running job of a worker is on its stack, and on no other.
LEMMA RunningStacked ==
    ASSUME Apart, NEW w \in Workers, NEW job \in Jobs, Running(w) = job
    PROVE  /\ job \in Stacked /\ job \in Placed /\ job \notin done
           /\ \A v \in Workers : Running(v) = job => v = w
           /\ stack[w] # <<>> /\ Last(stack[w]) = job
<1>1. /\ <<"stack", w>> \in Places /\ Held(<<"stack", w>>) = stack[w]  BY PlacesHold
<1>2. ASSUME NEW v \in Workers, Running(v) = job
      PROVE  stack[v] # <<>> /\ Last(stack[v]) = job /\ job \in Stay(<<"stack", v>>) /\ <<"stack", v>> \in Places
  <2>1. <<"stack", v>> \in Places /\ Held(<<"stack", v>>) = stack[v]  BY PlacesHold
  <2>2. stack[v] # <<>> /\ Last(stack[v]) = job  BY <1>2, PoolAssumption DEF Running
  <2>3. Holds(stack[v], Stay(<<"stack", v>>))  BY <2>1, StayHolds
  <2> DEFINE s == stack[v]
             S == Stay(<<"stack", v>>)
  <2>4. Holds(s, S) /\ s # <<>>  BY <2>2, <2>3
  <2>5. Last(s) \in S
    <3> HIDE DEF s, S
    <3>1. QED  BY <2>4, FrontHolds
  <2>6. QED  BY <2>1, <2>2, <2>5
<1>3. ASSUME NEW v \in Workers, Running(v) = job PROVE v = w
  <2>1. job \in Stay(<<"stack", v>>) /\ job \in Stay(<<"stack", w>>)  BY <1>2, <1>3
  <2>2. <<"stack", v>> = <<"stack", w>>  BY <1>1, <1>2, <1>3, <2>1 DEF Apart
  <2>3. QED  BY <2>2, PlacesHold
<1>4. job \in Stay(<<"stack", w>>)  BY <1>2
<1>5. job \notin done  BY <1>1, <1>4 DEF Apart
<1>6. QED  BY <1>1, <1>2, <1>3, <1>4, <1>5 DEF Stacked, StackOf, Placed

\* What changes when a job that runs on w ends.
Ends(w, job) ==
    /\ Apart' /\ done' = done \cup {job} /\ job \in Stacked
    /\ \A p \in Places : Stay(p)' = Stay(p) \ {job}
    /\ Used' = Used \cup {job} /\ Begun \subseteq Begun' /\ Stacked' = Stacked \ {job}
    /\ \A v \in Workers : DOMAIN stack'[v] \subseteq DOMAIN stack[v]
                          /\ \A i \in DOMAIN stack'[v] : stack'[v][i] = stack[v][i]

\* A worker drops the job on top of its stack, which ends: it is at no place
\* any more, and nothing else moves.
LEMMA PopEnds ==
    ASSUME Apart, NEW w \in Workers, NEW job \in Jobs, Running(w) = job, Pop(w),
           done' = done \cup {job}, UNCHANGED <<deque, injector>>
    PROVE  Ends(w, job)
<1> DEFINE None0 == [p \in Places |-> {}]
           q == <<"stack", w>>
<1>1. q \in Places /\ Held(q) = stack[w] /\ Held(q)' = stack'[w]  BY PlacesHold
<1>2. /\ job \in Stacked /\ job \in Placed /\ job \notin done
      /\ stack[w] # <<>> /\ Last(stack[w]) = job
  BY RunningStacked
<1>3. Holds(stack[w], Stay(q))  BY <1>1, StayHolds
<1>4. /\ job \in Stay(q) /\ Holds(Front(stack[w]), Stay(q) \ {job})
      /\ Len(stack[w]) \in Nat \ {0} /\ DOMAIN stack[w] = 1..Len(stack[w])
      /\ DOMAIN Front(stack[w]) = 1..(Len(stack[w]) - 1)
      /\ \A i \in 1..(Len(stack[w]) - 1) : Front(stack[w])[i] = stack[w][i]
  <2> DEFINE s == stack[w]
             S == Stay(q)
  <2>1. Holds(s, S) /\ s # <<>> /\ Last(s) = job  BY <1>2, <1>3
  <2>2. /\ Last(s) \in S /\ Holds(Front(s), S \ {Last(s)})
        /\ Len(s) \in Nat \ {0} /\ DOMAIN s = 1..Len(s) /\ DOMAIN Front(s) = 1..(Len(s) - 1)
        /\ \A i \in 1..(Len(s) - 1) : Front(s)[i] = s[i]
    <3> HIDE DEF s, S
    <3>1. QED  BY <2>1, FrontHolds
  <2>3. QED  BY <2>1, <2>2
<1>5. /\ stack = [v \in Workers |-> stack[v]] /\ stack' = [v \in Workers |-> stack'[v]]
      /\ stack'[w] = Front(stack[w]) /\ \A v \in Workers \ {w} : stack'[v] = stack[v]
      /\ deque' = [v \in Workers |-> deque'[v]]
  BY DEF Apart, Pop
<1>6. ASSUME NEW p \in Places PROVE Holds(Held(p)', (Stay(p) \ {job}) \cup None0[p])
  <2>1. CASE p = q
    <3>1. Holds(Held(q)', Stay(q) \ {job})  BY <1>1, <1>4, <1>5
    <3>2. (Stay(q) \ {job}) \cup None0[q] = Stay(q) \ {job}  BY <1>1
    <3>3. QED  BY <2>1, <3>1, <3>2
  <2>2. CASE p # q
    <3>1. Held(p)' = Held(p)
      <4>1. CASE p = <<"injector">>  BY <4>1, PlacesHold
      <4>2. ASSUME NEW v \in Workers, p = <<"stack", v>> PROVE Held(p)' = Held(p)
        <5>1. v # w  BY <2>2, <4>2
        <5>2. stack'[v] = stack[v]  BY <1>5, <5>1
        <5>3. QED  BY <4>2, <5>2, PlacesHold
      <4>3. ASSUME NEW v \in Workers, p = <<"deque", v>> PROVE Held(p)' = Held(p)
        BY <4>3, PlacesHold
      <4>4. QED  BY <4>1, <4>2, <4>3, PlacesHold
    <3>2. job \notin Stay(p)  BY <1>1, <1>4, <2>2 DEF Apart
    <3>3. (Stay(p) \ {job}) \cup None0[p] = Stay(p)  BY <3>2
    <3>4. QED  BY <3>1, <3>3, StayHolds
  <2>3. QED  BY <2>1, <2>2
<1>7. Shift({job}, {job}, None0)  BY <1>5, <1>6 DEF Shift
<1>8. Fits({job}, {job}, None0)  BY DEF Fits
<1>9. /\ Apart' /\ \A p \in Places : Stay(p)' = (Stay(p) \ {job}) \cup None0[p]
  BY <1>7, <1>8, ShiftApart
<1>10. \A p \in Places : Stay(p)' = Stay(p) \ {job}  BY <1>9
<1>11. Placed' = Placed \ {job}  BY <1>10 DEF Placed
<1>12. Stacked' = Stacked \ {job}
  <2>1. \A v \in Workers : StackOf(v)' = StackOf(v) \ {job}
    BY <1>10, PlacesHold DEF StackOf
  <2>2. QED  BY <2>1 DEF Stacked
<1>13. \A v \in Workers : DOMAIN stack'[v] \subseteq DOMAIN stack[v]
                          /\ \A i \in DOMAIN stack'[v] : stack'[v][i] = stack[v][i]
  <2>1. 1..(Len(stack[w]) - 1) \subseteq 1..Len(stack[w])  BY <1>4
  <2>2. QED  BY <1>4, <1>5, <2>1
<1>14. QED  BY <1>2, <1>9, <1>10, <1>11, <1>12, <1>13 DEF Ends, Used, Begun

\* What changes when new jobs are pushed, or end where they come from.
Spreads(N) ==
    /\ Apart' /\ done \subseteq done' /\ done' \subseteq done \cup N
    /\ Used' = Used \cup N /\ Stacked' = Stacked
    /\ \A p \in Places : Stay(p)' \subseteq Stay(p) \cup N

\* New jobs go to the end of one place, which is not a stack, and nothing else
\* moves.
LEMMA PushSpreads ==
    ASSUME Apart, NEW N, N \subseteq Jobs, N \cap Used = {}, NEW q \in Places,
           \A w \in Workers : q # <<"stack", w>>,
           Holds(Held(q)', Stay(q) \cup N), \A p \in Places : p # q => Held(p)' = Held(p),
           deque' = [w \in Workers |-> deque'[w]], UNCHANGED <<stack, done>>
    PROVE  Spreads(N)
<1> DEFINE Add == [p \in Places |-> IF p = q THEN N ELSE {}]
<1>1. ASSUME NEW p \in Places PROVE Holds(Held(p)', (Stay(p) \ {}) \cup Add[p])
  <2>1. CASE p = q
    <3>1. (Stay(q) \ {}) \cup Add[q] = Stay(q) \cup N  OBVIOUS
    <3>2. QED  BY <2>1, <3>1
  <2>2. CASE p # q
    <3>1. (Stay(p) \ {}) \cup Add[p] = Stay(p)  BY <2>2
    <3>2. Holds(Held(p), Stay(p)) /\ Held(p)' = Held(p)  BY <2>2, StayHolds
    <3>3. QED  BY <3>1, <3>2
  <2>3. QED  BY <2>1, <2>2
<1>2. stack' = [w \in Workers |-> stack'[w]]  BY DEF Apart
<1>3. Shift({}, {}, Add)  BY <1>1, <1>2 DEF Shift
<1>4. Fits({}, {}, Add)  BY DEF Fits, Used
<1>5. Apart' /\ \A p \in Places : Stay(p)' = (Stay(p) \ {}) \cup Add[p]  BY <1>3, <1>4, ShiftApart
<1>6. Stay(q)' = Stay(q) \cup N /\ \A p \in Places : p # q => Stay(p)' = Stay(p)  BY <1>5
<1>7. Stacked' = Stacked
  <2>1. \A v \in Workers : StackOf(v)' = StackOf(v)  BY <1>6, PlacesHold DEF StackOf
  <2>2. QED  BY <2>1 DEF Stacked
<1>8. Used' = Used \cup N
  <2>1. Placed' = Placed \cup N  BY <1>6 DEF Placed
  <2>2. QED  BY <2>1 DEF Used
<1>9. \A p \in Places : Stay(p)' \subseteq Stay(p) \cup N  BY <1>6
<1>10. QED  BY <1>5, <1>7, <1>8, <1>9 DEF Spreads

\* Nothing moves, and new jobs end at once.
LEMMA EndSpreads ==
    ASSUME Apart, NEW N, N \cap Used = {}, UNCHANGED <<stack, deque, injector>>, done' = done \cup N
    PROVE  Spreads(N)
<1>1. \A p \in Places : Held(p)' = Held(p)
  <2>1. ASSUME NEW p \in Places PROVE Held(p)' = Held(p)
    <3>1. CASE p = <<"injector">>  BY <3>1, PlacesHold
    <3>2. ASSUME NEW v \in Workers, p = <<"stack", v>> PROVE Held(p)' = Held(p)
      BY <3>2, PlacesHold
    <3>3. ASSUME NEW v \in Workers, p = <<"deque", v>> PROVE Held(p)' = Held(p)
      BY <3>3, PlacesHold
    <3>4. QED  BY <3>1, <3>2, <3>3, PlacesHold
  <2>2. QED  BY <2>1
<1>2. \A p \in Places : Stay(p)' = Stay(p)  BY <1>1 DEF Stay
<1>3. Placed' = Placed  BY <1>2 DEF Placed
<1>4. Stacked' = Stacked
  <2>1. \A v \in Workers : StackOf(v)' = StackOf(v)  BY <1>2, PlacesHold DEF StackOf
  <2>2. QED  BY <2>1 DEF Stacked
<1>5. \A p \in Places : Stay(p)' \cap done' = {}
  <2>1. \A p \in Places : Stay(p) \subseteq Used  BY DEF Used, Placed
  <2>2. QED  BY <1>2, <2>1 DEF Apart
<1>6. Apart'  BY <1>1, <1>2, <1>5 DEF Apart
<1>7. QED  BY <1>2, <1>3, <1>4, <1>6 DEF Spreads, Used

\* The columns of a commitment, in a sequence.
LEMMA ColumnsHold ==
    ASSUME NEW t \in Stages
    PROVE  /\ Holds([i \in 1..Columns |-> Column(t, i)], ColumnsOf(t))
           /\ ColumnsOf(t) \subseteq Jobs /\ ColumnsOf(t) \subseteq Pieces
           /\ ColumnsOf(t) \cap (Stages \cup Joins) = {}
<1> DEFINE s == [i \in 1..Columns |-> Column(t, i)]
<1>1. IsSeq(s) /\ DOMAIN s = 1..Columns
  <2>1. s = [i \in 1..Columns |-> s[i]] /\ Columns \in Nat  BY PoolAssumption
  <2> HIDE DEF s
  <2>2. QED  BY <2>1, FunctionIsSeq
<1>2. IsInjective(s)
  <2>1. PICK c \in Callers, n \in StageNo : t = Stage(c, n)  BY DEF Stages
  <2>2. \A i, j \in 1..Columns : Column(t, i) = Column(t, j) => i = j
    BY <2>1, JobsAreApart DEF JobsDiffer
  <2>3. QED  BY <2>2 DEF IsInjective
<1>3. Range(s) = ColumnsOf(t)  BY DEF Range, ColumnsOf
<1>4. ColumnsOf(t) \subseteq Jobs /\ ColumnsOf(t) \subseteq Pieces  BY DEF Jobs, Pieces
<1>5. \A x \in ColumnsOf(t) : x \notin Stages \cup Joins  BY <1>4, KindsOfJob
<1>6. QED  BY <1>1, <1>2, <1>3, <1>4, <1>5 DEF Holds

\* Splitting a commitment pushes its columns, and so does ending them at once.
LEMMA SplitSpreads ==
    ASSUME Apart, NEW t \in Stages, ColumnsOf(t) \cap Used = {}, UNCHANGED stack,
           \/ Split(t) /\ UNCHANGED done
           \/ done' = done \cup ColumnsOf(t) /\ UNCHANGED <<injector, deque>>
    PROVE  Spreads(ColumnsOf(t))
<1> DEFINE N == ColumnsOf(t)
           columns == [i \in 1..Columns |-> Column(t, i)]
<1>1. Holds(columns, N) /\ N \subseteq Jobs  BY ColumnsHold
<1> HIDE DEF N, columns
<1>2. N \cap Used = {}  BY DEF N
<1>3. \A p \in Places : Holds(Held(p), Stay(p)) /\ Stay(p) \cap N = {}
  BY <1>2, StayHolds DEF Used
<1>4. CASE injector' = injector \o columns /\ UNCHANGED <<deque, done>>
  <2> DEFINE q == <<"injector">>
  <2>1. q \in Places /\ \A w \in Workers : q # <<"stack", w>>  BY PlacesHold
  <2>2. Held(q) = injector /\ Held(q)' = injector'  BY PlacesHold
  <2>3. Holds(injector \o columns, Stay(q) \cup N)
    <3>1. Holds(injector, Stay(q)) /\ Stay(q) \cap N = {}  BY <1>3, <2>1, <2>2
    <3> DEFINE S == Stay(q)
    <3> HIDE DEF S
    <3>2. Holds(injector, S) /\ S \cap N = {}  BY <3>1 DEF S
    <3>3. Holds(injector \o columns, S \cup N)  BY <1>1, <3>2, ConcatHolds
    <3>4. QED  BY <3>3 DEF S
  <2>4. Holds(Held(q)', Stay(q) \cup N)  BY <1>4, <2>2, <2>3
  <2>5. ASSUME NEW p \in Places, p # q PROVE Held(p)' = Held(p)
    <3>1. PICK v \in Workers : p = <<"stack", v>> \/ p = <<"deque", v>>  BY <2>5, PlacesHold
    <3>2. CASE p = <<"stack", v>>  BY <3>2, PlacesHold
    <3>3. CASE p = <<"deque", v>>  BY <1>4, <3>3, PlacesHold
    <3>4. QED  BY <3>1, <3>2, <3>3
  <2>6. deque' = [w \in Workers |-> deque'[w]]  BY <1>4 DEF Apart
  <2> HIDE DEF q
  <2>7. QED  BY <1>1, <1>2, <1>4, <2>1, <2>4, <2>5, <2>6, PushSpreads DEF N
<1>5. ASSUME NEW w \in Workers, deque' = [deque EXCEPT ![w] = @ \o columns], UNCHANGED <<injector, done>>
      PROVE  Spreads(N)
  <2> DEFINE q == <<"deque", w>>
  <2>1. q \in Places /\ \A v \in Workers : q # <<"stack", v>>  BY PlacesHold
  <2>2. Held(q) = deque[w] /\ Held(q)' = deque'[w]  BY PlacesHold
  <2>3. /\ deque' = [v \in Workers |-> deque'[v]] /\ deque'[w] = deque[w] \o columns
        /\ \A v \in Workers : v # w => deque'[v] = deque[v]
    <3>1. deque = [v \in Workers |-> deque[v]]  BY DEF Apart
    <3>2. QED  BY <1>5, <3>1
  <2>4. Holds(deque[w] \o columns, Stay(q) \cup N)
    <3>1. Holds(deque[w], Stay(q)) /\ Stay(q) \cap N = {}  BY <1>3, <2>1, <2>2
    <3> DEFINE S == Stay(q)
               s == deque[w]
    <3> HIDE DEF S, s
    <3>2. Holds(s, S) /\ S \cap N = {}  BY <3>1 DEF S, s
    <3>3. Holds(s \o columns, S \cup N)  BY <1>1, <3>2, ConcatHolds
    <3>4. QED  BY <3>3 DEF S, s
  <2>5. Holds(Held(q)', Stay(q) \cup N)  BY <2>2, <2>3, <2>4
  <2>6. ASSUME NEW p \in Places, p # q PROVE Held(p)' = Held(p)
    <3>1. CASE p = <<"injector">>  BY <1>5, <3>1, PlacesHold
    <3>2. ASSUME NEW v \in Workers, p = <<"stack", v>> PROVE Held(p)' = Held(p)
      BY <3>2, PlacesHold
    <3>3. ASSUME NEW v \in Workers, p = <<"deque", v>> PROVE Held(p)' = Held(p)
      <4>1. v # w  BY <2>6, <3>3
      <4>2. deque'[v] = deque[v]  BY <2>3, <4>1
      <4>3. QED  BY <3>3, <4>2, PlacesHold
    <3>4. QED  BY <3>1, <3>2, <3>3, PlacesHold
  <2> HIDE DEF q
  <2>7. QED  BY <1>1, <1>2, <1>5, <2>1, <2>3, <2>5, <2>6, PushSpreads
<1>6. CASE done' = done \cup N /\ UNCHANGED <<injector, deque>>
  <2>1. UNCHANGED <<stack, deque, injector>>  BY <1>6
  <2>2. Spreads(N)  BY <1>2, <1>6, <2>1, EndSpreads
  <2>3. QED  BY <2>2 DEF N
<1>7. Split(t) /\ UNCHANGED done =>
         \/ injector' = injector \o columns /\ UNCHANGED <<deque, done>>
         \/ \E w \in Workers : deque' = [deque EXCEPT ![w] = @ \o columns] /\ UNCHANGED <<injector, done>>
  BY DEF Split, columns
<1>8. QED  BY <1>4, <1>5, <1>6, <1>7 DEF N

\* The halves of a join are jobs, and are two.
LEMMA HalvesOfJoin ==
    ASSUME NEW job \in Joins
    PROVE  /\ FirstHalf(job) \in Stages /\ FirstHalf(job) \in Jobs
           /\ SecondHalf(job) \in Jobs /\ SecondHalf(job) \in CanWait
           /\ FirstHalf(job) # SecondHalf(job) /\ FirstHalf(job) # job /\ SecondHalf(job) # job
           /\ job \in Jobs
<1>1. job \in Jobs  BY DEF Jobs
<1>2. PICK c \in Callers : job = All(c) \/ job = Rest(c)  BY DEF Joins
<1>3. /\ 1 \in StageNo /\ 2 \in StageNo /\ 3 \in StageNo /\ 1 \in 1..Columns
  BY PoolAssumption DEF StageNo
<1>4. /\ Stage(c, 1) # Rest(c) /\ Stage(c, 2) # Stage(c, 3) /\ Stage(c, 1) # All(c)
      /\ Rest(c) # All(c) /\ Stage(c, 2) # Rest(c) /\ Stage(c, 3) # Rest(c)
  BY <1>3, JobsAreApart DEF JobsDiffer
<1>5. /\ Stage(c, 1) \in Stages /\ Stage(c, 2) \in Stages /\ Stage(c, 3) \in Stages
      /\ Rest(c) \in Joins /\ Stage(c, 3) \in CanWait /\ Rest(c) \in CanWait
  BY <1>3 DEF Stages, Joins, CanWait
<1>6. Stages \subseteq Jobs /\ Joins \subseteq Jobs  BY DEF Jobs
<1>7. CASE job = All(c)  BY <1>1, <1>4, <1>5, <1>6, <1>7, Halves
<1>8. CASE job = Rest(c)  BY <1>1, <1>4, <1>5, <1>6, <1>8, Halves
<1>9. QED  BY <1>2, <1>7, <1>8

\* What a job brings: the halves of a join; and what of it is then on the stack.
NewJobs(job)   == IF job \in Joins THEN {FirstHalf(job), SecondHalf(job)} ELSE {}
OnEntry(job)   == IF job \in Joins THEN {job, FirstHalf(job)} ELSE {job}
Pushed(job)    == IF job \in Joins THEN {SecondHalf(job)} ELSE {}

\* What changes when w enters a job.
Enters(w, job) ==
    /\ Apart' /\ done' = done /\ Used' = Used \cup NewJobs(job)
    /\ Stacked' = Stacked \cup OnEntry(job)
    /\ \A v \in Workers : Stay(<<"deque", v>>)' \subseteq Stay(<<"deque", v>>) \cup Pushed(job)
    /\ Stay(<<"injector">>)' \subseteq Stay(<<"injector">>)
    /\ stack'[w] = stack[w] \o Entered(job)
    /\ \A v \in Workers : v # w => stack'[v] = stack[v]

\* What a worker stacks when it enters a job: the job, and on top of a join its
\* first half.
LEMMA EnteredHolds ==
    ASSUME NEW job
    PROVE  Holds(Entered(job), OnEntry(job))
<1>1. CASE job \notin Joins
  <2>1. <<job>> = [i \in 1..1 |-> <<job>>[i]]  OBVIOUS
  <2>2. IsSeq(<<job>>)  BY <2>1, FunctionIsSeq
  <2>3. Holds(<<job>>, {job})  BY <2>2 DEF Holds, IsInjective, Range
  <2>4. QED  BY <1>1, <2>3 DEF Entered, OnEntry
<1>2. CASE job \in Joins
  <2> DEFINE half == FirstHalf(job)
  <2>1. half # job  BY <1>2, HalvesOfJoin
  <2> HIDE DEF half
  <2>2. <<job, half>> = [i \in 1..2 |-> <<job, half>>[i]]  OBVIOUS
  <2>3. IsSeq(<<job, half>>)  BY <2>2, FunctionIsSeq
  <2>4. Holds(<<job, half>>, {job, half})  BY <2>1, <2>3 DEF Holds, IsInjective, Range
  <2>5. QED  BY <1>2, <2>4 DEF Entered, OnEntry, half
<1>3. QED  BY <1>1, <1>2

\* Entering a job takes it from where it waited: nothing else leaves a place,
\* and only the halves of a join are new.
LEMMA EnterMoves ==
    ASSUME Apart, NEW w \in Workers, NEW q \in Places, \A v \in Workers : q # <<"stack", v>>,
           NEW job \in Jobs, job \in Stay(q), NewJobs(job) \cap Used = {},
           NEW d, d = [v \in Workers |-> d[v]],
           \A v \in Workers : Holds(d[v], Stay(<<"deque", v>>) \ {job}),
           Holds(injector', Stay(<<"injector">>) \ {job}),
           Enter(w, job, d)
    PROVE  Enters(w, job)
<1> DEFINE sw == <<"stack", w>>
           dw == <<"deque", w>>
           Add == [p \in Places |-> IF p = sw THEN OnEntry(job) ELSE IF p = dw THEN Pushed(job) ELSE {}]
<1>1. /\ sw \in Places /\ dw \in Places /\ sw # dw /\ <<"injector">> \in Places
      /\ sw # <<"injector">> /\ dw # <<"injector">> /\ q # sw
      /\ Held(sw) = stack[w] /\ Held(sw)' = stack'[w] /\ Held(dw)' = deque'[w]
  BY PlacesHold
<1>2. /\ stack' = [v \in Workers |-> stack'[v]] /\ stack'[w] = stack[w] \o Entered(job)
      /\ \A v \in Workers : v # w => stack'[v] = stack[v]
  BY DEF Apart, Enter
<1>3. /\ deque' = [v \in Workers |-> deque'[v]]
      /\ \A v \in Workers : v # w => deque'[v] = d[v]
      /\ deque'[w] = IF job \in Joins THEN Append(d[w], SecondHalf(job)) ELSE d[w]
      /\ done' = done
  BY DEF Enter
<1>4. \A p \in Places : p # q => job \notin Stay(p)  BY DEF Apart
<1>5. job \in Used /\ job \in Placed /\ job \notin done  BY DEF Used, Placed, Apart
<1>6. /\ OnEntry(job) \subseteq Jobs /\ Pushed(job) \subseteq Jobs
      /\ \A x \in OnEntry(job) \cup Pushed(job) : x # job => x \notin Used
      /\ OnEntry(job) \cap Pushed(job) = {} /\ job \notin Pushed(job)
      /\ OnEntry(job) \cup Pushed(job) = {job} \cup NewJobs(job)
  BY HalvesOfJoin DEF OnEntry, Pushed, NewJobs
<1>7. \A p \in Places : Stay(p) \subseteq Used  BY DEF Used, Placed
<1>8. Holds(stack'[w], Stay(sw) \cup OnEntry(job))
  <2> DEFINE s == stack[w]
             S == Stay(sw)
  <2>1. Holds(s, S)  BY <1>1, StayHolds
  <2>2. S \cap OnEntry(job) = {}  BY <1>1, <1>4, <1>6, <1>7
  <2> HIDE DEF s, S
  <2>3. Holds(s \o Entered(job), S \cup OnEntry(job))  BY <2>1, <2>2, EnteredHolds, ConcatHolds
  <2>4. QED  BY <1>2, <2>3 DEF s, S
<1>9. Holds(deque'[w], (Stay(dw) \ {job}) \cup Pushed(job))
  <2>1. CASE job \in Joins
    <3> DEFINE s == d[w]
               S == Stay(dw) \ {job}
    <3>1. Holds(s, S)  OBVIOUS
    <3>2. SecondHalf(job) \notin S  BY <1>1, <1>6, <1>7, <2>1 DEF Pushed
    <3>3. deque'[w] = Append(s, SecondHalf(job))  BY <1>3, <2>1
    <3>4. S \cup {SecondHalf(job)} = S \cup Pushed(job)  BY <2>1 DEF Pushed
    <3> HIDE DEF s, S
    <3>5. Holds(Append(s, SecondHalf(job)), S \cup {SecondHalf(job)})  BY <3>1, <3>2, AppendHolds
    <3>6. QED  BY <3>3, <3>4, <3>5 DEF S
  <2>2. CASE job \notin Joins
    <3>1. (Stay(dw) \ {job}) \cup Pushed(job) = Stay(dw) \ {job}  BY <2>2 DEF Pushed
    <3>2. QED  BY <1>3, <2>2, <3>1
  <2>3. QED  BY <2>1, <2>2
<1>10. ASSUME NEW p \in Places PROVE Holds(Held(p)', (Stay(p) \ {job}) \cup Add[p])
  <2>1. CASE p = sw
    <3>1. (Stay(sw) \ {job}) \cup Add[sw] = Stay(sw) \cup OnEntry(job)  BY <1>1, <1>4
    <3>2. Held(sw)' = stack'[w]  BY <1>1
    <3>3. QED  BY <1>8, <2>1, <3>1, <3>2
  <2>2. CASE p = dw
    <3>1. (Stay(dw) \ {job}) \cup Add[dw] = (Stay(dw) \ {job}) \cup Pushed(job)  BY <1>1
    <3>2. Held(dw)' = deque'[w]  BY <1>1
    <3>3. QED  BY <1>9, <2>2, <3>1, <3>2
  <2>3. CASE p # sw /\ p # dw
    <3>1. (Stay(p) \ {job}) \cup Add[p] = Stay(p) \ {job}  BY <2>3
    <3>2. CASE p = <<"injector">>  BY <3>1, <3>2, PlacesHold
    <3>3. ASSUME NEW v \in Workers, p = <<"stack", v>> PROVE Holds(Held(p)', Stay(p) \ {job})
      <4>1. v # w  BY <2>3, <3>3
      <4>2. Held(p)' = stack[v] /\ Held(p) = stack[v]  BY <1>2, <3>3, <4>1, PlacesHold
      <4>3. Stay(p) \ {job} = Stay(p)  BY <1>4, <3>3
      <4>4. QED  BY <4>2, <4>3, StayHolds
    <3>4. ASSUME NEW v \in Workers, p = <<"deque", v>> PROVE Holds(Held(p)', Stay(p) \ {job})
      <4>1. v # w  BY <2>3, <3>4
      <4>2. Held(p)' = d[v]
        <5>1. deque'[v] = d[v]  BY <1>3, <4>1
        <5>2. QED  BY <3>4, <5>1, PlacesHold
      <4>3. QED  BY <3>4, <4>2
    <3>5. QED  BY <3>1, <3>2, <3>3, <3>4, PlacesHold
  <2>4. QED  BY <2>1, <2>2, <2>3
<1>11. Shift({job}, {}, Add)  BY <1>2, <1>3, <1>10 DEF Shift
<1>12. Fits({job}, {}, Add)
  <2>1. ASSUME NEW p \in Places, NEW x \in Add[p]
        PROVE  x \in Jobs /\ x \notin done /\ (x \in Placed => x = job)
    <3>1. x \in OnEntry(job) \cup Pushed(job)  BY <2>1
    <3>2. QED  BY <1>5, <1>6, <3>1 DEF Used
  <2>2. ASSUME NEW p \in Places, NEW r \in Places, p # r PROVE Add[p] \cap Add[r] = {}
    BY <1>6, <2>2
  <2> HIDE DEF Add
  <2>3. QED  BY <2>1, <2>2 DEF Fits
<1>13. Apart' /\ \A p \in Places : Stay(p)' = (Stay(p) \ {job}) \cup Add[p]
  BY <1>11, <1>12, ShiftApart
<1>14. /\ Stay(sw)' = Stay(sw) \cup OnEntry(job)
       /\ Stay(dw)' = (Stay(dw) \ {job}) \cup Pushed(job)
       /\ \A p \in Places : p # sw /\ p # dw => Stay(p)' = Stay(p) \ {job}
  BY <1>1, <1>4, <1>13
<1>15. Used' = Used \cup NewJobs(job)
  <2>1. Placed' = Placed \cup NewJobs(job)
    <3>1. ASSUME NEW x \in Placed' PROVE x \in Placed \cup NewJobs(job)
      <4>1. PICK p \in Places : x \in Stay(p)'  BY <3>1 DEF Placed
      <4>2. x \in Stay(p) \/ x \in OnEntry(job) \cup Pushed(job)  BY <1>14, <4>1
      <4>3. QED  BY <1>5, <1>6, <4>2 DEF Placed
    <3>2. ASSUME NEW x \in Placed \cup NewJobs(job) PROVE \E p \in Places : x \in Stay(p)'
      <4>1. CASE x \in OnEntry(job) \cup Pushed(job)  BY <1>1, <1>14, <4>1
      <4>2. CASE x \notin OnEntry(job) \cup Pushed(job)
        <5>1. x # job /\ x \in Placed  BY <1>6, <3>2, <4>2
        <5>2. PICK p \in Places : x \in Stay(p)  BY <5>1 DEF Placed
        <5>3. QED  BY <1>14, <5>1, <5>2
      <4>3. QED  BY <4>1, <4>2
    <3>3. QED  BY <3>1, <3>2 DEF Placed
  <2>2. QED  BY <1>3, <2>1 DEF Used
<1>16. Stacked' = Stacked \cup OnEntry(job)
  <2>1. StackOf(w)' = StackOf(w) \cup OnEntry(job)  BY <1>14 DEF StackOf
  <2>2. \A v \in Workers : v # w => StackOf(v)' = StackOf(v)
    <3>1. ASSUME NEW v \in Workers, v # w PROVE Stay(<<"stack", v>>)' = Stay(<<"stack", v>>)
      <4>1. /\ <<"stack", v>> \in Places /\ <<"stack", v>> # sw /\ <<"stack", v>> # dw
            /\ job \notin Stay(<<"stack", v>>)
        BY <1>4, <3>1, PlacesHold
      <4>2. Stay(<<"stack", v>>)' = Stay(<<"stack", v>>) \ {job}  BY <1>14, <4>1
      <4>3. QED  BY <4>1, <4>2
    <3>2. QED  BY <3>1 DEF StackOf
  <2>3. QED  BY <2>1, <2>2 DEF Stacked
<1>17. \A v \in Workers : Stay(<<"deque", v>>)' \subseteq Stay(<<"deque", v>>) \cup Pushed(job)
  <2>1. ASSUME NEW v \in Workers, v # w PROVE Stay(<<"deque", v>>)' \subseteq Stay(<<"deque", v>>)
    <3>1. <<"deque", v>> \in Places /\ <<"deque", v>> # sw /\ <<"deque", v>> # dw
      BY <2>1, PlacesHold
    <3>2. QED  BY <1>14, <3>1
  <2>2. QED  BY <1>14, <2>1
<1>18. Stay(<<"injector">>)' \subseteq Stay(<<"injector">>)  BY <1>1, <1>14
<1>19. QED  BY <1>2, <1>3, <1>13, <1>15, <1>16, <1>17, <1>18 DEF Enters

-----------------------------------------------------------------------------
(* Every step keeps the pool's invariant.                                  *)

\* What is placed, stacked, used and begun is a matter of the places and of
\* what is done.
LEMMA UnchangedPool ==
    ASSUME UNCHANGED <<stack, deque, injector, done>>
    PROVE  /\ \A p \in Places : Held(p)' = Held(p) /\ Stay(p)' = Stay(p)
           /\ Placed' = Placed /\ Stacked' = Stacked /\ Used' = Used /\ Begun' = Begun
<1>1. ASSUME NEW p \in Places PROVE Held(p)' = Held(p)
  <2>1. CASE p = <<"injector">>  BY <2>1, PlacesHold
  <2>2. ASSUME NEW v \in Workers, p = <<"stack", v>> PROVE Held(p)' = Held(p)
    BY <2>2, PlacesHold
  <2>3. ASSUME NEW v \in Workers, p = <<"deque", v>> PROVE Held(p)' = Held(p)
    BY <2>3, PlacesHold
  <2>4. QED  BY <2>1, <2>2, <2>3, PlacesHold
<1>2. \A p \in Places : Stay(p)' = Stay(p)  BY <1>1 DEF Stay
<1>3. Placed' = Placed  BY <1>2 DEF Placed
<1>4. Stacked' = Stacked
  <2>1. \A v \in Workers : StackOf(v)' = StackOf(v)  BY <1>2, PlacesHold DEF StackOf
  <2>2. QED  BY <2>1 DEF Stacked
<1>5. QED  BY <1>1, <1>2, <1>3, <1>4 DEF Used, Begun

\* What is left of the invariant when nothing moves.
LEMMA StillPool ==
    ASSUME PoolInv, UNCHANGED <<stack, deque, injector, done>>,
           \A t \in Stages : pc'[t] = "commit" <=> pc[t] = "commit",
           \A c \in Callers : Alone(c) => Alone(c)'
    PROVE  Apart' /\ OnlyWaiting' /\ CommitsInPlace' /\ NothingAbove'
<1>1. /\ \A p \in Places : Held(p)' = Held(p) /\ Stay(p)' = Stay(p)
      /\ Placed' = Placed /\ Stacked' = Stacked /\ Used' = Used /\ Begun' = Begun
  BY UnchangedPool
<1>2. Apart'  BY <1>1 DEF PoolInv, Apart
<1>3. OnlyWaiting'  BY <1>1, PlacesHold DEF PoolInv, OnlyWaiting
<1>4. CommitsInPlace'
  <2>1. \A t \in Stages : t[2] \in Callers
    BY JobsAreApart DEF Stages, JobsDiffer, Stage
  <2>2. \A t \in Stages : FromCommit(t)' /\ SplitLast(t)'
    BY <1>1 DEF PoolInv, CommitsInPlace, FromCommit, SplitLast
  <2>3. \A t \in Stages : Commits(t)'
    BY <1>1, <2>1 DEF PoolInv, CommitsInPlace, Commits
  <2>4. QED  BY <2>2, <2>3 DEF CommitsInPlace
<1>5. NothingAbove'
  BY DEF PoolInv, NothingAbove
<1>6. QED  BY <1>2, <1>3, <1>4, <1>5

\* A step that leaves the pool alone, and lets no stage begin or end a
\* commitment, keeps the pool part of the invariant.
LEMMA QuietKeeps ==
    ASSUME PoolInv, UNCHANGED poolvars, \A t \in Stages : pc'[t] = "commit" <=> pc[t] = "commit"
    PROVE  PoolInv'
<1>1. UNCHANGED <<stack, deque, injector, done>> /\ UNCHANGED <<mode, in_use>>  BY DEF poolvars
<1>2. Used' = Used /\ Begun' = Begun  BY <1>1, UnchangedPool
<1>3. \A c \in Callers : Alone(c)' <=> Alone(c)  BY <1>1, <1>2 DEF Alone
<1>4. OneBuild'  BY <1>1 DEF PoolInv, OneBuild
<1>5. Nested'  BY <1>1, <1>2, <1>3 DEF PoolInv, Nested, Parent
<1>6. QED  BY <1>1, <1>3, <1>4, <1>5, StillPool DEF PoolInv

\* A caller starts without the pool, or returns.
LEMMA BuildKeeps ==
    ASSUME PoolInv, NEW c \in Callers, BuildSerial(c) \/ BuildReturns(c)
    PROVE  PoolInv'
<1>1. UNCHANGED <<stack, deque, injector, done>> /\ UNCHANGED pc
  BY DEF BuildSerial, BuildReturns, allvars
<1>2. Used' = Used /\ Begun' = Begun  BY <1>1, UnchangedPool
<1>3. PICK m \in {"serial", "returned"} :
         /\ mode' = [mode EXCEPT ![c] = m]
         /\ \/ m = "serial" /\ mode[c] = "idle" /\ in_use' = in_use
            \/ m = "returned" /\ mode[c] = "serial" /\ in_use' = in_use
            \/ m = "returned" /\ mode[c] = "parallel" /\ All(c) \in done /\ in_use' = FALSE
  BY DEF BuildSerial, BuildReturns, AtEnd
<1>4. /\ mode \in [Callers -> {"idle", "parallel", "serial", "returned"}]
      /\ mode' \in [Callers -> {"idle", "parallel", "serial", "returned"}]
      /\ mode'[c] = m /\ \A d \in Callers : d # c => mode'[d] = mode[d]
  BY <1>3 DEF PoolInv, OneBuild
<1>5. OneBuild'
  <2>1. \A d \in Callers : mode'[d] = "parallel" <=> mode[d] = "parallel" /\ d # c  BY <1>4
  <2>2. in_use' = \E d \in Callers : mode'[d] = "parallel"
    BY <1>3, <2>1 DEF PoolInv, OneBuild
  <2>3. QED  BY <1>4, <2>1, <2>2 DEF PoolInv, OneBuild
<1>6. mode[c] # "parallel" => All(c) \notin Used
  BY <1>3 DEF PoolInv, Nested
<1>7. \A d \in Callers : Alone(d) => Alone(d)'
  BY <1>2, <1>4 DEF Alone
<1>8. Nested'
  <2>1. \A d \in Callers :
           All(d) \in Used => mode'[d] = "parallel" \/ (mode'[d] = "returned" /\ All(d) \in done)
    BY <1>3, <1>4, <1>6 DEF PoolInv, Nested
  <2>2. \A d \in Callers : \A n \in StageNo : Stage(d, n) \in Used =>
              Parent(d, n) \in Begun \/ (Stage(d, n) \in done /\ Alone(d)')
    BY <1>7 DEF PoolInv, Nested
  <2>3. QED  BY <1>1, <1>2, <2>1, <2>2 DEF PoolInv, Nested, Parent
<1>9. QED  BY <1>1, <1>5, <1>7, <1>8, StillPool DEF PoolInv

\* A step that keeps the order of things: whatever is new somewhere was started.
LEMMA NestedStays ==
    ASSUME Nested, UNCHANGED mode, done \subseteq done', Begun \subseteq Begun',
           \A c \in Callers :
              /\ All(c) \in Used' => All(c) \in Used
              /\ Rest(c) \in Used' => Rest(c) \in Used \/ All(c) \in Begun'
              /\ All(c) \in done' => All(c) \in done \/ Rest(c) \in done'
              /\ Rest(c) \in done' => Rest(c) \in done \/ Stage(c, 3) \in done'
              /\ \A n \in StageNo : Stage(c, n) \in Used' =>
                    \/ Stage(c, n) \in Used \/ Parent(c, n) \in Begun'
                    \/ Stage(c, n) \in done' /\ Alone(c)
    PROVE  Nested' /\ \A c \in Callers : Alone(c) => Alone(c)'
<1>1. \A c \in Callers : Alone(c) => Alone(c)'  BY DEF Alone
<1>2. ASSUME NEW c \in Callers
      PROVE  /\ All(c) \in Used' => mode'[c] = "parallel" \/ (mode'[c] = "returned" /\ All(c) \in done')
             /\ Rest(c) \in Used' => All(c) \in Begun'
             /\ All(c) \in done' => Rest(c) \in done'
             /\ Rest(c) \in done' => Stage(c, 3) \in done'
  BY DEF Nested
<1>3. ASSUME NEW c \in Callers, NEW n \in StageNo, Stage(c, n) \in Used'
      PROVE  Parent(c, n) \in Begun' \/ (Stage(c, n) \in done' /\ Alone(c)')
  BY <1>1, <1>3 DEF Nested
<1>4. Nested'
  <2>1. \A c \in Callers : \A n \in StageNo : Parent(c, n)' = Parent(c, n)  BY DEF Parent
  <2>2. QED  BY <1>2, <1>3, <2>1 DEF Nested
<1>5. QED  BY <1>1, <1>4

\* A caller starts with the pool.
LEMMA BuildParallelKeeps ==
    ASSUME PoolInv, NEW c \in Callers, BuildParallel(c)
    PROVE  PoolInv'
<1>1. /\ mode[c] = "idle" /\ ~in_use /\ mode' = [mode EXCEPT ![c] = "parallel"] /\ in_use' = TRUE
      /\ injector' = Append(injector, All(c)) /\ UNCHANGED <<stack, deque, done>> /\ UNCHANGED pc
  BY DEF BuildParallel, allvars
<1>2. Apart /\ All(c) \notin Used /\ All(c) \in Joins /\ All(c) \in Jobs
  BY <1>1 DEF PoolInv, Nested, Joins, Jobs
<1>3. Spreads({All(c)})
  <2> DEFINE q == <<"injector">>
  <2>1. /\ q \in Places /\ \A w \in Workers : q # <<"stack", w>>
        /\ Held(q) = injector /\ Held(q)' = injector'
    BY PlacesHold
  <2>2. Holds(injector, Stay(q)) /\ Stay(q) \subseteq Placed  BY <1>2, <2>1, StayHolds
  <2>3. All(c) \notin Stay(q)  BY <1>2, <2>2 DEF Used
  <2>4. Holds(Append(injector, All(c)), Stay(q) \cup {All(c)})
    <3> DEFINE S == Stay(q)
               x == All(c)
    <3>1. Holds(injector, S) /\ x \notin S  BY <2>2, <2>3
    <3> HIDE DEF S, x
    <3>2. Holds(Append(injector, x), S \cup {x})  BY <3>1, AppendHolds
    <3>3. QED  BY <3>2 DEF S, x
  <2>5. Holds(Held(q)', Stay(q) \cup {All(c)})  BY <1>1, <2>1, <2>4
  <2>6. ASSUME NEW p \in Places, p # q PROVE Held(p)' = Held(p)
    <3>1. PICK v \in Workers : p = <<"stack", v>> \/ p = <<"deque", v>>  BY <2>6, PlacesHold
    <3>2. CASE p = <<"stack", v>>  BY <1>1, <3>2, PlacesHold
    <3>3. CASE p = <<"deque", v>>  BY <1>1, <3>3, PlacesHold
    <3>4. QED  BY <3>1, <3>2, <3>3
  <2>7. deque' = [w \in Workers |-> deque'[w]] /\ {All(c)} \subseteq Jobs /\ {All(c)} \cap Used = {}
    BY <1>1, <1>2 DEF Apart
  <2> HIDE DEF q
  <2>8. QED  BY <1>1, <1>2, <2>1, <2>5, <2>6, <2>7, PushSpreads
<1>4. /\ Apart' /\ done' = done /\ Used' = Used \cup {All(c)} /\ Stacked' = Stacked
      /\ Begun' = Begun
      /\ \A p \in Places : Stay(p)' \subseteq Stay(p) \cup {All(c)}
  BY <1>1, <1>3 DEF Spreads, Begun
<1>5. /\ mode \in [Callers -> {"idle", "parallel", "serial", "returned"}]
      /\ mode' \in [Callers -> {"idle", "parallel", "serial", "returned"}]
      /\ mode'[c] = "parallel" /\ \A d \in Callers : d # c => mode'[d] = mode[d] /\ mode[d] # "parallel"
  BY <1>1 DEF PoolInv, OneBuild
<1>6. OneBuild'  BY <1>1, <1>5 DEF OneBuild
<1>7. \A d \in Callers : All(d) = All(c) => d = c
  BY JobsAreApart, PoolAssumption DEF JobsDiffer, StageNo
<1>8. \A d \in Callers : Alone(d) => Alone(d)'
  BY <1>1, <1>4, <1>5, <1>7 DEF Alone
<1>9. \A d \in Callers : Rest(d) # All(c) /\ \A n \in StageNo : Stage(d, n) # All(c)
  <2>1. 1 \in 1..Columns  BY PoolAssumption
  <2>2. QED  BY <2>1, JobsAreApart DEF JobsDiffer, StageNo
<1>10. Nested'
  <2>1. \A d \in Callers :
           All(d) \in Used' => mode'[d] = "parallel" \/ (mode'[d] = "returned" /\ All(d) \in done')
    BY <1>4, <1>5, <1>7 DEF PoolInv, Nested
  <2>2. \A d \in Callers : \A n \in StageNo : Stage(d, n) \in Used' =>
              Parent(d, n) \in Begun' \/ (Stage(d, n) \in done' /\ Alone(d)')
    BY <1>4, <1>8, <1>9 DEF PoolInv, Nested
  <2>3. \A d \in Callers : Rest(d) \in Used' => All(d) \in Begun'
    BY <1>4, <1>9 DEF PoolInv, Nested
  <2>4. \A d \in Callers : \A n \in StageNo : Parent(d, n)' = Parent(d, n)  BY DEF Parent
  <2>5. QED  BY <1>4, <2>1, <2>2, <2>3, <2>4 DEF PoolInv, Nested
<1>11. OnlyWaiting'
  <2>1. All(c) \in CanWait  BY <1>2 DEF CanWait
  <2>2. UNCHANGED <<stack, deque>>  BY <1>1
  <2>3. \A w \in Workers : Stay(<<"deque", w>>)' = Stay(<<"deque", w>>)
    BY <2>2, PlacesHold DEF Stay
  <2>4. Stay(<<"injector">>)' \subseteq Stay(<<"injector">>) \cup {All(c)}  BY <1>4, PlacesHold
  <2>5. QED  BY <2>1, <2>3, <2>4 DEF PoolInv, OnlyWaiting
<1>12. CommitsInPlace'
  <2>1. ASSUME NEW t \in Stages PROVE All(c) \notin ColumnsOf(t) /\ t[2] \in Callers
    <3>1. All(c) \notin ColumnsOf(t)  BY <1>2, ColumnsHold
    <3>2. t[2] \in Callers  BY DEF Stages, Stage
    <3>3. QED  BY <3>1, <3>2
  <2>2. \A t \in Stages : FromCommit(t)' /\ SplitLast(t)'
    BY <1>1, <1>4, <2>1 DEF PoolInv, CommitsInPlace, FromCommit, SplitLast
  <2>3. \A t \in Stages : Commits(t)'
    BY <1>1, <1>4, <1>8, <2>1 DEF PoolInv, CommitsInPlace, Commits
  <2>4. QED  BY <2>2, <2>3 DEF CommitsInPlace
<1>13. NothingAbove'  BY <1>1 DEF PoolInv, NothingAbove
<1>14. QED  BY <1>4, <1>6, <1>10, <1>11, <1>12, <1>13 DEF PoolInv

\* Of whom a stage is.
LEMMA StageParts ==
    ASSUME NEW t \in Stages
    PROVE  /\ t = Stage(t[2], t[3]) /\ t[2] \in Callers /\ t[3] \in StageNo
           /\ t \in Jobs /\ t \notin Joins /\ t \notin Pieces
<1>1. PICK c \in Callers, n \in StageNo : t = Stage(c, n)  BY DEF Stages
<1>2. t[2] = c /\ t[3] = n  BY <1>1, JobsAreApart, PoolAssumption DEF JobsDiffer
<1>3. t \in Jobs  BY DEF Jobs
<1>4. QED  BY <1>1, <1>2, <1>3, KindsOfJob

\* A stage that runs on its caller is on no stack, and its caller has no pool build.
LEMMA OnCallerAlone ==
    ASSUME PoolInv, NEW t \in Stages, OnCaller(t), t \notin done
    PROVE  t \notin Placed /\ Alone(t[2]) /\ mode[t[2]] = "serial"
<1>1. t[2] \in Callers /\ t[3] \in StageNo /\ t = Stage(t[2], t[3])  BY StageParts
<1>2. mode[t[2]] = "serial"  BY DEF OnCaller
<1>3. All(t[2]) \notin Used  BY <1>1, <1>2 DEF PoolInv, Nested
<1>4. ASSUME t \in Placed PROVE FALSE
  <2>1. Parent(t[2], t[3]) \in Begun  BY <1>1, <1>4 DEF PoolInv, Nested, Used
  <2>2. Begun \subseteq Used
    <3>1. Stacked \subseteq Placed
      <4>1. \A w \in Workers : StackOf(w) \subseteq Placed  BY PlacesHold DEF StackOf, Placed
      <4>2. QED  BY <4>1 DEF Stacked
    <3>2. QED  BY <3>1 DEF Begun, Used
  <2>3. All(t[2]) \in Used  BY <1>1, <2>1, <2>2 DEF PoolInv, Nested, Parent
  <2>4. QED  BY <1>3, <2>3
<1>5. QED  BY <1>2, <1>3, <1>4 DEF Alone

\* A worker's own stage splits only when its key may have a loaded matrix.
LEMMA CommitPoolKeeps ==
    ASSUME PInv, NEW t \in Stages, Commit(t)
    PROVE  PoolInv'
<1> DEFINE N == ColumnsOf(t)
<1>1. PoolInv /\ Apart  BY DEF PInv, PoolInv
<1>2. /\ OnlyThread(t) /\ pc[t] = "idle" /\ pc'[t] = "commit"
      /\ key'[t] = GoalOf(t).key /\ key'[t] \in Keys /\ Registered(key'[t]) /\ UNCHANGED registry
  BY CommitKeeps
<1>3. /\ t \notin done /\ (OnWorker(t) \/ OnCaller(t)) /\ UNCHANGED <<mode, in_use, stack>>
      /\ \/ AllowParallel(t) /\ Split(t) /\ UNCHANGED done
         \/ ~AllowParallel(t) /\ done' = done \cup N /\ UNCHANGED <<injector, deque>>
  BY DEF Commit, Runs
<1>4. N \cap Used = {}  BY <1>1, <1>2, <1>3 DEF PoolInv, CommitsInPlace, FromCommit
<1>5. Spreads(N)
  <2>1. \/ Split(t) /\ UNCHANGED done
        \/ done' = done \cup N /\ UNCHANGED <<injector, deque>>
    BY <1>3
  <2>2. UNCHANGED stack  BY <1>3
  <2>3. QED  BY <1>1, <1>4, <2>1, <2>2, SplitSpreads
<1>6. /\ Apart' /\ done \subseteq done' /\ done' \subseteq done \cup N
      /\ Used' = Used \cup N /\ Stacked' = Stacked
      /\ \A p \in Places : Stay(p)' \subseteq Stay(p) \cup N
  BY <1>5 DEF Spreads
<1>7. /\ N \subseteq Jobs /\ N \subseteq Pieces /\ N \cap (Stages \cup Joins) = {}
  BY ColumnsHold
<1> HIDE DEF N
<1>8. OneBuild'  BY <1>1, <1>3 DEF PoolInv, OneBuild
<1>9. Nested' /\ \A c \in Callers : Alone(c) => Alone(c)'
  <2>1. \A c \in Callers : All(c) \in Joins /\ Rest(c) \in Joins
                           /\ \A n \in StageNo : Stage(c, n) \in Stages
    BY DEF Joins, Stages
  <2>2. \A x \in Stages \cup Joins : (x \in Used' => x \in Used) /\ (x \in done' => x \in done)
    BY <1>6, <1>7
  <2>3. Nested /\ UNCHANGED mode /\ done \subseteq done' /\ Begun \subseteq Begun'
    BY <1>1, <1>3, <1>6 DEF PoolInv, Begun
  <2>4. \A c \in Callers :
              /\ All(c) \in Used' => All(c) \in Used
              /\ Rest(c) \in Used' => Rest(c) \in Used \/ All(c) \in Begun'
              /\ All(c) \in done' => All(c) \in done \/ Rest(c) \in done'
              /\ Rest(c) \in done' => Rest(c) \in done \/ Stage(c, 3) \in done'
              /\ \A n \in StageNo : Stage(c, n) \in Used' =>
                    \/ Stage(c, n) \in Used \/ Parent(c, n) \in Begun'
                    \/ Stage(c, n) \in done' /\ Alone(c)
    BY <2>1, <2>2
  <2>5. QED  BY <2>3, <2>4, NestedStays
<1>10. OnlyWaiting'
  <2>1. N \subseteq CanWait  BY <1>7 DEF CanWait
  <2>2. \A p \in Places : Stay(p)' \subseteq Stay(p) \cup CanWait  BY <1>6, <2>1
  <2>3. QED  BY <1>1, <2>2, PlacesHold DEF PoolInv, OnlyWaiting
<1>11. \A u \in Stages : u # t => pc'[u] = pc[u]
  BY <1>2, StagesAreThreads DEF OnlyThread
<1>12. ASSUME NEW u \in Stages, u # t PROVE ColumnsOf(u) \cap N = {}
  <2>1. /\ u = Stage(u[2], u[3]) /\ u[2] \in Callers /\ u[3] \in StageNo
        /\ t = Stage(t[2], t[3]) /\ t[2] \in Callers /\ t[3] \in StageNo
    BY StageParts
  <2>2. \A i, j \in 1..Columns : Column(u, i) # Column(t, j)
    BY <1>12, <2>1, JobsAreApart DEF JobsDiffer
  <2>3. QED  BY <2>2 DEF ColumnsOf, N
<1>13. OnCaller(t) => t \notin Stacked /\ Alone(t[2])
  <2>1. Stacked \subseteq Placed
    <3>1. \A w \in Workers : StackOf(w) \subseteq Placed  BY PlacesHold DEF StackOf, Placed
    <3>2. QED  BY <3>1 DEF Stacked
  <2>2. QED  BY <1>1, <1>3, <2>1, OnCallerAlone
<1>14. OnWorker(t) => t \in Stacked
  BY <1>1, StageParts, RunningStacked DEF OnWorker
<1>15. FromCommit(t)' /\ Commits(t)'
  <2>1. t[2] \in Callers  BY StageParts
  <2>2. QED  BY <1>2, <1>3, <1>6, <1>9, <1>13, <1>14, <2>1 DEF FromCommit, Commits
<1>16. SplitLast(t)'
  <2>1. CASE OnCaller(t)  BY <1>6, <1>13, <2>1 DEF SplitLast
  <2>2. CASE ~AllowParallel(t)
    <3>1. ColumnsOf(t) \subseteq done'  BY <1>3, <2>2 DEF N
    <3>2. QED  BY <3>1 DEF SplitLast
  <2>3. CASE AllowParallel(t) /\ ~OnCaller(t)
    <3>1. registry[key'[t]].pp # None  BY <2>3 DEF AllowParallel
    <3>2. key'[t] \in Keys /\ registry[key'[t]] # None  BY <1>2 DEF Registered
    <3>3. key'[t] \in Prepared  BY <3>1, <3>2 DEF PInv, LoadedPrepared, Registered
    <3>4. t[3] = 3  BY <1>2, <3>3, PreparedAreThird
    <3>5. QED  BY <3>4 DEF SplitLast
  <2>4. QED  BY <2>1, <2>2, <2>3
<1>17. ASSUME NEW u \in Stages, u # t PROVE FromCommit(u)' /\ Commits(u)' /\ SplitLast(u)'
  <2>1. FromCommit(u) /\ Commits(u) /\ SplitLast(u)  BY <1>1 DEF PoolInv, CommitsInPlace
  <2>2. u[2] \in Callers /\ pc'[u] = pc[u]  BY <1>11, <1>17, StageParts
  <2>3. FromCommit(u)'  BY <1>6, <1>12, <1>17, <2>1, <2>2 DEF FromCommit
  <2>4. Commits(u)'  BY <1>6, <1>9, <2>1, <2>2 DEF Commits
  <2>5. SplitLast(u)'  BY <1>6, <2>1, <2>2 DEF SplitLast
  <2>6. QED  BY <2>3, <2>4, <2>5
<1>18. CommitsInPlace'  BY <1>15, <1>16, <1>17 DEF CommitsInPlace
<1>19. NothingAbove'
  <2>1. SUFFICES ASSUME NEW w \in Workers, NEW i \in DOMAIN stack[w], NEW j \in DOMAIN stack[w],
                        i < j, stack[w][i] \in Stages, pc'[stack[w][i]] = "commit"
                 PROVE  stack[w][j] \in Pieces
    BY <1>3 DEF NothingAbove
  <2>2. CASE stack[w][i] # t
    BY <1>1, <1>11, <2>1, <2>2 DEF PoolInv, NothingAbove
  <2>3. CASE stack[w][i] = t
    <3> DEFINE q == <<"stack", w>>
    <3>1. q \in Places /\ Held(q) = stack[w]  BY PlacesHold
    <3>2. IsSeq(stack[w]) /\ IsInjective(stack[w]) /\ Stay(q) = Range(stack[w])
      BY <1>1, <3>1 DEF Apart, Stay
    <3>3. t \in Stay(q)  BY <2>3, <3>2 DEF Range
    <3>4. t \in Stacked  BY <3>3 DEF Stacked, StackOf
    <3>5. PICK v \in Workers : Running(v) = t  BY <1>3, <1>13, <3>4 DEF OnWorker
    <3>6. stack[v] # <<>> /\ Last(stack[v]) = t  BY <1>1, <3>5, StageParts, RunningStacked
    <3>7. v = w
      <4> DEFINE r == <<"stack", v>>
      <4>1. r \in Places /\ Held(r) = stack[v] /\ (q = r => v = w)  BY PlacesHold
      <4>2. Holds(stack[v], Stay(r))  BY <1>1, <4>1, StayHolds
      <4>3. Last(stack[v]) \in Stay(r)
        <5> DEFINE s == stack[v]
                   S == Stay(r)
        <5>1. Holds(s, S) /\ s # <<>>  BY <3>6, <4>2
        <5> HIDE DEF s, S
        <5>2. Last(s) \in S  BY <5>1, FrontHolds
        <5>3. QED  BY <5>2 DEF s, S
      <4>4. t \in Stay(r)  BY <3>6, <4>3
      <4> HIDE DEF q, r
      <4>5. q = r  BY <1>1, <3>1, <3>3, <4>1, <4>4 DEF Apart
      <4>6. QED  BY <4>1, <4>5
    <3>8. stack[w] # <<>> /\ Len(stack[w]) \in Nat /\ DOMAIN stack[w] = 1..Len(stack[w])
          /\ stack[w][Len(stack[w])] = t
      BY <3>2, <3>6, <3>7, IsSeqLen DEF Last
    <3>9. Len(stack[w]) \in DOMAIN stack[w]
      <4>1. Len(stack[w]) # 0  BY <3>2, <3>8, LenZero
      <4>2. QED  BY <3>8, <4>1
    <3>10. i = Len(stack[w])  BY <2>3, <3>2, <3>8, <3>9 DEF IsInjective
    <3>11. QED  BY <2>1, <3>8, <3>10
  <2>4. QED  BY <2>2, <2>3
<1>20. QED  BY <1>6, <1>8, <1>9, <1>10, <1>18, <1>19 DEF PoolInv

\* What is on a stack is placed, and what is stacked or begun is used.
LEMMA StackedUsed ==
    Stacked \subseteq Placed /\ Stacked \subseteq Used /\ Begun \subseteq Used
<1>1. \A w \in Workers : StackOf(w) \subseteq Placed  BY PlacesHold DEF StackOf, Placed
<1>2. Stacked \subseteq Placed  BY <1>1 DEF Stacked
<1>3. QED  BY <1>2 DEF Used, Begun

\* The job that runs on a worker ends, its halves before it if it is a join.
LEMMA EndedKeeps ==
    ASSUME PoolInv, NEW w \in Workers, NEW job \in Jobs, Ends(w, job), UNCHANGED <<mode, in_use>>,
           UNCHANGED <<deque, injector>>,
           \A t \in Stages : t # job => (pc'[t] = "commit" <=> pc[t] = "commit"),
           job \in Stages => pc'[job] # "commit",
           \A c \in Callers : (job = All(c) => Rest(c) \in done) /\ (job = Rest(c) => Stage(c, 3) \in done)
    PROVE  PoolInv'
<1>1. /\ Apart' /\ done' = done \cup {job} /\ job \in Stacked
      /\ \A p \in Places : Stay(p)' = Stay(p) \ {job}
      /\ Begun \subseteq Begun' /\ Stacked' = Stacked \ {job}
      /\ \A v \in Workers : DOMAIN stack'[v] \subseteq DOMAIN stack[v]
                            /\ \A i \in DOMAIN stack'[v] : stack'[v][i] = stack[v][i]
  BY DEF Ends
<1>2. Used' = Used  BY <1>1, StackedUsed DEF Ends
<1>3. OneBuild'  BY DEF PoolInv, OneBuild
<1>4. Nested' /\ \A c \in Callers : Alone(c) => Alone(c)'
  <2>1. Nested /\ UNCHANGED mode /\ done \subseteq done' /\ Begun \subseteq Begun'
    BY <1>1 DEF PoolInv
  <2>2. \A c \in Callers :
              /\ All(c) \in Used' => All(c) \in Used
              /\ Rest(c) \in Used' => Rest(c) \in Used \/ All(c) \in Begun'
              /\ All(c) \in done' => All(c) \in done \/ Rest(c) \in done'
              /\ Rest(c) \in done' => Rest(c) \in done \/ Stage(c, 3) \in done'
              /\ \A n \in StageNo : Stage(c, n) \in Used' =>
                    \/ Stage(c, n) \in Used \/ Parent(c, n) \in Begun'
                    \/ Stage(c, n) \in done' /\ Alone(c)
    BY <1>1, <1>2
  <2>3. QED  BY <2>1, <2>2, NestedStays
<1>5. OnlyWaiting'
  <2>1. \A p \in Places : Stay(p)' \subseteq Stay(p)  BY <1>1
  <2>2. QED  BY <2>1, PlacesHold DEF PoolInv, OnlyWaiting
<1>6. ASSUME NEW t \in Stages PROVE FromCommit(t)' /\ Commits(t)' /\ SplitLast(t)'
  <2>1. FromCommit(t) /\ Commits(t) /\ SplitLast(t) /\ t[2] \in Callers
    BY StageParts DEF PoolInv, CommitsInPlace
  <2>2. FromCommit(t)'  BY <1>1, <1>2, <2>1 DEF FromCommit
  <2>3. Commits(t)'  BY <1>1, <1>4, <2>1 DEF Commits
  <2>4. SplitLast(t)'  BY <1>1, <2>1 DEF SplitLast
  <2>5. QED  BY <2>2, <2>3, <2>4
<1>7. CommitsInPlace'  BY <1>6 DEF CommitsInPlace
<1>8. NothingAbove'
  <2>1. SUFFICES ASSUME NEW v \in Workers, NEW i \in DOMAIN stack'[v], NEW j \in DOMAIN stack'[v],
                        i < j, stack'[v][i] \in Stages, pc'[stack'[v][i]] = "commit"
                 PROVE  stack'[v][j] \in Pieces
    BY DEF NothingAbove
  <2>2. /\ i \in DOMAIN stack[v] /\ j \in DOMAIN stack[v]
        /\ stack'[v][i] = stack[v][i] /\ stack'[v][j] = stack[v][j]
    BY <1>1
  <2>3. stack[v][i] \in Stages /\ pc[stack[v][i]] = "commit"  BY <2>1, <2>2
  <2>4. QED  BY <2>1, <2>2, <2>3 DEF PoolInv, NothingAbove
<1>9. QED  BY <1>1, <1>3, <1>4, <1>5, <1>7, <1>8 DEF PoolInv

\* A stage that ran on its caller ends.
LEMMA CallerEndedKeeps ==
    ASSUME PoolInv, NEW t \in Stages, OnCaller(t), t \notin done, done' = done \cup {t},
           UNCHANGED <<stack, deque, injector, mode, in_use>>,
           \A u \in Stages : u # t => (pc'[u] = "commit" <=> pc[u] = "commit"),
           pc'[t] # "commit"
    PROVE  PoolInv'
<1>1. t \notin Placed /\ Alone(t[2]) /\ t \notin Used /\ Apart
  BY OnCallerAlone DEF Used, PoolInv
<1>2. Spreads({t})
  <2>1. {t} \cap Used = {} /\ UNCHANGED <<stack, deque, injector>>  BY <1>1
  <2>2. QED  BY <1>1, <2>1, EndSpreads
<1>3. /\ Apart' /\ Used' = Used \cup {t} /\ Stacked' = Stacked
      /\ \A p \in Places : Stay(p)' \subseteq Stay(p) \cup {t}
      /\ Begun \subseteq Begun'
  BY <1>2 DEF Spreads, Begun
<1>4. OneBuild'  BY DEF PoolInv, OneBuild
<1>5. /\ t = Stage(t[2], t[3]) /\ t[2] \in Callers /\ t[3] \in StageNo
      /\ t \in Jobs /\ t \notin Joins /\ t \notin Pieces
  BY StageParts
<1>6. Nested' /\ \A c \in Callers : Alone(c) => Alone(c)'
  <2>1. Nested /\ UNCHANGED mode /\ done \subseteq done' /\ Begun \subseteq Begun'
    BY <1>3 DEF PoolInv
  <2>2. \A c \in Callers : All(c) # t /\ Rest(c) # t  BY <1>5 DEF Joins
  <2>3. \A c \in Callers : \A n \in StageNo : Stage(c, n) = t => c = t[2]
    BY <1>5, JobsAreApart, PoolAssumption DEF JobsDiffer
  <2>4. \A c \in Callers :
              /\ All(c) \in Used' => All(c) \in Used
              /\ Rest(c) \in Used' => Rest(c) \in Used \/ All(c) \in Begun'
              /\ All(c) \in done' => All(c) \in done \/ Rest(c) \in done'
              /\ Rest(c) \in done' => Rest(c) \in done \/ Stage(c, 3) \in done'
              /\ \A n \in StageNo : Stage(c, n) \in Used' =>
                    \/ Stage(c, n) \in Used \/ Parent(c, n) \in Begun'
                    \/ Stage(c, n) \in done' /\ Alone(c)
    BY <1>1, <1>3, <2>2, <2>3
  <2>5. QED  BY <2>1, <2>4, NestedStays
<1>7. OnlyWaiting'
  <2>1. \A w \in Workers : deque'[w] = deque[w]  OBVIOUS
  <2>2. Stay(<<"injector">>)' = Stay(<<"injector">>)  BY PlacesHold DEF Stay
  <2>3. \A w \in Workers : Stay(<<"deque", w>>)' = Stay(<<"deque", w>>)
    BY <2>1, PlacesHold DEF Stay
  <2>4. QED  BY <2>2, <2>3 DEF PoolInv, OnlyWaiting
<1>8. ASSUME NEW u \in Stages PROVE FromCommit(u)' /\ Commits(u)' /\ SplitLast(u)'
  <2>1. FromCommit(u) /\ Commits(u) /\ SplitLast(u) /\ u[2] \in Callers /\ t \notin ColumnsOf(u)
    BY StageParts, ColumnsHold DEF PoolInv, CommitsInPlace
  <2>2. FromCommit(u)'  BY <1>3, <2>1 DEF FromCommit
  <2>3. Commits(u)'  BY <1>3, <1>6, <2>1 DEF Commits
  <2>4. SplitLast(u)'  BY <1>3, <2>1 DEF SplitLast
  <2>5. QED  BY <2>2, <2>3, <2>4
<1>9. CommitsInPlace'  BY <1>8 DEF CommitsInPlace
<1>10. NothingAbove'
  BY DEF PoolInv, NothingAbove
<1>11. QED  BY <1>3, <1>4, <1>6, <1>7, <1>9, <1>10 DEF PoolInv

\* A stage returns, on its caller or as the running job of a worker.
LEMMA StageReturnsPoolKeeps ==
    ASSUME PInv, NEW t \in Stages, StageReturns(t)
    PROVE  PoolInv'
<1>1. PoolInv /\ Apart /\ t \in Jobs /\ t \notin Joins  BY StageParts DEF PInv, PoolInv
<1>2. OnlyThread(t) /\ pc'[t] # "commit"  BY StageReturnsKeeps
<1>3. \A u \in Stages : u # t => (pc'[u] = "commit" <=> pc[u] = "commit")
  BY <1>2, StagesAreThreads DEF OnlyThread
<1>4. /\ t \notin done /\ (OnWorker(t) \/ OnCaller(t)) /\ done' = done \cup {t}
      /\ IF OnWorker(t) THEN \E w \in Workers : Running(w) = t /\ Pop(w) ELSE UNCHANGED stack
      /\ UNCHANGED <<mode, in_use, deque, injector>>
  BY DEF StageReturns, Runs, LeaveStage
<1>5. CASE OnWorker(t)
  <2>1. PICK w \in Workers : Running(w) = t /\ Pop(w)  BY <1>4, <1>5
  <2>2. UNCHANGED <<deque, injector>> /\ UNCHANGED <<mode, in_use>>  BY <1>4
  <2>3. Ends(w, t)  BY <1>1, <1>4, <2>1, <2>2, PopEnds
  <2>4. \A c \in Callers : (t = All(c) => Rest(c) \in done) /\ (t = Rest(c) => Stage(c, 3) \in done)
    BY <1>1 DEF Joins
  <2>5. QED  BY <1>1, <1>2, <1>3, <2>2, <2>3, <2>4, EndedKeeps
<1>6. CASE ~OnWorker(t)
  <2>1. UNCHANGED <<stack, deque, injector, mode, in_use>>  BY <1>4, <1>6
  <2>2. QED  BY <1>1, <1>2, <1>3, <1>4, <1>6, <2>1, CallerEndedKeeps
<1>7. QED  BY <1>5, <1>6

\* What a worker runs is a job, on top of its stack.
LEMMA RunningIsJob ==
    ASSUME Apart, NEW w \in Workers, Running(w) # None
    PROVE  Running(w) \in Jobs /\ stack[w] # <<>> /\ Running(w) = Last(stack[w])
<1>1. stack[w] # <<>> /\ Running(w) = Last(stack[w])  BY DEF Running
<1>2. <<"stack", w>> \in Places /\ Held(<<"stack", w>>) = stack[w]  BY PlacesHold
<1>3. Holds(stack[w], Stay(<<"stack", w>>)) /\ Stay(<<"stack", w>>) \subseteq Jobs
  BY <1>2, StayHolds DEF Apart
<1> DEFINE s == stack[w]
           S == Stay(<<"stack", w>>)
<1>4. Holds(s, S) /\ s # <<>>  BY <1>1, <1>3
<1>5. Last(s) \in S
  <2> HIDE DEF s, S
  <2>1. QED  BY <1>4, FrontHolds
<1>6. QED  BY <1>1, <1>3, <1>5

\* A join or a column returns.
LEMMA JobReturnsKeeps ==
    ASSUME PoolInv, NEW w \in Workers, JobReturns(w)
    PROVE  PoolInv'
<1> DEFINE job == Running(w)
<1>1. Apart /\ job # None  BY DEF PoolInv, JobReturns
<1>2. job \in Jobs  BY <1>1, RunningIsJob
<1>3. /\ job \notin Stages
      /\ job \in Joins => SecondHalf(job) \in done
      /\ done' = done \cup {job} /\ Pop(w)
      /\ UNCHANGED <<mode, in_use>> /\ UNCHANGED <<deque, injector>> /\ UNCHANGED pc
  BY <1>2, KindsOfJob DEF JobReturns, allvars
<1>4. \A c \in Callers : (job = All(c) => Rest(c) \in done) /\ (job = Rest(c) => Stage(c, 3) \in done)
  <2>1. \A c \in Callers : All(c) \in Joins /\ Rest(c) \in Joins  BY DEF Joins
  <2>2. QED  BY <1>3, <2>1, Halves
<1>5. Running(w) = job  OBVIOUS
<1> HIDE DEF job
<1>6. Ends(w, job)  BY <1>1, <1>2, <1>3, <1>5, PopEnds
<1>7. QED  BY <1>2, <1>3, <1>4, <1>6, EndedKeeps

\* A join that nobody has entered brings new jobs.
LEMMA NewAreNew ==
    ASSUME PoolInv, NEW job \in Jobs, job \in Placed, job \notin Stacked
    PROVE  NewJobs(job) \cap Used = {}
<1>1. job \in Used /\ job \notin done /\ job \notin Begun
  <2>1. job \notin done  BY DEF PoolInv, Apart, Placed
  <2>2. QED  BY <2>1 DEF Used, Begun
<1>2. CASE job \notin Joins  BY <1>2 DEF NewJobs
<1>3. ASSUME NEW c \in Callers, job = All(c) PROVE Stage(c, 1) \notin Used /\ Rest(c) \notin Used
  BY <1>1, <1>3 DEF PoolInv, Nested, Parent, StageNo, Alone
<1>4. ASSUME NEW c \in Callers, job = Rest(c) PROVE Stage(c, 2) \notin Used /\ Stage(c, 3) \notin Used
  <2>1. All(c) \in Used  BY <1>1, <1>4, StackedUsed DEF PoolInv, Nested
  <2>2. ~Alone(c)  BY <2>1 DEF Alone
  <2>3. 2 \in StageNo /\ 3 \in StageNo /\ Parent(c, 2) = Rest(c) /\ Parent(c, 3) = Rest(c)
    BY DEF StageNo, Parent
  <2>4. QED  BY <1>1, <1>4, <2>2, <2>3 DEF PoolInv, Nested
<1>5. ASSUME job \in Joins PROVE FirstHalf(job) \notin Used /\ SecondHalf(job) \notin Used
  <2>1. PICK c \in Callers : job = All(c) \/ job = Rest(c)  BY <1>5 DEF Joins
  <2>2. CASE job = All(c)  BY <1>3, <2>2, Halves
  <2>3. CASE job = Rest(c)  BY <1>4, <2>3, Halves
  <2>4. QED  BY <2>1, <2>2, <2>3
<1>6. QED  BY <1>2, <1>5 DEF NewJobs

\* A stage that a worker is about to enter does not commit yet.
LEMMA EnteredCalm ==
    ASSUME PoolInv, NEW job \in Jobs, job \in Placed, job \notin Stacked,
           NEW t \in Stages, t \in OnEntry(job)
    PROVE  pc[t] # "commit" /\ t \notin Stacked
<1>1. t = Stage(t[2], t[3]) /\ t[2] \in Callers /\ t[3] \in StageNo /\ t \notin Joins  BY StageParts
<1>2. job \in Used /\ job \notin done
  <2>1. job \notin done  BY DEF PoolInv, Apart, Placed
  <2>2. QED  BY <2>1 DEF Used
<1>3. Commits(t)  BY DEF PoolInv, CommitsInPlace
<1>4. CASE t = job
  <2>1. Parent(t[2], t[3]) \in Begun  BY <1>1, <1>2, <1>4 DEF PoolInv, Nested
  <2>2. All(t[2]) \in Used  BY <1>1, <2>1, StackedUsed DEF PoolInv, Nested, Parent
  <2>3. QED  BY <1>3, <1>4, <2>2 DEF Commits, Alone
<1>5. CASE t # job
  <2>1. job \in Joins /\ t = FirstHalf(job)  BY <1>5 DEF OnEntry
  <2>2. t \notin Used  BY <2>1, NewAreNew DEF NewJobs
  <2>3. PICK c \in Callers : job = All(c) \/ job = Rest(c)  BY <2>1 DEF Joins
  <2>4. All(c) \in Used  BY <1>2, <2>3, StackedUsed DEF PoolInv, Nested
  <2>5. t = Stage(c, 1) \/ t = Stage(c, 2)  BY <2>1, <2>3, Halves
  <2>6. t[2] = c  BY <2>5, JobsAreApart, PoolAssumption DEF JobsDiffer, StageNo
  <2>7. QED  BY <1>3, <2>2, <2>4, <2>6, StackedUsed DEF Commits, Alone
<1>6. QED  BY <1>4, <1>5

\* While a worker is in the last stage of a build, only columns wait to be taken:
\* no other build uses the pool, and of this one everything has begun.
LEMMA OnlyPieces ==
    ASSUME PoolInv, NEW c \in Callers, Stage(c, 3) \in Stacked,
           NEW job \in CanWait, job \in Placed, job \notin Stacked
    PROVE  job \in Pieces
<1> DEFINE t == Stage(c, 3)
<1>1. \A x : x \in Placed => x \in Used /\ x \notin done  BY DEF Used, PoolInv, Apart, Placed
<1>2. t \in Used /\ t \notin done /\ job \in Used /\ job \notin done /\ job \notin Begun
  BY <1>1, StackedUsed DEF Begun
<1>3. Rest(c) \in Begun /\ Rest(c) \notin done
  BY <1>2 DEF PoolInv, Nested, Parent, StageNo
<1>4. All(c) \in Begun /\ All(c) \notin done  BY <1>3, StackedUsed DEF PoolInv, Nested
<1>5. mode[c] = "parallel"  BY <1>4, StackedUsed DEF PoolInv, Nested
<1>6. ASSUME NEW d \in Callers, All(d) \in Used, All(d) \notin done PROVE d = c
  BY <1>5, <1>6 DEF PoolInv, Nested, OneBuild
<1>7. ASSUME NEW d \in Callers, job = All(d) PROVE FALSE
  BY <1>2, <1>4, <1>6, <1>7
<1>8. ASSUME NEW d \in Callers, job = Rest(d) PROVE FALSE
  <2>1. All(d) \in Used /\ All(d) \notin done  BY <1>2, <1>8, StackedUsed DEF PoolInv, Nested
  <2>2. d = c  BY <1>6, <2>1
  <2>3. QED  BY <1>2, <1>3, <1>8, <2>2
<1>9. ASSUME NEW d \in Callers, job = Stage(d, 3) PROVE FALSE
  <2>1. Rest(d) \in Begun /\ Rest(d) \notin done
    BY <1>2, <1>9 DEF PoolInv, Nested, Parent, StageNo
  <2>2. All(d) \in Used /\ All(d) \notin done  BY <2>1, StackedUsed DEF PoolInv, Nested
  <2>3. d = c  BY <1>6, <2>2
  <2>4. QED  BY <1>9, <2>3
<1>10. QED  BY <1>7, <1>8, <1>9 DEF CanWait, Joins

\* A worker that waits inside a commitment takes a column.
LEMMA TakesAColumn ==
    ASSUME PoolInv, NEW w \in Workers, Waits(w),
           NEW i \in DOMAIN stack[w], stack[w][i] \in Stages, pc[stack[w][i]] = "commit",
           NEW job \in CanWait, job \in Placed, job \notin Stacked
    PROVE  job \in Pieces
<1> DEFINE s == stack[w]
           n == Len(s)
<1>1. <<"stack", w>> \in Places /\ Held(<<"stack", w>>) = s /\ IsSeq(s) /\ Apart
  <2>1. <<"stack", w>> \in Places /\ Held(<<"stack", w>>) = s /\ Apart
    BY PlacesHold DEF PoolInv
  <2>2. Holds(Held(<<"stack", w>>), Stay(<<"stack", w>>))  BY <2>1, StayHolds
  <2>3. Holds(s, Stay(<<"stack", w>>))  BY <2>1, <2>2
  <2> HIDE DEF s
  <2>4. IsSeq(s)  BY <2>3 DEF Holds
  <2>5. QED  BY <2>1, <2>4
<1>2. n \in Nat /\ DOMAIN s = 1..n /\ i \in 1..n  BY <1>1, IsSeqLen
<1>3. s # <<>>  BY <1>1, <1>2, LenZero
<1>4. Running(w) = s[n]  BY <1>3 DEF Running, Last
<1>5. n \in DOMAIN s  BY <1>2
<1>6. \A j \in DOMAIN s : s[j] \in Stay(<<"stack", w>>)  BY <1>1 DEF Stay, Range
<1>7. Stay(<<"stack", w>>) \subseteq Jobs /\ Stay(<<"stack", w>>) \subseteq Stacked
  BY <1>1 DEF Apart, Stacked, StackOf
<1>8. CASE i # n
  <2>1. i < n  BY <1>2, <1>8
  <2>2. s[n] \in Pieces  BY <1>5, <2>1 DEF PoolInv, NothingAbove
  <2>3. s[n] \in Jobs  BY <1>5, <1>6, <1>7
  <2>4. s[n] \notin Stages \cup Joins /\ s[n] # None  BY <2>2, <2>3, KindsOfJob, PoolAssumption
  <2>5. QED  BY <1>4, <2>4 DEF Waits
<1>9. CASE i = n
  <2> DEFINE t == s[n]
  <2>1. /\ t \in Stages /\ pc[t] = "commit" /\ t \notin Joins /\ t # None /\ t \in Stacked
    BY <1>5, <1>6, <1>7, <1>9, StageParts, PoolAssumption
  <2>2. ~(ColumnsOf(t) \subseteq done)  BY <1>4, <2>1 DEF Waits
  <2>3. t[3] = 3  BY <2>1, <2>2 DEF PoolInv, CommitsInPlace, SplitLast
  <2>4. t = Stage(t[2], 3) /\ t[2] \in Callers
    <3>1. t = Stage(t[2], t[3]) /\ t[2] \in Callers  BY <2>1, StageParts
    <3>2. QED  BY <2>3, <3>1
  <2> HIDE DEF t
  <2>5. Stage(t[2], 3) \in Stacked  BY <2>1, <2>4
  <2>6. QED  BY <2>4, <2>5, OnlyPieces
<1>10. QED  BY <1>8, <1>9

\* A worker enters a job that waited somewhere.
LEMMA EnterKeeps ==
    ASSUME PoolInv, NEW w \in Workers, Waits(w),
           NEW q \in Places, \A v \in Workers : q # <<"stack", v>>, NEW job \in Stay(q),
           NEW d, d = [v \in Workers |-> d[v]],
           \A v \in Workers : Holds(d[v], Stay(<<"deque", v>>) \ {job}),
           Holds(injector', Stay(<<"injector">>) \ {job}),
           Enter(w, job, d)
    PROVE  PoolInv'
<1>1. Apart /\ job \in Jobs /\ job \in Placed /\ job \in Used
  BY DEF PoolInv, Apart, Placed, Used
<1>2. job \in CanWait
  BY PlacesHold DEF PoolInv, OnlyWaiting
<1>3. job \notin Stacked
  <2>1. \A v \in Workers : job \notin StackOf(v)  BY <1>1, PlacesHold DEF Apart, StackOf
  <2>2. QED  BY <2>1 DEF Stacked
<1>4. NewJobs(job) \cap Used = {}  BY <1>1, <1>3, NewAreNew
<1>5. Enters(w, job)  BY <1>1, <1>4, EnterMoves
<1>6. /\ Apart' /\ done' = done /\ Used' = Used \cup NewJobs(job)
      /\ Stacked' = Stacked \cup OnEntry(job)
      /\ \A v \in Workers : Stay(<<"deque", v>>)' \subseteq Stay(<<"deque", v>>) \cup Pushed(job)
      /\ Stay(<<"injector">>)' \subseteq Stay(<<"injector">>)
      /\ stack'[w] = stack[w] \o Entered(job)
      /\ \A v \in Workers : v # w => stack'[v] = stack[v]
  BY <1>5 DEF Enters
<1>7. UNCHANGED <<mode, in_use>> /\ UNCHANGED pc  BY DEF Enter, allvars
<1>8. OneBuild'  BY <1>7 DEF PoolInv, OneBuild
<1>9. job \in Begun'  BY <1>6 DEF Begun, OnEntry
<1>10. Nested' /\ \A c \in Callers : Alone(c) => Alone(c)'
  <2>1. Nested /\ UNCHANGED mode /\ done \subseteq done' /\ Begun \subseteq Begun'
    BY <1>6, <1>7 DEF PoolInv, Begun
  <2>2. ASSUME NEW x \in NewJobs(job)
        PROVE  \E b \in Callers : \/ job = All(b) /\ (x = Stage(b, 1) \/ x = Rest(b))
                                  \/ job = Rest(b) /\ (x = Stage(b, 2) \/ x = Stage(b, 3))
    <3>1. job \in Joins /\ (x = FirstHalf(job) \/ x = SecondHalf(job))  BY <2>2 DEF NewJobs
    <3>2. PICK b \in Callers : job = All(b) \/ job = Rest(b)  BY <3>1 DEF Joins
    <3>3. QED  BY <3>1, <3>2, Halves
  <2>3. 1 \in StageNo /\ 2 \in StageNo /\ 3 \in StageNo /\ 1 \in 1..Columns
    BY PoolAssumption DEF StageNo
  <2>4. ASSUME NEW c \in Callers, All(c) \in NewJobs(job) PROVE FALSE
    <3>1. PICK b \in Callers : \/ job = All(b) /\ (All(c) = Stage(b, 1) \/ All(c) = Rest(b))
                               \/ job = Rest(b) /\ (All(c) = Stage(b, 2) \/ All(c) = Stage(b, 3))
      BY <2>2, <2>4
    <3>2. QED  BY <2>3, <3>1, JobsAreApart DEF JobsDiffer
  <2>5. ASSUME NEW c \in Callers, Rest(c) \in NewJobs(job) PROVE job = All(c)
    <3>1. PICK b \in Callers : \/ job = All(b) /\ (Rest(c) = Stage(b, 1) \/ Rest(c) = Rest(b))
                               \/ job = Rest(b) /\ (Rest(c) = Stage(b, 2) \/ Rest(c) = Stage(b, 3))
      BY <2>2, <2>5
    <3>2. QED  BY <2>3, <3>1, JobsAreApart DEF JobsDiffer
  <2>6. ASSUME NEW c \in Callers, NEW n \in StageNo, Stage(c, n) \in NewJobs(job)
        PROVE  job = Parent(c, n)
    <3>1. PICK b \in Callers : \/ job = All(b) /\ (Stage(c, n) = Stage(b, 1) \/ Stage(c, n) = Rest(b))
                               \/ job = Rest(b) /\ (Stage(c, n) = Stage(b, 2) \/ Stage(c, n) = Stage(b, 3))
      BY <2>2, <2>6
    <3>2. Stage(c, n) # Rest(b)  BY <2>3, JobsAreApart DEF JobsDiffer
    <3>3. CASE job = All(b)
      <4>1. Stage(c, n) = Stage(b, 1)  BY <2>3, <3>1, <3>2, <3>3, JobsAreApart DEF JobsDiffer
      <4>2. c = b /\ n = 1  BY <2>3, <4>1, JobsAreApart DEF JobsDiffer
      <4>3. QED  BY <3>3, <4>2 DEF Parent
    <3>4. CASE job # All(b)
      <4>1. Stage(c, n) = Stage(b, 2) \/ Stage(c, n) = Stage(b, 3)  BY <3>1, <3>4
      <4>2. c = b /\ (n = 2 \/ n = 3)  BY <2>3, <4>1, JobsAreApart DEF JobsDiffer
      <4>3. QED  BY <3>1, <3>4, <4>2 DEF Parent
    <3>5. QED  BY <3>3, <3>4
  <2>7. \A c \in Callers :
              /\ All(c) \in Used' => All(c) \in Used
              /\ Rest(c) \in Used' => Rest(c) \in Used \/ All(c) \in Begun'
              /\ All(c) \in done' => All(c) \in done \/ Rest(c) \in done'
              /\ Rest(c) \in done' => Rest(c) \in done \/ Stage(c, 3) \in done'
              /\ \A n \in StageNo : Stage(c, n) \in Used' =>
                    \/ Stage(c, n) \in Used \/ Parent(c, n) \in Begun'
                    \/ Stage(c, n) \in done' /\ Alone(c)
    BY <1>6, <1>9, <2>4, <2>5, <2>6
  <2>8. QED  BY <2>1, <2>7, NestedStays
<1>11. OnlyWaiting'
  <2>1. Pushed(job) \subseteq CanWait  BY HalvesOfJoin DEF Pushed
  <2>2. QED  BY <1>6, <2>1 DEF PoolInv, OnlyWaiting
<1>12. ASSUME NEW t \in Stages, t \in OnEntry(job) PROVE pc[t] # "commit" /\ t \notin Stacked
  BY <1>1, <1>3, <1>12, EnteredCalm
<1>13. ASSUME NEW t \in Stages PROVE FromCommit(t)' /\ Commits(t)' /\ SplitLast(t)'
  <2>1. FromCommit(t) /\ Commits(t) /\ SplitLast(t) /\ t[2] \in Callers
    BY StageParts DEF PoolInv, CommitsInPlace
  <2>2. NewJobs(job) \subseteq Jobs \ Pieces
    <3>1. ASSUME job \in Joins PROVE FirstHalf(job) \notin Pieces /\ SecondHalf(job) \notin Pieces
      <4>1. FirstHalf(job) \in Jobs /\ SecondHalf(job) \in Jobs  BY <3>1, HalvesOfJoin
      <4>2. FirstHalf(job) \in Stages  BY <3>1, HalvesOfJoin
      <4>3. SecondHalf(job) \in Stages \cup Joins
        <5>1. PICK b \in Callers : job = All(b) \/ job = Rest(b)  BY <3>1 DEF Joins
        <5>2. Rest(b) \in Joins /\ Stage(b, 3) \in Stages  BY DEF Joins, Stages, StageNo
        <5>3. QED  BY <5>1, <5>2, Halves
      <4>4. QED  BY <4>1, <4>2, <4>3, KindsOfJob
    <3>2. QED  BY <3>1, HalvesOfJoin DEF NewJobs
  <2>3. ColumnsOf(t) \subseteq Pieces  BY ColumnsHold
  <2>4. FromCommit(t)'  BY <1>6, <1>7, <2>1, <2>2, <2>3 DEF FromCommit
  <2>5. Commits(t)'  BY <1>6, <1>7, <1>10, <2>1 DEF Commits
  <2>6. SplitLast(t)'  BY <1>6, <1>7, <1>12, <2>1 DEF SplitLast
  <2>7. QED  BY <2>4, <2>5, <2>6
<1>14. CommitsInPlace'  BY <1>13 DEF CommitsInPlace
<1>15. NothingAbove'
  <2>1. SUFFICES ASSUME NEW v \in Workers, NEW i \in DOMAIN stack'[v], NEW j \in DOMAIN stack'[v],
                        i < j, stack'[v][i] \in Stages, pc[stack'[v][i]] = "commit"
                 PROVE  stack'[v][j] \in Pieces
    BY <1>7 DEF NothingAbove
  <2>2. CASE v # w
    <3>1. stack'[v] = stack[v]  BY <1>6, <2>2
    <3>2. QED  BY <2>1, <3>1 DEF PoolInv, NothingAbove
  <2>3. CASE v = w
    <3> DEFINE s == stack[w]
               e == Entered(job)
               n == Len(s)
               m == Len(e)
    <3>1. IsSeq(s) /\ IsSeq(e) /\ Range(e) = OnEntry(job)
      <4>1. <<"stack", w>> \in Places /\ Held(<<"stack", w>>) = s  BY PlacesHold
      <4>2. Holds(Held(<<"stack", w>>), Stay(<<"stack", w>>))  BY <1>1, <4>1, StayHolds
      <4>3. Holds(s, Stay(<<"stack", w>>)) /\ Holds(e, OnEntry(job))  BY <4>1, <4>2, EnteredHolds
      <4> HIDE DEF s, e
      <4>4. QED  BY <4>3 DEF Holds
    <3>2. /\ n \in Nat /\ m \in Nat /\ DOMAIN s = 1..n /\ DOMAIN e = 1..m  BY <3>1, IsSeqLen
    <3>3. /\ IsSeq(s \o e) /\ Len(s \o e) = n + m /\ \A k \in 1..n : (s \o e)[k] = s[k]
          /\ \A k \in 1..m : (s \o e)[n + k] = e[k]
      BY <3>1, ConcatSeq
    <3>4. stack'[v] = s \o e /\ DOMAIN (s \o e) = 1..(n + m)
      BY <1>6, <2>3, <3>3, IsSeqLen
    <3>5. \A k \in 1..m : e[k] \in OnEntry(job)  BY <3>1, <3>2 DEF Range
    <3>6. i \in 1..(n + m) /\ j \in 1..(n + m)  BY <3>4
    <3>7. stack'[v][i] = (s \o e)[i] /\ stack'[v][j] = (s \o e)[j]  BY <3>4
    <3> HIDE DEF n, m, e
    <3>8. \A k \in 1..(n + m) : k > n => (s \o e)[k] \in OnEntry(job)
      <4>1. ASSUME NEW k \in 1..(n + m), k > n PROVE (s \o e)[k] \in OnEntry(job)
        <5>1. k - n \in 1..m /\ n + (k - n) = k  BY <3>2, <4>1
        <5>2. (s \o e)[n + (k - n)] = e[k - n]  BY <3>3, <5>1
        <5>3. QED  BY <3>5, <5>1, <5>2
      <4>2. QED  BY <4>1
    <3>9. (s \o e)[i] \notin OnEntry(job)  BY <1>12, <2>1, <3>7
    <3>10. i \in 1..n
      <4>1. ~(i > n)  BY <3>6, <3>8, <3>9
      <4>2. QED  BY <3>2, <3>6, <4>1
    <3>11. s[i] = (s \o e)[i]  BY <3>3, <3>10
    <3>12. s[i] \in Stages /\ pc[s[i]] = "commit"  BY <2>1, <3>7, <3>11
    <3>13. CASE j \in 1..n
      <4>1. s[j] = (s \o e)[j]  BY <3>3, <3>13
      <4>2. s[j] \in Pieces  BY <2>1, <3>2, <3>10, <3>12, <3>13 DEF PoolInv, NothingAbove
      <4>3. QED  BY <3>7, <4>1, <4>2
    <3>14. CASE j \notin 1..n
      <4>1. j > n  BY <3>2, <3>6, <3>14
      <4>2. (s \o e)[j] \in OnEntry(job)  BY <3>6, <3>8, <4>1
      <4>3. i \in DOMAIN stack[w] /\ stack[w][i] \in Stages /\ pc[stack[w][i]] = "commit"
        BY <3>2, <3>10, <3>12
      <4>4. job \in Pieces  BY <1>1, <1>2, <1>3, <4>3, TakesAColumn
      <4>5. job \notin Joins  BY <1>1, <4>4, KindsOfJob
      <4>6. (s \o e)[j] = job  BY <4>2, <4>5 DEF OnEntry
      <4>7. QED  BY <3>7, <4>4, <4>6
    <3>15. QED  BY <3>13, <3>14
  <2>4. QED  BY <2>2, <2>3
<1>16. QED  BY <1>6, <1>8, <1>10, <1>11, <1>14, <1>15 DEF PoolInv

\* A worker takes a job: its own newest, another's oldest, or one from outside.
LEMMA TakeKeeps ==
    ASSUME PoolInv, NEW w \in Workers, TakeLocal(w) \/ Steal(w) \/ TakeInjected(w)
    PROVE  PoolInv'
<1>1. Apart /\ deque = [v \in Workers |-> deque[v]] /\ Waits(w)
  BY DEF PoolInv, Apart, TakeLocal, Steal, TakeInjected
<1>2. \A v \in Workers : Holds(deque[v], Stay(<<"deque", v>>))
  <2>1. ASSUME NEW v \in Workers PROVE Holds(deque[v], Stay(<<"deque", v>>))
    <3>1. <<"deque", v>> \in Places /\ Held(<<"deque", v>>) = deque[v]  BY PlacesHold
    <3>2. Holds(Held(<<"deque", v>>), Stay(<<"deque", v>>))  BY <1>1, <3>1, StayHolds
    <3>3. QED  BY <3>1, <3>2
  <2>2. QED  BY <2>1
<1>3. Holds(injector, Stay(<<"injector">>))
  <2>1. <<"injector">> \in Places /\ Held(<<"injector">>) = injector  BY PlacesHold
  <2>2. Holds(Held(<<"injector">>), Stay(<<"injector">>))  BY <1>1, <2>1, StayHolds
  <2>3. QED  BY <2>1, <2>2
<1>4. ASSUME NEW v \in Workers, NEW job \in Stay(<<"deque", v>>), NEW rest,
             Holds(rest, Stay(<<"deque", v>>) \ {job}), injector' = injector,
             Enter(w, job, [deque EXCEPT ![v] = rest])
      PROVE  PoolInv'
  <2> DEFINE d == [deque EXCEPT ![v] = rest]
             q == <<"deque", v>>
  <2>1. q \in Places /\ \A u \in Workers : q # <<"stack", u>>  BY PlacesHold
  <2>2. d = [u \in Workers |-> d[u]] /\ d[v] = rest /\ \A u \in Workers : u # v => d[u] = deque[u]
    BY <1>1
  <2>3. \A u \in Workers : Holds(d[u], Stay(<<"deque", u>>) \ {job})
    <3>1. ASSUME NEW u \in Workers, u # v PROVE Stay(<<"deque", u>>) \ {job} = Stay(<<"deque", u>>)
      <4>1. <<"deque", u>> \in Places /\ <<"deque", u>> # q  BY <3>1, PlacesHold
      <4>2. job \notin Stay(<<"deque", u>>)  BY <1>1, <1>4, <2>1, <4>1 DEF Apart
      <4>3. QED  BY <4>2
    <3>2. ASSUME NEW u \in Workers, u # v PROVE Holds(d[u], Stay(<<"deque", u>>) \ {job})
      <4>1. d[u] = deque[u]  BY <2>2, <3>2
      <4>2. QED  BY <1>2, <3>1, <3>2, <4>1
    <3>3. Holds(d[v], Stay(<<"deque", v>>) \ {job})  BY <1>4, <2>2
    <3>4. QED  BY <3>2, <3>3
  <2>4. Holds(injector', Stay(<<"injector">>) \ {job})
    <3>1. <<"injector">> \in Places /\ <<"injector">> # q  BY PlacesHold
    <3>2. job \notin Stay(<<"injector">>)  BY <1>1, <1>4, <2>1, <3>1 DEF Apart
    <3>3. Stay(<<"injector">>) \ {job} = Stay(<<"injector">>)  BY <3>2
    <3>4. QED  BY <1>3, <1>4, <3>3
  <2>5. Enter(w, job, d) /\ job \in Stay(q)  BY <1>4
  <2> HIDE DEF d, q
  <2>6. QED  BY <1>1, <2>1, <2>2, <2>3, <2>4, <2>5, EnterKeeps
<1>5. CASE TakeLocal(w)
  <2> DEFINE s == deque[w]
             S == Stay(<<"deque", w>>)
  <2>1. Holds(s, S) /\ s # <<>>  BY <1>2, <1>5 DEF TakeLocal
  <2>2. Last(s) \in S /\ Holds(Front(s), S \ {Last(s)})
    <3> HIDE DEF s, S
    <3>1. QED  BY <2>1, FrontHolds
  <2>3. Enter(w, Last(deque[w]), [deque EXCEPT ![w] = Front(deque[w])]) /\ injector' = injector
    BY <1>1, <1>5 DEF TakeLocal
  <2>4. QED  BY <1>4, <2>2, <2>3
<1>6. CASE Steal(w)
  <2>1. PICK v \in Workers \ {w} :
          /\ deque[v] # <<>>
          /\ Enter(w, Head(deque[v]), [deque EXCEPT ![v] = Tail(@)])
    BY <1>6 DEF Steal
  <2> DEFINE s == deque[v]
             S == Stay(<<"deque", v>>)
  <2>2. Holds(s, S) /\ s # <<>>  BY <1>2, <2>1
  <2>3. Head(s) \in S /\ Holds(Tail(s), S \ {Head(s)})
    <3> HIDE DEF s, S
    <3>1. QED  BY <2>2, TailHolds
  <2>4. Enter(w, Head(deque[v]), [deque EXCEPT ![v] = Tail(deque[v])]) /\ injector' = injector
    BY <1>1, <1>6, <2>1 DEF Steal
  <2>5. QED  BY <1>4, <2>3, <2>4
<1>7. CASE TakeInjected(w)
  <2> DEFINE S == Stay(<<"injector">>)
             job == Head(injector)
             q == <<"injector">>
  <2>1. Holds(injector, S) /\ injector # <<>>  BY <1>3, <1>7 DEF TakeInjected
  <2>2. job \in S /\ Holds(Tail(injector), S \ {job})
    <3> HIDE DEF S
    <3>1. QED  BY <2>1, TailHolds
  <2>3. Enter(w, job, deque) /\ injector' = Tail(injector)  BY <1>7 DEF TakeInjected
  <2>4. q \in Places /\ \A u \in Workers : q # <<"stack", u>> /\ <<"deque", u>> \in Places /\ q # <<"deque", u>>
    BY PlacesHold
  <2>5. \A u \in Workers : Holds(deque[u], Stay(<<"deque", u>>) \ {job})
    <3>1. ASSUME NEW u \in Workers PROVE Holds(deque[u], Stay(<<"deque", u>>) \ {job})
      <4>1. job \notin Stay(<<"deque", u>>)  BY <1>1, <2>2, <2>4 DEF Apart
      <4>2. Stay(<<"deque", u>>) \ {job} = Stay(<<"deque", u>>)  BY <4>1
      <4>3. QED  BY <1>2, <4>2
    <3>2. QED  BY <3>1
  <2>6. Holds(injector', Stay(<<"injector">>) \ {job})  BY <2>2, <2>3
  <2>7. job \in Stay(q)  BY <2>2
  <2> HIDE DEF job, q
  <2>8. QED  BY <1>1, <2>3, <2>4, <2>5, <2>6, <2>7, EnterKeeps
<1>8. QED  BY <1>5, <1>6, <1>7

-----------------------------------------------------------------------------
(* The theorems.                                                           *)

\* At first nothing runs and nothing waits.
LEMMA InitPInv == PInit => PInv
<1> SUFFICES ASSUME PInit PROVE PInv
  OBVIOUS
<1>1. /\ CInit /\ mode = [c \in Callers |-> "idle"] /\ in_use = FALSE
      /\ stack = [w \in Workers |-> <<>>] /\ deque = [w \in Workers |-> <<>>]
      /\ injector = <<>> /\ done = {}
  BY DEF PInit
<1>2. CInv  BY <1>1, InitCInv
<1>3. Lookups /\ LoadedPrepared
  BY <1>1, StagesAreThreads DEF CInit, Init, Lookups, StageLookup, LoadedPrepared, Registered
<1>4. ASSUME NEW p \in Places PROVE Held(p) = <<>> /\ Stay(p) = {}
  <2>1. Held(p) = <<>>
    <3>1. CASE p = <<"injector">>  BY <1>1, <3>1, PlacesHold
    <3>2. ASSUME NEW v \in Workers, p = <<"stack", v>> PROVE Held(p) = <<>>
      BY <1>1, <3>2, PlacesHold
    <3>3. ASSUME NEW v \in Workers, p = <<"deque", v>> PROVE Held(p) = <<>>
      BY <1>1, <3>3, PlacesHold
    <3>4. QED  BY <3>1, <3>2, <3>3, PlacesHold
  <2>2. QED  BY <2>1, EmptyIsSeq DEF Stay, Range
<1>5. Placed = {} /\ Used = {}
  <2>1. Placed = {}  BY <1>4 DEF Placed
  <2>2. QED  BY <1>1, <2>1 DEF Used
<1>6. Apart
  <2>1. \A p \in Places : IsSeq(Held(p)) /\ IsInjective(Held(p))
    BY <1>4, EmptyIsSeq DEF IsInjective
  <2>2. QED  BY <1>1, <1>4, <2>1 DEF Apart
<1>7. OneBuild  BY <1>1 DEF OneBuild
<1>8. Nested  BY <1>1, <1>5 DEF Nested, Used
<1>9. OnlyWaiting  BY <1>4, PlacesHold DEF OnlyWaiting
<1>10. \A t \in Stages : pc[t] = "idle"  BY <1>1, StagesAreThreads DEF CInit, Init
<1>11. CommitsInPlace  BY <1>5, <1>10 DEF CommitsInPlace, FromCommit, Commits, SplitLast
<1>12. NothingAbove  BY <1>1, EmptyIsSeq DEF NothingAbove
<1>13. QED  BY <1>2, <1>3, <1>6, <1>7, <1>8, <1>9, <1>11, <1>12 DEF PInv, PoolInv

\* Every step keeps the invariant.
LEMMA NextPInv == PInv /\ [PNext]_phvars => PInv'
<1> SUFFICES ASSUME PInv, [PNext]_phvars PROVE PInv'
  OBVIOUS
<1>1. CInv'  BY PStepIsCStep, NextCInv DEF PInv
<1>2. PoolInv  BY DEF PInv
<1>3. ASSUME UNCHANGED allvars PROVE Lookups' /\ LoadedPrepared'
  <2>1. UNCHANGED <<registry, pc, key, step, goal, committer, refused>>  BY <1>3 DEF allvars
  <2>2. QED  BY <2>1 DEF PInv, Lookups, StageLookup, LoadedPrepared, Registered
<1>4. CASE UNCHANGED phvars
  <2>1. UNCHANGED allvars /\ UNCHANGED poolvars /\ UNCHANGED pc  BY <1>4 DEF phvars, allvars, poolvars
  <2>2. PoolInv'  BY <1>2, <2>1, QuietKeeps
  <2>3. QED  BY <1>1, <1>3, <2>1, <2>2 DEF PInv
<1>5. ASSUME NEW c \in Callers, Build(c) PROVE PInv'
  <2>1. UNCHANGED allvars  BY <1>5 DEF Build, BuildParallel, BuildSerial, BuildReturns
  <2>2. PoolInv'  BY <1>2, <1>5, BuildParallelKeeps, BuildKeeps DEF Build
  <2>3. QED  BY <1>1, <1>3, <2>1, <2>2 DEF PInv
<1>6. ASSUME NEW t \in Others, CallSetUp(t) \/ SetUp(t) PROVE PInv'
  <2>1. Lookups' /\ LoadedPrepared' /\ \A u \in Stages : pc'[u] = pc[u]  BY <1>6, SetUpKeeps
  <2>2. UNCHANGED poolvars  BY <1>6 DEF CallSetUp, SetUp
  <2>3. PoolInv'  BY <1>2, <2>1, <2>2, QuietKeeps
  <2>4. QED  BY <1>1, <2>1, <2>3 DEF PInv
<1>7. ASSUME NEW t \in Stages, InStage(t) PROVE PInv'
  <2>1. CASE LookUp(t) \/ InCall(t)
    <3>1. OnlyThread(t) /\ Lookups' /\ LoadedPrepared' /\ pc[t] # "commit" /\ pc'[t] # "commit"
      BY <2>1, LookUpKeeps, InCallKeeps
    <3>2. \A u \in Stages : pc'[u] = "commit" <=> pc[u] = "commit"
      BY <3>1, StagesAreThreads DEF OnlyThread
    <3>3. UNCHANGED poolvars  BY <2>1 DEF LookUp, InCall
    <3>4. PoolInv'  BY <1>2, <3>2, <3>3, QuietKeeps
    <3>5. QED  BY <1>1, <3>1, <3>4 DEF PInv
  <2>2. CASE Commit(t)
    <3>1. Lookups' /\ LoadedPrepared'  BY <2>2, CommitKeeps
    <3>2. PoolInv'  BY <2>2, CommitPoolKeeps
    <3>3. QED  BY <1>1, <3>1, <3>2 DEF PInv
  <2>3. CASE StageReturns(t)
    <3>1. Lookups' /\ LoadedPrepared'  BY <2>3, StageReturnsKeeps
    <3>2. PoolInv'  BY <2>3, StageReturnsPoolKeeps
    <3>3. QED  BY <1>1, <3>1, <3>2 DEF PInv
  <2>4. QED  BY <1>7, <2>1, <2>2, <2>3 DEF InStage
<1>8. ASSUME NEW w \in Workers, Work(w) PROVE PInv'
  <2>1. UNCHANGED allvars  BY <1>8 DEF Work, TakeLocal, Steal, TakeInjected, JobReturns, Enter
  <2>2. PoolInv'  BY <1>2, <1>8, TakeKeeps, JobReturnsKeeps DEF Work
  <2>3. QED  BY <1>1, <1>3, <2>1, <2>2 DEF PInv
<1>9. QED  BY <1>4, <1>5, <1>6, <1>7, <1>8 DEF PNext

\* The inductive invariant of the pool and the look-ups in it.
THEOREM PoolInvariance == PSpec => []PInv
<1>1. QED  BY InitPInv, NextPInv, PTL DEF PSpec

\* Building claims looks committers up as PpCommitter says, whatever thread of the
\* pool a stage runs on, so what is proved of the look-ups holds of the builds.
THEOREM BuildsUseLookups == PSpec => CSpec
<1>1. PInit => CInit  BY DEF PInit
<1>2. QED  BY <1>1, PStepIsCStep, PoolInvariance, PTL DEF PSpec, CSpec

\* Every job is in one place, once, and not done, for any number of callers,
\* workers and columns.
THEOREM PoolTyped == PSpec => []PTypeOK
<1>1. ASSUME PInv PROVE PTypeOK
  <2>1. PoolInv /\ Apart /\ OneBuild  BY <1>1 DEF PInv, PoolInv
  <2>2. ASSUME NEW p \in Places, NEW q \in Places, NEW i \in DOMAIN Held(p), NEW j \in DOMAIN Held(q)
        PROVE  Held(p)[i] \in Jobs \ done /\ (Held(p)[i] = Held(q)[j] => p = q /\ i = j)
    <3>1. Held(p)[i] \in Stay(p) /\ Held(q)[j] \in Stay(q)  BY DEF Stay, Range
    <3>2. Held(p)[i] \in Jobs \ done  BY <2>1, <3>1 DEF Apart
    <3>3. Held(p)[i] = Held(q)[j] => p = q  BY <2>1, <3>1 DEF Apart
    <3>4. p = q /\ Held(p)[i] = Held(q)[j] => i = j  BY <2>1 DEF Apart, IsInjective
    <3>5. QED  BY <3>2, <3>3, <3>4
  <2>3. QED  BY <2>1, <2>2 DEF PTypeOK, OneBuild
<1>2. QED  BY <1>1, PoolInvariance, PTL

\* A worker that waits inside a commitment, under the registry's read guard, takes
\* no stage on, for any number of callers, workers and columns: the pool check of
\* commit_row_major_seeded_many and the single build of the pool suffice.
THEOREM StagesStayOffGuards == PSpec => []NoStageUnderOwnGuard
<1>1. ASSUME PInv PROVE NoStageUnderOwnGuard
  <2>1. SUFFICES ASSUME NEW w \in Workers, NEW i \in DOMAIN stack[w], NEW j \in DOMAIN stack[w],
                        i < j, stack[w][i] \in Stages, pc[stack[w][i]] = "commit"
                 PROVE  stack[w][j] \notin Stages
    BY DEF NoStageUnderOwnGuard
  <2>2. PoolInv /\ Apart  BY <1>1 DEF PInv, PoolInv
  <2>3. stack[w][j] \in Pieces  BY <2>1, <2>2 DEF PoolInv, NothingAbove
  <2>4. stack[w][j] \in Jobs  BY <2>3, ColumnsHold DEF Pieces
  <2>5. QED  BY <2>3, <2>4, KindsOfJob
<1>2. QED  BY <1>1, PoolInvariance, PTL
=============================================================================
