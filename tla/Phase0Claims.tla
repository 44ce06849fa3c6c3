------------------------------ MODULE Phase0Claims ------------------------------
(***************************************************************************)
(* Building the phase-0 claims (rv64im/kernel/openings/                    *)
(* eval_claim_witness.rs) by several threads of a process at once.  One of *)
(* them may use rayon's pool for its three stages; the others build theirs *)
(* one after another, and use the pool for the columns of a commitment.    *)
(* Each stage looks a committer up and commits, and a commitment keeps the *)
(* registry's read guard until its columns are done.                       *)
(*                                                                         *)
(* A thread of the registry is here a stage of a caller, which runs on the *)
(* worker on whose stack it is on top or on the caller itself, or a thread *)
(* that registers parameters before the first build.                       *)
(***************************************************************************)
EXTENDS PpCommitter, Sequences, SequencesExt

CONSTANTS Callers,  \* threads outside the pool
          Workers,  \* the pool's threads
          Others,   \* threads of the process that set parameters up
          Prepared, \* the keys they set up
          Columns   \* how many jobs a commitment splits into

StageNo == 1..3

\* The jobs of the pool: the outer join of a caller, the second half of it (the
\* inner join), a stage, and a piece of a commitment.
All(c)         == <<"all", c>>
Rest(c)        == <<"rest", c>>
Stage(c, n)    == <<"stage", c, n>>
Column(t, i)   == <<"column", t[2], t[3], i>>

Stages    == {Stage(c, n) : c \in Callers, n \in StageNo}
ColumnsOf(t) == {Column(t, i) : i \in 1..Columns}
Joins     == {All(c) : c \in Callers} \cup {Rest(c) : c \in Callers}
Jobs      == Joins \cup Stages \cup UNION {ColumnsOf(t) : t \in Stages}

ASSUME PoolAssumption ==
    /\ Columns \in Nat \ {0}
    /\ Prepared \subseteq Keys
    /\ Threads = Stages \cup Others /\ Stages \cap Others = {}
    /\ None \notin Jobs

CONSTANT GoalOf(_)  \* the key and seeding that a stage's committer needs

\* Of the keys that are set up, only the last stage's may be a stage's.
ASSUME PreparedAreThird == \A t \in Stages : GoalOf(t).key \in Prepared => t[3] = 3

VARIABLES mode,     \* mode[c]: how caller c builds its claims
          in_use,   \* PHASE0_PARALLEL_CLAIM_BUILD_IN_USE
          stack,    \* stack[w]: the jobs worker w is in, the running one last
          deque,    \* deque[w]: the jobs w pushed, nobody having taken them yet
          injector, \* jobs pushed from outside the pool
          done      \* the jobs that have finished

poolvars == <<mode, in_use, stack, deque, injector, done>>
phvars   == <<registry, pc, key, want, result, got, served, sure, step, goal, committer, refused,
              mode, in_use, stack, deque, injector, done>>

------------------------------------------------------------------------------
(* Which stage runs where.                                                 *)
Running(w) == IF stack[w] = <<>> THEN None ELSE Last(stack[w])

OnWorker(t) == \E w \in Workers : Running(w) = t

Succeeded(t) == t \in done /\ ~refused[t]

\* On its caller: the stages in order, the next one after the last one succeeded.
OnCaller(t) == /\ mode[t[2]] = "serial"
               /\ \A n \in 1..(t[3] - 1) : Succeeded(Stage(t[2], n))

Runs(t) == t \notin done /\ (OnWorker(t) \/ OnCaller(t))

\* commit_row_major_seeded_many splits only outside the pool; a commitment with
\* a materialised matrix splits anywhere.
AllowParallel_anywhere(t) == TRUE

AllowParallel(t) == OnCaller(t) \/ registry[key'[t]].pp # None

------------------------------------------------------------------------------
(* try_acquire_parallel_phase0_claim_build, and the guard's release.       *)
BuildParallel(c) ==
    /\ mode[c] = "idle" /\ ~in_use
    /\ mode' = [mode EXCEPT ![c] = "parallel"]
    /\ in_use' = TRUE
    /\ injector' = Append(injector, All(c))
    /\ UNCHANGED <<stack, deque, done>> /\ UNCHANGED allvars

BuildSerial(c) ==
    /\ mode[c] = "idle" /\ in_use
    /\ mode' = [mode EXCEPT ![c] = "serial"]
    /\ UNCHANGED <<in_use, stack, deque, injector, done>> /\ UNCHANGED allvars

\* The serial build ends with the last stage, or with the first that failed.
AtEnd(c) ==
    \/ mode[c] = "parallel" /\ All(c) \in done
    \/ /\ mode[c] = "serial"
       /\ \/ \A n \in StageNo : Succeeded(Stage(c, n))
          \/ \E n \in StageNo : Stage(c, n) \in done /\ refused[Stage(c, n)]

BuildReturns_keeps(c) ==
    /\ AtEnd(c)
    /\ mode' = [mode EXCEPT ![c] = "returned"]
    /\ UNCHANGED <<in_use, stack, deque, injector, done>> /\ UNCHANGED allvars

BuildReturns(c) ==
    /\ AtEnd(c)
    /\ mode' = [mode EXCEPT ![c] = "returned"]
    /\ in_use' = IF mode[c] = "parallel" THEN FALSE ELSE in_use
    /\ UNCHANGED <<stack, deque, injector, done>> /\ UNCHANGED allvars

------------------------------------------------------------------------------
(* Another part of the program sets parameters up before the first build.  *)
CallSetUp(t) ==
    /\ t \in Others
    /\ \A c \in Callers : mode[c] = "idle"
    /\ result[t] = "none"
    /\ CallSetGlobalPp(t) \/ CallSetGlobalPpSeeded(t)
    /\ key'[t] \in Prepared
    /\ UNCHANGED cvars /\ UNCHANGED poolvars

SetUp(t) ==
    /\ t \in Others
    /\ SetGlobalPp(t) \/ SetGlobalPpSeeded(t)
    /\ UNCHANGED cvars /\ UNCHANGED poolvars

------------------------------------------------------------------------------
(* The steps of a stage: phase0_family_committer, then commit_many.        *)
Fresh(t) == step[t] = "off" /\ committer[t] = None /\ ~refused[t]

LookUp(t) ==
    /\ Runs(t)
    /\ \/ Fresh(t) /\ EnsureHas(t) /\ goal'[t] = GoalOf(t)
       \/ EnsureParams(t) \/ EnsureLoaded(t) \/ EnsureRegister(t) \/ EnsureRegistered(t)
       \/ EnsureModule(t)
    /\ UNCHANGED poolvars

\* The registry calls of the look-up that wait.  Only an entry without a seed is
\* loaded, and its matrix is always there.
InCall(t) ==
    /\ Runs(t)
    /\ SetGlobalPpSeeded(t) \/ GetFast(t)
    /\ UNCHANGED cvars /\ UNCHANGED poolvars

\* Push the columns: on the worker's own deque, or from outside the pool.
Split(t) ==
    LET columns == [i \in 1..Columns |-> Column(t, i)]
    IN  IF OnCaller(t)
        THEN injector' = injector \o columns /\ UNCHANGED deque
        ELSE /\ \E w \in Workers : Running(w) = t /\ deque' = [deque EXCEPT ![w] = @ \o columns]
             /\ UNCHANGED injector

Commit(t) ==
    /\ Runs(t) /\ committer[t] # None /\ pc[t] = "idle"
    /\ CommitBegin(t) /\ key'[t] = committer[t].key
    /\ IF AllowParallel(t) THEN Split(t) /\ UNCHANGED done
       ELSE /\ done' = done \cup ColumnsOf(t)
            /\ UNCHANGED <<injector, deque>>
    /\ UNCHANGED cvars /\ UNCHANGED <<mode, in_use, stack>>

\* The stage returns: with its claims, or because its look-up was refused.
Pop(w) == stack' = [stack EXCEPT ![w] = Front(@)]

LeaveStage(t) ==
    /\ done' = done \cup {t}
    /\ IF OnWorker(t) THEN \E w \in Workers : Running(w) = t /\ Pop(w) ELSE UNCHANGED stack
    /\ UNCHANGED <<mode, in_use, deque, injector>>

StageReturns(t) ==
    /\ Runs(t)
    /\ \/ ColumnsOf(t) \subseteq done /\ CommitEnd(t) /\ UNCHANGED cvars
       \/ refused[t] /\ UNCHANGED allvars
    /\ LeaveStage(t)

------------------------------------------------------------------------------
(* rayon's pool.  A join pushes its second half, runs the first one, and   *)
(* then takes jobs until the second half is done: its own newest first,    *)
(* then another worker's oldest, then one from outside.  A worker that     *)
(* waits for the columns of its commitment takes jobs too.                 *)
FirstHalf(job)  == IF job[1] = "all" THEN Stage(job[2], 1) ELSE Stage(job[2], 2)
SecondHalf(job) == IF job[1] = "all" THEN Rest(job[2]) ELSE Stage(job[2], 3)

Entered(job) == IF job \in Joins THEN <<job, FirstHalf(job)>> ELSE <<job>>

Waits(w) == LET job == Running(w)
            IN  \/ job = None
                \/ job \in Joins /\ SecondHalf(job) \notin done
                \/ job \in Stages /\ pc[job] = "commit" /\ ~(ColumnsOf(job) \subseteq done)

\* w takes a job off the deques d.
Enter(w, job, d) ==
    /\ stack' = [stack EXCEPT ![w] = @ \o Entered(job)]
    /\ deque' = IF job \in Joins THEN [d EXCEPT ![w] = Append(@, SecondHalf(job))] ELSE d
    /\ UNCHANGED <<mode, in_use, done>> /\ UNCHANGED allvars

TakeLocal(w) ==
    /\ Waits(w) /\ deque[w] # <<>>
    /\ Enter(w, Last(deque[w]), [deque EXCEPT ![w] = Front(@)])
    /\ UNCHANGED injector

Steal(w) ==
    /\ Waits(w) /\ deque[w] = <<>>
    /\ \E v \in Workers \ {w} :
          /\ deque[v] # <<>>
          /\ Enter(w, Head(deque[v]), [deque EXCEPT ![v] = Tail(@)])
    /\ UNCHANGED injector

TakeInjected(w) ==
    /\ Waits(w) /\ \A v \in Workers : deque[v] = <<>>
    /\ injector # <<>>
    /\ Enter(w, Head(injector), deque)
    /\ injector' = Tail(injector)

\* A column is computed; a join whose halves are done returns.
JobReturns(w) ==
    LET job == Running(w)
    IN  /\ job # None
        /\ \/ job \notin Stages \cup Joins
           \/ job \in Joins /\ SecondHalf(job) \in done
        /\ done' = done \cup {job}
        /\ Pop(w)
        /\ UNCHANGED <<mode, in_use, deque, injector>> /\ UNCHANGED allvars

------------------------------------------------------------------------------
PInit == /\ CInit
         /\ mode = [c \in Callers |-> "idle"]
         /\ in_use = FALSE
         /\ stack = [w \in Workers |-> <<>>]
         /\ deque = [w \in Workers |-> <<>>]
         /\ injector = <<>>
         /\ done = {}

Build(c) == BuildParallel(c) \/ BuildSerial(c) \/ BuildReturns(c)

InStage(t) == LookUp(t) \/ InCall(t) \/ Commit(t) \/ StageReturns(t)

Work(w) == TakeLocal(w) \/ Steal(w) \/ TakeInjected(w) \/ JobReturns(w)

PNext == \/ \E c \in Callers : Build(c)
         \/ \E t \in Others : CallSetUp(t) \/ SetUp(t)
         \/ \E t \in Stages : InStage(t)
         \/ \E w \in Workers : Work(w)

PSpec == PInit /\ [][PNext]_phvars

------------------------------------------------------------------------------
(* Properties.                                                             *)
\* Where a job is that is not done.
Places == ({"stack", "deque"} \X Workers) \cup {<<"injector">>}

Held(p) == CASE p[1] = "stack" -> stack[p[2]]
             [] p[1] = "deque" -> deque[p[2]]
             [] p[1] = "injector" -> injector

\* A job is waiting, running or done, and that once.
PTypeOK ==
    /\ mode \in [Callers -> {"idle", "parallel", "serial", "returned"}]
    /\ in_use = \E c \in Callers : mode[c] = "parallel"
    /\ \A p, q \in Places : \A i \in DOMAIN Held(p), j \in DOMAIN Held(q) :
          /\ Held(p)[i] \in Jobs \ done
          /\ Held(p)[i] = Held(q)[j] => p = q /\ i = j

\* A worker that waits inside a commitment, under the registry's read guard, does
\* not take on a stage that would ask for the same lock (the pool check of
\* commit_row_major_seeded_many).
NoStageUnderOwnGuard ==
    \A w \in Workers : \A i, j \in DOMAIN stack[w] :
        i < j /\ stack[w][i] \in Stages /\ pc[stack[w][i]] = "commit" => stack[w][j] \notin Stages

\* The builders of a process never all wait for each other: as long as a build
\* has not returned, some thread can go on.
BuildsNeverStuck == (\A c \in Callers : mode[c] = "returned") \/ ENABLED PNext
==============================================================================
