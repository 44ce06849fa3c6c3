# Nightstream: TLA+ specifications

Specifications of the parts of Nightstream (a Rust prover for RV64IM and CHIP-8
programs built on lattice folding) whose correctness depends on *order*, on
*state* and on *two pieces of code computing the same thing*: shared
process-wide state, the passage of a program through the front end, the protocol
between prover and verifier, and the engine that reduces, mixes and splits
claims, in two versions of which one is fast and the other is the paper. That a
protocol is *sound* (that false claims are caught except with small probability)
is a statement about probabilities over a 64-bit field and out of a model
checker's reach. That the code computes what the protocol says is not: the
engine's arithmetic is modelled over a small prime and a ring of small dimension.

## 1. Inventory of the system

| Part | State | Operations | Interaction | What makes it correct |
|---|---|---|---|---|
| **Ajtai registry** `neo-ajtai/src/s_module.rs` | one process-global `RwLock<HashMap<(d,m), {kappa, seed, pp}>>` | register a sampled matrix, register a seed, unload, load on demand, commit | every prover thread, every subsystem | one matrix per key for the life of the process, whatever is loaded, unloaded or raced |
| **Committer look-ups** (five subsystems of `neo-fold-next`) | the `AjtaiSModule` each one holds | look up, compare or register, load, construct | several registry calls with no lock across them | the committer obtained is the one asked for; agreeing subsystems do not fail each other |
| **Worker pool under commitments** `neo-ajtai/src/commit.rs`, `eval_claim_witness.rs`, `simple.rs` | rayon's deques, the registry's read guard, the `IN_USE` flag | build claims in parallel or in turn, split a commitment into columns | a waiting worker runs other work | no worker waits for itself, no two builds for each other |
| **RV64IM execution** `rv64im/execute.rs`, `isa.rs`, `builder.rs` | pc, 32 registers, sparse memory, halted | one step per instruction, bounded by `max_steps` | input of lowering | RISC-V semantics; errors leave no partial trace |
| **RV64IM lowering** `rv64im/lower.rs`, `trace_expand/` | rows; 8 scratch registers per step | one row, or a sequence with hints, per step | its rows are all that the verifier sees | the rows compute what the step did, for every aliasing of registers |
| **Stage checks** `rv64im/stage1..3` | register, memory and pc timelines | recompute a sequence; replay events; chain pcs | prover's summaries, verifier's replays | honest traces accepted; the rows alone determine the machine |
| **Fold sessions** `run.rs`, `prover.rs`, `verifier.rs`, `chunk_relation.rs`, `finalize.rs` | transcript, carried claims and witnesses, chunk schedule | prove/verify a run or its chunks, package, verify packaged, replay | steps and schedule from the front ends; one chunk is Π_CCS, Π_RLC, Π_DEC | prover, verifier and replayer walk the same schedule and absorb the same items; what is accepted is what was proved |
| **Kernel openings and packaging** `rv64im/kernel/` | process caches (`OnceLock`, `Mutex`), scoped threads | build claims, pack, verify staged proofs | registry, transcript | cached artefacts equal what would be rebuilt |
| **CHIP-8 front end and kernel** `chip8/` | as RV64IM, smaller | as RV64IM | registry, fold sessions | as RV64IM |
| **Decider, Spartan2** `decider/`, `crates/spartan2` | none | wrap a final claim in a SNARK | vendored library | algebraic |
| **Nightstream surfaces** `nightstream/` | one cache of binding-shell keys | package public surfaces | decider | digests bind what they name |
| **Midnight bridge** `nstream-midnight-bridge` | a spawned proof server | submit, poll | external process | every request answered once |
| **Reductions** `neo-reductions` | the transcript; two oracles whose tables every challenge folds | reduce claims to one point (two sum-checks), mix, split, verify each | called once per chunk by prover and verifier | the optimized oracles are the paper's polynomials; honest claims pass, what passes is true or lucky |
| **Ajtai arithmetic** `neo-ajtai/src/commit.rs` | none | commit, mix, recombine | reductions, claim builds | homomorphic under ring multiplication |
| **Algebra crates** `neo-math`, `neo-ccs`, `neo-params`, `neo-abba` | an interpolation-plan cache | ring product, bar transform, digits, constraint systems | everything | shortcuts (Karatsuba, lazy reduction, bar transform) equal their definitions |
| **Transcript** `neo-transcript` | a sponge: lanes and how many are filled | absorb elements, slices, bytes; challenge; digest; fork | prover and verifier | how data is cut is invisible, which calls were made is not |
| **Lean development** `formal/` | - | - | - | not a program |

The behaviours that are hard here: registry calls of different threads between
two calls of one thread; a derivation that runs without the lock and publishes
afterwards; scratch state that must not outlive one instruction; register
aliasing inside expanded instructions; arithmetic at the ends of two widths;
prover, verifier and replayer code that must append the same items in the same
order, in three files; a session that is stored and read back damaged; kernels
for special digit bases beside the general one; two lists that must stay in step
over many chunks; norm bounds at their edge. `PROJECT.json` lists them one
by one, with the line where each bites and the properties that cover it.

## 2. Modules

    WriteOncePp        what the registry promises: a write-once cell per key
      ^ implements
    AjtaiRegistry      the registry under its RwLock, threads calling it
      ^ extended by    MCAjtaiRegistry, MCAjtaiWorkload  (TLC)
    PpCommitter        the look-ups of the five subsystems, composed with it
      ^                MCPpCommitter  (TLC)
    Phase0Claims       builders of claims on rayon's workers, on top of it
                       Phase0Proof  (theorems, about all of these),
                       MCPhase0Claims  (TLC)

    Rv64Alu            arithmetic of the instructions, any word width
    Rv64Machine        executing a program (the abstract machine)
    Rv64Lower          executed steps -> trace rows
    Rv64Stages         the three stages' checks, as operators
    Rv64Pipeline       execute, lower, check: the whole front end
                       Rv64Proof, Rv64PipelineProof  (theorems, about all five),
                       MCRv64Inline, MCRv64Programs  (TLC)

    ChunkLayout        how steps are cut into chunks, and who validates the cut
    FoldTransition     one chunk: transcript, digests, Π_CCS, Π_RLC, Π_DEC
    FoldSession        prover, storage, verifier and replayer of a session
                       FoldSessionProof  (theorems, about all three),
                       MCFoldSession  (TLC)

    TranscriptSponge   the sponge and its encoders, as operators
    TranscriptCalls    two transcripts fed by calls
    SymbolicSponge     the sponge over a permutation without collisions
                       SpongeProof  (theorems), MCTranscriptCalls  (TLC)

    SequenceFacts      lemmas on sequences, remainders and induction, for the proofs
    FoldFacts          lemmas on left folds, instantiated for each folded operation

    SmallField         a prime field, balanced digits
    Multilinear        eq weights, table folding, range products
    CyclotomicRing     ring product, rotations, bar transform
    PackedCcs          constraint systems on packed witnesses, cached rows
    CeClaims           claims that carry ring evaluations
    PaperRows          the same evaluations by their definitions
    SumCheck           interpolation and the verifier's rounds (on the sponge)
    CcsOracles         the two round oracles of the optimized engine
    PaperExact         the two polynomials of the paper-exact engine
    PiCcs              Π_CCS from the interface's checks to the verdict
                       MCPiCcs  (TLC)
    AjtaiCommit        commitments to packed witnesses
    RingFold           Π_RLC and Π_DEC, and what a verifier asks of them
                       RingFoldProof  (theorems), MCRingFold  (TLC)

The last group is layered by EXTENDS: SmallField under Multilinear and
CyclotomicRing, both under PackedCcs, CeClaims, PaperRows and AjtaiCommit;
CcsOracles adds SumCheck and the sponge, PaperExact adds PaperRows.

Names ending in `_something` (`Unload_removes`, `NewStep_once`, ...) are
deliberately wrong variants of the definition that follows them: replacing the
definition by its variant makes a property fail, which shows that the property
looks at it. `PROJECT.json` pairs each property with one.

### 2.1 The registry (`AjtaiRegistry`)

`registry[k]` is the hash map: `None`, or kappa, optional seed, optional matrix.
A matrix is `[kappa, origin]`: its rows and what determines its content, a seed
(`setup_par` is a function of it: `Derive`) or a caller-sampled matrix. `pc[t]`
says where thread t stands in its call.

* A write section (`set_global_pp`, `set_global_pp_seeded`,
  `unload_global_pp_for_dims`, the write-back of a load) is one action: queue,
  then run when no reader holds a guard. Every early return is a disjunct.
* `get_or_load_global_pp_for_dims` is four actions: `GetFast` (first read
  section), `GetSlow` (second), `GetDerive` (`setup_par`, no lock), `GetPublish`
  (write section, which overwrites the entry with what was read before).
* `AjtaiSModule::commit` and `commit_many` hold their read guard while they
  compute: `CommitBegin`, `CommitEnd`.
* The lock is std's futex `RwLock`: a new reader waits behind a queued writer,
  a writer waits for readers. Poisoning (a panic under a write guard) is not
  modelled.
* `served` and `sure` are history variables; no action reads them, except to
  extend them.

`WriteOncePp` states the promise without threads, seeds or loading: a key's
matrix is fixed once and that one is served ever after. The refinement maps
`matrix[k]` to `Effective(k)`, the loaded matrix or the one the seed derives.

### 2.2 The look-ups (`PpCommitter`)

`ExactVectorPackageContext::new`, the root lane, phase 0 and the CHIP-8 lane
share one shape (`has` -> `seeded_params` or `get` -> compare, or `register`,
then `from_global_for_dims`); `SimpleKernelRootContext::new` registers at once.
Each registry call is a separate step, and every thread may also make any other
registry call between its look-ups. An unseeded (sampled) entry is accepted on
its kappa alone, as in the code, so `CommitterSound` only promises the seed for
seeded entries.

### 2.3 Claims on the worker pool (`Phase0Claims`)

The phase-0 claim build is the one place where look-ups and commitments run as
rayon jobs. A *caller* is a thread outside the pool. The one that gets the
`IN_USE` flag injects `join(stage 1, join(stage 2, stage 3))` into the pool; the
others run their stages in order themselves. A stage is a look-up
(`phase0_family_committer`, i.e. the actions of `PpCommitter`, so the threads of
the registry are here the stages) and one commitment, which keeps its read guard
(`pc = "commit"`) until its columns are done.

`stack[w]` is worker w's call stack of jobs, `deque[w]` and `injector` the jobs
nobody has taken. rayon (1.11, rayon-core 1.13) is modelled from its documented
scheduling: own jobs newest first, then another worker's oldest, then injected
ones; a worker that waits for a job keeps taking others. A `par_iter` is
`Columns` jobs pushed at once, and a stage with several objects (stage 1 and 2
commit one per family) makes one commitment. A thread blocked on the registry's
lock blocks its worker: that is what makes the pool small.

`Others` register parameters before the first build, `Prepared` being the keys
they may use: a seeded or sampled entry, matching or not, so that look-ups are
also refused and commitments also use a loaded matrix.

### 2.4 The RV64IM front end (`Rv64*`)

`Rv64Alu` is parameterised by the width of a word and of a low word (64 and 32
in the code). All of the code's arithmetic is uniform in them, the overflow
cases included, so small widths reach the same branches and let TLC run through
whole operand spaces. The verifier's copies of the helpers
(`stage1/semantics.rs` 881-1045) were compared with the executor's line by line
and are stated once: a later drift between the two copies is *not* something
these models would notice. Powers of two are a recursive function, and the bit
operations are written bit by bit, so that both can be reasoned about.

`Rv64Machine` has one action per group of opcodes that share a code path and one
for the error returns; it is the abstract specification. `Rv64Lower` translates
`ordinary_row` and the expansions; the four signed and four unsigned divisions
are stated as one plan parameterised by opcode, as their eight files differ only
in signedness, width and what goes to rd. `Rv64Pipeline` executes to the end (or
fails), lowers, then checks: Stage 1 per sequence, Stage 2 per row with the
register, scratch and memory timelines of the verifier, Stage 3 at once.

Left out of the rows: word, family, digests, twist links, row bindings and
`SemIn` copies, which are projections of the same rows of an honest prover and
are compared with themselves. Traces that were not made by the lowering are not
generated. The program counter's `+ 4` is plain addition in the executor
(execute.rs 271, 536, 542) and wraps in the verifier; `ScenariosAssumption` leaves out
programs whose end is beyond the last address. Memory is any map from words to
words. Stage 1 takes the rows up to where the step index changes; in an honest
trace that end is unique, so the scan is a CHOOSE. Instruction decoding is not modelled: a program is
a sequence of decoded instructions, and "Illegal" a word that does not decode.
The release build is modelled; its two `debug_assert`s are properties.

### 2.5 Fold sessions (`ChunkLayout`, `FoldTransition`, `FoldSession`)

A transcript is the sequence of what was absorbed, and a digest or a challenge is
that sequence: two parties agree on a challenge exactly when they absorbed the
same items in the same order. Commitments are terms: a step's witness, the mix of
a list under a challenge, a digit of a mix. A claim is what it commits to, the
witness its evaluations were made from, and the fold digest, which also stands
for its evaluation point. So the caller's mistakes can be told apart: a witness
that does not satisfy the system, and one that does but does not open the step's
commitment, which goes through Π_CCS and has to be caught by Π_DEC.

`FoldSession` has one action for each entry point (four of the prover, four of
the verifier), for the body of each loop and for what follows it. The entry
points differ in *when* they validate: one looks at the schedule only after
everything is proved, the others first, and all validate the layout at the end.
`DamageStore` lets a stored session be read back with one thing wrong: a chunk
proof lost, repeated or swapped with another, the footer of the chunk before,
another schedule, an old relation digest, children of another chunk. Verifiers
hold the prover's public chunks or others. `ReplayChunk` is the replay of
`chunk_relation.rs` by which the final relations rebuild a session from its
witnesses. `trail` is a history of what the prover held after each chunk.

The session transcript does not bind the schedule; the package does. The normal
packaged entry point recomputes the relation digest of each chunk, the
precomputed one trusts those the proofs carry; `AcceptedIsProved` says what each
of them therefore fixes.

### 2.6 Transcript (`TranscriptSponge`, `TranscriptCalls`, `SymbolicSponge`)

The operators follow `poseidon2.rs` with the permutation as a parameter:
`absorb_elem` permutes a full rate only when the next element comes,
`absorb_slice` at once, so the two differ in the state they show but not, as
`SlicingIsInvisible` states, in any challenge. Bytes are packed into limbs behind
their length, words into halves, long slices absorbed in chunks of the buffered
encoders. In `TranscriptCalls` two transcripts make calls of their own. In the run,
and in the theorem on digests, the sponge is the one of `SymbolicSponge`: a state
is what was written to its lanes between permutations, so that two digests are
equal only if the same lanes went in.

What calls have in common is stated as `LabelsAssumption`, and the code outside
the tests keeps it: a label comes with one operation, a challenge label with one
number of outputs, no label that is absorbed first is one byte long, and bytes are
bytes. Nothing enforces it: the number of outputs is not absorbed and `digest32`
has no label; `append_message(l, [x])` absorbs what `append_fields(l, [x])` does;
and the length of a one-byte label is a 1, as is the gate of a squeeze (only tests
use such labels: `"m"`, `"a"`, `"x"`). Not modelled:
`challenge_bytes`, `challenge_nonzero_field`, the `TranscriptProtocol` helpers,
`rng.rs`.

### 2.7 The reduction (`SmallField` ... `PiCcs`)

Everything is computed, over a small prime: the ring `Z_P[X]/(X^D + X^(D/2) + 1)`
with the three-way Karatsuba product and the one-pass reduction, the bar
transform by Gaussian elimination on the constant-term Gram matrix, the cached
lifted rows, the folded tables of both oracles, the expanded kernels for digit
bases 2 and 3 and the evaluating one for others, interpolation, and the terminal
identities. In the code D is 54; the code is uniform in it (`Sixth` is D/6), and
D = 6 keeps all of its cases. The extension field is modelled as the base field:
a challenge is the first of two squeezed elements, and what the code computes for
the second limb is left out.

`PaperExact` and `PaperRows` are the reference: sums over the whole cube of the
paper's polynomials, ring products by their definition, rows without cache. They
translate the paper-exact engine of the same crate.

`PiCcs` is one run: the checks of the interface (`Prevalidated`), binding,
challenges, the rounds of both channels one action each, `FeStop` and the other
branch of `NcRound` for the round sums the prover tests, the outputs, a delivery
that may alter the proof or the claims it is held against, and the verification.
Left out: logging and timing, the path with a public-instance digest, auxiliary
openings, `u_offset` and the coordinates of the commitment step; of the header
only the dimensions and the degree bound, the rest being constant in a run. The
permutation of the run is a small concrete one, as challenges have to be field
elements.

What the models show about the code's own conventions: the norm channel and the
range check look at the logical columns only, while the ring openings include the
tail lanes of the last block; the new x of a fresh slot is projected from the
public inputs, not from the witness; the ring coefficients of a fresh slot's y
other than the constant one are not bound by the terminal identity, nor is the
outputs' fold digest, so `AcceptedIsTrueOrLucky` does not speak of them.

### 2.8 Mixing and splitting (`AjtaiCommit`, `RingFold`)

`RingFold` starts from claims that share a point and ends with a verdict on the
children. The transcript's draws are a nondeterministic choice of coefficient
vectors over the alphabet. `Sample` has the norm guard, `Mix` the checks of
`rlc_with_commit`, `SplitMix` the digit split of all lanes, `Decompose` the
prover's three sums, `Verify` both public verifications. The optimized chunk path
calls the decomposition directly, without the boundary validation of the
interface, and so does the model. Commitments are computed as the code does it,
by rotation columns up to the last entry that is not zero.

## 3. Runs

| Run | Bounds | What it shows |
|---|---|---|
| Registry | 2 threads, 2 keys (one with a wrong d), 2 kappas, 2 seeds, 1 sampled matrix, any calls | `RegistryOK`, `LoaderCurrent`, `CommitmentsAgree`, `RegisteredNeverFails`, `RegistrationStable`, and that the registry implements `WriteOncePp` |
| Workload | 3 threads, 1 key, 5 calls in all | `CallsReturn` |
| Committers | 2 threads, 1 key, 2 kappas, 2 seeds, 1 sampled | `CommitterSound`: no race puts another seeded matrix under a committer; `RefusedOnlyOnConflict`: agreeing look-ups never fail each other |
| Wide | 2 callers, 4 workers, 3 keys, 2 columns a commitment, key 3 perhaps registered first by another thread (2 seeds, 1 sampled matrix) | `NoStageUnderOwnGuard`, `BuildsNeverStuck`: with a worker for each stage and one to spare, builds never wait for each other, on the refused and the loaded paths as well |
| Narrow | 2 callers, 2 workers | violated: see 5 |
| Inline | 4-bit words, 2-bit low words: all 256 operand pairs for 11 expanded opcodes; all rd, rs1, rs2 in x0..x2 and pairs of expansions at edge operands | `HonestTraceAccepted`, `EffectRowsMatch`, `DivisionRowsReconcile`, `ReplayRunsTheMachine` |
| Programs | 8-bit words with eight 1-bit bytes, at most 5 steps | every ordinary opcode, overlapping narrow accesses, control flow, failures |
| X0Effect | as Inline, without pairs | violated: see 5 |
| Session | 2 digits, at most 3 claims mixed, sessions of up to 3 chunks, 5 step lists and 7 layouts under up to 4 schedules in 2 modes, 7 damages | that entry points agree on what is a session (`OutcomeIsFeasibility`), transcripts agree chunk by chunk, whole sessions are accepted and what is accepted was proved, the replay agrees, and all of it ends (`SessionsSettle`) |
| Sponge | rate 4, 2 calls on each of two transcripts, slices that end before, at and after the rate and the encoders' chunk | `SlicingIsInvisible`, `DigestDeterminesCalls` |
| PiCcs | P = 257, D = 6, 3 rows, 7 columns (2 blocks), 4 matrices, bases 2, 3 and 4, 11 instances with 1 or 2 fresh and up to 2 carried slots, 3 seeds, 35 deliveries | every round polynomial is the paper's, honest proofs pass, false claims stop the prover at once, outputs are true openings, and an altered proof passes only if it is true or a challenge hit a root |
| RingFold | P = 1009, D = 6, 3 rows, 7 columns, 3 matrices, 1 Ajtai row, alphabet -2..2, 4 draws, 12 starts, 33 deliveries | `NormGuardSuffices`, `ParentOpensTheMix`, `HonestFoldAccepted`, `AcceptedFoldIsTrue` |

Why the bounds are enough. *Registry*: an entry has two fields that two threads
can race on, and every conflict (a load against a registration, an unload
against a load, two registrations) is between two calls; a third thread is there
where waiting matters (Workload). Two seeds and two kappas make every comparison
come out both ways. The theorems of section 4 remove the bounds for the safety properties.
*Claims*: at most three stages of the parallel builder can block a worker each,
so four workers are the first number at which one is always left, and two
callers the first at which the flag is refused. Two columns let one be stolen
while the worker of the commitment waits. The keys of the three stages differ,
and both callers use the same three, as two proofs of programs of one size do.
*RV64IM*: the width is the bound; 4 bits with 2-bit low words have all of zero,
one, minus one, the most negative number, on both widths, and a high half that
differs from the low one. 8 bits are needed where a memory word has to have
eight addressable parts. Two consecutive expansions are enough for state leaking
from one step into the next, since all scratch state is per step.
*Session*: a chunk touches the carry of the one before, so three chunks reach the
first (nothing carried), a middle one and the last; two digits and a bound of
three mixed claims make the norm guard refuse a second chunk of two steps but not
a first. *Sponge*: every way a slice can meet the rate and the chunk. The
constants of PiCcs and RingFold are the least with a row beyond the last (3 of
4), a column in a second block, a tail of unused lanes, in PiCcs a matrix that
the constraint polynomial does not mention, and each digit base of a kernel of its
own. A prime of this size also lets challenges fall on roots, which is why
`AcceptedIsTrueOrLucky` has to name that case; a run with a prime of 64 bits could
never show that the case is the only one. These two runs start from a fixed list
of instances: within them the arithmetic is complete, but they are examples, not
all small instances.

The properties of the pipeline are stated of a variable set that TLC computes
from the code's own row builder, so `HonestTraceAccepted` says that the prover's
rows and the verifier's recomputation agree, and `ReplayRunsTheMachine` (a
refinement: the state after each commit row, computed *only* from rows and
timelines, behaves as `Rv64Machine`) says that they agree on the right thing.

Fairness is assumed in two runs. In Workload: weak fairness of each thread's
steps inside a call, i.e. that the operating system schedules it and the lock is
eventually granted when it is free. The number of calls is finite there because
std's `RwLock` lets an endless stream of writers keep a reader out, and a prover
does not produce such a stream. In Session: weak fairness of the four
actions that are the bodies and the ends of the proving and the verifying loop.
They are plain sequential loops over finite lists; once begun nothing but the end
of the process stops them. No fairness is asked of the entry points.

Deadlock is checked in Registry and Committers, which go on for ever. The other
runs end: their calls, programs, builds, sessions, transcripts or transitions do.

## 4. Proofs

`Phase0Proof` first proves, of the registry alone, for every set of threads, keys, seeds, kappas and
matrices, from the two assumptions declared in `AjtaiRegistry` (the sets are
disjoint from each other and from `None`; `BadDims` are keys):

| Theorem | Property |
|---|---|
| `TypeCorrect` | `TypeOK` |
| `RegistryConsistent` | `RegistryOK` |
| `LoadersCurrent` | `LoaderCurrent` |
| `Agreement` | `CommitmentsAgree` |
| `Stability` | `RegistrationStable` |
| `GetSucceeds` | `RegisteredNeverFails` |
| `RegistryImplementsCell` | `ImplementsCell` |

The argument. None of the invariants is inductive alone. Agreement needs that a
write never changes `Effective(k)`; for the write-back of a load that needs
`LoaderCurrent`; that needs that no other thread's write changes the seed and
kappa of an entry; and that the matrix in a seeded entry is the derived one,
`RegistryOK`, so that unloading it changes nothing. The inductive invariant
`IInv` is the conjunction of these with what a thread at each pc holds. The
relation `Writes` ("the step left every entry alone, or wrote key k in one of the
four permitted ways") is proved once for each of the four write sections, and
the invariant, the stability of entries and the refinement all use it.

It then carries this over to the look-ups, under one more assumption
(`NoneIsNoGoal`: what marks "no look-up" is not a look-up):

| Theorem | Property |
|---|---|
| `LookupsTyped` | `CTypeOK` |
| `CommittersSound` | `CommitterSound` |
| `RefusalsAreConflicts` | `RefusedOnlyOnConflict` |
| `LookupsUseACell` | `CSpec` implements `WriteOncePp` too |

The argument. To the registry, a step of a look-up is one of its own calls or no
step (`LookupIsCall`), so every step keeps `IInv` and *grows* the registry:
registered keys stay, with their effective matrix. Beside it `CInv` says what a
look-up knows between two of its calls (`KnowsParams`, `KnowsLoaded`,
`KnowsRegistered`, `KnowsModule`), facts about the registry that growth cannot
undo; that is why interleaved calls of other threads do no harm. It also needs
`AllSampled`: an entry without a seed holds a caller's matrix, never a derived
one, or a look-up that finds no seed could accept on its kappa a matrix of
another seed.

Last come the builds of claims, for any number of callers, workers
and columns, under `PoolAssumption` (the registry's threads are the stages and
others) and `PreparedAreThird` (of the keys that the others set up only the
third stage's is a stage's, since no code outside the tests materialises a
phase-0 key):

| Theorem | Property |
|---|---|
| `PoolTyped` | `PTypeOK` |
| `StagesStayOffGuards` | `NoStageUnderOwnGuard` |
| `BuildsUseLookups` | `PSpec` implements `CSpec` |
| `PoolInvariance` | the inductive invariant `PInv` |

The argument. Why should a worker that waits for its columns, holding a read
guard, not pick up a stage? It can only take what waits somewhere. Of one build
those are the rest after the first stage, the last stage, and columns
(`OnlyWaiting`). A commitment splits on a worker only when its matrix is loaded,
which is so for the last stage alone (`SplitLast`, from `LoadedPrepared` and from
what a look-up hands out, `Lookups`); when the last stage runs, the joins around
it have begun and nothing of the build but columns is left to take (`Nested`);
and no other build has stages in the pool (`OneBuild`: the `IN_USE` flag). This
is `OnlyPieces`, and `TakesAColumn` draws the conclusion. All of it needs that no job is
in two places (`Apart`); a stage's look-up runs on a worker like any other thread, so
`CInv` is carried along, which also gives `BuildsUseLookups`: `CommitterSound` and
the rest hold of the builds. TLC checked `PInv` on the instance of run Wide
before it was proved. Each change of the places is stated once (`Ends`, `Spreads`,
`Enters`), and every action is shown to be one of them.

`FoldSessionProof` begins with operators, for any schedule, steps and carry:

| Theorem | What it says |
|---|---|
| `CutIsValid` | the partitioning loop's chunks pass the layout check, with all steps in them |
| `ValidIsCut` | what passes the layout check *is* the loop's cut of its steps |
| `ValidatorsAgree` | the fixed-shape validator, on numbers, accepts the same layouts |

Its lemmas say when a transition succeeds and that its outputs are the digits of
one mix (`TransitionFacts`), and that a verifier or a replayer with the prover's
transcript and carry ends with the prover's transcript and claims
(`HonestVerified`, `VerifiedFacts`, `HonestReplayed`).

It goes on to all the safety properties of run Session, for any number of
digits, norm bound, steps, schedules, chunk lists of any length and modes, from
`TransitionAssumption` (at least one digit) and `SessionAssumption` (what callers
hand in is lists of steps under schedules of the model):

| Theorem | Property |
|---|---|
| `CarryStaysCoherent` | `CarryCoherent` |
| `ListsInStep` | `SessionTypeOK` |
| `CompletesExactlyWhenFeasible` | `OutcomeIsFeasibility` |
| `VerifierFollowsProver` | `TranscriptsAgree` |
| `HonestSessionsPass` | `HonestSessionAccepted` |
| `AcceptedWasProved` | `AcceptedIsProved` |
| `ReplayFollowsProver` | `ReplayAgrees` |
| `SessionInvariance` | the inductive invariant `SessionInv` |

The argument. `History` says that prover, session and trail are one run of
`Transition`: chunk proof i and mark i of the trail are what it makes of mark
i - 1. `VerifierInv` says that a verifier past chunk i is at mark i, so that the
next chunk proof it accepts is again the session's own. For a damaged store this
needs that a chunk proof made at one place is refused at every other:
the transcript has 7i - 2 items once chunk i's header is bound, which is why
`Position` fixes the lengths of transcripts, and why a digest betrays its place.
Likewise children of another chunk differ from this one's (`ClaimsDiffer`). Only the relation digest of a
chunk proof is not checked by all entry points (`SameButRelation`), which is the
exception that `AcceptedIsProved` names. `Packaged` keeps, through the loop, what
the entry points on packages established before it. `PhaseInv` ties the outcome to
the input: a loop that fails, fails because some chunk's witnesses do not open or
its mix exceeds the bound, and the end because the layout is no cut. The
invariant has been checked by TLC on run Session's instance too.

`SpongeProof` proves `SlicesNeverShow` (`SlicingIsInvisible`) for every rate,
packing, buffer size, permutation and sequence of calls, from `SpongeShape` (the
sizes are positive) and `CallsAssumption` (labels and data are sequences of
numbers; a challenge asks for at least one output). The argument: two
transcripts are the `Same` when they are
equal once a full rate has been permuted. Absorbing an element makes them
equal; absorbing a slice, block by block with a remainder, or buffer by buffer,
leaves the transcript the `Same` as absorbing its elements (`SliceFacts`,
`ChunkedFacts`); and squeezing does not tell `Same` transcripts apart.

It also proves `DigestsTellCalls` (`DigestDeterminesCalls`), the injectivity that
the comments of `poseidon2.rs` (70, 106) and its test at 426 state of the encoding
of one message, for whole sequences of calls. The further assumptions are
`LabelsAssumption` and, in the theorem, `Symbolic`: the sponge is that of
`SymbolicSponge`. The argument has three parts.

* What a call absorbs, the gates of its squeezes included, is its `Codeword`, and
  no codeword starts another (`CodewordApart`): a 1 can only be a digest, since
  first labels are not one byte long; else the length and limbs give the first
  label (`FramedApart`, by Horner's rule backwards in `LimbsApart`), it gives the
  operation, and the length behind it tells where the data stop (`CoreTells`); a
  challenge's number of gates comes with its label. So what a sequence of calls
  absorbs can be cut in one way only (`AbsorbedTells`).
* What a symbolic state was told can be read off it: the written lanes of each
  block, one block after another (`Told`). A write adds an element, and a
  permutation none (`KeptPut`, `KeptPermute`), so the padding by permutations is
  invisible here too.
* The inductive invariant `BothRemember` says of either transcript that it says
  the `Same` as the replay of its calls one element at a time, and that this replay
  was told the codewords of the calls, one after another (`Tells`). A digest is
  lanes of the last state, so equal digests mean that both were told the same
  (`OutcomeTells`); equal calls have one replay, so they give one digest.

`Symbolic` is satisfied by the run's constants. A sponge over a finite field has
collisions, which only are hard to find: the theorem is about what the encoding
contributes, as the security of Poseidon2 is not the code's to establish.

`RingFoldProof` proves `BinaryMixturesSplit` (`NormGuardSuffices`) for every prime,
degree, alphabet, number of claims and choice of draws, from `PrimeField` and from
what callers and the alphabet are (`StartsShape`, `AlphabetIsBounded`,
`DrawsAreSmall`). All arithmetic of the code is on residues; the argument is about
the integers behind them. A field element is `Small` by a bound when it is the
residue of an integer within the bound, and then its balanced representative is
within the bound too (`BalancedIsLeast`). A rotation matrix is a run of shifts;
multiplying by X takes the entries (p, q) half a degree apart to (-q, p - q), that
to (q - p, -p) and that back, so no column of the matrix of a vector with
magnitudes up to m exceeds 2m (`ShiftWithin`, `RotationColumns`), which is where
the 2 of the expansion factor comes from. D products and the number of claims give
the rest (`RotApplyIsSmall`, `MixIsSmall`): the mixture is `Small` by the left
side of the guard, the guard finds the least exponent whose power exceeds it
(`LeastExponentIs`), and below b^k halving reaches zero in k digits for b = 2
(`BinaryDigitsSuffice`; for larger bases it would not, see 5). `SplitInv` carries
through the steps that what is split was mixed under sampled matrices; TLC checked
it on run RingFold's instance.

`Rv64Proof` is about the front end, for every width of words and of the low word,
every register file, scenario and number of steps, from `WidthAssumption`,
`RegsAssumption`, `NoneAssumption` and `ScenariosAssumption` (programs are sequences of
instructions whose end is an address; registers and memory hold words):

| Theorem | Property |
|---|---|
| `EffectsMatch` | `EffectRowsMatch` |
| `DivisionsReconcile` | `DivisionRowsReconcile` |

`Rv64PipelineProof` goes on, under the same assumptions, to what the three stages make
of the rows:

| Theorem | Property |
|---|---|
| `HonestTraces` | `HonestTraceAccepted` |
| `TraceReplays` | `ReplayRunsTheMachine` |
| `PipelineTyped` | `TypeOK` of the front end |

The argument starts with arithmetic: residues and signed values (`Congruent`,
`SignedIs`), quotients and remainders truncated towards zero, and
how the upper word of an unsigned product gives the signed ones. Each expansion is
run symbolically (`MulwComputes`, `MulhComputes`, `MulhsuComputes`,
`DivPlanComputes`, `RemPlanComputes`): whichever of rd, rs1 and rs2 are the same
register, the row at `effect_index` has the executor's result, and the row that
subtracts the product has the remainder. Division by zero, the overflow of the
least integer by -1 and the word operations' own overflow are cases of
`DivisionComputes`. `MachineInv` is the executor's invariant: every executed step is the
step of an instruction of the program, from the state the last one left, and
its next state is what the kind of instruction says (`StepKeeps`). A machine
state keeps words in its registers and its memory, and 0 in x0. `LaidOut` says that the
trace is the steps' rows one after the other, and `LoweringInv` that it is
that from the lowering on; the checks only read it.

What one step's rows do is said without the trace around them. Stage 1's recomputation
gives back each ordinary row (`IsExpected`, from what the step did) and each expanded
one: the register file in which it runs a plan agrees with the one the sequence was
built in on the registers that the plan uses (`Agree`), and its checks of the advice
hold of the quotient and remainder that the executor computed. For stage 2,
`StepRuns` gives the register files between a step's rows: the first is the
state before the step, each row reads and writes the file it is in, the last has the registers
after the step, scratch registers are written before they are read, and memory
changes at the commit row only.

The pipeline's invariant `PipelineInv` places the cursor. In stage 1 it is where
some step's rows begin, so the next group of equal step indices is that step's (`GroupTaken`). In
stage 2 it is `At(k, j)`, j rows into the k-th step: k - 1 steps are committed; the
timelines of the architectural registers and of memory are those of the step's j-th
file and the state before the step; and a scratch register that the timeline knows has
the value it has in the file, which the first row of the next step forgets. The events
left are those of the rows left (`Remains`, by prefixes of one concatenation),
so none is left over at the end. After the last row the committed state is the
machine's (`Done`). Stage 3's chain holds since the real rows are the steps' last
ones. `PipelineInv` is stronger than `HonestTraceAccepted`, which is not
inductive: a timeline that is off by one value refuses an honest row much later.
For `TraceReplays` every commit row is shown to be a step of `Rv64Machine` under
the refinement mapping, from the recorded step: the instruction fetched, its operands,
that it does not fault, and what it does (`ReplaySteps`); every other step of the pipeline
leaves the mapped variables alone. The mapped machine's own operators are shown to
be the machine's one by one (`ReplayWords` to `ReplayMemory`). Since `PipelineInv`
speaks of sequences that are chosen by what is true of them, TLC checks its consequences
(run Programs), not the invariant itself.

The proof found an error in an earlier form of the model: Stage 1 refused branches
with a misaligned target even when they are not taken, which `expected_branch` does
not do (and no program of the runs had).

Inductions over lengths are by sets: `InductionInSet` in `SequenceFacts` takes the set
of numbers for which a statement holds, not a predicate, and so needs no
higher-order instantiation. `FoldFacts` proves with it what the library's
`FoldLeft` computes, for an operation that is a CONSTANT of the module, and whose
first argument is what the folded LAMBDA captures; the other proof modules
instantiate it once for each operation they fold with.

Model-checked only:

* `CallsReturn` and `SessionsSettle`: liveness under fairness.
* `BuildsNeverStuck`: a statement about ENABLED. It also depends on the number of
  workers, as run Narrow shows, while the theorems on the pool do not.
* From `SmallField` on, everything but `NormGuardSuffices`: that the engine's
  shortcuts compute what the paper says is algebra over nested sums and products
  (rings, multilinear extensions, commitments), for which the library has no facts
  to start from.

## 5. Findings

*Expanded word operations into x0.* `inline_rows` asserts (debug builds) that the
effect row's `alu_result` equals the step's. MULW, DIVW, DIVUW, REMW and REMUW
end in `SignExtendWord rd, rd`; with rd = x0 that row reads 0, while the executor
recorded the real result. A debug build panics on such a (legal) instruction; a
release build emits an effect row with result 0, which Stage 1, recomputing the
same plan, accepts. `rd_after` is 0 in either case, so the machine state is
right, as `ReplayRunsTheMachine` shows on the same programs.

*Two claim builds on a pool of two workers can deadlock* (run Narrow).
`SModule.spec.md` takes it that "Global mutable state is thread-safe". But a
commitment made outside the pool holds the registry's read guard while its
columns wait for a worker. Caller 2, building serially, has registered key 1 and
commits. On worker 1, caller 1's first stage, which had found the key absent,
queues for the write lock; on worker 2, its second stage asks for a read guard
and waits behind that writer. Nobody is left to compute caller 2's columns. It
takes as many blocked stages as there are workers: with four there is always one
left for the columns (Wide). Other parallel sections that look committers up in
their workers (`build_prepared_steps` in `kernel/simple.rs`) would add to the
blocked ones; they are not modelled.

`NoStageUnderOwnGuard` holds because `commit_row_major_seeded_many` does not split
on a worker. Commitments with a loaded matrix (`commit.rs` 1079, 1165) lack that
check; that is harmless as long as only the last stage's key has a loaded matrix
(`PreparedAreThird`; `Prepared` = {3} in run Wide), and no code outside the tests
materialises a phase-0 key. `StagesStayOffGuards` proves that this is enough.

*Comments that promise more than the code does.* Met while modelling; none is a
run of its own, since in each case another check makes up for it or the effect is
a refusal.

* `sample_rot_rhos_n` says that after mixing "combined witness after RLC stays
  within norm bound". It does for witness entries below b in absolute value.
  The range check of the interface admits every entry that has D balanced digits,
  and such a wide witness can pass the guard and be refused by the split. From
  base 3 on even digit witnesses can: k balanced digits reach less far than
  b^k - 1, the bound the guard compares with. `NormGuardSuffices` is therefore
  stated for base 2 and witnesses of digits.
* `verify_dec_public` says that it checks the decomposition of `y_zcol`; it checks
  lengths and the column point, and the mixed `y_zcol` is not the mixed witness's.
  It does not compare the number of children with k either: a last child that is
  zero may be missing, which `AcceptedFoldIsTrue` allows for.
* the public inputs of a parent are not a projection of the mixed witness; child
  0 takes the difference (`ReconcileX`).
* the interface admits y rows shorter than 2^ell_d, on which a later stage asserts.
* `append_u64s_iter` and `append_fields_iter` panic when the iterator and its
  announced length differ.

## 6. Plan

1. `WriteOncePp`, `AjtaiRegistry`, proofs. *(done)*
2. `PpCommitter`, proofs. *(done)*
3. `Rv64Alu` ... `Rv64Pipeline`. *(done, with proofs of `EffectRowsMatch`,
   `DivisionRowsReconcile`, `HonestTraceAccepted`, `ReplayRunsTheMachine` and `TypeOK`)*
4. `Phase0Claims`, proofs. *(done; open: the parallel sections of `kernel/simple.rs` and
   `kernel/proof/api.rs`, which share the pool and the registry)*
5. `FoldSession` with `ChunkLayout` and `FoldTransition`, proofs. *(done)*
6. `TranscriptSponge`, `TranscriptCalls`. *(done, with the proof of
   `SlicingIsInvisible` and `DigestDeterminesCalls`; open: `challenge_bytes`)*
7. `PiCcs`, `RingFold` and what they stand on. *(done, with the proof of
   `NormGuardSuffices`; open: proofs of the engine's algebra; joining the two into
   one chunk transition that `FoldTransition` abstracts)*
8. Process caches (`EXACT_VECTOR_PACKAGE_CONTEXTS`, `OnceLock`s that remember an
   error).
9. The chunk-relation bridge of the final relations; time openings.
10. The decoder and encoder of `isa.rs` as operators; CHIP-8 where it differs.

## 7. Not modelled

*Algebra*: soundness errors; the extension field beyond its first limb; Poseidon2
itself; `setup_par` (a function of seed and kappa); masked and precomputed
commitments, `decomp.rs`; the batched sum-check; the cross-check engine, which
runs both engines and compares; neo-abba; parameter tables.

*Front ends*: instruction decoding and encoding; CHIP-8; the kernel's proof
chains, digests, twist links and openings; time openings; VM templates.

*Around it*: the validation of the chunk-relation bridge; the decider and the
SNARK backend (`spartan2`, a vendored fork); the Nightstream surfaces; proof
packaging and serialisation beyond what `FoldSession` says of it; the Midnight
bridge (an external process); the Lean development and its vector generators;
demos, benchmarks, profiling.

Two effects are known and not stated as properties: several threads that load one
key at once each materialise a copy of the matrix, and the verifier has its own
copy of the executor's arithmetic, which may drift apart from it.

The models map about a ninth of the repository's implementation lines. Most of
the rest is in the two lists above: constraint-system builders, the SNARK wrapper,
packaging of proofs by the kernels, and generators of test vectors, which hold
little state and are long because of the data they lay out.
