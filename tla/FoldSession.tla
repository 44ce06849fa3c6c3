---------------------------- MODULE FoldSession ----------------------------
(***************************************************************************)
(* A fold session from the caller's steps to an accepted run: the entry    *)
(* points of run.rs, the packaging of finalize.rs, and the replay of the   *)
(* chunk relation that the VM front ends' final relations use.  The prover *)
(* handles one chunk per step, then a session is stored and read back,     *)
(* perhaps not whole, by a verifier who has its own public data.           *)
(***************************************************************************)
EXTENDS FoldTransition

CONSTANTS
  Modes,        \* folding modes a verifier may run in
  Steps,        \* the steps, committed and with their witness, callers may hold
  CallerChunks, \* [mode, sched, chunks] passed to the chunk entry points
  CallerRuns,   \* [mode, sched, steps] passed to the run entry points
  PublicChunks, \* chunk lists a verifier may hold, besides the prover's
  Damages       \* what may happen to a stored session

\* What the Rust types of the entry points' arguments say.
ChunksOf(items) == [start : Nat, steps : Seq(items)]

ASSUME SessionAssumption ==
  /\ \A call \in CallerChunks : call.sched \in Schedules /\ call.chunks \in Seq(ChunksOf(Steps))
  /\ \A call \in CallerRuns : call.sched \in Schedules /\ call.steps \in Seq(Steps)
  /\ PublicChunks \subseteq Seq(ChunksOf({PublicStep(step) : step \in Steps}))
  /\ Damages \subseteq {"truncated", "repeated", "swapped", "old_footer", "other_schedule",
                       "old_relation", "old_children"}

VARIABLES
  pc,       \* "idle" "proving" "failed" "stored" "verifying" "accepted" "rejected"
  prover,   \* [mode, sched, chunks, packaged, tr, claims, wits]
  session,  \* the RunProof: [sched, chunks, final]
  package,  \* statement and digests of the packaged session, when there is one
  trail,    \* history: the prover's transcript and claims after each chunk
  damage,   \* what became of the stored session
  verifier, \* [entry, mode, chunks, digests, tr, claims, next]
  replay    \* the replayer: [tr, claims, wits, relations, ok]

vars == <<pc, prover, session, package, trail, damage, verifier, replay>>

NoPackage == [made |-> FALSE]
EmptySession(sched) == [sched |-> sched, chunks |-> <<>>, final |-> <<>>]
NoVerifier == [entry |-> "none"]

Init ==
  /\ pc = "idle"
  /\ prover = [mode |-> "Optimized", sched |-> WholeTrace, chunks |-> <<>>, packaged |-> FALSE,
               tr |-> NewSession, claims |-> <<>>, wits |-> <<>>]
  /\ session = EmptySession(WholeTrace)
  /\ package = NoPackage
  /\ trail = <<>>
  /\ damage = "none"
  /\ verifier = NoVerifier
  /\ replay = [tr |-> NewSession, claims |-> <<>>, wits |-> <<>>, relations |-> <<>>, ok |-> TRUE]

-----------------------------------------------------------------------------
(* Prover entry points.                                                    *)

StartProving(mode, sched, chunks, packaged) ==
  /\ pc = "idle"
  /\ pc' = "proving"
  /\ prover' = [prover EXCEPT !.mode = mode, !.sched = sched, !.chunks = chunks, !.packaged = packaged]
  /\ session' = EmptySession(sched)
  /\ UNCHANGED <<package, trail, damage, verifier, replay>>

RefuseSchedule(sched) ==
  /\ pc = "idle"
  /\ ~ScheduleValid(sched)
  /\ pc' = "failed"
  /\ prover' = [prover EXCEPT !.sched = sched]
  /\ UNCHANGED <<session, package, trail, damage, verifier, replay>>

\* Starts on whatever it is given; the schedule is looked at only at the end.
ProveChunksWithCache ==
  \E call \in CallerChunks : StartProving(call.mode, call.sched, call.chunks, FALSE)

\* Validates the schedule first, the chunk list only at the end.
ProveChunksWithPerf ==
  \E call \in CallerChunks :
    \/ RefuseSchedule(call.sched)
    \/ ScheduleValid(call.sched) /\ StartProving(call.mode, call.sched, call.chunks, FALSE)

\* Cuts the steps itself, then goes on as ProveChunksWithPerf does.
ProveRun ==
  \E call \in CallerRuns :
    \/ RefuseSchedule(call.sched)
    \/ /\ ScheduleValid(call.sched)
       /\ StartProving(call.mode, call.sched, PartitionItems(call.sched, call.steps), FALSE)

\* As ProveRun, on prepared chunks, and packages the session afterwards.
ProveAndPackage ==
  \E call \in CallerRuns :
    \/ RefuseSchedule(call.sched)
    \/ /\ ScheduleValid(call.sched)
       /\ StartProving(call.mode, call.sched, PartitionItems(call.sched, call.steps), TRUE)

\* The body of the proving loop.
ProveChunk ==
  /\ pc = "proving"
  /\ Len(session.chunks) < Len(prover.chunks)
  /\ LET chunk == prover.chunks[Len(session.chunks) + 1]
         proved == ProveTransition(prover.mode, prover.tr, chunk, prover.claims, prover.wits)
     IN  IF proved.ok
         THEN /\ prover' = [prover EXCEPT !.tr = ChunkDone(proved.tr),
                                          !.claims = proved.claims, !.wits = proved.wits]
              /\ session' = [session EXCEPT !.chunks = Append(@, proved.proof)]
              /\ trail' = Append(trail, [tr |-> ChunkDone(proved.tr), claims |-> proved.claims])
              /\ pc' = pc
         ELSE pc' = "failed" /\ UNCHANGED <<prover, session, trail>>
  /\ UNCHANGED <<package, damage, verifier, replay>>

-----------------------------------------------------------------------------
(* Packaging.                                                              *)

\* The compact digest of a chunk proof, over the relation digest given.
CompactDigest(proof, publicDigest, relation) ==
  <<publicDigest, Len(proof.outputs), Len(proof.children), proof.header, relation>>

StatementDigest(sched, digests, final) == <<"statement", MetaWords(sched), digests, final>>

\* `relations` holds the relation digest each chunk proof enters with.
FinalProofDigest(statementDigest, s, digests, relations) ==
  LET paired == 1..(IF Len(s.chunks) < Len(digests) THEN Len(s.chunks) ELSE Len(digests))
  IN  <<"final", statementDigest, MetaWords(s.sched), Len(s.chunks), Len(s.final),
        [i \in paired |-> CompactDigest(s.chunks[i], digests[i], relations[i])]>>

CarriedRelations(s) == [i \in DOMAIN s.chunks |-> s.chunks[i].relation]
RecomputedRelations(s) ==
  [i \in DOMAIN s.chunks |->
     ChunkRelationDigest(s.chunks[i].outputs, s.chunks[i].parent, s.chunks[i].children)]

\* validate_public_chunks_against_session and validate_chunk_schedule.
Packageable(chunks, s) ==
  /\ chunks = [i \in DOMAIN s.chunks |-> s.chunks[i].chunk]
  /\ ScheduleValid(s.sched)
  /\ ChunkCount(s.sched, StepCount(chunks)) = Len(chunks)

PackageSession(chunks, s) ==
  LET digests == PublicChunkDigests(chunks)
      statementDigest == StatementDigest(s.sched, digests, s.final)
  IN  [made |-> TRUE, sched |-> s.sched, count |-> Len(chunks), chunks |-> chunks,
       final |-> s.final, digest |-> statementDigest,
       proofDigest |-> FinalProofDigest(statementDigest, s, digests, CarriedRelations(s))]

\* Done after the first chunk instead of the last.
FinishProving_early ==
  /\ pc = "proving"
  /\ session' = [session EXCEPT !.final = prover.claims]
  /\ pc' = "stored"
  /\ UNCHANGED <<package, prover, trail, damage, verifier, replay>>

\* What follows the proving loop: the layout check, the footer, and for the
\* packaging entry point the package.
FinishProving ==
  /\ pc = "proving"
  /\ Len(session.chunks) = Len(prover.chunks)
  /\ LET chunks == [i \in DOMAIN session.chunks |-> session.chunks[i].chunk]
         finished == [session EXCEPT !.final = prover.claims]
         packs == prover.packaged /\ Packageable(PublicAll(prover.chunks), finished)
     IN  IF LayoutValid(prover.sched, chunks) /\ (prover.packaged => packs)
         THEN /\ session' = finished
              /\ package' = IF packs THEN PackageSession(PublicAll(prover.chunks), finished)
                            ELSE NoPackage
              /\ pc' = "stored"
         ELSE pc' = "failed" /\ UNCHANGED <<session, package>>
  /\ UNCHANGED <<prover, trail, damage, verifier, replay>>

-----------------------------------------------------------------------------
(* Storage: a session that is read back is whole, or one thing is wrong.   *)

\* The session as the verifier reads it.
Stored ==
  LET s == session
      n == Len(s.chunks)
  IN  CASE damage = "none" -> s
        [] damage = "truncated" -> [s EXCEPT !.chunks = SubSeq(s.chunks, 1, n - 1)]
        [] damage = "repeated" -> [s EXCEPT !.chunks = Append(s.chunks, s.chunks[n])]
        [] damage = "swapped" ->
             [s EXCEPT !.chunks = <<s.chunks[2], s.chunks[1]>> \o SubSeq(s.chunks, 3, n)]
        [] damage = "old_footer" ->
             [s EXCEPT !.final = IF n > 1 THEN trail[n - 1].claims ELSE <<>>]
        [] damage = "other_schedule" ->
             [s EXCEPT !.sched = IF s.sched.whole THEN RowsPerChunk(1) ELSE WholeTrace]
        [] damage = "old_relation" ->
             [s EXCEPT !.chunks[n].relation = <<"old">>]
        [] damage = "old_children" ->
             [s EXCEPT !.chunks[n].children = prover.claims \o @]

DamageStore ==
  /\ pc = "stored"
  /\ damage = "none"
  /\ \E d \in Damages :
       /\ Len(session.chunks) >= (IF d = "swapped" THEN 2 ELSE 1)
       /\ damage' = d
  /\ UNCHANGED <<pc, prover, session, package, trail, verifier, replay>>

-----------------------------------------------------------------------------
(* Verifier entry points.                                                  *)

\* The checks that precede the verifying loop, on the session as it is read.
StartVerifying(entry, mode, chunks, digests, mayStart) ==
  /\ pc = "stored"
  /\ IF mayStart /\ LayoutValid(Stored.sched, chunks) /\ Len(digests) = Len(chunks)
     THEN pc' = "verifying"
     ELSE pc' = "rejected"
  /\ verifier' = [entry |-> entry, mode |-> mode, chunks |-> chunks, digests |-> digests,
                  tr |-> NewSession, claims |-> <<>>, next |-> 1]
  /\ UNCHANGED <<prover, session, package, trail, damage, replay>>

VerifyChunks ==
  \E mode \in Modes, chunks \in PublicChunks \union {PublicAll(prover.chunks)} :
    StartVerifying("chunks", mode, chunks, PublicChunkDigests(chunks), TRUE)

\* Cuts the verifier's own steps by the schedule the session carries.
VerifyRun ==
  \E mode \in Modes, chunks \in PublicChunks \union {PublicAll(prover.chunks)} :
    LET steps == Flatten(chunks)
        cut == IF ScheduleValid(Stored.sched) THEN PartitionItems(Stored.sched, steps) ELSE <<>>
    IN  StartVerifying("run", mode, cut, PublicChunkDigests(cut), ScheduleValid(Stored.sched))

\* What both packaged entry points check of the statement, with the chunk
\* digests they are to use and the relation digests they trust.
StatementHolds(digests, relations) ==
  /\ package.digest = StatementDigest(package.sched, digests, package.final)
  /\ package.count = Len(package.chunks)
  /\ ScheduleValid(package.sched)
  /\ ChunkCount(package.sched, StepCount(package.chunks)) = Len(package.chunks)
  /\ Stored.sched = package.sched
  /\ package.proofDigest = FinalProofDigest(package.digest, Stored, digests, relations)

VerifyPackaged ==
  /\ package.made
  /\ \E mode \in Modes :
       LET digests == PublicChunkDigests(package.chunks)
       IN  StartVerifying("packaged", mode, package.chunks, digests,
                          StatementHolds(digests, RecomputedRelations(Stored)))

\* The caller brings chunk digests it computed earlier, for these chunks or
\* for others.
VerifyPackagedPrecomputed ==
  /\ package.made
  /\ \E mode \in Modes, chunks \in PublicChunks \union {package.chunks} :
       LET digests == PublicChunkDigests(chunks)
       IN  StartVerifying("precomputed", mode, package.chunks, digests,
                          /\ Len(package.chunks) = Len(digests)
                          /\ StatementHolds(digests, CarriedRelations(Stored)))

\* The end-of-chunk mark left out of the verifier's transcript.
VerifyChunk_noMark ==
  /\ pc = "verifying"
  /\ verifier.next <= Len(Stored.chunks)
  /\ LET i == verifier.next
         checked == IF i > Len(verifier.chunks) THEN Refused
                    ELSE VerifyTransition(verifier.mode, verifier.tr, verifier.chunks[i],
                                          verifier.digests[i], verifier.claims, Stored.chunks[i])
     IN  IF checked.ok
         THEN /\ verifier' = [verifier EXCEPT !.tr = checked.tr, !.claims = checked.claims, !.next = i + 1]
              /\ pc' = pc
         ELSE pc' = "rejected" /\ UNCHANGED verifier
  /\ UNCHANGED <<prover, session, package, trail, damage, replay>>

\* The body of the verifying loop: it runs over the chunk proofs.
VerifyChunk ==
  /\ pc = "verifying"
  /\ verifier.next <= Len(Stored.chunks)
  /\ LET i == verifier.next
         checked == IF i > Len(verifier.chunks) THEN Refused
                    ELSE VerifyTransition(verifier.mode, verifier.tr, verifier.chunks[i],
                                          verifier.digests[i], verifier.claims, Stored.chunks[i])
     IN  IF checked.ok
         THEN /\ verifier' = [verifier EXCEPT !.tr = ChunkDone(checked.tr),
                                              !.claims = checked.claims, !.next = i + 1]
              /\ pc' = pc
         ELSE pc' = "rejected" /\ UNCHANGED verifier
  /\ UNCHANGED <<prover, session, package, trail, damage, replay>>

\* The footer's claims taken on trust.
FinishVerifying_noFooter ==
  /\ pc = "verifying"
  /\ verifier.next > Len(Stored.chunks)
  /\ pc' = IF Len(verifier.chunks) = Len(Stored.chunks) THEN "accepted" ELSE "rejected"
  /\ UNCHANGED <<prover, session, package, trail, damage, verifier, replay>>

\* The loop expected to cover the public chunks, not the chunk proofs.
FinishVerifying_publicList ==
  /\ pc = "verifying"
  /\ verifier.next > Len(verifier.chunks)
  /\ pc' = IF verifier.claims = Stored.final THEN "accepted" ELSE "rejected"
  /\ UNCHANGED <<prover, session, package, trail, damage, verifier, replay>>

\* What follows the loop: both lists used up, the footer, the statement.
FinishVerifying ==
  /\ pc = "verifying"
  /\ verifier.next > Len(Stored.chunks)
  /\ pc' = IF /\ Len(verifier.chunks) = Len(Stored.chunks)
              /\ verifier.claims = Stored.final
              /\ verifier.entry \in {"packaged", "precomputed"} => verifier.claims = package.final
           THEN "accepted" ELSE "rejected"
  /\ UNCHANGED <<prover, session, package, trail, damage, verifier, replay>>

-----------------------------------------------------------------------------
(* The replayer of the final relations, beside the stored session.         *)

\* The end-of-chunk mark left out of the replayer's transcript.
ReplayChunk_noMark ==
  /\ pc = "stored" /\ prover.mode = "Optimized" /\ replay.ok
  /\ Len(replay.relations) < Len(session.chunks)
  /\ LET i == Len(replay.relations) + 1
         replayed == ReplayTransition(replay.tr, prover.chunks[i], replay.claims, replay.wits,
                                      session.chunks[i])
     IN  replay' = IF replayed.ok
                   THEN [tr |-> replayed.tr, claims |-> replayed.claims,
                         wits |-> replayed.wits, ok |-> TRUE,
                         relations |-> Append(replay.relations, replayed.relation)]
                   ELSE [replay EXCEPT !.ok = FALSE]
  /\ UNCHANGED <<pc, prover, session, package, trail, damage, verifier>>

ReplayChunk ==
  /\ pc = "stored"
  /\ prover.mode = "Optimized"
  /\ replay.ok
  /\ Len(replay.relations) < Len(session.chunks)
  /\ LET i == Len(replay.relations) + 1
         replayed == ReplayTransition(replay.tr, prover.chunks[i], replay.claims, replay.wits,
                                      session.chunks[i])
     IN  replay' = IF replayed.ok
                   THEN [tr |-> ChunkDone(replayed.tr), claims |-> replayed.claims,
                         wits |-> replayed.wits, ok |-> TRUE,
                         relations |-> Append(replay.relations, replayed.relation)]
                   ELSE [replay EXCEPT !.ok = FALSE]
  /\ UNCHANGED <<pc, prover, session, package, trail, damage, verifier>>

Prove == \/ ProveChunksWithCache \/ ProveChunksWithPerf \/ ProveRun \/ ProveAndPackage
         \/ ProveChunk \/ FinishProving

Verify == \/ VerifyChunks \/ VerifyRun \/ VerifyPackaged \/ VerifyPackagedPrecomputed
          \/ VerifyChunk \/ FinishVerifying

Next == Prove \/ DamageStore \/ Verify \/ ReplayChunk

\* Once begun, proving and verifying are plain loops that run to their end.
Spec ==
  /\ Init /\ [][Next]_vars
  /\ WF_vars(ProveChunk) /\ WF_vars(FinishProving)
  /\ WF_vars(VerifyChunk) /\ WF_vars(FinishVerifying)

-----------------------------------------------------------------------------
(* Properties.                                                             *)

Proved == pc \in {"stored", "verifying", "accepted", "rejected"}

\* Each chunk mixes its fresh steps with everything carried from the one before.
FitsNormBound(chunks) ==
  \A i \in DOMAIN chunks : Len(chunks[i].steps) + (IF i = 1 THEN 0 ELSE KRho) <= MaxClaims

WitnessesOpen(chunks) ==
  \A i \in DOMAIN chunks : \A j \in DOMAIN chunks[i].steps :
    chunks[i].steps[j].ok /\ chunks[i].steps[j].wit = chunks[i].steps[j].com

\* Type invariant: the counters that relate the lists of the three actors.
SessionTypeOK ==
  /\ pc \in {"idle", "proving", "failed", "stored", "verifying", "accepted", "rejected"}
  /\ Len(session.chunks) = Len(trail)
  /\ Len(session.chunks) <= Len(prover.chunks)
  /\ Proved => Len(session.chunks) = Len(prover.chunks)
  /\ pc \in {"verifying", "accepted"} => verifier.next <= Len(Stored.chunks) + 1
  /\ Len(replay.relations) <= Len(session.chunks)

\* Whatever entry point is used, early or late validation, a session completes
\* exactly when its layout is a cut of its steps, every witness satisfies the
\* constraints and opens its commitment, and every chunk fits the norm bound.
\* A stale but satisfying witness passes Π_CCS and must be caught by Π_DEC.
OutcomeIsFeasibility ==
  LET feasible == /\ LayoutValid(prover.sched, prover.chunks)
                  /\ WitnessesOpen(prover.chunks)
                  /\ FitsNormBound(prover.chunks)
  IN  /\ pc = "failed" => ~feasible
      /\ Proved => feasible

\* What is carried into the next chunk is one digit set at one evaluation
\* point, each claim opened by the witness carried beside it.
CarryCoherent ==
  /\ Len(prover.claims) = Len(prover.wits)
  /\ Len(prover.claims) \in {0, KRho}
  /\ SharedPoint(prover.claims)
  /\ \A i \in DOMAIN prover.claims :
       prover.claims[i].com = prover.wits[i] /\ prover.claims[i].val = prover.wits[i]

\* After every chunk it lets through, the verifier holds the transcript and the
\* carried claims the prover held after that chunk.
TranscriptsAgree ==
  pc \in {"verifying", "accepted"} /\ verifier.next > 1 =>
    /\ verifier.tr = trail[verifier.next - 1].tr
    /\ verifier.claims = trail[verifier.next - 1].claims

SameBinding(m1, m2) == (m1 = "Optimized") = (m2 = "Optimized")

\* A whole session, checked against the data it was proved for, is accepted by
\* every verifier entry point in every mode that binds instances the same way.
HonestSessionAccepted ==
  pc = "rejected" =>
    \/ damage # "none"
    \/ verifier.chunks # PublicAll(prover.chunks)
    \/ verifier.digests # PublicChunkDigests(verifier.chunks)
    \/ ~SameBinding(prover.mode, verifier.mode)

\* What is accepted is what was proved: the chunks, in order and complete, the
\* final claims, the chunk proofs but for the relation digest they carry; the
\* packaged entry points also fix the schedule, and the one that trusts carried
\* relation digests fixes those.
AcceptedIsProved ==
  pc = "accepted" =>
    /\ verifier.chunks = PublicAll(prover.chunks)
    /\ verifier.claims = prover.claims
    /\ prover.chunks # <<>> => SameBinding(prover.mode, verifier.mode)
    /\ Stored.final = session.final
    /\ DOMAIN Stored.chunks = DOMAIN session.chunks
    /\ \A i \in DOMAIN session.chunks :
         Stored.chunks[i] = [session.chunks[i] EXCEPT !.relation = Stored.chunks[i].relation]
    /\ verifier.entry \in {"packaged", "precomputed"} => Stored.sched = session.sched
    /\ verifier.entry = "precomputed" => Stored = session

\* Replaying the chunk relation from witnesses and recorded Π_CCS proofs gives
\* the prover's transcript, carry and relation digests, chunk by chunk.
ReplayAgrees ==
  LET n == Len(replay.relations)
  IN  /\ replay.ok
      /\ \A i \in 1..n : replay.relations[i] = session.chunks[i].relation
      /\ n > 0 => replay.tr = trail[n].tr /\ replay.claims = trail[n].claims

\* Proving and verifying end, whatever they are given.
SessionsSettle ==
  /\ pc = "proving" ~> pc \in {"stored", "failed"}
  /\ pc = "verifying" ~> pc \in {"accepted", "rejected"}
=============================================================================
