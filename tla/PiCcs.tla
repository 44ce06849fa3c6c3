------------------------------- MODULE PiCcs -------------------------------
(***************************************************************************)
(* The reduction of the optimized engine, from the checks of the public    *)
(* interface to the verdict.  A run takes one instance and one transcript  *)
(* through: the range check and the bindings, the rounds of the row and    *)
(* evaluation channel, those of the norm channel, the outputs, a delivery  *)
(* that may alter the proof, and the verification.  Commitments are        *)
(* opaque.                                                                 *)
(*                                                                         *)
(* A fresh claim is [c, x]; a carried claim, which is also the shape of an *)
(* output, is [c, x, r, sCol, y, ct, yZcol, foldDigest] with x its         *)
(* projected public inputs, one ring element for each.                     *)
(***************************************************************************)
EXTENDS PaperExact, CeClaims

CONSTANTS
    Instances,    \* what a run may start from
    Seeds,        \* application labels of the transcript
    Label,        \* the byte label of each name
    Damages,      \* what a delivery may do to a proof
    Altered(_, _) \* the message after a damage

VARIABLES
    pc, inst,
    tr,           \* the prover's transcript
    start,        \* a copy of it as it was handed to the prover
    ch,           \* the challenges drawn before the rounds
    oracle, running, fe, feChals,        \* first channel: rounds and challenges
    ncOracle, ncRunning, nc, ncChals,    \* norm channel
    proof,        \* the message as made
    sent,         \* the message as delivered
    verdict

feVars == <<oracle, running, fe, feChals>>
ncVars == <<ncOracle, ncRunning, nc, ncChals>>
vars == <<pc, inst, tr, start, ch, feVars, ncVars, proof, sent, verdict>>

FeRounds == EllN + EllD
NcRounds == EllM + EllD
Claims(s) == [i \in DOMAIN s |-> s[i].claim]

---------------------------------------------------------------------------
(* Checks of the interface *)

(***************************************************************************)
(* validate_mcs_output_x_recomposition: each public input in its lane, and *)
(* nothing in the other lanes.                                             *)
(***************************************************************************)
XRecomposes(fresh, outs) == \A i \in DOMAIN fresh :
    /\ i \in DOMAIN outs
    /\ DOMAIN outs[i].x = DOMAIN fresh[i].x
    /\ \A c \in DOMAIN fresh[i].x : \A rho \in Idx :
          outs[i].x[c][rho] = IF rho = c % D THEN fresh[i].x[c] ELSE 0

(* What the prover's side is asked before anything is bound. *)
Prevalidated(in) ==
    /\ Fresh(in) > 0
    /\ CtMatches(Claims(in.me))
    /\ SharedPoint(Claims(in.me))
    /\ \A i \in 1..Total(in) : NcRepresentable(SlotZ(in, i), in.b)

---------------------------------------------------------------------------
(* Bindings and challenges *)

FieldSlice(xs) == <<Len(xs)>> \o xs
Spread(f, n) == [i \in 1..n |-> f[i - 1]]

(* The header, without the parameters and digests that a model fixes. *)
BindHeader(t, in) ==
    AppendU64s(AppendU64s(AppendMessage(t, Label["neo/ccs"], <<>>),
                          Label["ccs/header"], <<RoundDegree(in.b)>>),
               Label["dims/v2"], <<Rows, Cols, Len(Matrices), EllD, EllN, EllM>>)

BindFresh(t, claims) ==
    LET one(c) == LET n == Cardinality(DOMAIN c.x)
                  IN  FieldSlice(Spread(c.x, n)) \o <<n>> \o FieldSlice(c.c)
    IN  AppendFieldsIter(t, Label["mcs_instances/v2"],
            <<Len(claims)>> \o FlattenSeq([i \in DOMAIN claims |-> one(claims[i])]))

(***************************************************************************)
(* me_digest_poseidon: an additive sponge over the encoded claim.          *)
(***************************************************************************)
HashBlock(st, xs) ==
    After(st, LAMBDA s0 :
        Permute(FoldLeft(LAMBDA s, i : Overwrite(s, i - 1, (Lane(s, i - 1) + xs[i]) % P),
                         s0, [i \in DOMAIN xs |-> i])))

Poseidon2Hash(xs) ==
    LET padded == HashBlock(FoldLeft(HashBlock, ZeroState, Chunks(xs, Rate)), <<1>>)
    IN  [i \in 1..Rate |-> Lane(padded, i - 1)]

MeEncoding(m) ==
    LET n == Cardinality(DOMAIN m.x)
    IN  FieldSlice(m.c)
        \o FieldSlice(FlattenSeq([c \in 1..n |-> Spread(m.x[c - 1], D)]))
        \o FieldSlice(m.r) \o FieldSlice(m.sCol) \o FieldSlice(Spread(m.yZcol, Size(m.yZcol)))
        \o FlattenSeq([j \in MatIds |-> FieldSlice(Spread(m.y[j], DPad))])
        \o FieldSlice(m.ct) \o <<n>> \o FieldSlice(m.foldDigest)

(* bind_me_inputs *)
BindCarried(t, claims) ==
    LET counted == AppendU64s(AppendMessage(t, Label["me_inputs"], <<>>), Label["me_count"],
                              <<Len(claims)>>)
    IN  AppendFieldsIter(counted, Label["me_digest"],
            FlattenSeq([i \in DOMAIN claims |-> Poseidon2Hash(MeEncoding(claims[i]))]))

Bind(t, in) == BindCarried(BindFresh(BindHeader(t, in), Claims(in.mcs)), Claims(in.me))

ChallengePoint(t, n) ==
    LET more(acc) == After(ChallengeK(acc.tr, Label["chal/k"]), LAMBDA c :
                         [tr |-> c.tr, point |-> Append(acc.point, c.value)])
    IN  FoldLeft(LAMBDA acc, k : After(acc, more), [tr |-> t, point |-> <<>>], [k \in 1..n |-> k])

(* sample_challenges and sample_beta_m *)
SampleChallenges(t) ==
    After(ChallengePoint(AppendMessage(t, Label["chals"], <<>>), EllD), LAMBDA alpha :
    After(ChallengePoint(alpha.tr, EllD + EllN), LAMBDA beta :
    After(ChallengeK(beta.tr, Label["chal/k"]), LAMBDA gamma :
    After(ChallengePoint(AppendMessage(gamma.tr, Label["nc_beta_m"], <<>>), EllM), LAMBDA betaM :
        [tr |-> betaM.tr,
         ch |-> [alpha |-> alpha.point,
                 betaA |-> SubSeq(beta.point, 1, EllD),
                 betaR |-> SubSeq(beta.point, EllD + 1, EllD + EllN),
                 gamma |-> gamma.value, betaM |-> betaM.point]]))))

(***************************************************************************)
(* claimed_initial_sum_from_inputs: the public sum of the evaluation block.*)
(***************************************************************************)
ClaimedSum(in, c) ==
    IF Total(in) < 2 THEN 0
    ELSE (Power(c.gamma, Total(in))
          * OverCarried(in, LAMBDA i, j :
                EvalWeight(in, c, i, j) * MleValue(in.me[i - Fresh(in)].claim.y[j], c.alpha))) % P

StartChannel(t, name, sum) ==
    AppendFields(AppendMessage(t, Label[name], <<>>), Label["initial_sum"], <<sum>>)

---------------------------------------------------------------------------
(* Terminal identities *)

(* The variant has the weights of the norm channel start at one. *)
RhsNc_fromOne(in, c, s, a, outs) ==
    (((EqPoints(a, c.betaA) * EqPoints(s, c.betaM)) % P)
     * SumTo(Len(outs), LAMBDA i :
           Power(c.gamma, i) * RangeProduct(MleValue(outs[i + 1].yZcol, a), in.b))) % P

RhsNc(in, c, s, a, outs) ==
    (((EqPoints(a, c.betaA) * EqPoints(s, c.betaM)) % P)
     * SumTo(Len(outs), LAMBDA i :
           Power(c.gamma, i + 1) * RangeProduct(MleValue(outs[i + 1].yZcol, a), in.b))) % P

RhsFe(in, c, r, a, outs) ==
    LET f == SumTo(Fresh(in), LAMBDA i : Power(c.gamma, i) * PolyF(outs[i + 1].ct))
        inner == OverCarried(in, LAMBDA i, j : EvalWeight(in, c, i, j) * MleValue(outs[i].y[j], a))
        gate == IF HasInputs(in)
                THEN (EqPoints(a, c.alpha) * EqPoints(r, InputPoint(in))) % P ELSE 0
    IN  (((EqPoints(a, c.betaA) * EqPoints(r, c.betaR)) % P) * f
         + gate * ((Power(c.gamma, Total(in)) * inner) % P)) % P

(* validate_me_outputs_against_inputs *)
OutputsAligned(in, r, sCol, outs) ==
    /\ Len(outs) = Total(in)
    /\ \A i \in DOMAIN outs :
          /\ outs[i].r = r
          /\ outs[i].sCol = sCol
          /\ Size(outs[i].yZcol) = DPad
          /\ IF i <= Fresh(in)
             THEN /\ outs[i].c = in.mcs[i].claim.c
                  /\ DOMAIN outs[i].x = DOMAIN in.mcs[i].claim.x
             ELSE /\ outs[i].c = in.me[i - Fresh(in)].claim.c
                  /\ outs[i].x = in.me[i - Fresh(in)].claim.x

OutputsValid(in, r, sCol, outs) ==
    /\ OutputsAligned(in, r, sCol, outs)
    /\ CtMatches(outs)
    /\ XRecomposes(Claims(in.mcs), outs)

---------------------------------------------------------------------------
(* The prover *)

Degree == RoundDegree(inst.b)

Init ==
    /\ pc = "begin"
    /\ inst \in Instances
    /\ \E seed \in Seeds : tr = NewTranscript(seed)
    /\ start = tr
    /\ ch = <<>>
    /\ oracle = <<>> /\ running = 0 /\ fe = <<>> /\ feChals = <<>>
    /\ ncOracle = <<>> /\ ncRunning = 0 /\ nc = <<>> /\ ncChals = <<>>
    /\ proof = <<>> /\ sent = <<>> /\ verdict = "none"

Refuse ==
    /\ pc = "begin"
    /\ ~Prevalidated(inst)
    /\ pc' = "refused"
    /\ UNCHANGED <<inst, tr, start, ch, feVars, ncVars, proof, sent, verdict>>

Begin ==
    /\ pc = "begin"
    /\ Prevalidated(inst)
    /\ LET drawn == SampleChallenges(Bind(tr, inst))
           sum == ClaimedSum(inst, drawn.ch)
       IN  /\ ch' = drawn.ch
           /\ running' = sum
           /\ oracle' = RowStream(inst, drawn.ch)
           /\ tr' = StartChannel(drawn.tr, "sumcheck/fe", sum)
    /\ pc' = "fe"
    /\ UNCHANGED <<inst, start, fe, feChals, ncVars, proof, sent, verdict>>

FeEvals ==
    IF Len(fe) < EllN THEN RowEvals(oracle, inst, ch, Degree)
    ELSE AjtaiEvals(oracle, inst, ch, SubSeq(feChals, EllN + 1, Len(feChals)), Degree)

(* The oracle after challenge r; all rows bound, the ring values follow. *)
FeOracleAfter(r) ==
    CASE Len(fe) + 1 < EllN -> FoldRowStream(oracle, inst, r)
      [] Len(fe) + 1 = EllN -> PrecomputeForR(inst, ch, Append(feChals, r))
      [] OTHER -> oracle

FeRound ==
    /\ pc = "fe"
    /\ Len(fe) < FeRounds
    /\ LET ys == FeEvals
           coeffs == Whole(Interpolate(ys, Degree))
           c == ChallengeK(AppendRound(tr, coeffs), RoundLabel)
       IN  /\ (ys[0] + ys[1]) % P = running
           /\ fe' = Append(fe, coeffs)
           /\ feChals' = Append(feChals, c.value)
           /\ running' = PolyEval(coeffs, c.value)
           /\ oracle' = FeOracleAfter(c.value)
           /\ tr' = c.tr
    /\ UNCHANGED <<pc, inst, start, ch, ncVars, proof, sent, verdict>>

FeStop ==
    /\ pc = "fe"
    /\ Len(fe) < FeRounds
    /\ LET ys == FeEvals IN (ys[0] + ys[1]) % P # running
    /\ pc' = "stopped"
    /\ UNCHANGED <<inst, tr, start, ch, feVars, ncVars, proof, sent, verdict>>

StartNc ==
    /\ pc = "fe"
    /\ Len(fe) = FeRounds
    /\ ncOracle' = NcTables(inst, ch)
    /\ ncRunning' = 0
    /\ tr' = StartChannel(tr, "sumcheck/nc", 0)
    /\ pc' = "nc"
    /\ UNCHANGED <<inst, start, ch, feVars, nc, ncChals, proof, sent, verdict>>

(* Here too a sum that is not the running one stops the prover. *)
NcRound ==
    /\ pc = "nc"
    /\ Len(nc) < NcRounds
    /\ LET column == Len(nc) < EllM
           coeffs == Whole(NcRoundCoeffs(ncOracle, ch, inst.b, Degree, column,
                                         SubSeq(ncChals, EllM + 1, Len(ncChals))))
           c == ChallengeK(AppendRound(tr, coeffs), RoundLabel)
       IN  IF (coeffs[1] + PolyEval(coeffs, 1)) % P = ncRunning
           THEN /\ nc' = Append(nc, coeffs)
                /\ ncChals' = Append(ncChals, c.value)
                /\ ncRunning' = PolyEval(coeffs, c.value)
                /\ ncOracle' = IF column THEN FoldNcTables(ncOracle, c.value) ELSE ncOracle
                /\ tr' = c.tr
                /\ UNCHANGED pc
           ELSE /\ pc' = "stopped"
                /\ UNCHANGED <<ncVars, tr>>
    /\ UNCHANGED <<inst, start, ch, feVars, proof, sent, verdict>>

(***************************************************************************)
(* build_me_outputs_from_ajtai_precomp: one output for each slot.          *)
(***************************************************************************)
OutputOf(i, digest) ==
    LET claim == IF i <= Fresh(inst) THEN inst.mcs[i].claim ELSE inst.me[i - Fresh(inst)].claim
        y == [j \in MatIds |-> Padded(oracle.yEval[i][j])]
    IN  [c |-> claim.c,
         x |-> IF i <= Fresh(inst) THEN ProjectX(claim.x) ELSE claim.x,
         r |-> SubSeq(feChals, 1, EllN),
         sCol |-> SubSeq(ncChals, 1, EllM),
         y |-> y,
         ct |-> [j \in MatIds |-> CtFromDigits(y[j])],
         yZcol |-> Padded(ncOracle.digits[i][0]),
         foldDigest |-> digest]

BuildOutputs ==
    /\ pc = "nc"
    /\ Len(nc) = NcRounds
    /\ LET d == Digest(tr)
       IN  /\ proof' = [claims |-> inst, initial |-> ClaimedSum(inst, ch), fe |-> fe, nc |-> nc,
                        outs |-> [i \in 1..Total(inst) |-> OutputOf(i, d.out)]]
           /\ tr' = d.tr
    /\ pc' = "built"
    /\ UNCHANGED <<inst, start, ch, feVars, ncVars, sent, verdict>>

(***************************************************************************)
(* validate_replay_terminal_state, where the prover replays instead of     *)
(* proving.                                                                *)
(***************************************************************************)
ReplayAccepts ==
    /\ OutputsValid(inst, SubSeq(feChals, 1, EllN), SubSeq(ncChals, 1, EllM), proof.outs)
    /\ running = RhsFe(inst, ch, SubSeq(feChals, 1, EllN),
                       SubSeq(feChals, EllN + 1, FeRounds), proof.outs)
    /\ ncRunning = RhsNc(inst, ch, SubSeq(ncChals, 1, EllM),
                         SubSeq(ncChals, EllM + 1, NcRounds), proof.outs)

---------------------------------------------------------------------------
(* Delivery and verification *)

(* A proof goes together with the claims that its receiver holds. *)
Deliver ==
    /\ pc = "built"
    /\ \E d \in Damages : sent' = Altered(proof, d)
    /\ pc' = "delivered"
    /\ UNCHANGED <<inst, tr, start, ch, feVars, ncVars, proof, verdict>>

(* The two channels as the receiver walks them. *)
Walk(m) ==
    After(SampleChallenges(Bind(start, m.claims)), LAMBDA drawn :
    After(ClaimedSum(m.claims, drawn.ch), LAMBDA sum :
    After(VerifyRounds(StartChannel(drawn.tr, "sumcheck/fe", sum),
                       RoundDegree(m.claims.b), sum, m.fe), LAMBDA first :
        [ch |-> drawn.ch, sum |-> sum, fe |-> first,
         nc |-> VerifyRounds(StartChannel(first.tr, "sumcheck/nc", 0),
                             RoundDegree(m.claims.b), 0, m.nc)])))

WalkAccepted(m, w) ==
    LET in == m.claims
        r == SubSeq(w.fe.chals, 1, EllN)
        s == SubSeq(w.nc.chals, 1, EllM)
    IN  /\ CtMatches(Claims(in.me)) /\ CtMatches(m.outs)
        /\ SharedPoint(Claims(in.me)) /\ SharedPoint(m.outs)
        /\ XRecomposes(Claims(in.mcs), m.outs)
        /\ m.initial = w.sum
        /\ Len(m.fe) = FeRounds /\ Len(m.nc) = NcRounds
        /\ w.fe.ok
        /\ w.nc.ok
        /\ OutputsValid(in, r, s, m.outs)
        /\ w.fe.sum = RhsFe(in, w.ch, r, SubSeq(w.fe.chals, EllN + 1, FeRounds), m.outs)
        /\ w.nc.sum = RhsNc(in, w.ch, s, SubSeq(w.nc.chals, EllM + 1, NcRounds), m.outs)

Accepts(m) == WalkAccepted(m, Walk(m))

Verify ==
    /\ pc = "delivered"
    /\ verdict' = IF Accepts(sent) THEN "accepted" ELSE "rejected"
    /\ pc' = "done"
    /\ UNCHANGED <<inst, tr, start, ch, feVars, ncVars, proof, sent>>

Next ==
    \/ Refuse \/ Begin
    \/ FeRound \/ FeStop
    \/ StartNc \/ NcRound
    \/ BuildOutputs \/ Deliver \/ Verify

Spec == Init /\ [][Next]_vars

---------------------------------------------------------------------------
(* Properties *)

AgreesWith(coeffs, f(_)) == \A x \in 0..Degree : PolyEval(coeffs, x) = f(x)

(***************************************************************************)
(* Every round polynomial of the optimized oracles, from folded tables,    *)
(* expanded kernels and tail weights, is the sum of the paper's polynomial *)
(* over what is not bound yet, in all its coefficients.                    *)
(***************************************************************************)
RoundsArePaperRounds ==
    /\ pc = "fe" /\ fe # <<>> =>
          AgreesWith(Last(fe), LAMBDA x : FeSum(inst, ch, Append(Front(feChals), x)))
    /\ pc = "nc" /\ nc # <<>> =>
          AgreesWith(Last(nc), LAMBDA x : NcSum(inst, ch, Append(Front(ncChals), x)))

(* The witnesses satisfy the system, and the carried claims are true. *)
Satisfied(in) ==
    /\ \A i \in DOMAIN in.mcs : \A row \in 0..(Rows - 1) :
          PolyF([j \in MatIds |-> PlainRow(j, row, in.mcs[i].z)]) = 0
    /\ \A i \in DOMAIN in.me :
          LET rows == RingRows(in.me[i].z)
          IN  \A j \in MatIds :
                 in.me[i].claim.y[j] = Padded(RingValue(rows, j, in.me[i].claim.r))

(***************************************************************************)
(* True claims with witnesses in range are never refused and never stop    *)
(* the prover, and whatever proof a prover completes, its own replay check *)
(* and the verifier take it as it was made.                                *)
(***************************************************************************)
HonestProofAccepted ==
    /\ pc \in {"refused", "stopped"} => ~(Prevalidated(inst) /\ Satisfied(inst))
    /\ pc = "built" => ReplayAccepts
    /\ pc = "done" /\ sent = proof => verdict = "accepted"

(***************************************************************************)
(* A prover with a false claim stops at the first round of the first       *)
(* channel, or the random weights hide the fault; it never stops later,    *)
(* where the running sum is its own.                                       *)
(***************************************************************************)
StopsAtTheFirstRound ==
    /\ pc = "stopped" => fe = <<>> /\ FeSum(inst, ch, <<>>) # running
    /\ pc = "fe" /\ Len(fe) = 1 => FeSum(inst, ch, <<>>) = ClaimedSum(inst, ch)

(***************************************************************************)
(* What the outputs claim of a witness is true of it: each ring value is   *)
(* its opening at the row point, its constant term the value of the plain  *)
(* product, and the column row the extension of its digits.                *)
(***************************************************************************)
OutputsOpenTheWitness ==
    pc = "built" => \A i \in 1..Total(inst) :
        LET out == proof.outs[i]
            z == SlotZ(inst, i)
            rows == RingRows(z)
        IN  /\ \A j \in MatIds :
                  /\ out.y[j] = Padded(RingValue(rows, j, out.r))
                  /\ out.ct[j] = PlainValue(j, z, out.r)
            /\ out.yZcol = Padded(DigitsAt(inst, i, out.sCol))

(* For AcceptedIsTrueOrLucky: rounds that are right, at all points or at one.  *)
TrueRound(coeffs, f(_), bound) == AgreesWith(coeffs, LAMBDA x : f(Append(bound, x)))

RightAt(coeffs, f(_), bound, x) == PolyEval(coeffs, x) = f(Append(bound, x))

(* Some round of the walk w is wrong but right at its challenge, or none is    *)
(* wrong and the terminal sums are those of the outputs.                       *)
TrueOrLucky(m, w) ==
    LET in == m.claims
        feSum(p) == FeSum(in, w.ch, p)
        ncSum(p) == NcSum(in, w.ch, p)
        feBound(k) == SubSeq(w.fe.chals, 1, k - 1)
        ncBound(k) == SubSeq(w.nc.chals, 1, k - 1)
        wrongFe == {k \in 1..FeRounds : ~TrueRound(m.fe[k], feSum, feBound(k))}
        wrongNc == {k \in 1..NcRounds : ~TrueRound(m.nc[k], ncSum, ncBound(k))}
    IN  \/ \E k \in wrongFe : RightAt(m.fe[k], feSum, feBound(k), w.fe.chals[k])
        \/ \E k \in wrongNc : RightAt(m.nc[k], ncSum, ncBound(k), w.nc.chals[k])
        \/ /\ wrongFe = {} /\ wrongNc = {}
           /\ feSum(<<>>) = w.sum
           /\ feSum(w.fe.chals) = RhsFe(in, w.ch, feBound(EllN + 1),
                                        SubSeq(w.fe.chals, EllN + 1, FeRounds), m.outs)
           /\ ncSum(w.nc.chals) = RhsNc(in, w.ch, ncBound(EllM + 1),
                                        SubSeq(w.nc.chals, EllM + 1, NcRounds), m.outs)

OutputsCarryTheirSlots(in, outs) ==
    \A i \in 1..Total(in) :
        /\ outs[i].c = (IF i <= Fresh(in) THEN in.mcs[i].claim.c ELSE in.me[i - Fresh(in)].claim.c)
        /\ outs[i].x = (IF i <= Fresh(in) THEN ProjectX(in.mcs[i].claim.x)
                        ELSE in.me[i - Fresh(in)].claim.x)
        /\ \A j \in MatIds : outs[i].ct[j] = outs[i].y[j][0]

(***************************************************************************)
(* An altered proof, or one held against other claims, is accepted only if *)
(* it is still true or a challenge fell on a root: some round polynomial   *)
(* is wrong but right at its own challenge, or all rounds and the claimed  *)
(* sum are right and so are the terminal sums of its outputs.  In any case *)
(* its outputs carry the claims of their slots.                            *)
(***************************************************************************)
AcceptedIsTrueOrLucky ==
    pc = "done" /\ verdict = "accepted" /\ sent # proof =>
        OutputsCarryTheirSlots(sent.claims, sent.outs) /\ TrueOrLucky(sent, Walk(sent))

=============================================================================
