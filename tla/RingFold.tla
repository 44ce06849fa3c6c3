----------------------------- MODULE RingFold -----------------------------
(***************************************************************************)
(* The second half of a chunk transition: claims that share a point are    *)
(* mixed with small ring elements into one parent, whose witness is split  *)
(* again into digits, each with a claim of its own; and what a verifier    *)
(* asks of parent and children.  The claims it starts from are those that  *)
(* the reduction put out.  A claim is [c, x, r, sCol, y, ct, yZcol,        *)
(* foldDigest] and a slot a claim with its witness z.                      *)
(***************************************************************************)
EXTENDS CeClaims, PaperRows, AjtaiCommit

CONSTANTS
    Alphabet,     \* coefficients of a mixing element
    Draws,        \* coefficient vectors that a transcript may yield
    Starts,       \* digit base b, exponent k and slots of a transition
    Damages,      \* what a delivery may do
    Altered(_, _) \* the message after a damage

ASSUME DrawsAreSmall == Draws \subseteq [Idx -> Alphabet]

(* The alphabet is a list of small integers, so that one of them is largest. *)
ASSUME AlphabetIsBounded ==
    /\ Alphabet \subseteq Int
    /\ \E a \in Alphabet : \A c \in Alphabet : Abs(c) <= Abs(a)

ASSUME StartsShape == \A start \in Starts :
    /\ start.b \in Nat \ {0, 1} /\ start.k \in Nat
    /\ Len(start.slots) \in Nat /\ DOMAIN start.slots = 1..Len(start.slots)
    /\ \A i \in DOMAIN start.slots : start.slots[i].z \in [BlockIds -> [Idx -> F]]

VARIABLES
    pc, in,
    rhos,      \* rotation matrices, the same on both sides
    parent, zmix,
    digits,    \* the split witness
    proof, sent,
    outcome

vars == <<pc, in, rhos, parent, zmix, digits, proof, sent, outcome>>

InputClaims(start) == [i \in DOMAIN start.slots |-> start.slots[i].claim]

---------------------------------------------------------------------------
(* The norm bound *)

Expansion == 2 * D * Max({Abs(a) : a \in Alphabet})

(* b to the k, as an integer. *)
IntPower(b, k) == LET pow[e \in 0..k] == IF e = 0 THEN 1 ELSE pow[e - 1] * b IN pow[k]

LeastExponent(b, bound) ==
    CHOOSE k \in 0..bound : /\ bound < IntPower(b, k)
                            /\ \A l \in 0..(k - 1) : bound >= IntPower(b, l)

(* min_k_rho_for_rlc_count; the variant forgets how many claims are mixed. *)
MinKRho_oneClaim(b, count) == LeastExponent(b, Expansion * (b - 1))
MinKRho(b, count) == LeastExponent(b, count * Expansion * (b - 1))

NormGuard(start) == start.k >= MinKRho(start.b, Len(start.slots))

Rotation(a) == Whole(RotFromCoeffs([i \in Idx |-> FromInt(a[i])]))

---------------------------------------------------------------------------
(* Mixing *)

(* The sum of rho_i v_i, on the first D entries. *)
MixRing(rs, vs) ==
    FoldLeft(LAMBDA acc, i : Whole(RingAdd(acc, RotApply(rs[i], vs[i]))), RingZero,
             [i \in DOMAIN rs |-> i])

(***************************************************************************)
(* The parent claim, as the prover makes it and as rlc_public recomputes   *)
(* it.                                                                     *)
(***************************************************************************)
MixedClaim(rs, claims) ==
    LET y == [j \in MatIds |-> Padded(MixRing(rs, [i \in DOMAIN rs |-> claims[i].y[j]]))]
    IN  [c |-> MixCommitments(rs, [i \in DOMAIN rs |-> claims[i].c]),
         x |-> [col \in DOMAIN claims[1].x |->
                   MixRing(rs, [i \in DOMAIN rs |-> claims[i].x[col]])],
         r |-> claims[1].r,
         sCol |-> claims[1].sCol,
         y |-> y,
         ct |-> [j \in MatIds |-> CtFromDigits(y[j])],
         yZcol |-> Padded(MixRing(rs, [i \in DOMAIN rs |-> claims[i].yZcol])),
         foldDigest |-> claims[1].foldDigest]

MixedWitness(rs, slots) ==
    [k \in BlockIds |-> MixRing(rs, [i \in DOMAIN rs |-> slots[i].z[k]])]

(* What rlc_with_commit asks before it mixes. *)
MixInputsValid(start) ==
    LET claims == InputClaims(start)
    IN  /\ \A i \in DOMAIN claims : ShapeOk(claims[i])
        /\ CtMatches(claims)
        /\ SharedPoint(claims)
        /\ \A i \in DOMAIN claims : NcRepresentable(start.slots[i].z, start.b)
        /\ \A i \in DOMAIN rhos : IsRotationMatrix(rhos[i])
        /\ \A i \in DOMAIN claims : claims[i].sCol = claims[1].sCol

---------------------------------------------------------------------------
(* Splitting *)

(***************************************************************************)
(* split_b_matrix_k_with_nonzero_flags: all lanes of all blocks, those     *)
(* behind the last column included.                                        *)
(***************************************************************************)
Fits(x, b, k) ==
    /\ Abs(Balanced(x)) < IntPower(b, k)
    /\ DigitsAndRest(Balanced(x), b, k).rest = 0

Splits(z, b, k) == \A blk \in BlockIds : \A i \in Idx : Fits(z[blk][i], b, k)

SplitWitness(z, b, k) ==
    LET entry == Whole([blk \in BlockIds |-> [i \in Idx |->
                     DigitsAndRest(Balanced(z[blk][i]), b, k).digits]])
    IN  Whole([d \in 1..k |-> [blk \in BlockIds |-> [i \in Idx |-> FromInt(entry[blk][i][d - 1])]]])

NonzeroFlags(zs) == [d \in DOMAIN zs |-> zs[d] # ZeroWitness]

---------------------------------------------------------------------------
(* Children *)

(* project_x_from_witness_mat *)
ProjectWitness(z, cols) ==
    [col \in cols |-> [rho \in Idx |-> IF rho = col % D THEN EntryAt(z, col) ELSE 0]]

(* compute_y_zcol_from_witness_digits *)
DigitOpening(z, b, sCol) ==
    LET table == Whole(NcDigits(z, b))
        chi == ChiTailWeights(sCol)
    IN  Padded([rho \in Idx |-> SumTo(Cols, LAMBDA c : table[c][rho] * chi[c])])

ChildClaim(p, z, c, b) ==
    LET chi == ChiTailWeights(p.r)
        y == [j \in MatIds |-> Padded(Whole(EvalRing(j, chi, z)))]
    IN  [c |-> c, x |-> ProjectWitness(z, DOMAIN p.x), r |-> p.r, sCol |-> p.sCol,
         y |-> y, ct |-> [j \in MatIds |-> CtFromDigits(y[j])],
         yZcol |-> DigitOpening(z, b, p.sCol), foldDigest |-> p.foldDigest]

(* The sum of b^(i-1) vs[i], entry by entry. *)
Recombine(vs, b) ==
    Whole([e \in DOMAIN vs[1] |-> SumTo(Len(vs), LAMBDA i : Power(b, i) * vs[i + 1][e])])

RecombinedX(kids, b) ==
    [col \in DOMAIN kids[1].x |-> Recombine([i \in DOMAIN kids |-> kids[i].x[col]], b)]

RecombinedY(kids, b, j) == Recombine([i \in DOMAIN kids |-> kids[i].y[j]], b)

(***************************************************************************)
(* The public inputs of the parent are not a projection of its witness:    *)
(* the first child takes the difference.  The variant leaves it out.       *)
(***************************************************************************)
ReconcileX_none(p, kids, b) == kids
ReconcileX(p, kids, b) ==
    LET sum == RecombinedX(kids, b)
    IN  [kids EXCEPT ![1].x = [col \in DOMAIN @ |-> [rho \in Idx |->
            (@[col][rho] + p.x[col][rho] + P - sum[col][rho]) % P]]]

DecChildren(p, zs, b) ==
    LET cs == CommitSplit(zs, NonzeroFlags(zs))
    IN  ReconcileX(p, [i \in DOMAIN zs |-> ChildClaim(p, zs[i], cs[i], b)], b)

Commitments(kids) == [i \in DOMAIN kids |-> kids[i].c]

(* The three checks of the prover: ok_y, ok_X and ok_c. *)
DecChecks(p, kids, b) ==
    /\ \A j \in MatIds : RecombinedY(kids, b, j) = p.y[j]
    /\ RecombinedX(kids, b) = p.x
    /\ CombineBPows(Commitments(kids), b) = p.c

---------------------------------------------------------------------------
(* The verifier *)

(***************************************************************************)
(* verify_dec_public: what the children must have in common with the       *)
(* parent, and the sums.  Their norm openings only have the right length.  *)
(* The variant compares the constant terms alone.                          *)
(***************************************************************************)
ChildrenAgree(p, kids) ==
    /\ kids # <<>>
    /\ CtMatches(<<p>>) /\ CtMatches(kids)
    /\ \A i \in DOMAIN kids :
          /\ kids[i].r = p.r
          /\ kids[i].sCol = p.sCol
          /\ DOMAIN kids[i].x = DOMAIN p.x
          /\ Size(kids[i].yZcol) = DPad

RecombinedCt(kids, b) == Recombine([i \in DOMAIN kids |-> kids[i].ct], b)

DecAccepts_ctOnly(p, kids, b) ==
    /\ ChildrenAgree(p, kids)
    /\ RecombinedX(kids, b) = p.x
    /\ RecombinedCt(kids, b) = p.ct
    /\ CombineBPows(Commitments(kids), b) = p.c

DecAccepts(p, kids, b) ==
    /\ ChildrenAgree(p, kids)
    /\ RecombinedX(kids, b) = p.x
    /\ \A j \in MatIds : RecombinedY(kids, b, j) = p.y[j]
    /\ RecombinedCt(kids, b) = p.ct
    /\ CombineBPows(Commitments(kids), b) = p.c

(***************************************************************************)
(* The inputs of a verifier passed the verification of the reduction,      *)
(* which has asked for their constant terms and their point; the parent is *)
(* compared field by field with what rlc_public_matches recomputes.        *)
(***************************************************************************)
FoldAccepts(m, b) ==
    /\ CtMatches(m.inputs) /\ SharedPoint(m.inputs)
    /\ \A i \in DOMAIN m.inputs : m.inputs[i].sCol = m.inputs[1].sCol
    /\ m.parent = MixedClaim(rhos, m.inputs)
    /\ DecAccepts(m.parent, m.children, b)

---------------------------------------------------------------------------
(* The transition *)

Init ==
    /\ pc = "sample"
    /\ in \in Starts
    /\ rhos = <<>> /\ parent = <<>> /\ zmix = <<>> /\ digits = <<>>
    /\ proof = <<>> /\ sent = <<>> /\ outcome = "none"

Refuse(cause) ==
    /\ pc' = "done"
    /\ outcome' = cause
    /\ UNCHANGED <<in, rhos, parent, zmix, digits, proof, sent>>

(* sample_rot_rhos_n: one vector for each claim, or the norm bound fails. *)
Sample ==
    /\ pc = "sample"
    /\ NormGuard(in)
    /\ \E drawn \in [DOMAIN in.slots -> Draws] :
          rhos' = [i \in DOMAIN drawn |-> Rotation(drawn[i])]
    /\ pc' = "mix"
    /\ UNCHANGED <<in, parent, zmix, digits, proof, sent, outcome>>

RefuseCount ==
    /\ pc = "sample"
    /\ ~NormGuard(in)
    /\ Refuse("norm bound")

Mix ==
    /\ pc = "mix"
    /\ MixInputsValid(in)
    /\ parent' = MixedClaim(rhos, InputClaims(in))
    /\ zmix' = MixedWitness(rhos, in.slots)
    /\ pc' = "split"
    /\ UNCHANGED <<in, rhos, digits, proof, sent, outcome>>

RefuseInputs ==
    /\ pc = "mix"
    /\ ~MixInputsValid(in)
    /\ Refuse("inputs")

SplitMix ==
    /\ pc = "split"
    /\ Splits(zmix, in.b, in.k)
    /\ digits' = SplitWitness(zmix, in.b, in.k)
    /\ pc' = "decompose"
    /\ UNCHANGED <<in, rhos, parent, zmix, proof, sent, outcome>>

RefuseSplit ==
    /\ pc = "split"
    /\ ~Splits(zmix, in.b, in.k)
    /\ Refuse("split")

Decompose ==
    /\ pc = "decompose"
    /\ LET kids == DecChildren(parent, digits, in.b)
       IN  IF DecChecks(parent, kids, in.b)
           THEN /\ proof' = [inputs |-> InputClaims(in), rhos |-> rhos,
                             parent |-> parent, children |-> kids]
                /\ pc' = "made"
                /\ UNCHANGED <<in, rhos, parent, zmix, digits, sent, outcome>>
           ELSE Refuse("checks")

Deliver ==
    /\ pc = "made"
    /\ \E d \in Damages : sent' = Altered(proof, d)
    /\ pc' = "delivered"
    /\ UNCHANGED <<in, rhos, parent, zmix, digits, proof, outcome>>

Verify ==
    /\ pc = "delivered"
    /\ outcome' = IF FoldAccepts(sent, in.b) THEN "accepted" ELSE "rejected"
    /\ pc' = "done"
    /\ UNCHANGED <<in, rhos, parent, zmix, digits, proof, sent>>

Next ==
    \/ Sample \/ RefuseCount
    \/ Mix \/ RefuseInputs
    \/ SplitMix \/ RefuseSplit
    \/ Decompose
    \/ Deliver \/ Verify

Spec == Init /\ [][Next]_vars

---------------------------------------------------------------------------
(* Properties *)

(***************************************************************************)
(* The norm bound of the sampler does what it is for: with digits of base  *)
(* 2 as witnesses and whatever is drawn, every entry of the mixed witness  *)
(* splits into k digits.  (The range check of the interface admits larger  *)
(* entries, for which this does not hold.)                                 *)
(***************************************************************************)
NormGuardSuffices ==
    outcome = "split" =>
        \/ in.b # 2
        \/ \E i \in DOMAIN in.slots, blk \in BlockIds, e \in Idx :
              Abs(Balanced(in.slots[i].z[blk][e])) >= in.b

(* The claim holds of the witness: by the paper's rows and plain products. *)
OpensTo(claim, z) ==
    /\ LET rows == RingRows(z)
       IN  \A j \in MatIds : claim.y[j] = Padded(RingValue(rows, j, claim.r))
    /\ \A row \in DOMAIN Ajtai :
          claim.c[row] = FoldLeft(LAMBDA acc, k : RingAdd(acc, RingProduct(Ajtai[row][k - 1], z[k - 1])),
                                  RingZero, [k \in 1..NumBlocks |-> k])

TrueInputs(claims) == \A i \in DOMAIN claims : OpensTo(claims[i], in.slots[i].z)

(***************************************************************************)
(* Rotations of claims and rotations of witnesses go together: the parent  *)
(* of true claims is true of the mixed witness, in its commitment and all  *)
(* ring coefficients, and its constant terms are the values of M_j z with  *)
(* no ring in between.                                                     *)
(***************************************************************************)
ParentOpensTheMix ==
    pc = "split" /\ TrueInputs(InputClaims(in)) =>
        /\ OpensTo(parent, zmix)
        /\ \A j \in MatIds : parent.ct[j] = PlainValue(j, zmix, parent.r)

(***************************************************************************)
(* The checks of the prover fail for false claims only, and what it makes  *)
(* is accepted.                                                            *)
(***************************************************************************)
HonestFoldAccepted ==
    /\ outcome = "checks" => ~TrueInputs(InputClaims(in))
    /\ pc = "done" /\ proof # <<>> /\ sent = proof => outcome = "accepted"

(***************************************************************************)
(* Whoever accepts, and later finds the children true of their digits, had *)
(* true claims to begin with, but for those that were mixed with zero.     *)
(***************************************************************************)
AcceptedFoldIsTrue ==
    /\ outcome = "accepted"
    /\ Len(sent.children) <= Len(digits)
    /\ \A i \in DOMAIN sent.children : OpensTo(sent.children[i], digits[i])
    => \A i \in DOMAIN sent.inputs :
          OpensTo(sent.inputs[i], in.slots[i].z) \/ rhos[i][1] = RingZero

===========================================================================
