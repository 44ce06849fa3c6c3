----------------------------- MODULE SumCheck -----------------------------
(***************************************************************************)
(* The rounds of a sum-check, as functions of a transcript.  A round       *)
(* polynomial is the sequence of its coefficients, low to high.            *)
(***************************************************************************)
EXTENDS Multilinear, TranscriptSponge

CONSTANTS CoeffLabel, RoundLabel

(* Horner's rule; the empty polynomial is zero. *)
PolyEval(coeffs, x) == FoldRight(LAMBDA c, acc : (acc * x + c) % P, coeffs, 0)

(***************************************************************************)
(* interpolate_from_evals at the points 0 .. deg: the numerator of each    *)
(* basis polynomial is built factor by factor.                             *)
(***************************************************************************)
TimesRoot(numer, root) ==
    Whole([d \in DOMAIN numer |->
              ((IF d = 1 THEN 0 ELSE numer[d - 1]) + (P - root) * numer[d]) % P])

LagrangeBasis(i, deg) ==
    LET others == SelectSeq([j \in 1..(deg + 1) |-> j - 1], LAMBDA j : j # i)
        numer == FoldLeft(TimesRoot, [d \in 1..(deg + 1) |-> IF d = 1 THEN 1 ELSE 0], others)
        denom == FoldLeft(LAMBDA acc, j : (acc * (i + P - j)) % P, 1, others)
    IN  [d \in 1..(deg + 1) |-> (numer[d] * Inv(denom)) % P]

Interpolate(ys, deg) ==
    LET plan == Whole([i \in 0..deg |-> LagrangeBasis(i, deg)])
    IN  [d \in 1..(deg + 1) |-> SumTo(deg + 1, LAMBDA i : ys[i] * plan[i][d])]

AppendRound(tr, coeffs) == AppendFields(tr, CoeffLabel, coeffs)

(***************************************************************************)
(* A challenge of the extension field is made of two squeezed elements;    *)
(* here it is the first of them.                                           *)
(***************************************************************************)
ChallengeK(tr, label) ==
    After(ChallengeFields(tr, label, 2), LAMBDA c : [tr |-> c.tr, value |-> c.out[1]])

(***************************************************************************)
(* verify_sumcheck_rounds: the first bad round stops it.                   *)
(***************************************************************************)
RoundAccepted(v, poly, degree) ==
    /\ Len(poly) <= degree + 1
    /\ (PolyEval(poly, 0) + PolyEval(poly, 1)) % P = v.sum

VerifyRound(v, poly, degree) ==
    IF v.ok /\ RoundAccepted(v, poly, degree)
    THEN After(ChallengeK(AppendRound(v.tr, poly), RoundLabel), LAMBDA c :
             [tr |-> c.tr, chals |-> Append(v.chals, c.value), sum |-> PolyEval(poly, c.value),
              ok |-> TRUE])
    ELSE [v EXCEPT !.ok = FALSE]

VerifyRounds(tr, degree, initial, rounds) ==
    FoldLeft(LAMBDA v, poly : After(v, LAMBDA u : VerifyRound(u, poly, degree)),
             [tr |-> tr, chals |-> <<>>, sum |-> initial, ok |-> TRUE], rounds)

===========================================================================
