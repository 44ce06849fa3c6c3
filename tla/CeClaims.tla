----------------------------- MODULE CeClaims -----------------------------
(***************************************************************************)
(* What the checks of the interface ask of claims that carry ring          *)
(* evaluations: y has one padded row of digits for each matrix, ct its     *)
(* constant terms, and r is the row point.                                 *)
(***************************************************************************)
EXTENDS PackedCcs

DPad == 2^EllD

Padded(row) == [rho \in 0..(DPad - 1) |-> IF rho \in Idx THEN row[rho] ELSE 0]

CtFromDigits(row) == row[0]

(* validate_ct_constant_term; the variant loses the last matrix. *)
CtMatches_short(claims) == \A i \in DOMAIN claims : \A j \in 1..(Len(Matrices) - 1) :
    claims[i].ct[j] = CtFromDigits(claims[i].y[j])

CtMatches(claims) == \A i \in DOMAIN claims : \A j \in MatIds :
    claims[i].ct[j] = CtFromDigits(claims[i].y[j])

(* validate_ce_claim_shape *)
ShapeOk(claim) ==
    /\ Len(claim.r) = EllN
    /\ Len(claim.y) = Len(Matrices) /\ Len(claim.ct) = Len(Matrices)
    /\ Len(claim.sCol) = EllM
    /\ Size(claim.yZcol) = DPad

SharedPoint(claims) == \A i \in DOMAIN claims :
    /\ Len(claims[i].r) = EllN
    /\ claims[i].r = claims[1].r

===========================================================================
