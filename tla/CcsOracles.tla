---------------------------- MODULE CcsOracles ----------------------------
(***************************************************************************)
(* The two round oracles of the optimized engine.  An instance is a record *)
(* of fresh slots mcs, carried slots me (each with its claim and its       *)
(* packed witness z) and the digit base b; ch holds the challenges.  The   *)
(* oracles hold tables that each challenge folds in half.  Weights count   *)
(* the slots from 0, fresh ones first.                                     *)
(***************************************************************************)
EXTENDS PackedCcs, SumCheck

Fresh(inst) == Len(inst.mcs)
Total(inst) == Len(inst.mcs) + Len(inst.me)
HasInputs(inst) == Len(inst.me) > 0
SlotZ(inst, i) == IF i <= Fresh(inst) THEN inst.mcs[i].z ELSE inst.me[i - Fresh(inst)].z
CarriedSlots(inst) == (Fresh(inst) + 1)..Total(inst)

(* shared_me_input_r: the point of the first carried claim. *)
InputPoint(inst) == IF HasInputs(inst) THEN inst.me[1].claim.r ELSE <<>>

(* The weight of slot i and matrix j in the evaluation block. *)
EvalWeight(inst, ch, i, j) ==
    (Power(ch.gamma, i - 1) * Power(Power(ch.gamma, Total(inst)), j - 1)) % P

OverCarried(inst, f(_, _)) ==
    SumTo(Len(inst.me), LAMBDA i : SumTo(Len(Matrices), LAMBDA j : f(Fresh(inst) + i + 1, j + 1)))

---------------------------------------------------------------------------
(* The row phase *)

UsedVars == {j \in MatIds : \E t \in DOMAIN Terms : Terms[t].exps[j] # 0}

(* A column of row values, zero beyond the last row. *)
RowTable(f(_)) ==
    Whole([row \in 0..(2^EllN - 1) |-> IF row < Rows THEN f(row) ELSE 0])

EvalTable(inst, ch) ==
    LET weighted == WeightedCache([rho \in Idx |-> EqPointsBoolMask(rho, ch.alpha)])
    IN  RowTable(LAMBDA row : OverCarried(inst, LAMBDA i, j :
            EvalWeight(inst, ch, i, j) * WeightedRowDot(weighted, j, row, SlotZ(inst, i))))

(***************************************************************************)
(* RowStreamState::build: only the matrices that f mentions have tables,   *)
(* and the evaluation block only where slots are carried.                  *)
(***************************************************************************)
RowStream(inst, ch) ==
    [eqBeta |-> ChiTailWeights(ch.betaR),
     eqInputs |-> ChiTailWeights(InputPoint(inst)),
     vars |-> [i \in DOMAIN inst.mcs |->
                 [j \in UsedVars |-> RowTable(LAMBDA row : RowDot(j, row, inst.mcs[i].z))]],
     eval |-> IF HasInputs(inst) THEN EvalTable(inst, ch) ELSE <<>>]

FoldRowStream(st, inst, r) ==
    [eqBeta |-> FoldTable(st.eqBeta, r),
     eqInputs |-> IF HasInputs(inst) THEN FoldTable(st.eqInputs, r) ELSE st.eqInputs,
     vars |-> [i \in DOMAIN st.vars |-> [j \in UsedVars |-> FoldTable(st.vars[i][j], r)]],
     eval |-> IF HasInputs(inst) THEN FoldTable(st.eval, r) ELSE st.eval]

(* The line through entries 2t and 2t+1, by its value at 0 and its slope. *)
At0(tbl, t) == tbl[2 * t]
Slope(tbl, t) == Sub(tbl[2 * t + 1], tbl[2 * t])
OnLine(tbl, t, x) == ((1 + P - x) * tbl[2 * t] + x * tbl[2 * t + 1]) % P

(* poly_mul_affine_inplace: times a + b X, cut to the length of the buffer. *)
MulAffine(poly, a, b) ==
    Whole([d \in DOMAIN poly |-> (a * poly[d] + (IF d = 1 THEN 0 ELSE b * poly[d - 1])) % P])

ConstPoly(c, len) == [d \in 1..len |-> IF d = 1 THEN c ELSE 0]
AddPoly(p, q) == [d \in DOMAIN p |-> (p[d] + q[d]) % P]

(* One term of f along the line at t, with the weight of the slot. *)
TermPoly(vars, term, t, weight, len) ==
    LET factors == FlattenSeq([j \in MatIds |-> [e \in 1..term.exps[j] |-> j]])
    IN  FoldLeft(LAMBDA poly, j : MulAffine(poly, At0(vars[j], t), Slope(vars[j], t)),
                 ConstPoly((term.coeff * weight) % P, len), factors)

(* accumulate_weighted_f_poly *)
WeightedFPoly(st, ch, t, len) ==
    FoldLeft(LAMBDA acc, i :
        FoldLeft(LAMBDA inner, term :
                     AddPoly(inner, TermPoly(st.vars[i], term, t, Power(ch.gamma, i - 1), len)),
                 acc, Terms),
        ConstPoly(0, len), [i \in DOMAIN st.vars |-> i])

RowPolyLength == Max({2, MaxDegree + 1}) + 1

(***************************************************************************)
(* The coefficients of a row round, built once: the kernels for b = 2 and  *)
(* b = 3 (the range product has no part in it).                            *)
(***************************************************************************)
RowRoundPart(st, inst, ch, t) ==
    LET f == MulAffine(WeightedFPoly(st, ch, t, RowPolyLength),
                       At0(st.eqBeta, t), Slope(st.eqBeta, t))
        g == Power(ch.gamma, Total(inst))
        eval == MulAffine(MulAffine(ConstPoly(g, RowPolyLength), At0(st.eqInputs, t),
                                    Slope(st.eqInputs, t)),
                          At0(st.eval, t), Slope(st.eval, t))
    IN  IF HasInputs(inst) THEN AddPoly(f, eval) ELSE f

RowRoundCoeffs(st, inst, ch) ==
    FoldLeft(LAMBDA acc, t : AddPoly(acc, RowRoundPart(st, inst, ch, t - 1)),
             ConstPoly(0, RowPolyLength), [t \in 1..(Size(st.eqBeta) \div 2) |-> t])

(* The fallback for other bases evaluates at each point on its own. *)
RowRoundAt(st, inst, ch, x) ==
    LET f(i, t) == PolyF([j \in MatIds |-> IF j \in UsedVars THEN OnLine(st.vars[i][j], t, x) ELSE 0])
        fresh(t) == SumTo(Len(st.vars), LAMBDA i : Power(ch.gamma, i) * f(i + 1, t))
        carried(t) == IF HasInputs(inst)
                      THEN (OnLine(st.eqInputs, t, x) * OnLine(st.eval, t, x)) % P ELSE 0
    IN  SumTo(Size(st.eqBeta) \div 2, LAMBDA t :
            OnLine(st.eqBeta, t, x) * fresh(t) + Power(ch.gamma, Total(inst)) * carried(t))

RowEvals(st, inst, ch, deg) ==
    LET coeffs == RowRoundCoeffs(st, inst, ch)
    IN  Whole([x \in 0..deg |->
            IF inst.b \in {2, 3} THEN PolyEval(coeffs, x) ELSE RowRoundAt(st, inst, ch, x)])

---------------------------------------------------------------------------
(* The Ajtai phase *)

(***************************************************************************)
(* precompute_for_r: all that depends on the row point only, by the other  *)
(* code path: linear forms for f, aggregated ring rows for the openings.   *)
(***************************************************************************)
PrecomputeForR(inst, ch, point) ==
    LET chi == ChiTailWeights(point)
        forms == Whole([j \in MatIds |-> LinearForm(j, chi)])
        vals(i) == [j \in MatIds |-> EvalLinear(forms[j], inst.mcs[i].z)]
    IN  [fPrime |-> SumTo(Fresh(inst), LAMBDA i : Power(ch.gamma, i) * PolyF(vals(i + 1))),
         yEval |-> Whole([i \in 1..Total(inst) |-> [j \in MatIds |->
                              EvalRing(j, chi, SlotZ(inst, i))]]),
         eqBeta |-> EqPoints(point, ch.betaR),
         eqInputs |-> IF HasInputs(inst) THEN EqPoints(point, InputPoint(inst)) ELSE 0]

(* The weights of the digits behind the current one. *)
TailWeights(point, bit) == ChiTailWeights(SubSeq(point, bit + 2, Len(point)))

(* The factor eq of the bound digits and of the current one at x. *)
HeadFactor(prefix, x, point) ==
    (EqPoints(prefix, SubSeq(point, 1, Len(prefix))) * EqLin(x, point[Len(prefix) + 1])) % P

AjtaiRoundAt(pre, folded, inst, ch, prefix, x) ==
    LET bit == Len(prefix)
        tail == TailWeights(ch.alpha, bit)
        gate == (pre.eqInputs * HeadFactor(prefix, x, ch.alpha)) % P
        inner == OverCarried(inst, LAMBDA i, j :
                    EvalWeight(inst, ch, i, j) * TailWeightedDot(folded[i][j], x, bit, tail))
        fresh == (((pre.eqBeta * HeadFactor(prefix, x, ch.betaA)) % P) * pre.fPrime) % P
    IN  IF HasInputs(inst) /\ gate # 0
        THEN (fresh + gate * ((Power(ch.gamma, Total(inst)) * inner) % P)) % P
        ELSE fresh

AjtaiEvals(pre, inst, ch, prefix, deg) ==
    LET folded == Whole([i \in CarriedSlots(inst) |-> [j \in MatIds |->
                             FoldPrefix(pre.yEval[i][j], prefix)]])
    IN  Whole([x \in 0..deg |-> AjtaiRoundAt(pre, folded, inst, ch, prefix, x)])

---------------------------------------------------------------------------
(* The norm-check oracle *)

(***************************************************************************)
(* NcOracle::new: one table of digit rows for each slot, over the logical  *)
(* columns, zero beyond them.                                              *)
(***************************************************************************)
NcTables(inst, ch) ==
    [eqBeta |-> ChiTailWeights(ch.betaM),
     digits |-> Whole([i \in 1..Total(inst) |->
                    LET byCol == NcDigits(SlotZ(inst, i), inst.b)
                    IN  [c \in 0..(2^EllM - 1) |-> IF c < Cols THEN byCol[c] ELSE RingZero]])]

FoldNcTables(nc, r) ==
    [eqBeta |-> FoldTable(nc.eqBeta, r),
     digits |-> [i \in DOMAIN nc.digits |-> FoldDigitsTable(nc.digits[i], r)]]

NcWeight(ch, i, rho) == (Power(ch.gamma, i) * EqPointsBoolMask(rho, ch.betaA)) % P
NcWeights(nc, ch) ==
    Whole([i \in DOMAIN nc.digits |-> [rho \in Idx |-> NcWeight(ch, i, rho)]])

(***************************************************************************)
(* The range products of b = 2 and b = 3 along the line a + s X, as the    *)
(* kernels expand them; and the latter with two coefficients swapped.      *)
(***************************************************************************)
Cube(a) == Mul(Mul(a, a), a)

RangeCoeffs2(a, s) ==
    LET a2 == Mul(a, a)
    IN  <<Sub(Cube(a), a), Sub(Mul(3 * a2, s), s), Mul(3 * a, Mul(s, s)), Cube(s)>>

RangeCoeffs3_swapped(a, s) ==
    LET a2 == Mul(a, a)
        s2 == Mul(s, s)
    IN  <<(Mul(a2, Cube(a)) + 4 * a + 5 * (P - Cube(a))) % P,
          Mul(s, 5 * Mul(a2, a2) + 15 * (P - a2) + 4),
          Mul(Cube(s), 10 * a2 + P - 5),
          Mul(s2, 10 * Cube(a) + 15 * (P - a)),
          Mul(Mul(s2, s2), 5 * a),
          Mul(s2, Cube(s))>>

RangeCoeffs3(a, s) ==
    LET a2 == Mul(a, a)
        s2 == Mul(s, s)
    IN  <<(Mul(a2, Cube(a)) + 4 * a + 5 * (P - Cube(a))) % P,
          Mul(s, 5 * Mul(a2, a2) + 15 * (P - a2) + 4),
          Mul(s2, 10 * Cube(a) + 15 * (P - a)),
          Mul(Cube(s), 10 * a2 + P - 5),
          Mul(Mul(s2, s2), 5 * a),
          Mul(s2, Cube(s))>>

RangeCoeffs(b, a, s) == IF b = 2 THEN RangeCoeffs2(a, s) ELSE RangeCoeffs3(a, s)

(***************************************************************************)
(* col_phase_coeffs: digits that are zero all along the line are skipped.  *)
(***************************************************************************)
ScalePoly(w, poly) == [d \in DOMAIN poly |-> (w * poly[d]) % P]

ColInner(nc, weights, b, t) ==
    LET a(i, rho) == nc.digits[i][2 * t][rho]
        s(i, rho) == Sub(nc.digits[i][2 * t + 1][rho], a(i, rho))
        lanes == {l \in (DOMAIN nc.digits) \X Idx :
                     /\ weights[l[1]][l[2]] # 0
                     /\ ~(a(l[1], l[2]) = 0 /\ s(l[1], l[2]) = 0)}
    IN  FoldSet(LAMBDA l, acc :
                   AddPoly(acc, ScalePoly(weights[l[1]][l[2]],
                                          RangeCoeffs(b, a(l[1], l[2]), s(l[1], l[2])))),
                ConstPoly(0, 2 * b), lanes)

ColRoundCoeffs(nc, ch, b) ==
    LET weights == NcWeights(nc, ch)
        part(t) == MulAffine(ColInner(nc, weights, b, t) \o <<0>>,
                             At0(nc.eqBeta, t), Slope(nc.eqBeta, t))
    IN  FoldLeft(LAMBDA acc, t : AddPoly(acc, part(t - 1)), ConstPoly(0, 2 * b + 1),
                 [t \in 1..(Size(nc.eqBeta) \div 2) |-> t])

(* evals_col_phase_generic *)
ColRoundAt(nc, weights, b, x) ==
    SumTo(Size(nc.eqBeta) \div 2, LAMBDA t :
        OnLine(nc.eqBeta, t, x)
        * SumTo(Len(nc.digits), LAMBDA i : SumTo(D, LAMBDA rho :
              weights[i + 1][rho]
              * RangeProductCached(Lerp(nc.digits[i + 1][2 * t][rho],
                                        nc.digits[i + 1][2 * t + 1][rho], x), b))))

NcAjtaiAt(nc, folded, ch, b, prefix, x) ==
    LET bit == Len(prefix)
        tail == TailWeights(ch.betaA, bit)
        eq == (nc.eqBeta[0] * HeadFactor(prefix, x, ch.betaA)) % P
    IN  (eq * SumTo(Len(folded), LAMBDA i :
                 Power(ch.gamma, i + 1) * TailWeightedRange(folded[i + 1], x, bit, tail, b))) % P

(***************************************************************************)
(* The coefficients of one round, prefix being the digits bound so far:    *)
(* as they are for the columns of b = 2 and b = 3, else interpolated.      *)
(***************************************************************************)
NcRoundCoeffs(nc, ch, b, deg, column, prefix) ==
    LET weights == NcWeights(nc, ch)
        folded == Whole([i \in DOMAIN nc.digits |-> FoldPrefix(nc.digits[i][0], prefix)])
    IN  CASE column /\ b \in {2, 3} -> ColRoundCoeffs(nc, ch, b)
          [] column /\ b \notin {2, 3} ->
                Interpolate(Whole([x \in 0..deg |-> ColRoundAt(nc, weights, b, x)]), deg)
          [] OTHER ->
                Interpolate(Whole([x \in 0..deg |-> NcAjtaiAt(nc, folded, ch, b, prefix, x)]), deg)

============================================================================
