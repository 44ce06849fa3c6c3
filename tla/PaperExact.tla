---------------------------- MODULE PaperExact ----------------------------
(***************************************************************************)
(* The polynomials of the reduction as the paper-exact engine states them: *)
(* evaluated at a point, and summed over the Boolean values of what is not *)
(* bound yet.  Nothing is cached, folded or expanded in coefficients, and  *)
(* matrices meet witnesses without the lifted rows, or in the plain ring   *)
(* product.                                                                *)
(***************************************************************************)
EXTENDS CcsOracles, PaperRows

---------------------------------------------------------------------------
(* Row and evaluation channel *)

(***************************************************************************)
(* eval_q_ext splits into what depends on the row point alone ...          *)
(***************************************************************************)
PaperValues(inst, ch, carried, r) ==
    Whole([f |-> SumTo(Fresh(inst), LAMBDA i :
                    Power(ch.gamma, i)
                    * PolyF([j \in MatIds |-> PlainValue(j, inst.mcs[i + 1].z, r)])),
           y |-> [i \in CarriedSlots(inst) |-> [j \in MatIds |-> RingValue(carried[i], j, r)]]])

(* ... and the value at the whole point. *)
QFe(inst, ch, vals, a, r) ==
    LET opened(i, j) == MleValue(vals.y[i][j], a)
        inner == OverCarried(inst, LAMBDA i, j : EvalWeight(inst, ch, i, j) * opened(i, j))
        gate == IF HasInputs(inst)
                THEN (EqPoints(a, ch.alpha) * EqPoints(r, InputPoint(inst))) % P ELSE 0
    IN  (((EqPoints(a, ch.betaA) * EqPoints(r, ch.betaR)) % P) * vals.f
         + gate * ((Power(ch.gamma, Total(inst)) * inner) % P)) % P

CarriedRows(inst) == Whole([i \in CarriedSlots(inst) |-> RingRows(SlotZ(inst, i))])

(* Every point that continues bound with Boolean values, up to length n. *)
Completions(bound, n) ==
    {bound \o BoolPoint(mask, n - Len(bound)) : mask \in 0..(2^(n - Len(bound)) - 1)}

SumOver(S, f(_)) == FoldSet(LAMBDA p, acc : (acc + f(p)) % P, 0, S)

(* The sum with the coordinates in bound fixed, rows before digits. *)
FeSum(inst, ch, bound) ==
    LET carried == CarriedRows(inst)
        rows == SubSeq(bound, 1, Min({Len(bound), EllN}))
        digits == SubSeq(bound, EllN + 1, Len(bound))
    IN  SumOver(Completions(rows, EllN), LAMBDA r :
            LET vals == PaperValues(inst, ch, carried, r)
            IN  SumOver(Completions(digits, EllD), LAMBDA a : QFe(inst, ch, vals, a, r)))

---------------------------------------------------------------------------
(* Norm channel *)

(* The digits of all columns at the column point s. *)
DigitsAt(inst, i, s) ==
    LET table == NcDigits(SlotZ(inst, i), inst.b)
    IN  Whole([rho \in Idx |-> MleValue([c \in 0..(Cols - 1) |-> table[c][rho]], s)])

QNc(inst, ch, rows, a, s) ==
    (((EqPoints(a, ch.betaA) * EqPoints(s, ch.betaM)) % P)
     * SumTo(Total(inst), LAMBDA i :
           Power(ch.gamma, i + 1) * RangeProduct(MleValue(rows[i + 1], a), inst.b))) % P

NcSum(inst, ch, bound) ==
    LET cols == SubSeq(bound, 1, Min({Len(bound), EllM}))
        digits == SubSeq(bound, EllM + 1, Len(bound))
    IN  SumOver(Completions(cols, EllM), LAMBDA s :
            LET rows == Whole([i \in 1..Total(inst) |-> DigitsAt(inst, i, s)])
            IN  SumOver(Completions(digits, EllD), LAMBDA a : QNc(inst, ch, rows, a, s)))

===========================================================================
