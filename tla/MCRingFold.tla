---------------------------- MODULE MCRingFold ----------------------------
(***************************************************************************)
(* Two ring blocks, of which the second has five lanes behind the last     *)
(* column; three rows, three matrices, a commitment of one row.            *)
(***************************************************************************)
EXTENDS RingFold

E(c) == [i \in 0..6 |-> IF i = c THEN 1 ELSE 0]
Plus(u, v, k) == [i \in 0..6 |-> u[i] + k * v[i]]
Mat(r0, r1, r2) == [row \in 0..2 |-> CASE row = 0 -> r0 [] row = 1 -> r1 [] row = 2 -> r2]

MCMatrices == <<Mat(E(0), Plus(E(1), E(2), 1), E(5)),
                Mat(E(6), Plus(E(0), E(3), 2), [i \in 0..6 |-> 0]),
                Mat(E(2), E(4), E(3))>>
MCTerms == <<[coeff |-> 1, exps |-> <<1, 1, 0>>], [coeff |-> P - 1, exps |-> <<0, 0, 1>>]>>
MCAjtai == <<[k \in 0..1 |-> [i \in 0..5 |-> (17 * (i + 1) * (i + 3) + 401 * k + 5) % P]]>>

Vec(s) == [i \in 0..5 |-> s[i + 1]]
Packed(vs) == [k \in 0..1 |-> [i \in 0..5 |-> FromInt(vs[6 * k + i + 1])]]

MCAlphabet == -2..2
Largest == Vec(<<-2, -2, -2, 2, 2, 2>>)    \* lets one coefficient grow most
MCDraws == {Largest, Vec(<<1, 0, 0, 0, 0, 0>>), Vec(<<0, 0, 0, 0, 0, 0>>), Vec(<<2, -1, 0, 1, -2, 1>>)}

---------------------------------------------------------------------------
MCPoint == <<5, 200>>
MCColumn == <<9, 31, 117>>

Slot(z, b, r, digest) ==
    LET rows == RingRows(z)
        y == [j \in MatIds |-> Padded(RingValue(rows, j, r))]
    IN  [claim |-> [c |-> Whole(Commit(z)), x |-> ProjectWitness(z, 0..1), r |-> r, sCol |-> MCColumn,
                    y |-> y, ct |-> [j \in MatIds |-> y[j][0]],
                    yZcol |-> DigitOpening(z, b, MCColumn), foldDigest |-> digest],
         z |-> z]

ZSigns == Packed(<<1, 1, 1, -1, -1, -1, 1, 1, 1, -1, -1, -1>>)
ZSmall == Packed(<<1, 0, -1, 1, 1, 0, -1, 1, -1, 0, 1, 1>>)
ZBase4 == Packed(<<2, -1, 1, 2, 0, 2, 1, 0, 2, 1, 0, -1>>)
ZWide == Packed(<<1, 2, 2, 3, 48, 1, 3, 0, 0, 0, 0, 0>>)
ZBad == Packed(<<1, 2, 2, 3, 64, 1, 3, 0, 0, 0, 0, 0>>)
ZNone == Packed([i \in 1..12 |-> 0])

Start(b, k, slots) == [b |-> b, k |-> k, slots |-> slots]
Signs == Slot(ZSigns, 2, MCPoint, <<1>>)
Small == Slot(ZSmall, 2, MCPoint, <<1>>)
Wide == Slot(ZWide, 2, MCPoint, <<1>>)

MCStarts ==
    {Start(2, 6, <<Signs, Small>>),
     Start(2, 6, <<Signs, Signs>>),
     Start(2, 5, <<Small, Small>>),
     Start(2, 5, <<Signs, Signs>>),
     Start(2, 6, <<Wide, Small>>),
     Start(2, 10, <<Wide>>),
     Start(4, 4, <<Slot(ZBase4, 4, MCPoint, <<2>>)>>),
     Start(2, 5, <<Slot(ZNone, 2, MCPoint, <<3>>)>>),
     Start(2, 6, <<Slot(ZBad, 2, MCPoint, <<3>>), Small>>),
     Start(2, 6, <<[Small EXCEPT !.claim.y[2][3] = (@ + 1) % P], Small>>),
     Start(2, 6, <<Small, [Small EXCEPT !.claim.ct[3] = (@ + 1) % P]>>),
     Start(2, 6, <<Small, Slot(ZSigns, 2, <<200, 5>>, <<1>>)>>)}

---------------------------------------------------------------------------
Bump(v) == (v + 1) % P
On(s, k, edit(_)) == [s EXCEPT ![IF k > Len(s) THEN Len(s) ELSE k] = edit(@)]

MCDamages ==
    {[kind |-> k, at |-> 1] : k \in {"none", "parent y", "parent x", "parent r", "parent norm",
                                     "parent digest", "drop", "swap", "shift"}}
    \cup {[kind |-> k, at |-> i] : k \in {"input y", "input c", "input y, mixed", "input c, mixed"},
                                   i \in {1, 2}}
    \cup {[kind |-> k, at |-> i] : k \in {"y", "ct", "y and ct", "x", "c", "r", "column", "norm"},
                                   i \in {1, 99}}

MCAltered(m, d) ==
    LET kid(edit(_)) == [m EXCEPT !.children = On(@, d.at, edit)]
        input(edit(_)) == [m EXCEPT !.inputs = On(@, d.at, edit)]
        mixed(n) == [n EXCEPT !.parent = MixedClaim(n.rhos, n.inputs)]
        bumpY(o) == [o EXCEPT !.y[1][4] = Bump(@)]
        bumpC(o) == [o EXCEPT !.c[1][3] = Bump(@)]
    IN  CASE d.kind = "none" -> m
          [] d.kind = "parent y" -> [m EXCEPT !.parent = bumpY(@)]
          [] d.kind = "parent x" -> [m EXCEPT !.parent.x[1][4] = Bump(@)]
          [] d.kind = "parent r" -> [m EXCEPT !.parent.r[1] = Bump(@)]
          [] d.kind = "parent norm" -> [m EXCEPT !.parent.yZcol[2] = Bump(@)]
          [] d.kind = "parent digest" -> [m EXCEPT !.parent.foldDigest = <<9>>]
          [] d.kind = "drop" -> [m EXCEPT !.children = Front(@)]
          [] d.kind = "swap" -> [m EXCEPT !.children = Reverse(@)]
          [] d.kind = "shift" -> \* between two children, so that the sums stay
                [m EXCEPT !.children[1].y[1][4] = (@ + 4) % P,
                          !.children[2].y[1][4] = (@ + (P - 1) * (IF Len(m.children) = 4 THEN 1 ELSE 2)) % P]
          [] d.kind = "input y" -> input(bumpY)
          [] d.kind = "input c" -> input(bumpC)
          [] d.kind = "input y, mixed" -> mixed(input(bumpY))
          [] d.kind = "input c, mixed" -> mixed(input(bumpC))
          [] d.kind = "y" -> kid(bumpY)
          [] d.kind = "ct" -> kid(LAMBDA o : [o EXCEPT !.ct[3] = Bump(@)])
          [] d.kind = "y and ct" -> kid(LAMBDA o : [o EXCEPT !.ct[3] = Bump(@), !.y[3][0] = Bump(@)])
          [] d.kind = "x" -> kid(LAMBDA o : [o EXCEPT !.x[1][1] = Bump(@)])
          [] d.kind = "c" -> kid(bumpC)
          [] d.kind = "r" -> kid(LAMBDA o : [o EXCEPT !.r[2] = Bump(@)])
          [] d.kind = "column" -> kid(LAMBDA o : [o EXCEPT !.sCol[3] = Bump(@)])
          [] d.kind = "norm" -> kid(LAMBDA o : [o EXCEPT !.yZcol[2] = Bump(@)])

===========================================================================
