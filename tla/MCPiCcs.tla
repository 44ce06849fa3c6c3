------------------------------ MODULE MCPiCcs ------------------------------
(***************************************************************************)
(* A system with three rows, seven columns in two ring blocks and four     *)
(* matrices, of which f leaves out the second: f = m1^2 m3 - m4.           *)
(***************************************************************************)
EXTENDS PiCcs

E(c) == [i \in 0..6 |-> IF i = c THEN 1 ELSE 0]
Plus(u, v, k) == [i \in 0..6 |-> u[i] + k * v[i]]
Mat(r0, r1, r2) == [row \in 0..2 |-> CASE row = 0 -> r0 [] row = 1 -> r1 [] row = 2 -> r2]

MCMatrices == <<Mat(E(0), Plus(E(1), E(2), 1), E(5)),
                Mat(E(6), Plus(E(0), E(3), 2), [i \in 0..6 |-> 0]),
                Mat(E(1), E(3), E(6)),
                Mat(E(2), E(4), E(3))>>
MCTerms == <<[coeff |-> 1, exps |-> <<2, 0, 1, 0>>], [coeff |-> P - 1, exps |-> <<0, 0, 0, 1>>]>>

---------------------------------------------------------------------------
(* A small permutation: cubes, then a circulant layer; twice. *)
W == 8
MCZero == [i \in 0..(W - 1) |-> 0]
MCOverwrite(st, i, x) == [st EXCEPT ![i] = x % P]
CubeRound(st) ==
    LET y == [j \in 0..(W - 1) |-> Cube((st[j] + 7 * j + 3) % P)]
        s == FoldFunction(LAMBDA v, acc : v + acc, 0, y)
    IN  Whole([i \in 0..(W - 1) |-> (s + (i + 2) * y[i] + y[(i + 1) % W]) % P])
MCPermute(st) == After(After(st, CubeRound), CubeRound)
MCLane(st, i) == st[i]

Names == <<"neo/ccs", "dims/v2", "mcs_instances/v2", "me_inputs", "me_count", "me_digest", "chals",
           "chal/k", "nc_beta_m", "sumcheck/fe", "sumcheck/nc", "initial_sum", "ccs/header">>
MCLabel == [n \in Range(Names) |-> LET k == CHOOSE i \in DOMAIN Names : Names[i] = n IN <<k, 16 - k>>]
MCCoeffLabel == <<13, 1>>
MCRoundLabel == <<14, 2>>
MCAppDomain == <<15, 3>>
MCChalLabel == <<15, 4>>
MCForkLabel == <<15, 5>>
MCSeeds == {<<1>>, <<2>>, <<3>>}

---------------------------------------------------------------------------
(* Packed witnesses, from twelve integers *)
Packed(vs) == [k \in 0..1 |-> [i \in 0..5 |-> FromInt(vs[6 * k + i + 1])]]

ZA == Packed(<<1, 2, 2, 3, 48, 1, 3, 0, 0, 0, 0, 0>>)
ZB == Packed(<<-1, 5, 5, 0, 0, 0, -4, 0, 0, 0, 0, 0>>)
ZBad == Packed(<<1, 2, 2, 3, 48, 1, 4, 0, 0, 0, 0, 0>>)
ZWide == Packed(<<8, 1, 64, 0, 0, 0, 1, 0, 0, 0, 0, 0>>)
ZC == Packed(<<1, 0, -1, 1, 1, 0, -1, 1, -1, 0, 1, 1>>)
ZD == Packed(<<0, -1, 1, 2, 0, 3, 1, 0, 2, 1, 0, -1>>)

FreshSlot(z, c) == [claim |-> [c |-> <<c>>, x |-> [i \in 0..1 |-> EntryAt(z, i)]], z |-> z]

MCPoint == <<5, 200>>
CarriedSlot(z, c, r) ==
    LET rows == RingRows(z)
        y == [j \in MatIds |-> Padded(RingValue(rows, j, r))]
        s == <<9, 31, 117>>
        digits == NcDigits(z, 4)
    IN  [claim |-> [c |-> <<c>>, x |-> ProjectX([i \in 0..1 |-> EntryAt(z, i)]), r |-> r,
                    sCol |-> s, y |-> y, ct |-> [j \in MatIds |-> y[j][0]],
                    yZcol |-> Padded([rho \in Idx |->
                                  MleValue([col \in 0..6 |-> digits[col][rho]], s)]),
                    foldDigest |-> <<c, 1>>],
         z |-> z]

Inst(b, mcs, me) == [b |-> b, mcs |-> mcs, me |-> me]
SlotC == CarriedSlot(ZC, 7, MCPoint)
SlotD == CarriedSlot(ZD, 8, MCPoint)

MCInstances ==
    {Inst(2, <<FreshSlot(ZA, 3)>>, <<>>),
     Inst(2, <<FreshSlot(ZA, 3), FreshSlot(ZB, 4)>>, <<SlotC>>),
     Inst(3, <<FreshSlot(ZB, 4)>>, <<SlotC, SlotD>>),
     Inst(4, <<FreshSlot(ZA, 3)>>, <<SlotD>>),
     Inst(4, <<FreshSlot(ZB, 3), FreshSlot(ZA, 4)>>, <<SlotD>>),
     Inst(3, <<FreshSlot(ZA, 3), FreshSlot(ZBad, 4)>>, <<SlotC>>),
     Inst(3, <<FreshSlot(ZA, 3)>>, <<[SlotC EXCEPT !.claim.y[2][7] = 1]>>),
     Inst(2, <<FreshSlot(ZA, 3)>>, <<[SlotC EXCEPT !.claim.y[4][3] = (@ + 1) % P]>>),
     Inst(2, <<FreshSlot(ZA, 3)>>, <<[SlotC EXCEPT !.claim.ct[4] = (@ + 1) % P]>>),
     Inst(2, <<FreshSlot(ZB, 3)>>, <<SlotC, CarriedSlot(ZD, 8, <<200, 5>>)>>),
     Inst(2, <<FreshSlot(ZWide, 3)>>, <<>>)}

---------------------------------------------------------------------------
(* What may happen to a proof *)

On(rounds, k, edit(_)) == [rounds EXCEPT ![IF k > Len(rounds) THEN Len(rounds) ELSE k] = edit(@)]
Bump(v) == (v + 1) % P
Shift(poly) == [poly EXCEPT ![2] = (@ + P - 1) % P, ![3] = Bump(@)]

MCDamages ==
    {[kind |-> k, at |-> 1] : k \in {"none", "initial", "swap", "drop fe", "long", "claims c", "claims x"}}
    \cup {[kind |-> k, at |-> i] : k \in {"fe", "nc", "fe shift", "nc shift"}, i \in {1, 3, 99}}
    \cup {[kind |-> k, at |-> i] : k \in {"ct", "ct and y", "y", "yZcol", "r", "sCol", "x", "x lane"},
                                   i \in {1, 99}}

MCAltered(m, d) ==
    LET out(edit(_)) == [m EXCEPT !.outs = On(m.outs, d.at, edit)]
    IN  CASE d.kind = "none" -> m
          [] d.kind = "initial" -> [m EXCEPT !.initial = Bump(@)]
          [] d.kind = "swap" -> [m EXCEPT !.outs = Reverse(@)]
          [] d.kind = "drop fe" -> [m EXCEPT !.fe = Front(@)]
          [] d.kind = "long" -> [m EXCEPT !.nc = On(@, 99, LAMBDA p : p \o <<P - 1, 1>>)]
          [] d.kind = "claims c" -> [m EXCEPT !.claims.mcs[1].claim.c = <<99>>]
          [] d.kind = "claims x" -> [m EXCEPT !.claims.mcs[1].claim.x[1] = Bump(@)]
          [] d.kind = "fe" -> [m EXCEPT !.fe = On(@, d.at, LAMBDA p : [p EXCEPT ![2] = Bump(@)])]
          [] d.kind = "nc" -> [m EXCEPT !.nc = On(@, d.at, LAMBDA p : [p EXCEPT ![2] = Bump(@)])]
          [] d.kind = "fe shift" -> [m EXCEPT !.fe = On(@, d.at, Shift)]
          [] d.kind = "nc shift" -> [m EXCEPT !.nc = On(@, d.at, Shift)]
          [] d.kind = "ct" -> out(LAMBDA o : [o EXCEPT !.ct[4] = Bump(@)])
          [] d.kind = "ct and y" -> out(LAMBDA o : [o EXCEPT !.ct[1] = Bump(@), !.y[1][0] = Bump(@)])
          [] d.kind = "y" -> out(LAMBDA o : [o EXCEPT !.y[2][4] = Bump(@)])
          [] d.kind = "yZcol" -> out(LAMBDA o : [o EXCEPT !.yZcol[2] = Bump(@)])
          [] d.kind = "r" -> out(LAMBDA o : [o EXCEPT !.r[1] = Bump(@)])
          [] d.kind = "sCol" -> out(LAMBDA o : [o EXCEPT !.sCol[3] = Bump(@)])
          [] d.kind = "x" -> out(LAMBDA o : [o EXCEPT !.x[1][1] = Bump(@)])
          [] d.kind = "x lane" -> out(LAMBDA o : [o EXCEPT !.x[1][4] = Bump(@)])

=============================================================================
