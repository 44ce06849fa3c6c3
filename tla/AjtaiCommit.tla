---------------------------- MODULE AjtaiCommit ----------------------------
(***************************************************************************)
(* Commitments to packed witnesses, and the two ways in which they are     *)
(* combined.  A product a * v is the sum of the rotation columns of a, as  *)
(* the code runs through them, weighed with the entries of v.              *)
(***************************************************************************)
EXTENDS PackedCcs

CONSTANT Ajtai    \* the public rows, one ring element for each block

ASSUME AjtaiShape == \A i \in DOMAIN Ajtai : DOMAIN Ajtai[i] = BlockIds

RotStep(col) ==
    [k \in Idx |-> CASE k = 0 -> Neg(col[D - 1])
                     [] k = Half -> Sub(col[k - 1], col[D - 1])
                     [] OTHER -> col[k - 1]]

(* s_mul_add_from_rot_col on one column, up to entry last. *)
MulAddRot(acc, first, v, last) ==
    FoldLeft(LAMBDA s, t : [acc |-> Whole([i \in Idx |-> (s.acc[i] + v[t - 1] * s.col[i]) % P]),
                            col |-> Whole(RotStep(s.col))],
             [acc |-> acc, col |-> first], [t \in 1..(last + 1) |-> t]).acc

LastNonzero(v) == Max({t \in Idx : v[t] # 0})

(***************************************************************************)
(* commit_row_major_seeded: a block of zeros is passed over, and a block   *)
(* is left after its last entry that is not zero.                          *)
(***************************************************************************)
CommitRow(row, z) ==
    FoldLeft(LAMBDA acc, k : IF z[k - 1] = RingZero THEN acc
                             ELSE MulAddRot(acc, row[k - 1], z[k - 1], LastNonzero(z[k - 1])),
             RingZero, [k \in 1..NumBlocks |-> k])

Commit(z) == [i \in DOMAIN Ajtai |-> CommitRow(Ajtai[i], z)]

ZeroWitness == [k \in BlockIds |-> RingZero]

(* commit_split_children: children without a digit share one commitment. *)
CommitSplit(zs, flags) ==
    [i \in DOMAIN zs |-> IF flags[i] THEN Commit(zs[i]) ELSE Commit(ZeroWitness)]

(* mix_rhos_commits: rotations, by their first columns, on commitments. *)
MixCommitments(rhos, cs) ==
    [row \in DOMAIN Ajtai |->
        FoldLeft(LAMBDA acc, i : MulAddRot(acc, rhos[i][1], cs[i][row], D - 1),
                 RingZero, [i \in DOMAIN cs |-> i])]

(* combine_b_pows *)
CombineBPows(cs, b) ==
    [row \in DOMAIN Ajtai |->
        FoldLeft(LAMBDA acc, i : RingAdd(acc, RingScale(Power(b, i - 1), cs[i][row])),
                 RingZero, [i \in DOMAIN cs |-> i])]

============================================================================
