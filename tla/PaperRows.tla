----------------------------- MODULE PaperRows -----------------------------
(***************************************************************************)
(* Matrices meet witnesses as the paper-exact engine has it: entry by      *)
(* entry in the field, and in the plain ring product of lifted blocks.     *)
(***************************************************************************)
EXTENDS PackedCcs

PlainRow(j, row, z) == SumTo(Cols, LAMBDA c : Matrices[j][row][c] * EntryAt(z, c))

(* The multilinear extension of the vector M_j z. *)
PlainValue(j, z, r) == MleValue(Whole([row \in 0..(Rows - 1) |-> PlainRow(j, row, z)]), r)

LiftedRows ==
    Whole([j \in MatIds |-> [row \in 0..(Rows - 1) |-> [k \in BlockIds |->
              BarBlock(RowBlock(j, row, k))]]])

RingRow(j, row, z) ==
    Whole(FoldLeft(LAMBDA acc, k : RingAdd(acc, RingProduct(LiftedRows[j][row][k - 1], z[k - 1])),
                   RingZero, [k \in 1..NumBlocks |-> k]))

(* The ring values of all rows of all matrices, and their extension at r. *)
RingRows(z) == Whole([j \in MatIds |-> [row \in 0..(Rows - 1) |-> RingRow(j, row, z)]])

RingValue(rows, j, r) ==
    Whole([rho \in Idx |-> MleValue([row \in 0..(Rows - 1) |-> rows[j][row][rho]], r)])

============================================================================
