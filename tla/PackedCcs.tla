----------------------------- MODULE PackedCcs -----------------------------
(***************************************************************************)
(* A customizable constraint system whose witness is packed in ring        *)
(* elements, and the cache of lifted rows that evaluates it.  A matrix is  *)
(* a function of row and column; block k of a witness holds entries        *)
(* k * D .. k * D + D - 1, and the last block may go beyond the columns.   *)
(* A term of the polynomial is its coefficient and one exponent for each   *)
(* matrix.                                                                 *)
(***************************************************************************)
EXTENDS CyclotomicRing, Multilinear

CONSTANTS Rows, Cols, Matrices, Terms

ASSUME CcsShape ==
    /\ Rows \in Nat \ {0} /\ Cols \in Nat \ {0}
    /\ \A t \in DOMAIN Terms : DOMAIN Terms[t].exps = DOMAIN Matrices

MatIds == DOMAIN Matrices

---------------------------------------------------------------------------
(* Dimensions: a table has at least two entries *)

Log2Padded(n) == CHOOSE k \in 1..n : 2^k >= n /\ \A l \in 1..(k - 1) : 2^l < n

EllD == Log2Padded(D)
EllN == Log2Padded(Rows)
EllM == Log2Padded(Cols)

TermDegree(t) == FoldFunction(LAMBDA e, acc : e + acc, 0, Terms[t].exps)
MaxDegree == Max({TermDegree(t) : t \in DOMAIN Terms})

(* The degree bound of a round: one factor eq and either f or the range    *)
(* product of base b.                                                      *)
RoundDegree(b) == Max({MaxDegree + 1, 2, 2 * b})

(***************************************************************************)
(* eval_in_ext: the polynomial at one value for each matrix.               *)
(***************************************************************************)
TermValue(term, vals) ==
    (term.coeff * ProdTo(Len(Matrices), LAMBDA j : Power(vals[j + 1], term.exps[j + 1]))) % P

PolyF(vals) == SumTo(Len(Terms), LAMBDA t : TermValue(Terms[t + 1], vals))

---------------------------------------------------------------------------
(* Packed witnesses *)

BlockIds == 0..((Cols + D - 1) \div D - 1)
NumBlocks == Cardinality(BlockIds)

EntryAt(z, c) == z[c \div D][c % D]

(* validate_packed_witness_nc_range: the logical entries only. *)
NcRepresentable(z, b) == \A c \in 0..(Cols - 1) : Representable(EntryAt(z, c), b, D)

(* build_witness_nc_digit_table *)
NcDigits(z, b) == [c \in 0..(Cols - 1) |-> FixedDigits(EntryAt(z, c), b, D)]

(* project_x_from_public_inputs: column c carries x[c] in lane c mod D. *)
ProjectX(x) == [c \in DOMAIN x |-> [rho \in Idx |-> IF rho = c % D THEN x[c] ELSE 0]]

---------------------------------------------------------------------------
(* The cache of lifted rows *)

RowBlock(j, row, k) ==
    [i \in Idx |-> IF k * D + i < Cols THEN Matrices[j][row][k * D + i] ELSE 0]

LiftedBlock(orig) == [orig |-> orig, bar |-> BarBlock(orig)]

(* build_matrix_cache: only the blocks whose lift is not zero are kept. *)
NonzeroBlocks(lifted) == Restrict(lifted, {k \in BlockIds : lifted[k].bar # RingZero})

SuperneoCache ==
    Whole([j \in MatIds |-> [row \in 0..(Rows - 1) |->
        NonzeroBlocks([k \in BlockIds |-> LiftedBlock(RowBlock(j, row, k))])]])

OverBlocks(blocks, f(_)) ==
    SumTo(NumBlocks, LAMBDA k : IF k \in DOMAIN blocks THEN f(k) ELSE 0)

(* row_dot_with_blocks: the scalar product, from the original rows. *)
BlocksDot(blocks, z) == OverBlocks(blocks, LAMBDA k : Dot(blocks[k].orig, z[k], D))

RowDot(j, row, z) == BlocksDot(SuperneoCache[j][row], z)

(***************************************************************************)
(* weighted_projection_form, and row_dot_real_with_blocks on it: the       *)
(* weighted sum of the coefficients of a ring product as a scalar product. *)
(***************************************************************************)
WeightedForm(bar, weights) ==
    Whole([basis \in Idx |-> Dot(weights, MulByMonomial(bar, basis), D)])

WeightedBlocks(blocks, weights) ==
    [k \in DOMAIN blocks |-> WeightedForm(blocks[k].bar, weights)]

WeightedCache(weights) ==
    Whole([j \in MatIds |-> [row \in 0..(Rows - 1) |->
              WeightedBlocks(SuperneoCache[j][row], weights)]])

WeightedRowDot(cache, j, row, z) ==
    LET blocks == cache[j][row] IN OverBlocks(blocks, LAMBDA k : Dot(blocks[k], z[k], D))

(* An entry of a cached block, zero where the block was not kept. *)
BarEntry(blocks, k, i) == IF k \in DOMAIN blocks THEN blocks[k].bar[i] ELSE 0
OrigEntry(blocks, k, i) == IF k \in DOMAIN blocks THEN blocks[k].orig[i] ELSE 0

(***************************************************************************)
(* eval_mle_ring_with_blocks_split_chi: first the lifted rows are summed   *)
(* with their weights, then one product is taken for each block.  The      *)
(* variant sums the rows before their lift.                                *)
(***************************************************************************)
AggregatedRow_plain(j, chi, k) ==
    Whole([i \in Idx |->
        SumTo(Rows, LAMBDA row : chi[row] * OrigEntry(SuperneoCache[j][row], k, i))])

AggregatedRow(j, chi, k) ==
    Whole([i \in Idx |->
        SumTo(Rows, LAMBDA row : chi[row] * BarEntry(SuperneoCache[j][row], k, i))])

AddBlock(acc, agg, x) == IF agg = RingZero THEN acc ELSE RingAdd(acc, RingMul(agg, x))

EvalRing(j, chi, z) ==
    FoldLeft(LAMBDA acc, k : AddBlock(acc, AggregatedRow(j, chi, k - 1), z[k - 1]),
             RingZero, [k \in 1..NumBlocks |-> k])

(* build_linear_form, and its value at a witness. *)
LinearForm(j, chi) ==
    Whole([k \in BlockIds |-> [i \in Idx |->
        SumTo(Rows, LAMBDA row : chi[row] * OrigEntry(SuperneoCache[j][row], k, i))]])

EvalLinear(form, z) == SumTo(NumBlocks, LAMBDA k : Dot(form[k], z[k], D))

============================================================================
