------------------------------- MODULE Rv64Lower -------------------------------
(***************************************************************************)
(* Lowering executed steps to trace rows (rv64im/lower.rs, trace_expand/): *)
(* most steps are one row; the hard multiplications and divisions become a *)
(* sequence of simple rows that compute in scratch registers, with the     *)
(* quotient and the divisor supplied as hints.                             *)
(***************************************************************************)
EXTENDS Rv64Machine, SequencesExt

Scratch(i)  == 40 + i
ScratchRegs == 40..47

VirtualOps == {"Movsign", "Advice", "ChangeDivisor", "Move", "SignExtendWord"}

\* TraceInstructionSpec, as InlineInstrAssembler pushes it.
Spec(op, rd, rs1, rs2, imm, hint) ==
    [op |-> op, rd |-> rd, rs1 |-> rs1, rs2 |-> rs2, imm |-> imm, hint |-> hint]
Real(op, rd, rs1, rs2)          == Spec(op, rd, rs1, rs2, 0, None)
Hinted(op, rd, rs1, rs2, hint)  == Spec(op, rd, rs1, rs2, 0, hint)
Unary(op, rd, rs1)              == Spec(op, rd, rs1, 0, 0, None)

------------------------------------------------------------------------------
(* The hints: divrem_signed64_values, divrem_signed32_values and           *)
(* divrem_unsigned_values.                                                 *)
WordOps   == {"Divw", "Divuw", "Remw", "Remuw"}
SignedOps == {"Div", "Rem", "Divw", "Remw"}

Dividend(op, a) == CASE op \in SignedOps \cap WordOps -> SignedLow(a)
                     [] op \in SignedOps \ WordOps    -> Signed(a)
                     [] op \in WordOps \ SignedOps    -> Low(a)
                     [] OTHER                         -> a

Overflows(op, a, b) ==
    /\ op \in SignedOps
    /\ Dividend(op, a) = IF op \in WordOps THEN SignedLowMin ELSE SignedMin
    /\ Dividend(op, b) = -1

Quotient(op, a, b) ==
    LET n == Dividend(op, a)
        d == Dividend(op, b)
    IN  IF d = 0 THEN IF op \in {"Divuw", "Remuw"} THEN LowSize - 1 ELSE MaxWord
        ELSE Wrap(IF Overflows(op, a, b) THEN n ELSE TruncDiv(n, d))

EffectiveDivisor(op, a, b) == Wrap(IF Overflows(op, a, b) THEN 1 ELSE Dividend(op, b))

------------------------------------------------------------------------------
(* InlineTracePlan: the rows of a sequence and the row that carries the    *)
(* architectural effect, counted from 0.                                   *)
Plan(steps, effect)  == [steps |-> steps, effect_index |-> effect]
FinalizeInline(steps) == Plan(steps, Len(steps) - 1)

RdAliasesInputs_never(rd, rs1, rs2) == FALSE

RdAliasesInputs(rd, rs1, rs2) == rd = rs1 \/ rd = rs2

MulwPlan(rs1, rs2, rd) ==
    Plan(<<Real("Mul", rd, rs1, rs2), Unary("SignExtendWord", rd, rd)>>, 1)

MulhPlan(rs1, rs2, rd) ==
    LET v0 == Scratch(0)
        v1 == Scratch(1)
        v2 == Scratch(2)
    IN  FinalizeInline(
          << Unary("Movsign", v0, rs1), Unary("Movsign", v1, rs2),
             Real("Mul", v0, v0, rs2),  Real("Mul", v1, v1, rs1),
             Real("Mulhu", v2, rs1, rs2),
             Real("Add", v2, v2, v0),   Real("Add", rd, v2, v1) >>)

MulhsuPlan_no_carry(rs1, rs2, rd) ==
    LET v0 == Scratch(0)
        v2 == Scratch(2)
        v3 == Scratch(3)
    IN  FinalizeInline(
          << Unary("Movsign", v0, rs1),   Spec("Andi", Scratch(1), v0, 0, 1, None),
             Real("Xor", v2, rs1, v0),    Real("Add", v2, v2, Scratch(1)),
             Real("Mulhu", v3, v2, rs2),  Real("Xor", v3, v3, v0),
             Real("Add", rd, v3, Scratch(1)) >>)

MulhsuPlan(rs1, rs2, rd) ==
    LET v0 == Scratch(0)
        v1 == Scratch(1)
        v2 == Scratch(2)
        v3 == Scratch(3)
    IN  FinalizeInline(
          << Unary("Movsign", v0, rs1),   Spec("Andi", v1, v0, 0, 1, None),
             Real("Xor", v2, rs1, v0),    Real("Add", v2, v2, v1),
             Real("Mulhu", v3, v2, rs2),  Real("Mul", v2, v2, rs2),
             Real("Xor", v3, v3, v0),     Real("Xor", v2, v2, v0),
             Real("Add", v0, v2, v1),     Real("Sltu", v0, v0, v2),
             Real("Add", rd, v3, v0) >>)

\* The signed sequences first put the effective divisor in a scratch register.
DivisorRows(op, rs1, rs2, a, b) ==
    IF op \in SignedOps
    THEN << Hinted("ChangeDivisor", Scratch(0), rs1, rs2, EffectiveDivisor(op, a, b)) >>
    ELSE <<>>
DivisorReg(op, rs2) == IF op \in SignedOps THEN Scratch(0) ELSE rs2

WordRows_signed(op, rd) ==
    IF op \in WordOps \cap SignedOps THEN << Unary("SignExtendWord", rd, rd) >> ELSE <<>>

\* The word sequences end with a sign extension of rd in place.
WordRows(op, rd) == IF op \in WordOps THEN << Unary("SignExtendWord", rd, rd) >> ELSE <<>>

\* The quotient is written to rd at once, unless later rows still read the
\* register rd as an operand.
DivPlan(op, a, b, rs1, rs2, rd) ==
    LET n       == Len(DivisorRows(op, rs1, rs2, a, b))
        aliased == RdAliasesInputs(rd, rs1, rs2)
        q       == IF aliased THEN Scratch(n + 2) ELSE rd
        steps   == DivisorRows(op, rs1, rs2, a, b)
                   \o << Hinted("Advice", q, rs1, rs2, Quotient(op, a, b)),
                         Real("Mul", Scratch(n), q, DivisorReg(op, rs2)),
                         Real("Sub", Scratch(n + 1), rs1, Scratch(n)) >>
                   \o (IF aliased THEN << Unary("Move", rd, q) >> ELSE <<>>)
                   \o WordRows(op, rd)
    IN  IF aliased \/ op \in WordOps THEN FinalizeInline(steps) ELSE Plan(steps, n)

RemPlan_in_rd(op, a, b, rs1, rs2, rd) ==
    LET n == Len(DivisorRows(op, rs1, rs2, a, b))
    IN  FinalizeInline(
          DivisorRows(op, rs1, rs2, a, b)
          \o << Hinted("Advice", rd, rs1, rs2, Quotient(op, a, b)),
                Real("Mul", Scratch(n), rd, DivisorReg(op, rs2)),
                Real("Sub", rd, rs1, Scratch(n)) >>
          \o WordRows(op, rd))

RemPlan(op, a, b, rs1, rs2, rd) ==
    LET n == Len(DivisorRows(op, rs1, rs2, a, b))
    IN  FinalizeInline(
          DivisorRows(op, rs1, rs2, a, b)
          \o << Hinted("Advice", Scratch(n), rs1, rs2, Quotient(op, a, b)),
                Real("Mul", Scratch(n + 1), Scratch(n), DivisorReg(op, rs2)),
                Real("Sub", rd, rs1, Scratch(n + 1)) >>
          \o WordRows(op, rd))

DivOps    == {"Div", "Divu", "Divw", "Divuw"}
RemOps    == {"Rem", "Remu", "Remw", "Remuw"}
InlineOps == DivOps \cup RemOps \cup {"Mulw", "Mulh", "Mulhsu"}

CanonicalTracePlan(op, a, b, rs1, rs2, rd) ==
    CASE op = "Mulw"    -> MulwPlan(rs1, rs2, rd)
      [] op = "Mulh"    -> MulhPlan(rs1, rs2, rd)
      [] op = "Mulhsu"  -> MulhsuPlan(rs1, rs2, rd)
      [] op \in DivOps  -> DivPlan(op, a, b, rs1, rs2, rd)
      [] op \in RemOps  -> RemPlan(op, a, b, rs1, rs2, rd)

------------------------------------------------------------------------------
(* execute_trace_instruction: what one row computes.                       *)
TraceResult(spec, a, b) ==
    CASE spec.op = "Movsign"                     -> SignMask(a)
      [] spec.op \in {"Advice", "ChangeDivisor"} -> spec.hint
      [] spec.op = "Move"                        -> a
      [] spec.op = "SignExtendWord"              -> SignExtendWord(a)
      [] spec.op = "Andi"                        -> Alu("Andi", a, spec.imm)
      [] OTHER                                   -> Alu(spec.op, a, b)

\* TraceRegisterFile::from_step: the registers before the step, scratch ones zero.
TraceRegs(step) == [r \in Regs \cup ScratchRegs |-> IF r \in Regs THEN step.prev.regs[r] ELSE 0]

\* What every row of a step carries of the step itself.
Architectural(step) ==
    [rs1 |-> step.decoded.rs1, rs1_value |-> step.rs1_value, rs2 |-> step.decoded.rs2,
     rs2_value |-> step.rs2_value, rd |-> step.decoded.rd, rd_before |-> step.rd_before,
     imm |-> step.decoded.imm]

InlineRow(step, plan, index, trace_index, regs) ==
    LET spec   == plan.steps[index + 1]
        result == TraceResult(spec, regs[spec.rs1], regs[spec.rs2])
        last   == index + 1 = Len(plan.steps)
    IN  [trace_index |-> trace_index + index, step_index |-> step.step_index,
         sequence_index |-> index, pc |-> step.prev.pc,
         next_pc |-> IF last THEN step.next.pc ELSE step.prev.pc,
         opcode |-> step.decoded.op, trace_opcode |-> spec.op, arch |-> Architectural(step),
         rs1 |-> spec.rs1, rs1_value |-> regs[spec.rs1],
         rs2 |-> spec.rs2, rs2_value |-> regs[spec.rs2],
         rd |-> spec.rd, rd_before |-> regs[spec.rd],
         rd_after |-> WriteReg(regs, spec.rd, result)[spec.rd],
         imm |-> spec.imm, alu_result |-> result, effective_addr |-> None,
         memory_before |-> None, memory_after |-> None, writes_rd |-> spec.rd # 0,
         writes_ram |-> FALSE, halted |-> last /\ step.next.halted,
         is_first_in_sequence |-> index = 0,
         virtual_sequence_remaining |-> Len(plan.steps) - index - 1,
         is_effect_row |-> index = plan.effect_index, is_commit_row |-> last, is_real |-> last]

InlineRows(step, plan, trace_index) ==
    LET Push(acc, spec) ==
            LET row == InlineRow(step, plan, Len(acc.rows), trace_index, acc.regs)
            IN  [rows |-> Append(acc.rows, row),
                 regs |-> WriteReg(acc.regs, spec.rd, row.alu_result)]
    IN  FoldLeft(Push, [rows |-> <<>>, regs |-> TraceRegs(step)], plan.steps).rows

WritingOps == AluOps \cup NarrowLoads \cup {"Ld", "Lui", "Auipc", "Jal", "Jalr"}

OrdinaryRow(step, trace_index) ==
    LET i == step.decoded
    IN  [trace_index |-> trace_index, step_index |-> step.step_index, sequence_index |-> 0,
         pc |-> step.prev.pc, next_pc |-> step.next.pc,
         opcode |-> i.op, trace_opcode |-> i.op, arch |-> Architectural(step),
         rs1 |-> i.rs1, rs1_value |-> step.rs1_value,
         rs2 |-> i.rs2, rs2_value |-> step.rs2_value,
         rd |-> i.rd, rd_before |-> step.rd_before, rd_after |-> step.next.regs[i.rd],
         imm |-> i.imm, alu_result |-> step.alu_result, effective_addr |-> step.effective_addr,
         memory_before |-> step.memory_before, memory_after |-> step.memory_after,
         writes_rd |-> i.op \in WritingOps /\ i.rd # 0,
         writes_ram |-> i.op \in NarrowStores \cup {"Sd"}, halted |-> step.next.halted,
         is_first_in_sequence |-> TRUE, virtual_sequence_remaining |-> None,
         is_effect_row |-> TRUE, is_commit_row |-> TRUE, is_real |-> TRUE]

LowerStep(step, trace_index) ==
    LET i == step.decoded
    IN  IF i.op \in InlineOps
        THEN InlineRows(step, CanonicalTracePlan(i.op, step.rs1_value, step.rs2_value,
                                                 i.rs1, i.rs2, i.rd), trace_index)
        ELSE << OrdinaryRow(step, trace_index) >>

\* build_program's second loop.
LowerProgram(steps) ==
    FoldLeft(LAMBDA rows, step : rows \o LowerStep(step, Len(rows)), <<>>, steps)
==============================================================================
