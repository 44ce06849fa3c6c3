------------------------------ MODULE Rv64Stages ------------------------------
(***************************************************************************)
(* The three checks a verifier makes of a lowered trace (rv64im/stage1,    *)
(* stage2, stage3): every sequence computes what its instruction should;   *)
(* every read sees the last write; every instruction follows the one       *)
(* before it.  Digests, packaging and openings are not modelled.           *)
(***************************************************************************)
EXTENDS Rv64Lower

(* Stage 1: the verifier recomputes the step from the operands its first   *)
(* row claims, with its own copies of the executor's helpers.              *)
NextPc(row) == Wrap(row.pc + 4)

RegWrite(row, next_pc, value) ==
    [next_pc |-> next_pc, alu_result |-> value, effective_addr |-> None, memory_before |-> None,
     memory_after |-> None, writes_rd |-> row.arch.rd # 0, writes_ram |-> FALSE,
     rd_after |-> IF row.arch.rd = 0 THEN 0 ELSE value]

NoRegWrite(row, next_pc, value) ==
    [RegWrite(row, next_pc, value) EXCEPT !.writes_rd = FALSE, !.rd_after = row.rd_before]

ExpectedLoad(row, addr) ==
    LET value == IF row.opcode = "Ld" THEN row.memory_before
                 ELSE ExtractNarrow(row.memory_before, addr, row.opcode)
    IN  [RegWrite(row, NextPc(row), value) EXCEPT
            !.effective_addr = addr,
            !.memory_before = row.memory_before, !.memory_after = row.memory_before]

ExpectedStore(row, addr) ==
    LET after == IF row.opcode = "Sd" THEN row.rs2_value
                 ELSE BlendNarrow(row.memory_before, addr, row.opcode, row.rs2_value)
    IN  [NoRegWrite(row, NextPc(row), after) EXCEPT
            !.effective_addr = addr, !.writes_ram = TRUE,
            !.memory_before = row.memory_before, !.memory_after = after]

ExpectedBranch(row) ==
    LET taken == Taken(row.opcode, row.arch.rs1_value, row.arch.rs2_value)
    IN  NoRegWrite(row, IF taken THEN Wrap(row.pc + row.imm) ELSE NextPc(row), Bool(taken))

\* The error returns of expected_architectural_step.
Unexecutable(row) ==
    LET imm  == Wrap(row.imm)
        addr == Wrap(row.rs1_value + imm)
    IN  \/ row.opcode \in NarrowOps /\ ~Aligned(row.opcode, addr)
        \/ row.opcode \in {"Ld", "Sd"} /\ addr % 8 # 0
        \/ row.opcode \in NarrowOps \cup {"Ld", "Sd"} /\ row.memory_before = None
        \/ row.opcode = "Jalr" /\ (2 * (addr \div 2)) % 4 # 0
        \/ /\ row.opcode \in BranchOps /\ Taken(row.opcode, row.arch.rs1_value, row.arch.rs2_value)
           /\ Wrap(row.pc + row.imm) % 4 # 0

ExpectedStep(row) ==
    LET a    == row.arch.rs1_value
        imm  == Wrap(row.arch.imm)
        addr == Wrap(row.rs1_value + row.imm)
        op   == row.opcode
    IN  CASE op \in AluOps ->
               RegWrite(row, NextPc(row),
                        Alu(op, a, IF op \in ImmediateOps THEN imm ELSE row.arch.rs2_value))
          [] op = "Lui"                 -> RegWrite(row, NextPc(row), imm)
          [] op = "Auipc"               -> RegWrite(row, NextPc(row), Wrap(row.pc + imm))
          [] op \in NarrowLoads \cup {"Ld"}  -> ExpectedLoad(row, addr)
          [] op \in NarrowStores \cup {"Sd"} -> ExpectedStore(row, addr)
          [] op = "Jal"                 -> RegWrite(row, Wrap(row.pc + imm), NextPc(row))
          [] op = "Jalr"                -> RegWrite(row, 2 * (Wrap(a + imm) \div 2), NextPc(row))
          [] op \in BranchOps           -> ExpectedBranch(row)
          [] op \in {"Fence", "Ecall"}  -> NoRegWrite(row, NextPc(row), 0)

\* seed_trace_registers: the operands are all that is known of the registers.
SeedTraceRegisters(arch) ==
    LET roles == << [reg |-> arch.rs1, value |-> arch.rs1_value],
                    [reg |-> arch.rs2, value |-> arch.rs2_value],
                    [reg |-> arch.rd,  value |-> arch.rd_before] >>
        Assign(acc, role) ==
            [ok   |-> /\ acc.ok
                      /\ IF role.reg = 0 THEN role.value = 0
                         ELSE acc.regs[role.reg] \in {0, role.value},
             regs |-> WriteReg(acc.regs, role.reg, role.value)]
    IN  FoldLeft(Assign, [ok |-> TRUE, regs |-> [r \in Regs \cup ScratchRegs |-> 0]], roles)

ExpectedHint_no_overflow(op, spec, a, b) ==
    CASE spec.op = "ChangeDivisor" /\ op \in SignedOps -> Wrap(Dividend(op, b))
      [] spec.op = "Advice"                            -> Quotient(op, a, b)

\* expected_virtual_hint recomputes a hint from the row's operands.
ExpectedHint(op, spec, a, b) ==
    CASE spec.op = "ChangeDivisor" /\ op \in SignedOps -> EffectiveDivisor(op, a, b)
      [] spec.op = "Advice"                            -> Quotient(op, a, b)

HintHolds(op, spec, a, b) ==
    spec.op \in {"Advice", "ChangeDivisor"} => spec.hint = ExpectedHint(op, spec, a, b)

\* One row of expected_inline_rows against the row the prover made, and the
\* registers after it.
CheckInlineRow(acc, first, plan, expected, row) ==
    LET index  == acc.index
        spec   == plan.steps[index + 1]
        regs   == acc.regs
        a      == regs[spec.rs1]
        b      == regs[spec.rs2]
        result == TraceResult(spec, a, b)
        after  == WriteReg(regs, spec.rd, result)
        last   == index + 1 = Len(plan.steps)
    IN  [index |-> index + 1,
         regs  |-> after,
         ok    |-> /\ acc.ok
                   /\ HintHolds(first.opcode, spec, a, b)
                   /\ row.trace_opcode = spec.op /\ row.arch = first.arch
                   /\ row.rs1 = spec.rs1 /\ row.rs1_value = a
                   /\ row.rs2 = spec.rs2 /\ row.rs2_value = b
                   /\ row.rd = spec.rd /\ row.rd_before = regs[spec.rd]
                   /\ row.rd_after = after[spec.rd] /\ row.imm = spec.imm
                   /\ row.alu_result = result /\ row.writes_rd = (spec.rd # 0)
                   /\ row.effective_addr = None /\ ~row.writes_ram
                   /\ row.memory_before = None /\ row.memory_after = None
                   /\ row.next_pc = IF last THEN expected.next_pc ELSE first.pc
                   /\ row.is_first_in_sequence = (index = 0)
                   /\ row.virtual_sequence_remaining = Len(plan.steps) - index - 1
                   /\ row.is_effect_row = (index = plan.effect_index)
                   /\ row.is_commit_row = last /\ row.is_real = last]

InlineRowsHold(sequence, plan) ==
    LET first    == sequence[1]
        seed     == SeedTraceRegisters(first.arch)
        Check(acc, row) == CheckInlineRow(acc, first, plan, ExpectedStep(first), row)
    IN  /\ seed.ok
        /\ Len(sequence) = Len(plan.steps)
        /\ FoldLeft(Check, [index |-> 0, regs |-> seed.regs, ok |-> TRUE], sequence).ok

OrdinaryRowHolds(row) ==
    LET expected == ExpectedStep(row)
    IN  /\ row.trace_opcode = row.opcode
        /\ \A f \in {"rd_after", "effective_addr", "memory_before", "memory_after", "writes_rd",
                     "writes_ram", "next_pc", "alu_result"} : row[f] = expected[f]
        /\ row.is_first_in_sequence /\ row.virtual_sequence_remaining = None
        /\ row.is_effect_row /\ row.is_commit_row /\ row.is_real

\* verify_sequence, on the rows of one step.
SequenceHolds(sequence) ==
    LET first == sequence[1]
        a     == first.arch
    IN  /\ first.is_first_in_sequence /\ first.sequence_index = 0
        /\ ~Unexecutable(first)
        /\ IF first.opcode \in InlineOps
           THEN InlineRowsHold(sequence, CanonicalTracePlan(first.opcode, a.rs1_value, a.rs2_value,
                                                            a.rs1, a.rs2, a.rd))
           ELSE Len(sequence) = 1 /\ OrdinaryRowHolds(first)

------------------------------------------------------------------------------
(* Stage 2: the register and memory events of the rows, in row order.      *)
BinaryAluOps == AluOps \ ImmediateOps

RowReadsRs1(row) ==
    row.trace_opcode \in (AluOps \ {"Mulh", "Mulhsu", "Mulw"}) \cup NarrowOps
                         \cup {"Ld", "Sd", "Jalr"} \cup BranchOps \cup VirtualOps

RowReadsRs2(row) ==
    row.trace_opcode \in (BinaryAluOps \ {"Mulh", "Mulhsu", "Mulw"}) \cup NarrowStores
                         \cup {"Sd"} \cup BranchOps \cup {"Advice", "ChangeDivisor"}

CanonicalRamAddr_exact(row) == row.effective_addr

CanonicalRamAddr(row) ==
    IF row.trace_opcode \in NarrowOps THEN BackingAddr(row.effective_addr) ELSE row.effective_addr

Rs1Read(row) == [trace_index |-> row.trace_index, step_index |-> row.step_index,
                 role |-> "Rs1", reg |-> row.rs1, value |-> row.rs1_value]
Rs2Read(row) == [trace_index |-> row.trace_index, step_index |-> row.step_index,
                 role |-> "Rs2", reg |-> row.rs2, value |-> row.rs2_value]
RegisterReads(row) == (IF RowReadsRs1(row) THEN << Rs1Read(row) >> ELSE <<>>)
                      \o (IF RowReadsRs2(row) THEN << Rs2Read(row) >> ELSE <<>>)

RegisterWrites(row) ==
    IF row.writes_rd
    THEN << [trace_index |-> row.trace_index, step_index |-> row.step_index,
             reg |-> row.rd, previous |-> row.rd_before, next |-> row.rd_after] >>
    ELSE <<>>

RamEvents(row) ==
    IF row.effective_addr # None /\ row.memory_before # None
    THEN << [trace_index |-> row.trace_index, step_index |-> row.step_index,
             kind |-> IF row.writes_ram THEN "Write" ELSE "Read",
             addr |-> CanonicalRamAddr(row), previous |-> row.memory_before,
             next |-> IF row.memory_after # None THEN row.memory_after ELSE row.memory_before] >>
    ELSE <<>>

NoEvents == [reads |-> <<>>, writes |-> <<>>, ram |-> <<>>]

AddEvents(summary, row) == [reads  |-> summary.reads \o RegisterReads(row),
                            writes |-> summary.writes \o RegisterWrites(row),
                            ram    |-> summary.ram \o RamEvents(row)]

BuildStage2Summary(rows) == FoldLeft(AddEvents, NoEvents, rows)

------------------------------------------------------------------------------
(* Stage 3: one continuity event for every real row, the last row of its   *)
(* sequence; the events are compared with the rows, and the ends of the    *)
(* trace with the claimed initial and final pc.                            *)
RealRows(rows) == FoldLeft(LAMBDA real, row : IF row.is_real THEN Append(real, row) ELSE real, <<>>, rows)

BuildContinuity(rows) ==
    LET real == RealRows(rows)
        Successor(i) == IF i < Len(real) THEN real[i + 1].pc ELSE None
    IN  [i \in DOMAIN real |->
            [step_index |-> real[i].step_index, pc |-> real[i].pc, next_pc |-> real[i].next_pc,
             successor_pc |-> Successor(i), final_step |-> i = Len(real),
             continuity_holds |-> Successor(i) \in {None, real[i].next_pc}]]

ContinuityVerifies(continuity, rows, initial_pc, final_pc) ==
    LET real == RealRows(rows)
        last == real[Len(real)]
    IN  /\ continuity # <<>>
        /\ continuity = BuildContinuity(rows)
        /\ real[1].pc = initial_pc
        /\ last.is_commit_row /\ last.halted /\ last.trace_opcode = "Ecall"
        /\ last.next_pc = final_pc
==============================================================================
