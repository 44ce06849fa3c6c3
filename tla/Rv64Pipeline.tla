------------------------------ MODULE Rv64Pipeline ------------------------------
(***************************************************************************)
(* An honest run of the RV64IM front end: execute the program, lower the   *)
(* steps to rows, build the stage summaries, and make the three checks the *)
(* verifier makes of them.  Stage 1 takes one sequence a step and Stage 2  *)
(* one row a step.                                                         *)
(***************************************************************************)
EXTENDS Rv64Stages

VARIABLES phase,      \* "execute", the stage being checked, or the verdict
          rows,       \* the lowered trace
          summary,    \* Stage2Summary: the events still to be consumed
          cursor,     \* rows checked so far in this stage
          registers,  \* Stage 2's register timeline; None: not known
          written,    \* the scratch registers written in the current step
          memory,     \* Stage 2's memory timeline
          committed,  \* history: the machine state after the last commit row
          commits     \* history: commit rows seen

pvars   == <<phase, rows, summary, cursor, registers, written, memory, committed, commits>>
allvars == <<program, state, executed, status, phase, rows, summary, cursor, registers,
             written, memory, committed, commits>>

Execute == phase = "execute" /\ MNext /\ UNCHANGED pvars

\* Lowering follows the last step: no row exists of a program that fails.
Lower ==
    /\ phase = "execute" /\ status = "halted"
    /\ phase' = "stage1"
    /\ rows' = LowerProgram(executed)
    /\ summary' = BuildStage2Summary(rows')
    /\ UNCHANGED <<program, state, executed, status, cursor, registers, written, memory,
                   committed, commits>>

------------------------------------------------------------------------------
\* verify_stage1_semantics: the next group of rows of one step.
VerifyStage1 ==
    LET end == CHOOSE i \in (cursor + 1)..Len(rows) :
                  /\ \A j \in (cursor + 1)..i : rows[j].step_index = rows[cursor + 1].step_index
                  /\ i < Len(rows) => rows[i + 1].step_index # rows[cursor + 1].step_index
    IN  /\ phase = "stage1"
        /\ phase' = IF ~SequenceHolds(SubSeq(rows, cursor + 1, end)) THEN "rejected"
                    ELSE IF end = Len(rows) THEN "stage2" ELSE phase
        /\ cursor' = IF end = Len(rows) THEN 0 ELSE end
        /\ UNCHANGED <<program, state, executed, status, rows, summary, registers, written,
                       memory, committed, commits>>

------------------------------------------------------------------------------
(* verify_stage2_semantics_from_events, on the next row.  A new step       *)
(* forgets the scratch registers.                                          *)
NewStep_once == cursor = 0

NewStep == cursor = 0 \/ rows[cursor].step_index # rows[cursor + 1].step_index

Timeline_forgets == IF NewStep THEN [r \in DOMAIN registers |-> None] ELSE registers

Timeline == IF NewStep THEN [r \in DOMAIN registers |-> IF r \in ScratchRegs THEN None ELSE registers[r]]
            ELSE registers
Written  == IF NewStep THEN {} ELSE written

ReadHolds(event, line) ==
    IF event.reg = 0 THEN event.value = 0
    ELSE /\ event.reg \in ScratchRegs => event.reg \in Written
         /\ line[event.reg] \in {None, event.value}

WriteHolds(event, line) ==
    /\ event.reg # 0
    /\ event.reg \in ScratchRegs \ Written => event.previous = 0
    /\ line[event.reg] \in {None, event.previous}

RamHolds(event, row) ==
    LET current == ReadMem(memory, event.addr)
    IN  /\ event.previous = current
        /\ IF row.writes_ram THEN event.next = row.memory_after
           ELSE row.memory_after \in {None, current} /\ event.next = current

Note(line, event, value) == IF event.reg = 0 THEN line ELSE [line EXCEPT ![event.reg] = value]

\* The timelines after some events, in their order.
AfterReads(line, reads)   == FoldLeft(LAMBDA l, e : Note(l, e, e.value), line, reads)
AfterWrites(line, writes) == FoldLeft(LAMBDA l, e : Note(l, e, e.next), line, writes)
AfterRam(mem, ram, row) ==
    FoldLeft(LAMBDA m, e : IF row.writes_ram THEN WriteMem(m, e.addr, e.next) ELSE m, mem, ram)

\* The events of a row, as its own fields claim them, are the next ones of the summary.
Consumes(row) == /\ IsPrefix(RegisterReads(row), summary.reads)
                 /\ IsPrefix(RegisterWrites(row), summary.writes)
                 /\ IsPrefix(RamEvents(row), summary.ram)

Drop(s, n) == SubSeq(s, n + 1, Len(s))

\* The history variables: what the machine state is after row, given the timelines.
Commit(row) ==
    /\ commits' = commits + (IF row.is_commit_row THEN 1 ELSE 0)
    /\ committed' = IF row.is_commit_row
                    THEN [pc |-> row.next_pc, regs |-> [r \in Regs |-> registers'[r]],
                          mem |-> memory', halted |-> row.halted]
                    ELSE committed

VerifyStage2Row ==
    LET row    == rows[cursor + 1]
        reads  == RegisterReads(row)
        writes == RegisterWrites(row)
        ram    == RamEvents(row)
        SeenBy(n) == AfterReads(Timeline, SubSeq(reads, 1, n))
        seen   == SeenBy(Len(reads))
        holds  == /\ Consumes(row)
                  /\ \A i \in DOMAIN reads : ReadHolds(reads[i], SeenBy(i - 1))
                  /\ \A i \in DOMAIN ram : RamHolds(ram[i], row)
                  /\ \A i \in DOMAIN writes : WriteHolds(writes[i], seen)
                  /\ row.effective_addr = None => row.memory_before = None /\ row.memory_after = None
    IN  /\ phase = "stage2" /\ cursor < Len(rows)
        /\ phase' = IF holds THEN phase ELSE "rejected"
        /\ summary' = [reads  |-> Drop(summary.reads, Len(reads)),
                       writes |-> Drop(summary.writes, Len(writes)),
                       ram    |-> Drop(summary.ram, Len(ram))]
        /\ cursor' = cursor + 1
        /\ registers' = AfterWrites(seen, writes)
        /\ written' = Written \cup {writes[i].reg : i \in {j \in DOMAIN writes : writes[j].reg \in ScratchRegs}}
        /\ memory' = AfterRam(memory, ram, row)
        /\ Commit(row)
        /\ UNCHANGED <<program, state, executed, status, rows>>

VerifyStage2End ==
    /\ phase = "stage2" /\ cursor = Len(rows)
    /\ phase' = IF summary = NoEvents THEN "stage3" ELSE "rejected"
    /\ UNCHANGED <<program, state, executed, status, rows, summary, cursor, registers, written,
                   memory, committed, commits>>

\* The continuity events are those of build_stage3_summary.
VerifyStage3 ==
    /\ phase = "stage3"
    /\ phase' = IF ContinuityVerifies(BuildContinuity(rows), rows, StartPc, state.pc)
                THEN "accepted" ELSE "rejected"
    /\ UNCHANGED <<program, state, executed, status, rows, summary, cursor, registers, written,
                   memory, committed, commits>>

------------------------------------------------------------------------------
Init ==
    /\ MInit
    /\ phase = "execute"
    /\ rows = <<>>
    /\ summary = NoEvents
    /\ cursor = 0
    /\ registers = [r \in Regs \cup ScratchRegs |-> IF r \in Regs THEN state.regs[r] ELSE None]
    /\ written = {}
    /\ memory = state.mem
    /\ committed = state
    /\ commits = 0

Next == Execute \/ Lower \/ VerifyStage1 \/ VerifyStage2Row \/ VerifyStage2End \/ VerifyStage3

PipelineSpec == Init /\ [][Next]_allvars

------------------------------------------------------------------------------
(* Properties.                                                             *)
\* The shape of the pipeline's state, and of the machine's.
TypeOK ==
    /\ state.pc \in Nat /\ state.halted \in BOOLEAN
    /\ state.regs \in [Regs -> Word] /\ state.regs[0] = 0
    /\ IsMemory(state.mem)
    /\ status \in {"running", "halted", "failed"}
    /\ phase \in {"execute", "stage1", "stage2", "stage3", "accepted", "rejected"}
    /\ cursor \in 0..Len(rows) /\ commits \in 0..Len(executed)
    /\ written \subseteq ScratchRegs
    /\ DOMAIN registers = Regs \cup ScratchRegs

\* What an honest prover builds is never refused: the sequences the executor
\* is lowered to agree with the verifier's own arithmetic, its register and
\* memory timelines and its pc chain, for every aliasing of rd, rs1 and rs2.
HonestTraceAccepted == phase # "rejected"

\* The rows alone, replayed by Stage 2, run the machine: every sequence, from
\* commit row to commit row, is one step of the architecture, with the same
\* registers, memory and pc, and between commits nothing architectural shows.
Replay == INSTANCE Rv64Machine WITH
              state    <- committed,
              executed <- SubSeq(executed, 1, commits),
              status   <- IF committed.halted THEN "halted" ELSE "running"

ReplayRunsTheMachine == Replay!MSpec

\* The row marked as the effect of a sequence computes the architectural result
\* and leaves it in rd (inline_rows' two debug assertions), for the rows of
\* instructions that have a destination.
EffectRow(step) == CHOOSE i \in DOMAIN rows : rows[i].step_index = step.step_index /\ rows[i].is_effect_row

EffectMatches(step) ==
    LET row == rows[EffectRow(step)]
    IN  row.alu_result = step.alu_result /\ row.rd_after = step.next.regs[step.decoded.rd]

EffectRowsMatch ==
    rows # <<>> => \A i \in DOMAIN executed :
                       executed[i].decoded.rd # 0 => EffectMatches(executed[i])

\* The rows of an expanded division reconcile its operands, its quotient and its
\* remainder, N = Q * D + R modulo the word: the row that subtracts the product
\* computes the remainder of the same operands, also when rd is one of the
\* registers the division reads (the Move row of the aliased sequences).
Remainder(op) == CASE op \in {"Div", "Rem"}     -> "Rem"
                  [] op \in {"Divu", "Remu"}   -> "Remu"
                  [] op \in {"Divw", "Remw"}   -> "Remw"
                  [] op \in {"Divuw", "Remuw"} -> "Remuw"

DivisionRowsReconcile ==
    rows # <<>> => \A i \in DOMAIN rows :
        LET row == rows[i]
            r   == Alu(Remainder(row.opcode), row.arch.rs1_value, row.arch.rs2_value)
        IN  (row.opcode \in DivOps \cup RemOps /\ row.trace_opcode = "Sub" /\ row.arch.rd # 0) =>
                IF row.opcode \in WordOps THEN Low(row.alu_result) = Low(r) ELSE row.alu_result = r

\* The same for every instruction, x0 destinations included, as inline_rows
\* asserts it: "inline effect result must match architectural result".
InlineEffectResultMatches ==
    rows # <<>> => \A i \in DOMAIN executed :
        executed[i].decoded.op \in InlineOps => EffectMatches(executed[i])
==============================================================================
