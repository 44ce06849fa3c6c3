------------------------------ MODULE Rv64Machine ------------------------------
(***************************************************************************)
(* Executing a guest program (rv64im/execute.rs, builder.rs, isa.rs): the  *)
(* first loop of build_program.  Decoding is not modelled here: a program  *)
(* is a sequence of decoded instructions, with the fields decode leaves    *)
(* unused at 0, and the instruction "Illegal" is a word that does not      *)
(* decode.                                                                 *)
(***************************************************************************)
EXTENDS Rv64Alu, Sequences

CONSTANTS Scenarios, \* what to run, [program, regs, mem]: a sequence of
                     \* Instruction(...), an initial register file and memory,
                     \* the latter a function on some 8-aligned addresses
          StartPc,   \* the address of a program's first instruction
          MaxSteps,  \* build_program's max_steps
          Regs,      \* the architectural registers in use, 0 among them
          None       \* Option::None

ASSUME RegsAssumption == Regs \subseteq 0..31 /\ 0 \in Regs
ASSUME NoneAssumption == None \notin Int

Instruction(op, rd, rs1, rs2, imm) ==
    [op |-> op, rd |-> rd, rs1 |-> rs1, rs2 |-> rs2, imm |-> imm]

Opcodes == AluOps \cup NarrowOps \cup BranchOps
             \cup {"Lui", "Auipc", "Ld", "Sd", "Jal", "Jalr", "Fence", "Ecall", "Illegal"}

Instructions == [op : Opcodes, rd : Regs, rs1 : Regs, rs2 : Regs, imm : Int]

\* Memory holds words, and is addressed by words.
IsMemory(mem) == \A addr \in DOMAIN mem : addr \in Word /\ mem[addr] \in Word

\* The executor computes pc + 4 without wrapping around.
ASSUME ScenariosAssumption ==
    /\ StartPc \in Nat
    /\ \A scenario \in Scenarios :
          /\ scenario.program \in Seq(Instructions)
          /\ StartPc + 4 * Len(scenario.program) < WordSize
          /\ scenario.regs \in [Regs -> Word]
          /\ IsMemory(scenario.mem)

VARIABLES program,
          state,     \* Rv64State: pc, regs, mem and halted
          executed,  \* the ExecutedSteps so far
          status     \* of build_program: "running", "halted" or "failed"

mvars == <<program, state, executed, status>>

WriteReg_x0(regs, rd, value) == [regs EXCEPT ![rd] = value]

\* Rv64State: x0 reads as zero, whatever is written; memory is 0 by default.
WriteReg(regs, rd, value) == [regs EXCEPT ![rd] = IF rd = 0 THEN 0 ELSE value]
ReadMem(mem, addr)        == IF addr \in DOMAIN mem THEN mem[addr] ELSE 0
WriteMem(mem, addr, word) == [a \in DOMAIN mem \cup {addr} |-> IF a = addr THEN word ELSE mem[a]]

------------------------------------------------------------------------------
(* The instruction at pc, and its operands.                                *)
FetchIndex == (state.pc - StartPc) \div 4 + 1
Fetches    == /\ state.pc >= StartPc
              /\ (state.pc - StartPc) % 4 = 0
              /\ FetchIndex <= Len(program)

Current  == program[FetchIndex]
Op       == Current.op
Imm      == Wrap(Current.imm)
Rs1Value == state.regs[Current.rs1]
Rs2Value == state.regs[Current.rs2]
Address  == Wrap(Rs1Value + Imm)

BranchTarget == Wrap(state.pc + Imm)
JalrTarget   == 2 * (Address \div 2)
BranchTaken  == Op \in BranchOps /\ Taken(Op, Rs1Value, Rs2Value)

\* execute_step's error returns.  JAL does not check its target: the next fetch does.
Faults == Fetches =>
    \/ Op = "Illegal"
    \/ Op \in NarrowOps /\ ~Aligned(Op, Address)
    \/ Op \in {"Ld", "Sd"} /\ Address % 8 # 0
    \/ Op = "Jalr" /\ JalrTarget % 4 # 0
    \/ BranchTaken /\ BranchTarget % 4 # 0

Executes(ops) == /\ status = "running"
                 /\ Len(executed) < MaxSteps
                 /\ ~Faults
                 /\ Op \in ops

\* The step leads to state next, computed result, and accessed the memory word
\* holding addr, which went from before to after (None: no access).
Step(next, result, addr, before, after) ==
    /\ state' = next
    /\ executed' = Append(executed,
          [step_index |-> Len(executed), decoded |-> Current, prev |-> state, next |-> next,
           rs1_value |-> Rs1Value, rs2_value |-> Rs2Value, rd_before |-> state.regs[Current.rd],
           alu_result |-> result, effective_addr |-> addr,
           memory_before |-> before, memory_after |-> after])
    /\ status' = IF next.halted THEN "halted" ELSE "running"
    /\ UNCHANGED program

Advance(next, result) == Step(next, result, None, None, None)

\* The next instruction in line, with value in rd.
Retire(value) == [state EXCEPT !.pc = @ + 4, !.regs = WriteReg(@, Current.rd, value)]

------------------------------------------------------------------------------
ExecuteAlu ==
    /\ Executes(AluOps)
    /\ LET value == Alu(Op, Rs1Value, IF Op \in ImmediateOps THEN Imm ELSE Rs2Value)
       IN  Advance(Retire(value), value)

ExecuteUpper ==
    /\ Executes({"Lui", "Auipc"})
    /\ LET value == IF Op = "Lui" THEN Imm ELSE Wrap(state.pc + Imm)
       IN  Advance(Retire(value), value)

ExecuteLoad ==
    /\ Executes(NarrowLoads \cup {"Ld"})
    /\ LET word  == ReadMem(state.mem, BackingAddr(Address))
           value == IF Op = "Ld" THEN word ELSE ExtractNarrow(word, Address, Op)
       IN  Step(Retire(value), value, Address, word, word)

ExecuteStore ==
    /\ Executes(NarrowStores \cup {"Sd"})
    /\ LET addr  == BackingAddr(Address)
           word  == ReadMem(state.mem, addr)
           after == IF Op = "Sd" THEN Rs2Value ELSE BlendNarrow(word, Address, Op, Rs2Value)
       IN  Step([state EXCEPT !.pc = @ + 4, !.mem = WriteMem(@, addr, after)],
                after, Address, word, after)

ExecuteJump ==
    /\ Executes({"Jal", "Jalr"})
    /\ LET link == state.pc + 4
       IN  Advance([state EXCEPT !.pc = IF Op = "Jal" THEN BranchTarget ELSE JalrTarget,
                                 !.regs = WriteReg(@, Current.rd, link)], link)

ExecuteBranch ==
    /\ Executes(BranchOps)
    /\ Advance([state EXCEPT !.pc = IF BranchTaken THEN BranchTarget ELSE @ + 4], Bool(BranchTaken))

ExecuteFence == Executes({"Fence"}) /\ Advance([state EXCEPT !.pc = @ + 4], 0)

ExecuteEcall == Executes({"Ecall"}) /\ Advance([state EXCEPT !.pc = @ + 4, !.halted = TRUE], 0)

\* build_program returns an error: a step fails, or none halted in max_steps.
Fail == /\ status = "running"
        /\ Len(executed) < MaxSteps => Faults
        /\ status' = "failed"
        /\ UNCHANGED <<program, state, executed>>

MInit == /\ \E scenario \in Scenarios :
               /\ program = scenario.program
               /\ state = [pc |-> StartPc, regs |-> [scenario.regs EXCEPT ![0] = 0],
                           mem |-> scenario.mem, halted |-> FALSE]
         /\ executed = <<>>
         /\ status = "running"

MNext == \/ ExecuteAlu \/ ExecuteUpper \/ ExecuteLoad \/ ExecuteStore
         \/ ExecuteJump \/ ExecuteBranch \/ ExecuteFence \/ ExecuteEcall
         \/ Fail

MSpec == MInit /\ [][MNext]_mvars
==============================================================================
