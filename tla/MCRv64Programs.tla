---------------------------- MODULE MCRv64Programs ----------------------------
(***************************************************************************)
(* Small programs on words of XLEN = 8 bits (bytes of one bit, so that a   *)
(* memory word still has eight of them) at a base address other than 0:    *)
(* every ordinary instruction, every pair of a store and a load at nearby  *)
(* addresses, jumps and branches in and out of the program, and the ways   *)
(* in which a program fails.                                               *)
(***************************************************************************)
EXTENDS Rv64Pipeline

MCRegs == 0..3

ECall == Instruction("Ecall", 0, 0, 0, 0)

AluPrograms ==
    {<<Instruction(op, rd, 1, IF op \in ImmediateOps THEN 0 ELSE 2, IF op \in ImmediateOps THEN imm ELSE 0), ECall>> :
        op \in AluOps \ InlineOps, rd \in {0, 1, 3}, imm \in {-1, 3}}

MemoryPrograms ==
    {<<Instruction(store, 0, 1, 2, offset), Instruction(load, rd, 1, 0, 8 - offset), ECall>> :
        store \in NarrowStores \cup {"Sd"}, load \in NarrowLoads \cup {"Ld"}, rd \in {1, 3}, offset \in {0, 2, 5}}

\* A branch over an instruction, onto itself, and to a misaligned address.
BranchPrograms ==
    {<<Instruction(op, 0, 1, 2, target), Instruction("Addi", 3, 3, 0, 1), ECall>> :
        op \in BranchOps, target \in {8, 0, 6, -8}}

\* A call and a return, jumps below and past the program, upper immediates,
\* a loop that ends or not within MaxSteps, a word that does not decode.
JumpPrograms ==
    {<<Instruction("Jal", 3, 0, 0, target), ECall, Instruction("Jalr", rd, 3, 0, offset)>> :
        target \in {8, 4, 6, -8, 64}, rd \in {0, 3}, offset \in {0, 1, 2, -16}}
    \cup {<<Instruction("Addi", 1, 1, 0, -1), Instruction("Bne", 0, 1, 0, -4), ECall>>,
          <<Instruction("Lui", 3, 0, 0, -16), Instruction("Auipc", 1, 0, 0, 32),
            Instruction("Fence", 0, 0, 0, 0), ECall>>,
          <<Instruction("Illegal", 0, 0, 0, 0), ECall>>}

MCPrograms == AluPrograms \cup MemoryPrograms \cup BranchPrograms \cup JumpPrograms

MCInitRegs == {(1 :> a) @@ (2 :> b) @@ [r \in MCRegs |-> 20] : a \in {0, 2, 128, 255}, b \in {1, 128, 166}}

MCInitMem == {[addr \in {} |-> 0], (0 :> 165) @@ (8 :> 90)}

MCScenarios == [program : MCPrograms, regs : MCInitRegs, mem : MCInitMem]
==============================================================================
