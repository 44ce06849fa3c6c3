----------------------------- MODULE MCRv64Inline -----------------------------
(***************************************************************************)
(* The expanded multiplications and divisions on words of XLEN = 4 bits    *)
(* with 2-bit low words: every operand value, every aliasing of the        *)
(* operands and the destination, and two expansions after one another.     *)
(***************************************************************************)
EXTENDS Rv64Pipeline

MCRegs == 0..3

ECall == Instruction("Ecall", 0, 0, 0, 0)

\* One expanded instruction with its operands in x1 and x2.
ArithPrograms ==
    {<<Instruction(op, rd, 1, 2, 0), ECall>> : op \in InlineOps, rd \in {1, 2, 3}}

\* All operand values; the other registers hold something to be seen.
ArithRegs == {(1 :> a) @@ (2 :> b) @@ [r \in MCRegs |-> 5] : a \in Word, b \in Word}

\* All choices of three registers among x0, x1 and x2.
AliasPrograms ==
    {<<Instruction(op, rd, rs1, rs2, 0), ECall>> : op \in InlineOps, rd \in 0..2, rs1 \in 0..2, rs2 \in 0..2}

\* Zero, one, the largest and the smallest signed number, and minus one, on
\* both widths.
EdgeRegs == {(1 :> a) @@ (2 :> b) @@ [r \in MCRegs |-> 5] : a \in {0, 1, 6, 8, 15}, b \in {0, 1, 2, 11, 15}}

\* Two expansions, the second of which reads what the first wrote.
ChainPrograms ==
    {<<Instruction(first, rd, 1, 2, 0), Instruction(second, 2, rd, 2, 0), ECall>> :
        first \in InlineOps, second \in InlineOps, rd \in {1, 3}}

Empty == [addr \in {} |-> 0]

\* One instruction on every operand value, or one or two at the edges.
MCScenarios == [program : ArithPrograms, regs : ArithRegs, mem : {Empty}]
                 \cup [program : AliasPrograms \cup ChainPrograms, regs : EdgeRegs, mem : {Empty}]

EdgeScenarios == [program : AliasPrograms, regs : EdgeRegs, mem : {Empty}]
==============================================================================
