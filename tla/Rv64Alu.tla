-------------------------------- MODULE Rv64Alu --------------------------------
(***************************************************************************)
(* The arithmetic of rv64im/execute.rs on words of XLEN bits, with the     *)
(* 32-bit operations on WLEN bits and a byte of XLEN \div 8 bits.  The     *)
(* code has XLEN = 64 and WLEN = 32; every operation is stated for any     *)
(* width, so that TLC can run through whole operand spaces at small ones.  *)
(* A register value is the natural number of its bits (u64).               *)
(***************************************************************************)
EXTENDS Integers

CONSTANTS XLEN, WLEN

ASSUME WidthAssumption == XLEN \in Nat /\ WLEN \in 1..(XLEN - 1)

TwoTo(n) == LET pow[k \in 0..n] == IF k = 0 THEN 1 ELSE 2 * pow[k - 1] IN pow[n]

WordSize == TwoTo(XLEN)
SignBit  == TwoTo(XLEN - 1)
LowSize  == TwoTo(WLEN)
LowSign  == TwoTo(WLEN - 1)

Word    == 0..(WordSize - 1)
MaxWord == WordSize - 1

Wrap(x)   == x % WordSize
Signed(x) == IF x >= SignBit THEN x - WordSize ELSE x

\* "as u32", "as i32", and sign_extend_word32.
Low(x)            == x % LowSize
SignedLow(x)      == IF Low(x) >= LowSign THEN Low(x) - LowSize ELSE Low(x)
SignExtendWord(x) == Wrap(SignedLow(x))

Bool(b) == IF b THEN 1 ELSE 0

SignMask(x) == IF Signed(x) < 0 THEN MaxWord ELSE 0

\* Rust's / and % on signed integers truncate towards zero.
Magnitude(x)   == IF x < 0 THEN -x ELSE x
TruncDiv(x, y) == LET q == Magnitude(x) \div Magnitude(y)
                  IN  IF (x < 0) = (y < 0) THEN q ELSE -q
TruncRem(x, y) == x - y * TruncDiv(x, y)

\* The word with the given bits, the lowest first, and Rust's bit operations.
Bit(x, i) == (x \div TwoTo(i)) % 2

OfBits(bits) ==
    LET sum[n \in 0..XLEN] == IF n = 0 THEN 0 ELSE sum[n - 1] + bits[n - 1] * TwoTo(n - 1)
    IN  sum[XLEN]

BitAnd(a, b) == OfBits([i \in 0..(XLEN - 1) |-> Bit(a, i) * Bit(b, i)])
BitOr(a, b)  == OfBits([i \in 0..(XLEN - 1) |-> IF Bit(a, i) = 1 THEN 1 ELSE Bit(b, i)])
BitXor(a, b) == OfBits([i \in 0..(XLEN - 1) |-> IF Bit(a, i) = Bit(b, i) THEN 0 ELSE 1])

------------------------------------------------------------------------------
(* The multiplication and division instructions.                           *)
MulHighSigned(a, b)         == Wrap((Signed(a) * Signed(b)) \div WordSize)
MulHighSignedUnsigned(a, b) == Wrap((Signed(a) * b) \div WordSize)
MulHighUnsigned(a, b)       == (a * b) \div WordSize
MulWord(a, b)               == SignExtendWord(SignedLow(a) * SignedLow(b))

SignedMin    == -SignBit
SignedLowMin == -LowSign

DivSigned(a, b) ==
    IF b = 0 THEN MaxWord
    ELSE IF Signed(a) = SignedMin /\ Signed(b) = -1 THEN a
    ELSE Wrap(TruncDiv(Signed(a), Signed(b)))

RemSigned(a, b) ==
    IF b = 0 THEN a
    ELSE IF Signed(a) = SignedMin /\ Signed(b) = -1 THEN 0
    ELSE Wrap(TruncRem(Signed(a), Signed(b)))

DivUnsigned(a, b) == IF b = 0 THEN MaxWord ELSE a \div b
RemUnsigned(a, b) == IF b = 0 THEN a ELSE a % b

DivWordSigned(a, b) ==
    IF Low(b) = 0 THEN MaxWord
    ELSE IF SignedLow(a) = SignedLowMin /\ SignedLow(b) = -1 THEN SignExtendWord(a)
    ELSE SignExtendWord(TruncDiv(SignedLow(a), SignedLow(b)))

RemWordSigned(a, b) ==
    IF Low(b) = 0 THEN SignExtendWord(a)
    ELSE IF SignedLow(a) = SignedLowMin /\ SignedLow(b) = -1 THEN 0
    ELSE SignExtendWord(TruncRem(SignedLow(a), SignedLow(b)))

DivWordUnsigned(a, b) == IF Low(b) = 0 THEN MaxWord ELSE SignExtendWord(Low(a) \div Low(b))
RemWordUnsigned(a, b) == SignExtendWord(IF Low(b) = 0 THEN a ELSE Low(a) % Low(b))

------------------------------------------------------------------------------
(* The instructions that write a register and touch neither memory nor the *)
(* program counter: a is rs1's value, b rs2's value or the immediate.      *)
ImmediateOps == {"Addi", "Addiw", "Andi", "Ori", "Xori", "Slti", "Sltiu", "Slli",
                 "Slliw", "Srli", "Srliw", "Srai", "Sraiw"}

AluOps == {"Addi", "Add", "Addiw", "Addw", "Sub", "Subw", "Andi", "And", "Ori", "Or",
           "Xori", "Xor", "Slti", "Slt", "Sltiu", "Sltu", "Slli", "Sll", "Slliw",
           "Sllw", "Srli", "Srl", "Srliw", "Srlw", "Srai", "Sra", "Sraiw", "Sraw",
           "Mul", "Mulh", "Mulhsu", "Mulhu", "Mulw", "Div", "Divu", "Rem", "Remu",
           "Divw", "Divuw", "Remw", "Remuw"}

Alu(op, a, b) ==
    CASE op \in {"Addi", "Add"}   -> Wrap(a + b)
      [] op \in {"Addiw", "Addw"} -> SignExtendWord(a + b)
      [] op = "Sub"               -> Wrap(a - b)
      [] op = "Subw"              -> SignExtendWord(a - b)
      [] op \in {"Andi", "And"}   -> BitAnd(a, b)
      [] op \in {"Ori", "Or"}     -> BitOr(a, b)
      [] op \in {"Xori", "Xor"}   -> BitXor(a, b)
      [] op \in {"Slti", "Slt"}   -> Bool(Signed(a) < Signed(b))
      [] op \in {"Sltiu", "Sltu"} -> Bool(a < b)
      [] op \in {"Slli", "Sll"}   -> Wrap(a * TwoTo(b % XLEN))
      [] op \in {"Slliw", "Sllw"} -> SignExtendWord(a * TwoTo(b % WLEN))
      [] op \in {"Srli", "Srl"}   -> a \div TwoTo(b % XLEN)
      [] op \in {"Srliw", "Srlw"} -> SignExtendWord(Low(a) \div TwoTo(b % WLEN))
      [] op \in {"Srai", "Sra"}   -> Wrap(Signed(a) \div TwoTo(b % XLEN))
      [] op \in {"Sraiw", "Sraw"} -> SignExtendWord(SignedLow(a) \div TwoTo(b % WLEN))
      [] op = "Mul"               -> Wrap(a * b)
      [] op = "Mulh"              -> MulHighSigned(a, b)
      [] op = "Mulhsu"            -> MulHighSignedUnsigned(a, b)
      [] op = "Mulhu"             -> MulHighUnsigned(a, b)
      [] op = "Mulw"              -> MulWord(a, b)
      [] op = "Div"               -> DivSigned(a, b)
      [] op = "Divu"              -> DivUnsigned(a, b)
      [] op = "Rem"               -> RemSigned(a, b)
      [] op = "Remu"              -> RemUnsigned(a, b)
      [] op = "Divw"              -> DivWordSigned(a, b)
      [] op = "Divuw"             -> DivWordUnsigned(a, b)
      [] op = "Remw"              -> RemWordSigned(a, b)
      [] op = "Remuw"             -> RemWordUnsigned(a, b)

BranchOps == {"Beq", "Bne", "Blt", "Bge", "Bltu", "Bgeu"}

Taken(op, a, b) ==
    CASE op = "Beq"  -> a = b
      [] op = "Bne"  -> a # b
      [] op = "Blt"  -> Signed(a) < Signed(b)
      [] op = "Bge"  -> Signed(a) >= Signed(b)
      [] op = "Bltu" -> a < b
      [] op = "Bgeu" -> a >= b

------------------------------------------------------------------------------
(* Loads and stores narrower than a memory word of eight bytes.            *)
NarrowLoads  == {"Lb", "Lbu", "Lh", "Lhu", "Lw", "Lwu"}
NarrowStores == {"Sb", "Sh", "Sw"}
NarrowOps    == NarrowLoads \cup NarrowStores

NarrowBytes(op) == CASE op \in {"Lb", "Lbu", "Sb"} -> 1
                     [] op \in {"Lh", "Lhu", "Sh"} -> 2
                     [] op \in {"Lw", "Lwu", "Sw"} -> 4
NarrowSigned(op) == op \in {"Lb", "Lh", "Lw"}

ByteBits == XLEN \div 8

\* addr & !7 and addr & 7.
BackingAddr(addr) == 8 * (addr \div 8)
ByteOffset(addr)  == addr % 8

Aligned(op, addr) == addr % NarrowBytes(op) = 0 /\ ByteOffset(addr) + NarrowBytes(op) <= 8

ExtractNarrow(word, addr, op) ==
    LET bits == NarrowBytes(op) * ByteBits
        raw  == (word \div TwoTo(ByteOffset(addr) * ByteBits)) % TwoTo(bits)
    IN  IF NarrowSigned(op) /\ raw >= TwoTo(bits - 1) THEN Wrap(raw - TwoTo(bits)) ELSE raw

BlendNarrow(word, addr, op, value) ==
    LET bits  == NarrowBytes(op) * ByteBits
        scale == TwoTo(ByteOffset(addr) * ByteBits)
        old   == (word \div scale) % TwoTo(bits)
    IN  word + ((value % TwoTo(bits)) - old) * scale
==============================================================================
