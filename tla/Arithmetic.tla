----------------------------- MODULE Arithmetic -----------------------------
(***************************************************************************)
(* What the execute stage (pipe.c) computes with sums, products and        *)
(* shifts, for words of any width, and the parts of words that the memory  *)
(* stage loads and stores.  The operands are reg_src1_value and            *)
(* reg_src2_value, then the immediate or, for a shift by a constant, the   *)
(* shift amount.                                                           *)
(***************************************************************************)
EXTENDS Integers

CONSTANT Bits  \* the width of a word, of four bytes: 32

ASSUME ArithmeticAssumption == Bits \in 4 .. 32 /\ Bits % 4 = 0

Size == 2^Bits
WordValues == 0 .. Size - 1

\* Mutant: the least number counts as positive.
SignedButLeast(v) == IF v > Size \div 2 THEN v - Size ELSE v

\* (int32_t) v
Signed(v) == IF v >= Size \div 2 THEN v - Size ELSE v

AsBit(condition) == IF condition THEN 1 ELSE 0

\* The shifts of the processor the simulator runs on take the amount modulo the width.
Left(v, amount) == (v * 2^(amount % Bits)) % Size
Right(v, amount) == v \div 2^(amount % Bits)

\* Mutant: the cast to int32_t is missing.
LogicalRight(v, amount) == v \div 2^(amount % Bits)

ArithmeticRight(v, amount) == (Signed(v) \div 2^(amount % Bits)) % Size

\* The results that are not bit by bit.
Calculated(fn, a, b, imm) ==
  CASE fn = "sll" -> Left(b, imm)
    [] fn = "sllv" -> Left(b, a)
    [] fn = "srl" -> Right(b, imm)
    [] fn = "srlv" -> Right(b, a)
    [] fn = "sra" -> ArithmeticRight(b, imm)
    [] fn = "srav" -> ArithmeticRight(b, a)
    [] fn \in {"add", "addu"} -> (a + b) % Size
    [] fn \in {"sub", "subu"} -> (a - b) % Size
    [] fn = "slt" -> AsBit(Signed(a) < Signed(b))
    [] fn = "sltu" -> AsBit(a < b)
    [] fn \in {"addi", "addiu"} -> (a + imm) % Size
    [] fn = "slti" -> AsBit(Signed(a) < Signed(imm))
    [] fn = "sltiu" -> AsBit(a < imm)
    [] fn = "lui" -> Left(imm, Bits \div 2)
    [] OTHER -> 0

\* The signs of quotient and remainder are those of C.
Magnitude(n) == IF n < 0 THEN -n ELSE n

\* Mutant: quotients are rounded down.
QuotientDown(m, n) == IF n > 0 THEN m \div n ELSE (-m) \div (-n)

Quotient(m, n) ==
  LET q == Magnitude(m) \div Magnitude(n) IN IF (m < 0) = (n < 0) THEN q ELSE -q
Remainder(m, n) == m - n * Quotient(m, n)

Pair(hi, lo) == [hi |-> hi % Size, lo |-> lo % Size]

\* HI and LO.  A division by 0 gives 0.  The quotient of the least number by -1 has no
\* representation: C leaves it undefined, here it wraps around.
Multiplied(fn, a, b) ==
  CASE fn = "mult" -> LET p == Signed(a) * Signed(b) IN Pair(p \div Size, p)
    [] fn = "multu" -> Pair((a * b) \div Size, a * b)
    [] fn \in {"div", "divu"} /\ b = 0 -> Pair(0, 0)
    [] fn = "div" /\ b # 0 ->
         Pair(Remainder(Signed(a), Signed(b)), Quotient(Signed(a), Signed(b)))
    [] fn = "divu" /\ b # 0 -> Pair(a % b, a \div b)
    [] OTHER -> Pair(0, 0)

Branches(fn, a, b) ==
  CASE fn \in {"bltz", "bltzal"} -> Signed(a) < 0
    [] fn \in {"bgez", "bgezal"} -> Signed(a) >= 0
    [] fn = "beq" -> a = b
    [] fn = "bne" -> a # b
    [] fn = "blez" -> Signed(a) <= 0
    [] fn = "bgtz" -> Signed(a) > 0
    [] OTHER -> FALSE

\* A field of a word.
Field(word, from, width) == (word \div 2^from) % 2^width
WithField(word, from, width, v) ==
  word + ((v % 2^width) - Field(word, from, width)) * 2^from

\* Where the byte and the half at an address are in their word.
ByteBits == Bits \div 4
HalfBits == Bits \div 2
ByteFrom(address) == ByteBits * (address % 4)

\* Mutant: bit 0 of the address chooses the half.
HalfFromBit0(address) == HalfBits * (address % 2)

HalfFrom(address) == HalfBits * ((address \div 2) % 2)

\* The sign extension of a field of a width.
Extended(v, width) == IF v >= 2^(width - 1) THEN v + Size - 2^width ELSE v

\* What a load of an address takes from the word there.  An unaligned half or word
\* is the aligned one.
PartOf(fn, word, address) ==
  CASE fn = "lw" -> word
    [] fn = "lhu" -> Field(word, HalfFrom(address), HalfBits)
    [] fn = "lh" -> Extended(Field(word, HalfFrom(address), HalfBits), HalfBits)
    [] fn = "lbu" -> Field(word, ByteFrom(address), ByteBits)
    [] fn = "lb" -> Extended(Field(word, ByteFrom(address), ByteBits), ByteBits)
    [] OTHER -> 0

\* The word that a store of v to an address makes of the word there.
Patch(fn, word, v, address) ==
  CASE fn = "sw" -> v
    [] fn = "sh" -> WithField(word, HalfFrom(address), HalfBits, v)
    [] fn = "sb" -> WithField(word, ByteFrom(address), ByteBits, v)
    [] OTHER -> word

\* pipe.c: four cycles to multiply, 32 to divide.
Cycles(fn) ==
  CASE fn \in {"mult", "multu"} -> 4
    [] fn \in {"div", "divu"} -> 32
    [] OTHER -> 0
=============================================================================
