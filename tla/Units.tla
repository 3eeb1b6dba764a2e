------------------------------- MODULE Units --------------------------------
(***************************************************************************)
(* What the pure functions of the program are for.  They keep no state, so *)
(* there is nothing to step to: a state is one input of a unit.            *)
(***************************************************************************)
EXTENDS Arithmetic, Geometry

VARIABLE input

Inputs ==
  [unit : {"execute"}, a : WordValues, b : WordValues, imm : WordValues]
  \cup [unit : {"mem"}, word : WordValues, value : WordValues, address : Addresses]
  \cup [unit : {"cache"}, a : Addresses, b : Addresses]

UnitsInit == input \in Inputs

UnitsNext == UNCHANGED input

UnitsSpec == UnitsInit /\ [][UnitsNext]_input

-----------------------------------------------------------------------------
Bit(v, i) == (v \div 2^i) % 2
SignBit(v) == Bit(v, Bits - 1)

\* A variable shift uses the amount modulo the width, sra and srav copy the sign into the
\* bits they free, the other shifts zeros, and lui fills the upper half
\* (pipe_stage_execute).
ShiftsMoveBits ==
  input.unit = "execute" =>
    LET a == input.a  b == input.b  imm == input.imm
    IN  \A i \in 0 .. Bits - 1 :
          LET B(fn) == Bit(Calculated(fn, a, b, imm), i)
              Upwards(s) == IF i < s THEN 0 ELSE Bit(b, i - s)
              Downwards(s, free) == IF i + s < Bits THEN Bit(b, i + s) ELSE free
          IN  /\ B("sll") = Upwards(imm % Bits) /\ B("sllv") = Upwards(a % Bits)
              /\ B("srl") = Downwards(imm % Bits, 0) /\ B("srlv") = Downwards(a % Bits, 0)
              /\ B("sra") = Downwards(imm % Bits, SignBit(b))
              /\ B("srav") = Downwards(a % Bits, SignBit(b))
              /\ B("lui") = IF i < HalfBits THEN 0 ELSE Bit(imm, i - HalfBits)

\* a < b as signed and as unsigned numbers differ exactly if the signs do, the branches on
\* a sign agree with the comparisons, and a subtraction undoes an addition
\* (pipe_stage_execute).
SignsAgree ==
  input.unit = "execute" =>
    LET a == input.a  b == input.b
        C(fn) == Calculated(fn, a, b, input.imm)
    IN  /\ C("slt") = IF SignBit(a) = SignBit(b) THEN C("sltu") ELSE SignBit(a)
        /\ Branches("bltz", a, b) <=> SignBit(a) = 1
        /\ Branches("blez", a, b) <=> ~Branches("bgtz", a, b)
        /\ Branches("bgtz", a, b) <=> (SignBit(a) = 0 /\ a # 0)
        /\ Calculated("sub", C("add"), b, 0) = a

\* HI and LO hold the whole product.  Quotient and remainder make up the dividend, the
\* remainder is less than the divisor and has the sign of the dividend; but for the
\* least number by -1, which C leaves undefined (pipe.c:347-408).
ProductsAndQuotients ==
  input.unit = "execute" =>
    LET a == input.a  b == input.b
        M(fn) == Multiplied(fn, a, b)
        least == a = Size \div 2 /\ b = Size - 1
    IN  /\ M("mult").hi * Size + M("mult").lo = (Signed(a) * Signed(b)) % (Size * Size)
        /\ M("multu").hi * Size + M("multu").lo = a * b
        /\ b # 0 =>
             /\ M("divu").lo * b + M("divu").hi = a
             /\ M("divu").hi < b
        /\ b # 0 /\ ~least =>
             LET q == Signed(M("div").lo)  r == Signed(M("div").hi)
             IN  /\ q * Signed(b) + r = Signed(a)
                 /\ Magnitude(r) < Magnitude(Signed(b))
                 /\ r # 0 => (r < 0 <=> Signed(a) < 0)

\* A byte or a half is stored where a load of the address finds it, extended as the load
\* says, and the other bytes of the word keep their values; an unaligned half is the one
\* that its address lies in (pipe_stage_mem, pipe.c:167-252).
BytesKeepTheirPlace ==
  input.unit = "mem" =>
    LET word == input.word  value == input.value  address == input.address
        place == address % 4
        Byte(v, k) == (v \div 2^(k * ByteBits)) % 2^ByteBits
        AfterLoad(load, store) == PartOf(load, Patch(store, word, value, address), address)
    IN  /\ \A k \in 0 .. 3 :
             /\ Byte(Patch("sb", word, value, address), k) =
                  IF k = place THEN Byte(value, 0) ELSE Byte(word, k)
             /\ Byte(Patch("sh", word, value, address), k) =
                  IF k \div 2 = place \div 2 THEN Byte(value, k % 2) ELSE Byte(word, k)
        /\ AfterLoad("lw", "sw") = value
        /\ AfterLoad("lbu", "sb") = value % 2^ByteBits
        /\ AfterLoad("lhu", "sh") = value % 2^HalfBits
        /\ \A i \in 0 .. Bits - 1 :
             /\ Bit(AfterLoad("lb", "sb"), i) =
                  Bit(value, IF i < ByteBits THEN i ELSE ByteBits - 1)
             /\ Bit(AfterLoad("lh", "sh"), i) =
                  Bit(value, IF i < HalfBits THEN i ELSE HalfBits - 1)

\* Set and tag identify a block: find_block_position compares tags in a set and asserts
\* that the block found is the one of the address (cache.c:243).  The words of a block
\* have different offsets, and each is where it is read from (read_block_from_memory).
\* If the number of sets is a power of two, blocks are in the sets in turn; otherwise
\* decode_address gives sets that the cache has not got.
AddressesAreBlockAndWord ==
  input.unit = "cache" =>
    \A cache \in Geometries :
      LET a == input.a  b == input.b
          Block(x) == traverse_block(x, cache, 0)
      IN  /\ decode_address(a, cache) = decode_address(b, cache) <=> Block(a) = Block(b)
          /\ decode_address(Block(a), cache) = decode_address(a, cache)
          /\ \A w \in 0 .. cache.block_size \div 4 - 1 :
               /\ get_offset_in_block(traverse_block(a, cache, w), cache) = w
               /\ Block(traverse_block(a, cache, w)) = Block(a)
          /\ traverse_block(a, cache, get_offset_in_block(a, cache)) = a - (a % 4)
          /\ SetCount(cache) = 2^SetBits(cache) =>
               decode_address(a, cache).set = (a \div cache.block_size) % SetCount(cache)

\* All words of an L2 block are in one row of one bank, blocks next to each other are in
\* different banks, and the word the pipeline waits for is the last one that
\* transfer_mem_hier requests (pipe.c:147, 700 and 753).
BlocksAreInOneRow ==
  input.unit = "cache" =>
    LET a == input.a
        Word(w) == traverse_block(a, L2Cache, w)
    IN  /\ \A w \in 0 .. 7 : /\ get_row(Word(w)) = (a \div 32) \div 2048
                             /\ get_bank(Word(w)) = (a \div 32) % 8
        /\ get_bank(Word(0) + 32) = (get_bank(Word(0)) + 1) % 8
        /\ ProbeAddress(a) = Word(7)
=============================================================================
