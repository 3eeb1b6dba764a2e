------------------------------- MODULE MCUnits -------------------------------
(***************************************************************************)
(* Units, with the operations that work bit by bit.  The execute and mem   *)
(* stages get every input of four bits, in which a byte is one bit and a   *)
(* half two.  Addresses are cut up for the three caches as they are        *)
(* configured and for three configurations more, the last of them with 48  *)
(* sets.                                                                   *)
(***************************************************************************)
EXTENDS Units, Alu

Cache(a, b, c) == [associativity |-> a, block_size |-> b, cache_size |-> c]
MCGeometries == {Cache(8, 32, 65536), Cache(4, 32, 8192), L2Cache,
                 Cache(1, 64, 4096), Cache(2, 16, 32), Cache(4, 32, 6144)}

\* Addresses at the edges of blocks, of sets of each cache, and of rows.
MCAddresses ==
  {upper + middle + lower : upper \in {0, 65536, 196608, 1073741824},
                            middle \in {0, 32, 480, 2048, 16384, 65504},
                            lower \in {0, 1, 6, 28, 31}}

-----------------------------------------------------------------------------
\* Shifts move bits, and the logical operations work bit by bit (pipe_stage_execute).
ShiftsAndBits ==
  /\ ShiftsMoveBits
  /\ input.unit = "execute" =>
       LET a == input.a  b == input.b  imm == input.imm
       IN  \A i \in 0 .. Bits - 1 :
             LET B(fn) == Bit(Computed(fn, a, b, imm), i)
             IN  /\ B("and") = Bit(a, i) * Bit(b, i)
                 /\ B("or") = AsBit(Bit(a, i) + Bit(b, i) > 0)
                 /\ B("nor") = 1 - B("or")
                 /\ B("xor") = (Bit(a, i) + Bit(b, i)) % 2
                 /\ B("xori") = (Bit(a, i) + Bit(imm, i)) % 2
=============================================================================
