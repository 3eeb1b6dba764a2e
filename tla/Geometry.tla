------------------------------ MODULE Geometry -------------------------------
(***************************************************************************)
(* How addresses are cut up: tag, set and word of a cache (cache.c), row   *)
(* and bank of the memory (mem_ctrl.c).  A cache is its CACHE_META_T, and  *)
(* sizes are in bytes.  x & ~(2^n - 1) is x - (x % 2^n).                    *)
(***************************************************************************)
EXTENDS Integers

CONSTANTS
  Geometries,   \* the caches, as records with the fields of CACHE_META_T
  Addresses

\* (int)ceil(log2(x)).  The quotient of logarithms in log2 is exact enough for sizes
\* below 2^29; at 2^29 it would be rounded up to 30.
CeilLog2(x) == CHOOSE n \in 0 .. 31 : 2^n >= x /\ (n > 0 => 2^(n-1) < x)

SetCount(cache) == cache.cache_size \div (cache.block_size * cache.associativity)

\* A block is a power of two of words, sizes are positive numbers of C, and a cache has
\* a set (cache_init's assertion).  The number of sets may be any.
ASSUME GeometryAssumption ==
  /\ Addresses \subseteq Nat
  /\ \A cache \in Geometries :
       /\ \E n \in 2 .. 30 : cache.block_size = 2^n
       /\ cache.associativity \in Nat \ {0}
       /\ cache.cache_size \in Nat /\ cache.cache_size \div 2 < 2^30
       /\ SetCount(cache) >= 1

BlockBits(cache) == CeilLog2(cache.block_size)
SetBits(cache) == CeilLog2(SetCount(cache))

\* Mutant: the tag is not shifted past the bits in the block.
DecodeWithSet(address, cache) ==
  [set |-> (address \div 2^BlockBits(cache)) % 2^SetBits(cache),
   tag |-> address \div 2^SetBits(cache)]

decode_address(address, cache) ==
  [set |-> (address \div 2^BlockBits(cache)) % 2^SetBits(cache),
   tag |-> address \div 2^(BlockBits(cache) + SetBits(cache))]

WordBits(cache) == CeilLog2(cache.block_size \div 4)

traverse_block(address, cache, word_offset) ==
  address - (address % 2^(WordBits(cache) + 2)) + 4 * word_offset

get_offset_in_block(address, cache) == (address \div 4) % 2^WordBits(cache)

get_row(address) == address \div 2^16

\* Mutant: the bank is taken from the bits of the word.
BankOfWord(address) == (address \div 4) % 8

get_bank(address) == (address \div 32) % 8

\* The address the pipeline probes the MSHR queue for (pipe_stage_mem, pipe_stage_fetch).
ProbeAddress(address) == address - (address % 32) + 28

\* The cache of l2_cache (cache_init).
L2Cache == [associativity |-> 16, block_size |-> 32, cache_size |-> 262144]

=============================================================================
