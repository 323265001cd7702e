------------------------------ MODULE CacheOps ------------------------------
(***************************************************************************)
(* The parts of class Cache (CSimulator/include/cache.h and                *)
(* CSimulator/src/cache.cpp) that only look at the cache itself: geometry, *)
(* address parsing, lookup, choice of a victim and replacement counters.   *)
(*                                                                         *)
(* The code keeps the blocks of all sets in one vector: way i of set       *)
(* `index' is blocks[i * set_num + index].  Here a blockID is the pair     *)
(* <<index, i>>, so blocks[0] is <<0, 0>>.                                 *)
(***************************************************************************)
EXTENDS Integers, FiniteSets, FiniteSetsExt

CONSTANTS
  Size,            \* CacheConfig.size, in bytes
  Associativity,   \* CacheConfig.associativity
  BlockSize,       \* CacheConfig.block_size, in bytes
  AddrBit,         \* ADDR_BIT, the width of an address
  Addrs,           \* the addresses that clients request
  Values           \* the values of an 8-byte word

(* What the constructor relies on: sizes are positive, and a set has a way.*)
ASSUME GeometryAssumption ==
  /\ Size \in Nat
  /\ Associativity \in Nat \ {0}
  /\ BlockSize \in Nat \ {0}

-----------------------------------------------------------------------------
(* The geometry the constructor computes.                                  *)

Log2(n) == CHOOSE k \in 0 .. n : 2^k <= n /\ n < 2^(k + 1)

BlockNum  == Size \div BlockSize
SetNum    == BlockNum \div Associativity
OffsetBit == Log2(BlockSize)
IndexBit  == Log2(SetNum)
TagBit    == AddrBit - IndexBit - OffsetBit

Sets    == 0 .. (SetNum - 1)
Ways    == 0 .. (Associativity - 1)
Blocks  == Sets \X Ways
Offsets == 0 .. (BlockSize \div 8 - 1)   \* the words of a block

-----------------------------------------------------------------------------
(* Addresses.                                                              *)

(* Bits s to e of addr, bit 0 being the most significant.                  *)
ParseAddr(addr, s, e) == (addr \div 2^(AddrBit - 1 - e)) % 2^(e - s + 1)

TagOf(addr)      == ParseAddr(addr, 0, TagBit - 1)
IndexOf(addr)    == ParseAddr(addr, TagBit, TagBit + IndexBit - 1)
OffsetWord(addr) == ParseAddr(addr, TagBit + IndexBit, AddrBit - 1) \div 8

Tags == {TagOf(a) : a \in Addrs} \cup {0}   \* 0: the tag of a fresh block

(* x << n on uint64_t.  A count of AddrBit or more is undefined in C++; the *)
(* shift instruction the compiler emits takes the count modulo the width.  *)
Shl(x, n) == LET k == n % AddrBit IN (x % 2^(AddrBit - k)) * 2^k

(* The address a block is fetched from and written back to:                *)
(*   tag << (index_bit + offset_bit) + index << offset_bit                 *)
(* where + binds tighter than <<.                                          *)
BlockAddr(tag, index) ==
  Shl(Shl(tag, (IndexBit + OffsetBit) + index), OffsetBit)

Block == [valid : BOOLEAN, dirty : BOOLEAN, tag : Tags, cnt : Nat,
          data : [Offsets -> Values]]

-----------------------------------------------------------------------------
(* Lookup.                                                                 *)

HitWays(blocks, index, tag) ==
  {i \in Ways : blocks[<<index, i>>].valid /\ blocks[<<index, i>>].tag = tag}

\* A mutation: the scan stops one way short.
IsHitShort(blocks, index, tag) ==
  HitWays(blocks, index, tag) \ {Associativity - 1} # {}

(* hit_or_miss: whether some way of the set holds the tag...               *)
IsHit(blocks, index, tag) == HitWays(blocks, index, tag) # {}

(* ...and the first that does.                                             *)
HitID(blocks, index, tag) == <<index, Min(HitWays(blocks, index, tag))>>

-----------------------------------------------------------------------------
(* Replacement.                                                            *)

CntLimit == 100   \* the starting minimum of get_replacementID's scan

InvalidWays(blocks, index) == {i \in Ways : ~ blocks[<<index, i>>].valid}

(* The ways whose counter is the smallest of the set and below the start.  *)
LeastCntWays(blocks, index) ==
  {i \in Ways :
     /\ blocks[<<index, i>>].cnt < CntLimit
     /\ \A j \in Ways : blocks[<<index, i>>].cnt <= blocks[<<index, j>>].cnt}

\* A mutation: the scan keeps the largest counter, not the smallest.
MostRecentVictim(blocks, policy, index) ==
  IF InvalidWays(blocks, index) # {}
    THEN <<index, Min(InvalidWays(blocks, index))>>
    ELSE <<index, CHOOSE i \in Ways : \A j \in Ways :
                    blocks[<<index, i>>].cnt >= blocks[<<index, j>>].cnt>>

(* get_replacementID: an invalid way if there is one; then LRU takes the   *)
(* first way with the least counter, and every other policy falls through  *)
(* to blockID = 0, as LRU does when no counter is below the start.         *)
GetReplacementID(blocks, policy, index) ==
  IF InvalidWays(blocks, index) # {}
    THEN <<index, Min(InvalidWays(blocks, index))>>
  ELSE IF policy = "LRU" /\ LeastCntWays(blocks, index) # {}
    THEN <<index, Min(LeastCntWays(blocks, index))>>
  ELSE <<0, 0>>

\* A mutation: the other blocks of the set keep their counters.
TouchOnlyHit(blocks, policy, index, blockID) ==
  [blocks EXCEPT ![blockID].cnt = Associativity - 1]

\* A mutation: a counter at zero is decremented too.
DecrementAlways(blocks, policy, index, blockID) ==
  IF policy # "LRU" THEN blocks
  ELSE [b \in Blocks |->
          IF b[1] # index THEN blocks[b]
          ELSE IF b = blockID
            THEN [blocks[b] EXCEPT !.cnt = Associativity - 1]
            ELSE [blocks[b] EXCEPT !.cnt = @ - 1]]

(* update_replacement: the block gets the largest counter, every other     *)
(* block of the set loses one unless it is at zero.                        *)
UpdateReplacement(blocks, policy, index, blockID) ==
  IF policy # "LRU" THEN blocks
  ELSE [b \in Blocks |->
          IF b[1] # index THEN blocks[b]
          ELSE IF b = blockID
            THEN [blocks[b] EXCEPT !.cnt = Associativity - 1]
            ELSE [blocks[b] EXCEPT !.cnt = IF @ = 0 THEN 0 ELSE @ - 1]]

\* A mutation: the refilled block is left invalid, as evict_block left it.
InstallInvalid(blocks, blockID, tag, data) ==
  [blocks EXCEPT ![blockID] =
     [valid |-> FALSE, dirty |-> FALSE, tag |-> tag, cnt |-> 0, data |-> data]]

(* get_missed_block, after the refill: the block now holds tag.            *)
Install(blocks, blockID, tag, data) ==
  [blocks EXCEPT ![blockID] =
     [valid |-> TRUE, dirty |-> FALSE, tag |-> tag, cnt |-> 0, data |-> data]]

=============================================================================
