-------------------------- MODULE HierarchyProofs ---------------------------
(***************************************************************************)
(* Theorems about module Hierarchy, for every number of levels, geometry,  *)
(* mix of write policies and length of the trace.                          *)
(***************************************************************************)
EXTENDS Hierarchy, NatProofs, FiniteSetTheorems, SequenceTheorems

(* The contents of k words.                                                *)
Words(k) == [0 .. (k - 1) -> Values]

(* A block of level n.  Its counter never exceeds that of the latest touch.*)
BlockAt(n) ==
  [valid : BOOLEAN, dirty : BOOLEAN, tag : Nat,
   cnt : 0 .. (Geometry[n].associativity - 1), data : Words(NWords(n))]

(* The blocks of every level have the fields of its cache.                 *)
CachesOK ==
  /\ blocks = [n \in Levels |-> blocks[n]]
  /\ \A n \in Levels : blocks[n] \in [BlocksOf(n) -> BlockAt(n)]

(* The words an activation is asked for lie in one block of its level: they*)
(* are as many as a divisor of the block, aligned to their number.         *)
Fits(f) ==
  \E c \in Amounts :
    /\ f.content \in Words(c)
    /\ WordOf(f.addr) % c = 0
    /\ f.level \in Levels => NWords(f.level) % c = 0

(* What an activation keeps of its request while it waits.                 *)
FrameOK(f) ==
  /\ f \in Frame
  /\ Fits(f)
  /\ f.at # "enter" => f.level \in Levels
  /\ f.at \in {"through", "evict", "refill"} =>
       /\ f.block \in BlocksOf(f.level)
       /\ f.block[1] = Level(f.level)!IndexOf(f.addr)
  /\ f.at \in {"through", "around"} => ~ f.read

(* The indices of the words that the callee of a waiting frame returns.    *)
Shape(f) ==
  IF f.at \in {"evict", "refill"} THEN 0 .. (NWords(f.level) - 1)
  ELSE DOMAIN f.content

(* Frame g is the activation that the waiting frame f has called.          *)
Calls(f, g) ==
  /\ f.at # "enter"
  /\ g.level = IF f.at = "again" THEN f.level ELSE f.level + 1
  /\ DOMAIN g.content = Shape(f)
  /\ f.at = "again" => g.at \in {"enter", "through"}

(* The recursive call of frame i.                                          *)
Recursive(i) == i > 1 /\ stack[i - 1].at = "again"

(* The call stack: each activation waits for the one above it, at a level  *)
(* of which at most two are on the stack, and the latest runs or has its   *)
(* answer.                                                                 *)
StackInv ==
  /\ \A i \in 1 .. Len(stack) :
       /\ FrameOK(stack[i])
       /\ i <= 2 * stack[i].level - (IF Recursive(i) THEN 0 ELSE 1)
  /\ \A i \in 1 .. (Len(stack) - 1) : Calls(stack[i], stack[i + 1])
  /\ stack # << >> => /\ stack[1].level = 1
                      /\ DOMAIN stack[1].content = 0 .. 0
                      /\ Top.at = "enter" <=> ret = Nothing

(* The recursive call hits: nothing happens to the block between its refill*)
(* and its lookup.                                                         *)
RecursionHits ==
  \A i \in 2 .. Len(stack) :
    Recursive(i) /\ stack[i].at = "enter" =>
      LET f == stack[i]
      IN Level(f.level)!IsHit(blocks[f.level], Level(f.level)!IndexOf(f.addr),
                              Level(f.level)!TagOf(f.addr))

(* What the latest activation has returned, and where the request stands.  *)
AnswerInv ==
  /\ ret # Nothing =>
       /\ ret.content \in [IF stack = << >> THEN 0 .. 0 ELSE Shape(Top) -> Values]
       /\ ret.time \in Nat
  /\ pc = "idle" => stack = << >> /\ ret = Nothing
  /\ pc = "served" => stack = << >> /\ ret # Nothing
  /\ pc = "running" => req \in Request /\ (stack = << >> => ret # Nothing)

(* What TypeOK says of the other variables. A counter may be any integer:  *)
(* that of accesses goes down again, and HierarchyCountProofs shows that it*)
(* stays natural.                                                          *)
DataOK ==
  /\ config \in Configs
  /\ memory \in [MemWords -> Values]
  /\ stats \in [Levels -> [access_counter : Int, miss_num : Nat, replace_num : Nat]]
  /\ stack \in Seq(Frame)
  /\ pc \in {"idle", "running", "served", "wild"}
  /\ req \in Request \cup {NoRequest}
  /\ content \in Values
  /\ total_time \in Nat /\ requests \in Nat
  /\ latest \in [Cells -> Values]

(* The inductive invariant of the call stack.                              *)
CallInv == DataOK /\ CachesOK /\ StackInv /\ RecursionHits /\ AnswerInv

-----------------------------------------------------------------------------
(* The geometry of a level.                                                *)

(* The geometry the constructor of a level computes, in the terms the      *)
(* proofs use.                                                             *)
LEMMA LevelGeometry ==
  ASSUME NEW n \in Levels
  PROVE  /\ Geometry[n].associativity \in 1 .. 100
         /\ Level(n)!Ways = 0 .. (Geometry[n].associativity - 1)
         /\ 0 \in Level(n)!Ways
         /\ Level(n)!Sets = 0 .. (Level(n)!SetNum - 1)
         /\ Level(n)!SetNum \in Nat \ {0}
         /\ BlocksOf(n) = Level(n)!Sets \X Level(n)!Ways
         /\ NWords(n) \in Nat \ {0}
         /\ Geometry[n].block_size = 8 * NWords(n)
         /\ Level(n)!OffsetBit \in Nat /\ Level(n)!IndexBit \in Nat
         /\ Level(n)!OffsetBit + Level(n)!IndexBit < AddrBit
         /\ AddrBit \in Nat
<1>1. /\ Geometry[n].associativity \in 1 .. 100
      /\ Level(n)!SetNum \in Nat \ {0}
      /\ Geometry[n].block_size \in Nat \ {0}
      /\ Geometry[n].block_size % 8 = 0
      /\ Level(n)!OffsetBit \in Nat /\ Level(n)!IndexBit \in Nat
      /\ Level(n)!OffsetBit + Level(n)!IndexBit < AddrBit
  BY LevelAssumption DEF Level!CntLimit
<1>2. NWords(n) \in Nat \ {0} /\ Geometry[n].block_size = 8 * NWords(n)
  BY <1>1 DEF NWords
<1>3. QED
  BY <1>1, <1>2, WidthAssumption DEF Level!Ways, Level!Sets, BlocksOf, Level!Blocks

(* A block is a positive number of words.                                  *)
LEMMA LevelWords ==
  ASSUME NEW n \in Levels
  PROVE  NWords(n) \in Nat \ {0} /\ Geometry[n].block_size = 8 * NWords(n)
BY LevelGeometry

(* A request is for at least one word.                                     *)
LEMMA WordCounts ==
  ASSUME NEW c \in Amounts
  PROVE  c \in Nat \ {0}
BY LevelWords DEF Amounts

(* The blocks of a level are pairs of natural numbers.                     *)
LEMMA LevelBlocks ==
  ASSUME NEW n \in Levels
  PROVE  /\ Level(n)!Ways \subseteq Nat
         /\ 0 \in Level(n)!Ways
         /\ Level(n)!Sets \subseteq Nat
         /\ 0 \in Level(n)!Sets
         /\ BlocksOf(n) = Level(n)!Sets \X Level(n)!Ways
         /\ Geometry[n].associativity - 1 \in 0 .. 99
<1> DEFINE k == Geometry[n].associativity
           m == Level(n)!SetNum
<1>1. /\ k \in 1 .. 100 /\ Level(n)!Ways = 0 .. (k - 1)
      /\ m \in Nat \ {0} /\ Level(n)!Sets = 0 .. (m - 1)
      /\ BlocksOf(n) = Level(n)!Sets \X Level(n)!Ways
  BY LevelGeometry
<1>2. /\ 0 .. (k - 1) \subseteq Nat /\ 0 \in 0 .. (k - 1) /\ k - 1 \in 0 .. 99
      /\ 0 .. (m - 1) \subseteq Nat /\ 0 \in 0 .. (m - 1)
  <2> HIDE DEF k, m
  <2>1. QED
    BY <1>1
<1>3. QED
  BY <1>1, <1>2, Zenon

(* The fields of an address select a set of the level and a word of its    *)
(* blocks.                                                                 *)
LEMMA FieldsInRange ==
  ASSUME NEW n \in Levels, NEW a \in Nat
  PROVE  /\ Level(n)!TagOf(a) \in Nat
         /\ Level(n)!IndexOf(a) \in Level(n)!Sets
         /\ Level(n)!OffsetWord(a) = WordOf(a) % NWords(n)
<1> DEFINE ob == Level(n)!OffsetBit
           ib == Level(n)!IndexBit
           tb == Level(n)!TagBit
<1>1. tb = AddrBit - ib - ob
  BY DEF Level!TagBit
<1>2. ob \in Nat /\ ib \in Nat /\ ob + ib < AddrBit /\ AddrBit \in Nat
  BY LevelGeometry
<1>3. /\ 2^ob = 8 * NWords(n)
      /\ 2^ib = Level(n)!SetNum
  BY LevelAssumption, LevelGeometry
<1>4. \A k \in 0 .. AddrBit : 2^k \in Nat \ {0}
  BY WidthAssumption
<1>5. Level(n)!TagOf(a) = (a \div 2^(AddrBit - 1 - (tb - 1))) % 2^(tb - 1 - 0 + 1)
  BY DEF Level!TagOf, Level!ParseAddr
<1>6. Level(n)!IndexOf(a) = Level(n)!ParseAddr(a, tb, tb + ib - 1)
  BY Zenon DEF Level!IndexOf
<1>7. Level(n)!OffsetWord(a) =
        ((a \div 2^(AddrBit - 1 - (AddrBit - 1))) % 2^(AddrBit - 1 - (tb + ib) + 1)) \div 8
  BY DEF Level!OffsetWord, Level!ParseAddr
<1> HIDE DEF ob, ib, tb
<1>8. Level(n)!TagOf(a) \in Nat
  <2>1. AddrBit - 1 - (tb - 1) = ib + ob /\ tb - 1 - 0 + 1 = tb
    BY <1>1, <1>2
  <2>2. 2^(ib + ob) \in Nat \ {0} /\ 2^tb \in Nat \ {0}
    BY <1>1, <1>2, <1>4
  <2>3. Level(n)!TagOf(a) = (a \div 2^(ib + ob)) % 2^tb
    BY <1>5, <2>1
  <2>4. a \div 2^(ib + ob) \in Nat
    BY <2>2, ModInRange
  <2>5. (a \div 2^(ib + ob)) % 2^tb \in 0 .. (2^tb - 1)
    BY <2>2, <2>4, ModInRange
  <2>6. QED
    BY <2>2, <2>3, <2>5
<1>9. Level(n)!IndexOf(a) \in Level(n)!Sets
  <2>1. AddrBit - 1 - (tb + ib - 1) = ob /\ tb + ib - 1 - tb + 1 = ib
    BY <1>1, <1>2
  <2>2. Level(n)!IndexOf(a) = (a \div 2^ob) % 2^ib
    BY <1>1, <1>2, <1>6, <2>1 DEF Level!ParseAddr
  <2>3. a \div 2^ob \in Nat /\ 2^ib \in Nat \ {0}
    BY <1>2, <1>4, ModInRange
  <2>4. Level(n)!IndexOf(a) \in 0 .. (2^ib - 1)
    BY <2>2, <2>3, ModInRange
  <2>5. QED
    BY <1>3, <2>4, LevelGeometry
<1>10. Level(n)!OffsetWord(a) = WordOf(a) % NWords(n)
  <2>1. AddrBit - 1 - (AddrBit - 1) = 0 /\ AddrBit - 1 - (tb + ib) + 1 = ob
    BY <1>1, <1>2
  <2>2. Level(n)!OffsetWord(a) = ((a \div 2^0) % (8 * NWords(n))) \div 8
    BY <1>7, <1>3, <2>1
  <2>3. a \div 2^0 = a
    OBVIOUS
  <2>4. QED
    BY <2>2, <2>3, WordInBlock, LevelGeometry DEF WordOf
<1>11. QED
  BY <1>8, <1>9, <1>10

(* A shift yields a multiple of the power of two it shifts by.             *)
LEMMA ShiftInRange ==
  ASSUME NEW n \in Levels, NEW x \in Nat, NEW k \in Nat
  PROVE  /\ Level(n)!Shl(x, k) \in Nat
         /\ k < AddrBit => \E y \in Nat : Level(n)!Shl(x, k) = y * 2^k
<1> DEFINE j == k % AddrBit
<1>1. j \in 0 .. (AddrBit - 1) /\ (k < AddrBit => j = k)
  <2>1. AddrBit \in Nat \ {0}
    BY LevelGeometry
  <2>2. QED
    BY <2>1, ModInRange
<1>2. Level(n)!Shl(x, k) = (x % 2^(AddrBit - j)) * 2^j
  BY DEF Level!Shl
<1> HIDE DEF j
<1>3. 2^(AddrBit - j) \in Nat \ {0} /\ 2^j \in Nat \ {0}
  BY <1>1, WidthAssumption
<1>4. x % 2^(AddrBit - j) \in Nat
  BY <1>3, ModInRange
<1>5. Level(n)!Shl(x, k) \in Nat
  BY <1>2, <1>3, <1>4
<1>6. ASSUME k < AddrBit PROVE \E y \in Nat : Level(n)!Shl(x, k) = y * 2^k
  <2>1. Level(n)!Shl(x, k) = (x % 2^(AddrBit - j)) * 2^k
    BY <1>1, <1>2, <1>6
  <2>2. QED
    BY <1>4, <2>1
<1>7. QED
  BY <1>5, <1>6

(* A block is fetched from, and written back to, the start of a block.     *)
LEMMA BlockAddrAligned ==
  ASSUME NEW n \in Levels, NEW tag \in Nat, NEW index \in Nat
  PROVE  /\ Level(n)!BlockAddr(tag, index) \in Nat
         /\ WordOf(Level(n)!BlockAddr(tag, index)) % NWords(n) = 0
<1> DEFINE x == Level(n)!Shl(tag, (Level(n)!IndexBit + Level(n)!OffsetBit) + index)
<1>1. x \in Nat
  <2>1. (Level(n)!IndexBit + Level(n)!OffsetBit) + index \in Nat
    BY LevelGeometry
  <2>2. QED
    BY <2>1, ShiftInRange
<1>2. Level(n)!BlockAddr(tag, index) = Level(n)!Shl(x, Level(n)!OffsetBit)
  BY DEF Level!BlockAddr
<1> HIDE DEF x
<1>3. PICK y \in Nat :
        Level(n)!BlockAddr(tag, index) = y * 2^Level(n)!OffsetBit
  <2>1. Level(n)!OffsetBit \in Nat /\ Level(n)!OffsetBit < AddrBit
    BY LevelGeometry
  <2>2. \E y \in Nat : Level(n)!Shl(x, Level(n)!OffsetBit) = y * 2^Level(n)!OffsetBit
    BY <1>1, <2>1, ShiftInRange
  <2>3. QED
    BY <1>2, <2>2
<1>4. Level(n)!BlockAddr(tag, index) = y * (8 * NWords(n)) /\ NWords(n) \in Nat \ {0}
  BY <1>3, LevelAssumption, LevelGeometry
<1>5. y * (8 * NWords(n)) = 8 * (NWords(n) * y) /\ NWords(n) * y \in Nat
  BY <1>4
<1>6. WordOf(Level(n)!BlockAddr(tag, index)) = NWords(n) * y
  BY <1>4, <1>5 DEF WordOf
<1>7. (NWords(n) * y) % NWords(n) = 0
  BY <1>4, MultipleMod
<1>8. QED
  BY <1>4, <1>5, <1>6, <1>7

-----------------------------------------------------------------------------
(* The operators of a level on its blocks.                                 *)

(* Every level takes the same minimum.                                     *)
LEMMA LevelMin ==
  ASSUME NEW n \in Levels, NEW S
  PROVE  Level(n)!Min(S) = Min(S)
BY Zenon DEF Level!Min, Min

(* A hit is a valid block of the set that has the tag.                     *)
LEMMA HitInLevel ==
  ASSUME NEW n \in Levels, NEW bl, NEW s \in Level(n)!Sets, NEW t,
         Level(n)!IsHit(bl, s, t)
  PROVE  /\ Level(n)!HitID(bl, s, t) \in BlocksOf(n)
         /\ Level(n)!HitID(bl, s, t)[1] = s
         /\ bl[Level(n)!HitID(bl, s, t)].valid
         /\ bl[Level(n)!HitID(bl, s, t)].tag = t
<1>1. Level(n)!HitWays(bl, s, t) \subseteq Level(n)!Ways
  BY DEF Level!HitWays
<1>2. Level(n)!Ways \subseteq Nat
  BY LevelBlocks
<1>3. Min(Level(n)!HitWays(bl, s, t)) \in Level(n)!HitWays(bl, s, t)
  BY <1>1, <1>2, MinNat DEF Level!IsHit
<1>4. PICK i \in Level(n)!Ways : /\ i = Min(Level(n)!HitWays(bl, s, t))
                                 /\ bl[<<s, i>>].valid /\ bl[<<s, i>>].tag = t
  BY <1>3 DEF Level!HitWays
<1>5. Level(n)!HitID(bl, s, t) = <<s, i>>
  BY <1>4, LevelMin DEF Level!HitID
<1>6. QED
  BY <1>4, <1>5, LevelBlocks

(* With LRU and sane counters the victim is a block of the set.            *)
LEMMA VictimInLevel ==
  ASSUME NEW n \in Levels, NEW bl \in [BlocksOf(n) -> BlockAt(n)],
         NEW s \in Level(n)!Sets
  PROVE  LET v == Level(n)!GetReplacementID(bl, LRU, s)
         IN v \in BlocksOf(n) /\ v[1] = s
<1> DEFINE W == Level(n)!Ways
           invalid == Level(n)!InvalidWays(bl, s)
           least == Level(n)!LeastCntWays(bl, s)
<1>1. W \subseteq Nat /\ 0 \in W /\ BlocksOf(n) = Level(n)!Sets \X W
  BY LevelBlocks
<1>2. invalid \subseteq W /\ least \subseteq W
  BY DEF Level!InvalidWays, Level!LeastCntWays
<1>3. least # {}
  <2> DEFINE cnts == {bl[<<s, i>>].cnt : i \in W}
  <2>1. \A i \in W : bl[<<s, i>>].cnt \in Nat /\ bl[<<s, i>>].cnt < 100
    <3> TAKE i \in W
    <3>1. bl[<<s, i>>].cnt \in 0 .. (Geometry[n].associativity - 1)
      BY <1>1 DEF BlockAt
    <3>2. QED
      BY <3>1, LevelBlocks
  <2>2. cnts \subseteq Nat /\ cnts # {}
    BY <1>1, <2>1
  <2>3. PICK c \in cnts : \A d \in cnts : c <= d
    BY ONLY <2>2, LeastNat
  <2>4. PICK m \in W : bl[<<s, m>>].cnt = c
    OBVIOUS
  <2>5. \A j \in W : bl[<<s, m>>].cnt <= bl[<<s, j>>].cnt
    BY <2>3, <2>4
  <2>6. m \in least
    BY <2>1, <2>5 DEF Level!LeastCntWays, Level!CntLimit
  <2>7. QED
    BY <2>6
<1>4. /\ invalid # {} => Min(invalid) \in W
      /\ Min(least) \in W
  <2> HIDE DEF W, invalid, least
  <2>1. QED
    BY <1>1, <1>2, <1>3, MinNat
<1>5. Level(n)!GetReplacementID(bl, LRU, s) =
        IF invalid # {} THEN <<s, Min(invalid)>> ELSE <<s, Min(least)>>
  BY <1>3, LevelMin DEF Level!GetReplacementID, LRU
<1> HIDE DEF W, invalid, least
<1>6. QED
  BY <1>1, <1>4, <1>5

(* A block keeps everything but its counter when its set is touched.       *)
LEMMA TouchedBlocks ==
  ASSUME NEW n \in Levels, NEW bl \in [BlocksOf(n) -> BlockAt(n)],
         NEW s, NEW b \in BlocksOf(n)
  PROVE  LET new == Level(n)!UpdateReplacement(bl, LRU, s, b)
         IN /\ new \in [BlocksOf(n) -> BlockAt(n)]
            /\ \A x \in BlocksOf(n) :
                 /\ new[x].valid = bl[x].valid
                 /\ new[x].dirty = bl[x].dirty
                 /\ new[x].tag = bl[x].tag
                 /\ new[x].data = bl[x].data
<1> DEFINE top == Geometry[n].associativity - 1
           nb(x) == IF x[1] # s THEN bl[x]
                    ELSE IF x = b THEN [bl[x] EXCEPT !.cnt = top]
                    ELSE [bl[x] EXCEPT !.cnt = IF @ = 0 THEN 0 ELSE @ - 1]
<1>1. Level(n)!UpdateReplacement(bl, LRU, s, b) = [x \in BlocksOf(n) |-> nb(x)]
  BY DEF Level!UpdateReplacement, LRU, BlocksOf
<1>2. ASSUME NEW x \in BlocksOf(n)
      PROVE  /\ nb(x) \in BlockAt(n)
             /\ nb(x).valid = bl[x].valid /\ nb(x).dirty = bl[x].dirty
             /\ nb(x).tag = bl[x].tag /\ nb(x).data = bl[x].data
  <2>1. bl[x] \in BlockAt(n)
    OBVIOUS
  <2>2. top \in Nat /\ top \in 0 .. top
    BY LevelBlocks
  <2>3. \A c \in 0 .. top : c # 0 => c - 1 \in 0 .. top
    BY <2>2
  <2>4. bl[x].cnt \in 0 .. top
    BY <2>1 DEF BlockAt
  <2>5. \A c \in 0 .. top :
          LET y == [bl[x] EXCEPT !.cnt = c]
          IN /\ y \in BlockAt(n)
             /\ y.valid = bl[x].valid /\ y.dirty = bl[x].dirty
             /\ y.tag = bl[x].tag /\ y.data = bl[x].data
    BY <2>1 DEF BlockAt
  <2>6. (IF bl[x].cnt = 0 THEN 0 ELSE bl[x].cnt - 1) \in 0 .. top
    BY <2>2, <2>3, <2>4
  <2> HIDE DEF top
  <2>7. QED
    BY <2>1, <2>2, <2>5, <2>6
<1> HIDE DEF nb
<1>3. QED
  BY <1>1, <1>2

(* The refilled block holds the tag, clean; the others are as they were.   *)
LEMMA InstalledBlocks ==
  ASSUME NEW n \in Levels, NEW bl \in [BlocksOf(n) -> BlockAt(n)],
         NEW b \in BlocksOf(n), NEW t \in Nat, NEW d \in Words(NWords(n))
  PROVE  LET new == Level(n)!Install(bl, b, t, d)
         IN /\ new \in [BlocksOf(n) -> BlockAt(n)]
            /\ new[b].valid /\ ~ new[b].dirty /\ new[b].tag = t /\ new[b].data = d
            /\ \A x \in BlocksOf(n) : x # b => new[x] = bl[x]
<1>1. 0 \in 0 .. (Geometry[n].associativity - 1)
  BY LevelBlocks
<1>2. QED
  BY <1>1 DEF Level!Install, BlockAt

(* The lookup after a refill hits.                                         *)
LEMMA InstalledHits ==
  ASSUME NEW n \in Levels, NEW bl \in [BlocksOf(n) -> BlockAt(n)],
         NEW b \in BlocksOf(n), NEW t \in Nat, NEW d \in Words(NWords(n))
  PROVE  Level(n)!IsHit(
           Level(n)!UpdateReplacement(Level(n)!Install(bl, b, t, d), LRU, b[1], b),
           b[1], t)
<1> DEFINE mid == Level(n)!Install(bl, b, t, d)
           new == Level(n)!UpdateReplacement(mid, LRU, b[1], b)
<1>1. mid \in [BlocksOf(n) -> BlockAt(n)] /\ mid[b].valid /\ mid[b].tag = t
  BY InstalledBlocks
<1> HIDE DEF mid
<1>2. new[b].valid /\ new[b].tag = t
  BY <1>1, TouchedBlocks
<1> HIDE DEF new
<1>3. b = <<b[1], b[2]>> /\ b[2] \in Level(n)!Ways
  BY LevelBlocks
<1>4. b[2] \in Level(n)!HitWays(new, b[1], t)
  BY <1>2, <1>3 DEF Level!HitWays
<1>5. QED
  BY <1>4 DEF Level!IsHit, new, mid

-----------------------------------------------------------------------------
(* The call stack.                                                         *)

(* The last element of a sequence and the others.                          *)
LEMMA SeqTop ==
  ASSUME NEW S, NEW s \in Seq(S), s # << >>
  PROVE  /\ Len(s) \in Nat \ {0}
         /\ Last(s) = s[Len(s)] /\ Last(s) \in S
         /\ Front(s) \in Seq(S)
         /\ Len(Front(s)) = Len(s) - 1
         /\ \A i \in 1 .. (Len(s) - 1) : Front(s)[i] = s[i]
<1>1. Len(s) \in Nat \ {0}
  BY EmptySeq
<1>2. \A i \in 1 .. Len(s) : s[i] \in S
  BY ElementOfSeq
<1>3. /\ Front(s) \in Seq(S)
      /\ Len(Front(s)) = IF 1 <= Len(s) - 1 THEN Len(s) - 1 - 1 + 1 ELSE 0
      /\ \A i \in 1 .. (Len(s) - 1 - 1 + 1) : Front(s)[i] = s[1 + i - 1]
  <2>1. 1 \in Int /\ Len(s) - 1 \in Int /\ \A i \in 1 .. (Len(s) - 1) : s[i] \in S
    BY <1>1, <1>2
  <2>2. QED
    BY ONLY <2>1, SubSeqProperties DEF Front
<1>4. Last(s) = s[Len(s)]
  BY DEF Last
<1>5. \A i \in 1 .. (Len(s) - 1) : Front(s)[i] = s[i]
  BY <1>1, <1>3
<1>6. Len(Front(s)) = Len(s) - 1
  <2>1. Len(Front(s)) = IF 1 <= Len(s) - 1 THEN Len(s) - 1 - 1 + 1 ELSE 0
    BY <1>3
  <2> DEFINE k == Len(s)
             m == Len(Front(s))
  <2>2. k \in Nat \ {0} /\ m = IF 1 <= k - 1 THEN k - 1 - 1 + 1 ELSE 0
    BY <1>1, <2>1
  <2> HIDE DEF k, m
  <2>3. m = k - 1
    BY <2>2
  <2>4. QED
    BY <2>3 DEF k, m
<1>7. QED
  BY <1>1, <1>2, <1>3, <1>4, <1>5, <1>6

(* The sequence that replaces its last element by two.                     *)
LEMMA SeqCall ==
  ASSUME NEW S, NEW s \in Seq(S), s # << >>, NEW f \in S, NEW g \in S
  PROVE  LET t == Front(s) \o <<f, g>>
         IN /\ t \in Seq(S)
            /\ Len(t) = Len(s) + 1
            /\ \A i \in 1 .. (Len(s) - 1) : t[i] = s[i]
            /\ t[Len(s)] = f /\ t[Len(s) + 1] = g
<1> DEFINE u == Front(s)
           v == <<f, g>>
<1>1. /\ u \in Seq(S) /\ Len(u) = Len(s) - 1 /\ Len(s) \in Nat \ {0}
      /\ \A i \in 1 .. (Len(s) - 1) : u[i] = s[i]
  BY SeqTop
<1>2. v \in Seq(S) /\ Len(v) = 2 /\ v[1] = f /\ v[2] = g
  OBVIOUS
<1> HIDE DEF u, v
<1>3. /\ u \o v \in Seq(S) /\ Len(u \o v) = Len(u) + Len(v)
      /\ \A i \in 1 .. Len(u) + Len(v) :
           (u \o v)[i] = IF i <= Len(u) THEN u[i] ELSE v[i - Len(u)]
  BY ONLY <1>1, <1>2, ConcatProperties
<1> DEFINE w == u \o v
<1> HIDE DEF w
<1>4. /\ w \in Seq(S)
      /\ Len(w) = Len(s) + 1
      /\ \A i \in 1 .. (Len(s) - 1) : w[i] = s[i]
      /\ w[Len(s)] = f /\ w[Len(s) + 1] = g
  BY <1>1, <1>2, <1>3 DEF w
<1>5. QED
  BY <1>4 DEF u, v, w

(* The latest activation is one of the stack.                              *)
LEMMA TopOK ==
  ASSUME CallInv, stack # << >>
  PROVE  /\ Len(stack) \in Nat \ {0}
         /\ Top = stack[Len(stack)]
         /\ Top \in Frame /\ FrameOK(Top)
         /\ N \in 1 .. (Depth + 1)
<1>1. stack \in Seq(Frame)
  BY DEF CallInv, DataOK
<1>2. /\ Len(stack) \in Nat \ {0} /\ Top = stack[Len(stack)] /\ Top \in Frame
  BY <1>1, SeqTop DEF Top
<1>3. FrameOK(Top)
  BY <1>2 DEF CallInv, StackInv
<1>4. QED
  BY <1>2, <1>3 DEF N, Frame

(* CallsFrom and Returns, position by position.                            *)
Called(f, g) ==
  /\ stack' \in Seq(Frame)
  /\ Len(stack') = Len(stack) + 1
  /\ \A i \in 1 .. (Len(stack) - 1) : stack'[i] = stack[i]
  /\ stack'[Len(stack)] = f
  /\ stack'[Len(stack) + 1] = g

(* The latest activation is gone.                                          *)
Returned ==
  /\ stack' \in Seq(Frame)
  /\ Len(stack') = Len(stack) - 1
  /\ \A i \in 1 .. (Len(stack) - 1) : stack'[i] = stack[i]

(* The two things a step of the storage does to the stack, element by      *)
(* element.                                                                *)
LEMMA StackSteps ==
  ASSUME CallInv, stack # << >>, NEW f \in Frame, NEW g \in Frame
  PROVE  /\ stack' = Front(stack) \o <<f, g>> => Called(f, g)
         /\ stack' = Front(stack) => Returned
<1>1. stack \in Seq(Frame)
  BY DEF CallInv, DataOK
<1>2. ASSUME stack' = Front(stack) \o <<f, g>> PROVE Called(f, g)
  <2> DEFINE t == Front(stack) \o <<f, g>>
  <2>1. /\ t \in Seq(Frame) /\ Len(t) = Len(stack) + 1
        /\ \A i \in 1 .. (Len(stack) - 1) : t[i] = stack[i]
        /\ t[Len(stack)] = f /\ t[Len(stack) + 1] = g
    BY ONLY <1>1, stack # << >>, f \in Frame, g \in Frame, SeqCall
  <2>2. t = stack'
    BY <1>2
  <2> HIDE DEF t
  <2>3. QED
    BY ONLY <2>1, <2>2 DEF Called
<1>3. ASSUME stack' = Front(stack) PROVE Returned
  <2> DEFINE t == Front(stack)
  <2>1. /\ t \in Seq(Frame) /\ Len(t) = Len(stack) - 1
        /\ \A i \in 1 .. (Len(stack) - 1) : t[i] = stack[i]
    BY ONLY <1>1, stack # << >>, SeqTop
  <2>2. t = stack'
    BY <1>3
  <2> HIDE DEF t
  <2>3. QED
    BY ONLY <2>1, <2>2 DEF Returned
<1>4. QED
  BY <1>2, <1>3

(* An activation calls another: the frame that waits has the shape of the  *)
(* one on top, and waits at "again" only if it is no recursive call itself.*)
LEMMA CallKeeps ==
  ASSUME CallInv, stack # << >>, NEW f, NEW g,
         Called(f, g), ret' = Nothing,
         FrameOK(f), FrameOK(g), Calls(f, g), g.at = "enter",
         f.level = N, DOMAIN f.content = DOMAIN Top.content,
         Recursive(Len(stack)) => f.at = "through"
  PROVE  stack' \in Seq(Frame) /\ stack' # << >> /\ StackInv'
<1>1. PICK L \in Nat \ {0} : L = Len(stack) /\ Top = stack[L]
  BY TopOK
<1>2. /\ stack' \in Seq(Frame) /\ Len(stack') = L + 1
      /\ \A i \in 1 .. (L - 1) : stack'[i] = stack[i]
      /\ stack'[L] = f /\ stack'[L + 1] = g
  BY <1>1 DEF Called
<1>3. stack' # << >> /\ Top' = g
  <2>1. Len(stack') # 0
    BY <1>1, <1>2
  <2>2. QED
    BY <1>2, <2>1, EmptySeq DEF Top, Last
<1>4. \A i \in 1 .. L :
        FrameOK(stack[i]) /\ i <= 2 * stack[i].level - (IF Recursive(i) THEN 0 ELSE 1)
  BY <1>1 DEF CallInv, StackInv
<1>5. \A i \in 1 .. (L - 1) : Calls(stack[i], stack[i + 1])
  BY <1>1 DEF CallInv, StackInv
<1>6. \A i \in 1 .. L : Recursive(i)' <=> Recursive(i)
  BY <1>1, <1>2 DEF Recursive
<1>7. Recursive(L + 1)' <=> f.at = "again"
  BY <1>1, <1>2 DEF Recursive
<1>8. \A i \in 1 .. L : stack'[i].level = stack[i].level
  BY <1>1, <1>2 DEF N
<1>9. f.level \in 1 .. (Depth + 1) /\ g.level \in 1 .. (Depth + 1)
  BY DEF FrameOK, Frame
<1>10. \A i \in 1 .. (L + 1) : FrameOK(stack'[i])
  BY <1>1, <1>2, <1>4
<1>11. \A i \in 1 .. L : i <= 2 * stack'[i].level - (IF Recursive(i)' THEN 0 ELSE 1)
  BY <1>4, <1>6, <1>8
<1>12. L + 1 <= 2 * g.level - (IF Recursive(L + 1)' THEN 0 ELSE 1)
  <2>1. L <= 2 * f.level - (IF Recursive(L) THEN 0 ELSE 1)
    BY <1>1, <1>4 DEF N
  <2>2. g.level = IF f.at = "again" THEN f.level ELSE f.level + 1
    BY DEF Calls
  <2>3. QED
    BY <1>1, <1>7, <1>9, <2>1, <2>2
<1>13. \A i \in 1 .. L : Calls(stack'[i], stack'[i + 1])
  <2> SUFFICES ASSUME NEW i \in 1 .. L PROVE Calls(stack'[i], stack'[i + 1])
    OBVIOUS
  <2>1. CASE i = L
    BY <1>1, <1>2, <2>1
  <2>2. CASE i < L - 1
    BY <1>1, <1>2, <1>5, <2>2
  <2>3. CASE i = L - 1
    <3>1. Calls(stack[i], Top) /\ stack'[i] = stack[i] /\ stack'[i + 1] = f
      BY <1>1, <1>2, <1>5, <2>3
    <3>2. stack[i].at = "again" => f.at = "through"
      BY <1>1, <2>3 DEF Recursive
    <3>3. QED
      BY <3>1, <3>2 DEF Calls, N
  <2>4. QED
    BY <1>1, <2>1, <2>2, <2>3
<1>14. stack'[1].level = 1 /\ DOMAIN stack'[1].content = 0 .. 0
  <2>1. stack[1].level = 1 /\ DOMAIN stack[1].content = 0 .. 0
    BY <1>1 DEF CallInv, StackInv
  <2>2. CASE L = 1
    BY <1>1, <1>2, <2>1, <2>2 DEF N
  <2>3. CASE L # 1
    BY <1>1, <1>2, <2>1, <2>3
  <2>4. QED
    BY <2>2, <2>3
<1>15. \A i \in 1 .. (L + 1) :
         FrameOK(stack'[i]) /\ i <= 2 * stack'[i].level - (IF Recursive(i)' THEN 0 ELSE 1)
  BY <1>1, <1>2, <1>10, <1>11, <1>12
<1>16. StackInv'
  BY <1>1, <1>2, <1>3, <1>13, <1>14, <1>15 DEF StackInv
<1>17. QED
  BY <1>2, <1>3, <1>16

(* An activation returns words in the place of those it was given.         *)
LEMMA ReturnKeeps ==
  ASSUME CallInv, stack # << >>, NEW w, NEW t \in Nat,
         Returned, ret' = [content |-> w, time |-> t],
         w \in [DOMAIN Top.content -> Values],
         UNCHANGED <<pc, req>>
  PROVE  stack' \in Seq(Frame) /\ StackInv' /\ RecursionHits' /\ AnswerInv'
<1>1. PICK L \in Nat \ {0} : L = Len(stack) /\ Top = stack[L]
  BY TopOK
<1>2. /\ stack' \in Seq(Frame) /\ Len(stack') = L - 1
      /\ \A i \in 1 .. (L - 1) : stack'[i] = stack[i]
  BY <1>1 DEF Returned
<1>3. ret' # Nothing
  BY DEF Nothing
<1>4. \A i \in 1 .. (L - 1) : Recursive(i)' <=> Recursive(i)
  BY <1>1, <1>2 DEF Recursive
<1>5. /\ \A i \in 1 .. L :
           FrameOK(stack[i]) /\ i <= 2 * stack[i].level - (IF Recursive(i) THEN 0 ELSE 1)
      /\ \A i \in 1 .. (L - 1) : Calls(stack[i], stack[i + 1])
      /\ stack[1].level = 1 /\ DOMAIN stack[1].content = 0 .. 0
  BY <1>1 DEF CallInv, StackInv
<1>6. \A i \in 1 .. (L - 1) : stack'[i].at # "enter"
  BY <1>1, <1>2, <1>5 DEF Calls
<1>7. stack' # << >> => L > 1 /\ Top' = stack[L - 1] /\ Top'.at # "enter"
  <2> SUFFICES ASSUME stack' # << >> PROVE L > 1 /\ Top' = stack[L - 1] /\ Top'.at # "enter"
    OBVIOUS
  <2>1. Len(stack') \in Nat \ {0}
    BY <1>2, EmptySeq
  <2>2. L - 1 \in Nat \ {0} /\ Top' = stack'[L - 1]
    BY <1>2, <2>1 DEF Top, Last
  <2>3. QED
    BY <1>1, <1>2, <1>6, <2>2
<1>8. stack' = << >> => L = 1
  <2>1. Len(<< >>) = 0
    BY EmptySeq
  <2>2. stack' = << >> => L - 1 = 0
    BY <1>2, <2>1, Zenon
  <2>3. QED
    BY <2>2
<1>9. StackInv'
  <2>1. \A i \in 1 .. (L - 1) :
          FrameOK(stack'[i]) /\ i <= 2 * stack'[i].level - (IF Recursive(i)' THEN 0 ELSE 1)
    BY <1>1, <1>2, <1>4, <1>5
  <2>2. \A i \in 1 .. (L - 2) : Calls(stack'[i], stack'[i + 1])
    <3> TAKE i \in 1 .. (L - 2)
    <3>1. i \in 1 .. (L - 1) /\ i + 1 \in 1 .. (L - 1)
      BY <1>1
    <3>2. QED
      BY <1>2, <1>5, <3>1
  <2>3. stack' # << >> => /\ stack'[1].level = 1
                          /\ DOMAIN stack'[1].content = 0 .. 0
                          /\ Top'.at = "enter" <=> ret' = Nothing
    BY <1>1, <1>2, <1>3, <1>5, <1>7
  <2>4. QED
    BY <1>1, <1>2, <2>1, <2>2, <2>3 DEF StackInv
<1>10. RecursionHits'
  <2>1. \A i \in 2 .. (L - 1) : stack'[i].at # "enter"
    BY <1>6
  <2>2. QED
    BY <1>2, <2>1 DEF RecursionHits
<1>11. AnswerInv'
  <2>1. pc' = pc /\ pc \notin {"idle", "served"} /\ req' = req
    BY DEF CallInv, AnswerInv
  <2>2. pc = "running" => req \in Request
    BY DEF CallInv, AnswerInv
  <2>3. stack' # << >> => Shape(Top') = DOMAIN Top.content
    BY <1>1, <1>5, <1>7 DEF Calls
  <2>4. stack' = << >> => DOMAIN Top.content = 0 .. 0
    BY <1>1, <1>5, <1>8
  <2>5. QED
    BY <1>3, <2>1, <2>2, <2>3, <2>4 DEF AnswerInv
<1>12. QED
  BY <1>2, <1>9, <1>10, <1>11

-----------------------------------------------------------------------------
(* What an activation asks of the level below.                             *)

(* A block is a whole number of blocks of the level above.                 *)
LEMMA LevelsNest ==
  ASSUME NEW n \in Levels, n + 1 \in Levels
  PROVE  NWords(n + 1) % NWords(n) = 0
<1>1. n \in 1 .. (Depth - 1)
  BY HierarchyAssumption DEF Levels
<1>2. Geometry[n + 1].block_size % Geometry[n].block_size = 0
  BY <1>1, HierarchyAssumption
<1>3. PICK a \in Nat \ {0} : a = NWords(n) /\ Geometry[n].block_size = 8 * a
  BY LevelWords
<1>4. PICK b \in Nat \ {0} : b = NWords(n + 1) /\ Geometry[n + 1].block_size = 8 * b
  BY LevelWords
<1>5. (8 * b) % (8 * a) = 0
  BY <1>2, <1>3, <1>4
<1>6. b % a = 0
  <2>1. 8 * a \in Nat \ {0} /\ 8 * b \in Nat
    OBVIOUS
  <2>2. PICK k \in Nat : 8 * b = (8 * a) * k
    <3>1. \A x \in Nat, y \in Nat \ {0} : x % y = 0 => x = y * (x \div y) /\ x \div y \in Nat
      OBVIOUS
    <3>2. QED
      BY <1>5, <2>1, <3>1
  <2>3. (8 * a) * k = 8 * (a * k) /\ a * k \in Nat
    OBVIOUS
  <2>4. b = a * k
    BY <2>2, <2>3
  <2>5. QED
    BY <2>4, MultipleMod
<1>7. QED
  BY <1>3, <1>4, <1>6

(* An activation is at the level of the one that called it or the next.    *)
LEMMA LevelsRise ==
  ASSUME CallInv, NEW i \in 1 .. Len(stack), NEW j \in 1 .. Len(stack), i + 2 <= j
  PROVE  stack[i].level < stack[j].level
<1>1. PICK L \in Nat : L = Len(stack)
  BY LenProperties DEF CallInv, DataOK
<1>2. \A k \in 1 .. L : stack[k].level \in Nat
  <2> TAKE k \in 1 .. L
  <2>1. stack[k] \in Frame
    BY <1>1 DEF CallInv, StackInv, FrameOK
  <2>2. QED
    BY <2>1, HierarchyAssumption DEF Frame
<1>3. \A k \in 1 .. (L - 1) :
        stack[k + 1].level = IF stack[k].at = "again" THEN stack[k].level
                                                      ELSE stack[k].level + 1
  BY <1>1 DEF CallInv, StackInv, Calls
<1>4. \A k \in 1 .. (L - 1) :
        stack[k].at = "again" => stack[k + 1].at \in {"enter", "through"}
  BY <1>1 DEF CallInv, StackInv, Calls
<1>5. stack[i].level < stack[i + 2].level
  <2>1. i \in 1 .. (L - 1) /\ i + 1 \in 1 .. (L - 1) /\ (i + 1) + 1 = i + 2
    BY <1>1
  <2>2. stack[i].level \in Nat /\ stack[i + 1].level \in Nat
    BY <1>2, <2>1
  <2>3. stack[i].at = "again" => stack[i + 1].at # "again"
    BY <1>4, <2>1
  <2>4. stack[i + 2].level = IF stack[i + 1].at = "again" THEN stack[i + 1].level
                                                         ELSE stack[i + 1].level + 1
    BY <1>3, <2>1
  <2>5. stack[i + 1].level = IF stack[i].at = "again" THEN stack[i].level
                                                      ELSE stack[i].level + 1
    BY <1>3, <2>1
  <2>6. QED
    BY ONLY <2>2, <2>3, <2>4, <2>5
<1> DEFINE S == {d \in Nat : i + 2 + d <= L => stack[i].level < stack[i + 2 + d].level}
<1>6. Nat \subseteq S
  <2>1. 0 \in S
    BY <1>5
  <2>2. ASSUME NEW d \in Nat, d \in S PROVE d + 1 \in S
    <3> SUFFICES ASSUME i + 2 + (d + 1) <= L
                 PROVE  stack[i].level < stack[i + 2 + (d + 1)].level
      OBVIOUS
    <3> DEFINE k == i + 2 + d
    <3>1. k \in 1 .. (L - 1) /\ i + 2 + (d + 1) = k + 1 /\ i \in 1 .. L /\ k \in 1 .. L
      BY <1>1
    <3>2. stack[i].level < stack[k].level
      BY <2>2, <3>1
    <3>3. stack[k + 1].level = IF stack[k].at = "again" THEN stack[k].level
                                                        ELSE stack[k].level + 1
      BY <1>3, <3>1
    <3>4. stack[i].level \in Nat /\ stack[k].level \in Nat
      BY <1>2, <3>1
    <3> HIDE DEF k
    <3>5. stack[i].level < stack[k + 1].level
      BY ONLY <3>2, <3>3, <3>4
    <3>6. QED
      BY <3>1, <3>5
  <2> HIDE DEF S
  <2>3. QED
    BY ONLY <2>1, <2>2, SetInduction
<1>7. j - (i + 2) \in Nat /\ i + 2 + (j - (i + 2)) = j /\ j <= L
  BY <1>1
<1>8. QED
  BY <1>6, <1>7

(* An activation is what it was called with.                               *)
LEMMA ActivationFields ==
  ASSUME NEW n, NEW addr, NEW read, NEW words
  PROVE  LET g == Activation(n, addr, read, words)
         IN /\ g.level = n /\ g.addr = addr /\ g.read = read /\ g.content = words
            /\ g.at = "enter" /\ g.time = HitTime[n]
BY DEF Activation

(* An aligned request that fits into a block makes a sound activation.     *)
LEMMA ActivationOK ==
  ASSUME NEW n \in 1 .. (Depth + 1), NEW addr \in Nat, NEW read \in BOOLEAN,
         NEW c \in Amounts, NEW words \in Words(c),
         WordOf(addr) % c = 0, n \in Levels => NWords(n) % c = 0
  PROVE  /\ FrameOK(Activation(n, addr, read, words))
         /\ Activation(n, addr, read, words).at = "enter"
         /\ Activation(n, addr, read, words).level = n
         /\ Activation(n, addr, read, words).content = words
<1> DEFINE g == Activation(n, addr, read, words)
<1>1. /\ g.level = n /\ g.addr = addr /\ g.read = read /\ g.content = words
      /\ g.at = "enter" /\ g.block = <<0, 0>> /\ g.time = HitTime[n]
  BY DEF Activation, NoBlock
<1>2. HitTime[n] \in Nat
  BY HierarchyAssumption
<1>3. g \in Frame
  <2>1. words \in UNION {[0 .. (k - 1) -> Values] : k \in Amounts}
    BY DEF Words
  <2>2. QED
    BY <1>2, <2>1 DEF Activation, NoBlock, Frame
<1> HIDE DEF g
<1>4. Fits(g)
  BY <1>1 DEF Fits
<1>5. FrameOK(g)
  BY <1>1, <1>3, <1>4 DEF FrameOK
<1>6. QED
  BY <1>1, <1>5 DEF g

(* A write that is passed down, and a request for a whole block, are fit   *)
(* for the level below.                                                    *)
LEMMA PassedDownOK ==
  ASSUME NEW f, FrameOK(f), f.level \in Levels
  PROVE  LET g == Activation(f.level + 1, f.addr, FALSE, f.content)
         IN FrameOK(g) /\ g.at = "enter" /\ g.level = f.level + 1 /\ g.content = f.content
<1>1. PICK c \in Amounts :
        /\ f.content \in Words(c)
        /\ WordOf(f.addr) % c = 0
        /\ NWords(f.level) % c = 0
  BY DEF FrameOK, Fits
<1>2. f.addr \in Nat
  BY DEF FrameOK, Frame
<1>3. f.level + 1 \in 1 .. (Depth + 1)
  BY HierarchyAssumption DEF Levels
<1>4. f.level + 1 \in Levels => NWords(f.level + 1) % c = 0
  <2> SUFFICES ASSUME f.level + 1 \in Levels PROVE NWords(f.level + 1) % c = 0
    OBVIOUS
  <2>1. /\ NWords(f.level + 1) \in Nat /\ NWords(f.level) \in Nat \ {0}
        /\ c \in Nat \ {0}
    BY LevelWords, WordCounts
  <2>2. NWords(f.level + 1) % NWords(f.level) = 0
    BY LevelsNest
  <2>3. QED
    BY <1>1, <2>1, <2>2, DividesTransitive
<1> DEFINE g(read) == Activation(f.level + 1, f.addr, read, f.content)
<1>5. \A read \in BOOLEAN :
        /\ FrameOK(g(read)) /\ g(read).at = "enter"
        /\ g(read).level = f.level + 1 /\ g(read).content = f.content
  BY <1>1, <1>2, <1>3, <1>4, ActivationOK
<1>6. QED
  BY <1>5, Zenon

(* A write-back and a refill are such requests of the level below.         *)
LEMMA BlockRequestOK ==
  ASSUME NEW n \in Levels, NEW tag \in Nat, NEW index \in Level(n)!Sets,
         NEW read \in BOOLEAN, NEW words \in Words(NWords(n))
  PROVE  LET g == Activation(n + 1, Level(n)!BlockAddr(tag, index), read, words)
         IN FrameOK(g) /\ g.at = "enter" /\ g.level = n + 1 /\ g.content = words
<1>1. n + 1 \in 1 .. (Depth + 1)
  BY HierarchyAssumption DEF Levels
<1>2. /\ Level(n)!BlockAddr(tag, index) \in Nat
      /\ WordOf(Level(n)!BlockAddr(tag, index)) % NWords(n) = 0
  BY LevelBlocks, BlockAddrAligned
<1>3. n + 1 \in Levels => NWords(n + 1) % NWords(n) = 0
  BY LevelsNest
<1>4. NWords(n) \in Amounts
  BY DEF Amounts
<1> DEFINE g == Activation(n + 1, Level(n)!BlockAddr(tag, index), read, words)
<1>5. FrameOK(g) /\ g.at = "enter" /\ g.level = n + 1 /\ g.content = words
  BY <1>1, <1>2, <1>3, <1>4, ActivationOK
<1>6. QED
  BY <1>5

(* The words an activation is asked for are words of one block.            *)
LEMMA AccessFits ==
  ASSUME CallInv, stack # << >>, N \in Levels
  PROVE  /\ Offset \in Nat
         /\ \A i \in DOMAIN Top.content :
              i \in Nat /\ Offset + i \in 0 .. (NWords(N) - 1)
         /\ Top.content \in [DOMAIN Top.content -> Values]
<1>1. FrameOK(Top) /\ Top.addr \in Nat
  BY TopOK DEF FrameOK, Frame
<1>2. PICK c \in Amounts :
        /\ Top.content \in Words(c)
        /\ WordOf(Top.addr) % c = 0
        /\ NWords(N) % c = 0
  BY <1>1 DEF FrameOK, Fits, N
<1>3. c \in Nat \ {0} /\ NWords(N) \in Nat \ {0}
  BY LevelWords, WordCounts
<1>4. Offset = WordOf(Top.addr) % NWords(N)
  BY <1>1, FieldsInRange DEF Offset
<1>5. WordOf(Top.addr) \in Nat
  BY <1>1 DEF WordOf
<1>6. Offset \in Nat
  BY <1>3, <1>4, <1>5
<1>7. Offset + c <= NWords(N)
  BY <1>2, <1>3, <1>4, <1>5, AlignedFits
<1>8. DOMAIN Top.content = 0 .. (c - 1) /\ Top.content \in [DOMAIN Top.content -> Values]
  BY <1>2 DEF Words
<1>9. QED
  BY <1>3, <1>6, <1>7, <1>8

(* The activation on top, as its level parses it.                          *)
LEMMA TopAtLevel ==
  ASSUME CallInv, stack # << >>, N \in Levels
  PROVE  /\ Top.addr \in Nat /\ Top.time \in Nat /\ Top.read \in BOOLEAN
         /\ Tag \in Nat /\ Index \in Level(N)!Sets
         /\ blocks[N] \in [BlocksOf(N) -> BlockAt(N)]
         /\ stats[N] \in [access_counter : Int, miss_num : Nat, replace_num : Nat]
         /\ Hit => HitBlock \in BlocksOf(N) /\ HitBlock[1] = Index
         /\ Victim \in BlocksOf(N) /\ Victim[1] = Index
<1>1. Top.addr \in Nat /\ Top.time \in Nat /\ Top.read \in BOOLEAN
  BY TopOK DEF Frame
<1>2. Tag \in Nat /\ Index \in Level(N)!Sets
  BY <1>1, FieldsInRange DEF Tag, Index
<1>3. blocks[N] \in [BlocksOf(N) -> BlockAt(N)]
  BY DEF CallInv, CachesOK
<1>4. stats[N] \in [access_counter : Int, miss_num : Nat, replace_num : Nat]
  BY DEF CallInv, DataOK
<1>5. Hit => HitBlock \in BlocksOf(N) /\ HitBlock[1] = Index
  <2> SUFFICES ASSUME Hit PROVE HitBlock \in BlocksOf(N) /\ HitBlock[1] = Index
    OBVIOUS
  <2>1. Level(N)!IsHit(blocks[N], Index, Tag)
    BY DEF Hit
  <2>2. /\ Level(N)!HitID(blocks[N], Index, Tag) \in BlocksOf(N)
        /\ Level(N)!HitID(blocks[N], Index, Tag)[1] = Index
    BY ONLY <1>2, <2>1, N \in Levels, HitInLevel
  <2>3. QED
    BY <2>2 DEF HitBlock
<1>6. Victim \in BlocksOf(N) /\ Victim[1] = Index
  BY <1>2, <1>3, VictimInLevel DEF Victim
<1>7. QED
  BY <1>1, <1>2, <1>3, <1>4, <1>5, <1>6

(* A step that changes the blocks of one level leaves the others alone.    *)
LEMMA BlocksSet ==
  ASSUME CachesOK, NEW n \in Levels, NEW bs \in [BlocksOf(n) -> BlockAt(n)],
         blocks' = [blocks EXCEPT ![n] = bs]
  PROVE  CachesOK' /\ blocks'[n] = bs /\ \A m \in Levels \ {n} : blocks'[m] = blocks[m]
<1>1. DOMAIN blocks = Levels
  BY DEF CachesOK
<1>2. \A m \in Levels : blocks'[m] = IF m = n THEN bs ELSE blocks[m]
  BY <1>1
<1>3. blocks' = [m \in Levels |-> blocks'[m]]
  BY <1>1
<1>4. QED
  BY <1>2, <1>3 DEF CachesOK

(* Counting an access keeps the type of the statistics.                    *)
LEMMA StatsType ==
  ASSUME CallInv, N \in Levels, NEW miss \in {0, 1}, CountAccess(miss)
  PROVE  stats' \in [Levels -> [access_counter : Int, miss_num : Nat, replace_num : Nat]]
<1> DEFINE S == [access_counter : Int, miss_num : Nat, replace_num : Nat]
<1>1. PICK n \in Levels : n = N
  OBVIOUS
<1>2. stats \in [Levels -> S] /\ stats[n] \in S
  BY DEF CallInv, DataOK
<1>3. [stats[n] EXCEPT !.access_counter = @ + 1, !.miss_num = @ + miss] \in S
  <2>1. stats[n].access_counter + 1 \in Int /\ stats[n].miss_num + miss \in Nat
    BY <1>2
  <2>2. QED
    BY <1>2, <2>1
<1>4. stats' = [stats EXCEPT ![n] =
                  [stats[n] EXCEPT !.access_counter = @ + 1, !.miss_num = @ + miss]]
  BY <1>1, <1>2 DEF CountAccess
<1> HIDE DEF S
<1>5. stats' \in [Levels -> S]
  BY <1>2, <1>3, <1>4
<1>6. QED
  BY <1>5 DEF S

(* The activation on top calls one of these words and waits for it.        *)
CallsOut(at, b, t, addr, read, words) ==
  \E f, g :
    /\ FrameOK(f)
    /\ f.level = N /\ f.at = at /\ f.block = b /\ f.time = t
    /\ f.addr = Top.addr /\ f.read = Top.read /\ f.content = Top.content
    /\ FrameOK(g)
    /\ g.at = "enter" /\ g.time = HitTime[g.level]
    /\ g.addr = addr /\ g.read = read /\ g.content = words
    /\ Calls(f, g)
    /\ stack' = Front(stack) \o <<f, g>> /\ ret' = Nothing

(* A call, with its two activations picked.                                *)
LEMMA CalledBy ==
  ASSUME CallInv, stack # << >>,
         NEW at, NEW b, NEW t, NEW addr, NEW read, NEW words,
         CallsOut(at, b, t, addr, read, words)
  PROVE  \E f, g \in Frame :
           /\ FrameOK(f)
           /\ f.level = N /\ f.at = at /\ f.block = b /\ f.time = t
           /\ f.addr = Top.addr /\ f.read = Top.read /\ f.content = Top.content
           /\ FrameOK(g)
           /\ g.at = "enter" /\ g.time = HitTime[g.level]
           /\ g.addr = addr /\ g.read = read /\ g.content = words
           /\ Calls(f, g)
           /\ Called(f, g) /\ ret' = Nothing
<1>1. PICK f, g :
        /\ FrameOK(f)
        /\ f.level = N /\ f.at = at /\ f.block = b /\ f.time = t
        /\ f.addr = Top.addr /\ f.read = Top.read /\ f.content = Top.content
        /\ FrameOK(g)
        /\ g.at = "enter" /\ g.time = HitTime[g.level]
        /\ g.addr = addr /\ g.read = read /\ g.content = words
        /\ Calls(f, g)
        /\ stack' = Front(stack) \o <<f, g>> /\ ret' = Nothing
  BY DEF CallsOut
<1>2. f \in Frame /\ g \in Frame
  BY <1>1 DEF FrameOK
<1>3. Called(f, g)
  BY <1>1, <1>2, StackSteps
<1>4. QED
  BY <1>1, <1>2, <1>3

-----------------------------------------------------------------------------
(* A step in which the activation on top returns, and one in which it      *)
(* calls another.                                                          *)

(* A return takes the latest activation off the stack.                     *)
LEMMA ReturnedBy ==
  ASSUME CallInv, stack # << >>, NEW w, NEW t, Returns(w, t)
  PROVE  Returned
<1>1. Top \in Frame
  BY TopOK
<1>2. QED
  BY <1>1, StackSteps DEF Returns

(* A return keeps what the invariant says of the stack.                    *)
LEMMA ReturnStep ==
  ASSUME CallInv, stack # << >>, NEW w, NEW t \in Nat, Returns(w, t),
         w \in [DOMAIN Top.content -> Values],
         UNCHANGED <<pc, req>>
  PROVE  stack' \in Seq(Frame) /\ StackInv' /\ RecursionHits' /\ AnswerInv'
<1>1. Returned
  BY ReturnedBy
<1>2. QED
  BY <1>1, ReturnKeeps DEF Returns

(* So does a call, unless it is a recursive one that would miss.           *)
LEMMA CallStep ==
  ASSUME CallInv, stack # << >>, pc = "running", UNCHANGED <<pc, req>>,
         NEW f, NEW g, stack' = Front(stack) \o <<f, g>>, ret' = Nothing,
         FrameOK(f), FrameOK(g), Calls(f, g), g.at = "enter",
         f.level = N, DOMAIN f.content = DOMAIN Top.content,
         Recursive(Len(stack)) => f.at = "through",
         f.at = "again" =>
           Level(g.level)!IsHit(blocks'[g.level], Level(g.level)!IndexOf(g.addr),
                                Level(g.level)!TagOf(g.addr))
  PROVE  stack' \in Seq(Frame) /\ StackInv' /\ RecursionHits' /\ AnswerInv'
<1>1. f \in Frame /\ g \in Frame
  BY DEF FrameOK
<1>2. Called(f, g)
  BY <1>1, StackSteps
<1>3. stack' \in Seq(Frame) /\ stack' # << >> /\ StackInv'
  BY <1>2, CallKeeps
<1>4. PICK L \in Nat \ {0} : L = Len(stack) /\ Top = stack[L]
  BY TopOK
<1>5. /\ Len(stack') = L + 1 /\ stack'[L] = f /\ stack'[L + 1] = g
      /\ \A i \in 1 .. (L - 1) : stack'[i] = stack[i]
  BY <1>2, <1>4 DEF Called
<1>6. RecursionHits'
  <2> SUFFICES ASSUME NEW i \in 2 .. (L + 1), Recursive(i)', stack'[i].at = "enter"
               PROVE  Level(stack'[i].level)!IsHit(blocks'[stack'[i].level],
                        Level(stack'[i].level)!IndexOf(stack'[i].addr),
                        Level(stack'[i].level)!TagOf(stack'[i].addr))
    BY <1>5 DEF RecursionHits
  <2>1. f.at # "enter"
    BY DEF Calls
  <2>2. \A j \in 1 .. (L - 1) : stack[j].at # "enter"
    BY <1>4 DEF CallInv, StackInv, Calls
  <2>3. i = L + 1
    BY <1>4, <1>5, <2>1, <2>2
  <2>4. f.at = "again"
    BY <1>4, <1>5, <2>3 DEF Recursive
  <2>5. QED
    BY <1>5, <2>3, <2>4
<1>7. AnswerInv'
  BY <1>3 DEF AnswerInv, CallInv
<1>8. QED
  BY <1>3, <1>6, <1>7

-----------------------------------------------------------------------------
(* The steps of the storage.                                               *)

(* What a step of the storage has to show for the invariant.               *)
LEMMA StorageStep ==
  ASSUME CallInv, ClientUnchanged, CachesOK',
         memory' \in [MemWords -> Values],
         stats' \in [Levels -> [access_counter : Int, miss_num : Nat, replace_num : Nat]],
         stack' \in Seq(Frame) /\ StackInv' /\ RecursionHits' /\ AnswerInv'
  PROVE  CallInv'
BY DEF CallInv, DataOK, ClientUnchanged

(* An activation that has just been called; a recursive one hits.          *)
LEMMA EnteredTop ==
  ASSUME CallInv, Entered
  PROVE  /\ stack # << >> /\ pc = "running" /\ Top.at = "enter"
         /\ Recursive(Len(stack)) => (N \in Levels /\ Hit)
<1>1. stack # << >> /\ pc = "running" /\ Top.at = "enter"
  BY DEF CallInv, StackInv, Entered
<1>2. PICK L \in Nat \ {0} : L = Len(stack) /\ Top = stack[L] /\ N = stack[L].level
  BY <1>1, TopOK DEF N
<1>3. ASSUME Recursive(L) PROVE N \in Levels /\ Hit
  <2>1. L \in 2 .. Len(stack)
    BY <1>2, <1>3 DEF Recursive
  <2>2. Level(N)!IsHit(blocks[N], Level(N)!IndexOf(Top.addr), Level(N)!TagOf(Top.addr))
    BY <1>1, <1>2, <1>3, <2>1 DEF CallInv, RecursionHits
  <2>3. Calls(stack[L - 1], stack[L]) /\ FrameOK(stack[L - 1])
    BY <1>2, <2>1 DEF CallInv, StackInv
  <2>4. N \in Levels
    BY <1>2, <1>3, <2>3 DEF Calls, FrameOK, Recursive
  <2>5. QED
    BY <2>2, <2>4 DEF Hit, Index, Tag
<1>4. Recursive(Len(stack)) => (N \in Levels /\ Hit)
  BY <1>2, <1>3
<1>5. QED
  BY <1>1, <1>4

(* An activation that goes on has what it waited for.                      *)
LEMMA ResumedTop ==
  ASSUME CallInv, NEW at, Resumed(at), at # "enter"
  PROVE  /\ stack # << >> /\ pc = "running" /\ Top.at = at
         /\ FrameOK(Top) /\ N \in Levels
         /\ ret.content \in [Shape(Top) -> Values] /\ ret.time \in Nat
         /\ at \notin {"enter", "through"} => ~ Recursive(Len(stack))
<1>1. stack # << >> /\ pc = "running" /\ Top.at = at
  BY DEF Resumed
<1>2. FrameOK(Top) /\ N \in Levels
  BY <1>1, TopOK DEF FrameOK, N
<1>3. ret.content \in [Shape(Top) -> Values] /\ ret.time \in Nat
  BY <1>1 DEF CallInv, AnswerInv, Resumed
<1>4. PICK L \in Nat \ {0} : L = Len(stack) /\ Top = stack[L]
  BY <1>1, TopOK
<1>5. Recursive(L) => at \in {"enter", "through"}
  <2> SUFFICES ASSUME Recursive(L) PROVE at \in {"enter", "through"}
    OBVIOUS
  <2>1. L > 1 /\ stack[L - 1].at = "again"
    BY DEF Recursive
  <2>2. Calls(stack[L - 1], stack[L])
    BY <1>4, <2>1 DEF CallInv, StackInv
  <2>3. QED
    BY <1>1, <1>4, <2>1, <2>2 DEF Calls
<1>6. QED
  BY <1>1, <1>2, <1>3, <1>4, <1>5

(* The memory keeps the invariant.                                         *)
LEMMA MemoryServeKeeps ==
  ASSUME CallInv, MemoryServe
  PROVE  CallInv'
<1>1. stack # << >> /\ pc = "running"
  BY EnteredTop DEF MemoryServe
<1>2. Top.addr \in Nat /\ Top.time \in Nat /\ FrameOK(Top)
  BY <1>1, TopOK DEF Frame
<1>3. PICK c \in Amounts : Top.content \in Words(c)
  BY <1>2 DEF FrameOK, Fits
<1>4. c \in Nat \ {0}
  BY WordCounts
<1>5. DOMAIN Top.content = 0 .. (c - 1)
  BY <1>3 DEF Words
<1>6. Cardinality(DOMAIN Top.content) = c
  <2>1. Cardinality(0 .. (c - 1)) = IF 0 > c - 1 THEN 0 ELSE c - 1 - 0 + 1
    BY <1>4, FS_Interval
  <2>2. QED
    BY <1>4, <1>5, <2>1
<1> DEFINE w == IF Top.read THEN ReadWords(memory, Top.addr, c) ELSE Top.content
<1>7. /\ InArray(memory, Top.addr, c)
      /\ memory' = IF Top.read THEN memory ELSE WriteWords(memory, Top.addr, Top.content)
      /\ Returns(w, Top.time)
  BY <1>6 DEF MemoryServe
<1>8. memory \in [MemWords -> Values]
  BY DEF CallInv, DataOK
<1>9. w \in [DOMAIN Top.content -> Values]
  <2>1. \A i \in 0 .. (c - 1) : memory[WordOf(Top.addr) + i] \in Values
    BY <1>7, <1>8 DEF InArray
  <2>2. ReadWords(memory, Top.addr, c) \in [0 .. (c - 1) -> Values]
    BY <2>1 DEF ReadWords
  <2>3. QED
    BY <1>3, <1>5, <2>2 DEF Words
<1>10. memory' \in [MemWords -> Values]
  <2>1. WriteWords(memory, Top.addr, Top.content) \in [MemWords -> Values]
    BY <1>3, <1>5, <1>8 DEF WriteWords, Words
  <2>2. QED
    BY <1>7, <1>8, <2>1
<1> HIDE DEF w
<1>11. UNCHANGED <<pc, req>>
  BY DEF MemoryServe, ClientUnchanged
<1>12. stack' \in Seq(Frame) /\ StackInv' /\ RecursionHits' /\ AnswerInv'
  BY <1>1, <1>2, <1>7, <1>9, <1>11, ReturnStep
<1>13. CachesOK' /\ stats' \in [Levels -> [access_counter : Int, miss_num : Nat, replace_num : Nat]]
  BY DEF MemoryServe, CallInv, CachesOK, DataOK
<1>14. QED
  BY <1>10, <1>12, <1>13, StorageStep DEF MemoryServe

(* A block with the words of the access replaced is a block.               *)
LEMMA OverwrittenType ==
  ASSUME CallInv, stack # << >>, N \in Levels, NEW b \in BlocksOf(N)
  PROVE  Overwritten(b) \in [BlocksOf(N) -> BlockAt(N)]
<1>1. /\ Offset \in Nat
      /\ Top.content \in [DOMAIN Top.content -> Values]
  BY AccessFits
<1>2. blocks[N] \in [BlocksOf(N) -> BlockAt(N)]
  BY TopAtLevel
<1>3. blocks[N][b].data \in Words(NWords(N)) /\ blocks[N][b] \in BlockAt(N)
  BY <1>2 DEF BlockAt
<1> DEFINE d == [k \in DOMAIN blocks[N][b].data |->
                   IF k - Offset \in DOMAIN Top.content
                     THEN Top.content[k - Offset] ELSE blocks[N][b].data[k]]
<1>4. d \in Words(NWords(N))
  BY <1>1, <1>3 DEF Words
<1>5. Overwritten(b) = [blocks[N] EXCEPT ![b].data = d]
  BY DEF Overwritten
<1> HIDE DEF d
<1>6. [blocks[N][b] EXCEPT !.data = d] \in BlockAt(N)
  BY <1>3, <1>4 DEF BlockAt
<1>7. QED
  BY <1>2, <1>5, <1>6

(* A read hit keeps the invariant.                                         *)
LEMMA HitReadKeeps ==
  ASSUME CallInv, HitRead
  PROVE  CallInv'
<1>1. stack # << >> /\ N \in Levels
  BY EnteredTop DEF HitRead, AtCache
<1>2. /\ HitBlock \in BlocksOf(N) /\ Top.time \in Nat
      /\ blocks[N] \in [BlocksOf(N) -> BlockAt(N)]
  BY <1>1, TopAtLevel DEF HitRead
<1>3. WordsIn(HitBlock) \in [DOMAIN Top.content -> Values]
  <2>1. blocks[N][HitBlock].data \in [0 .. (NWords(N) - 1) -> Values]
    BY <1>2 DEF BlockAt, Words
  <2>2. \A i \in DOMAIN Top.content : Offset + i \in 0 .. (NWords(N) - 1)
    BY <1>1, AccessFits
  <2>3. QED
    BY <2>1, <2>2 DEF WordsIn
<1>4. Returns(WordsIn(HitBlock), Top.time) /\ UNCHANGED <<pc, req>>
  BY DEF HitRead, ClientUnchanged
<1>5. stack' \in Seq(Frame) /\ StackInv' /\ RecursionHits' /\ AnswerInv'
  BY <1>1, <1>2, <1>3, <1>4, ReturnStep
<1>6. CachesOK'
  <2>1. Touched(blocks[N], HitBlock) \in [BlocksOf(N) -> BlockAt(N)]
    BY <1>1, <1>2, TouchedBlocks DEF Touched
  <2>2. blocks' = [blocks EXCEPT ![N] = Touched(blocks[N], HitBlock)]
    BY DEF HitRead
  <2>3. QED
    BY <1>1, <2>1, <2>2, BlocksSet DEF CallInv
<1>7. /\ memory' \in [MemWords -> Values]
      /\ stats' \in [Levels -> [access_counter : Int, miss_num : Nat, replace_num : Nat]]
  BY <1>1, StatsType DEF HitRead, CallInv, DataOK
<1>8. QED
  BY <1>5, <1>6, <1>7, StorageStep DEF HitRead

(* A write hit keeps the invariant.                                        *)
LEMMA HitWriteBackKeeps ==
  ASSUME CallInv, HitWriteBack
  PROVE  CallInv'
<1>1. stack # << >> /\ N \in Levels
  BY EnteredTop DEF HitWriteBack, AtCache
<1>2. HitBlock \in BlocksOf(N) /\ Top.time \in Nat
  BY <1>1, TopAtLevel DEF HitWriteBack
<1>3. Top.content \in [DOMAIN Top.content -> Values]
  BY <1>1, AccessFits
<1>4. Returns(Top.content, Top.time) /\ UNCHANGED <<pc, req>>
  BY DEF HitWriteBack, ClientUnchanged
<1>5. stack' \in Seq(Frame) /\ StackInv' /\ RecursionHits' /\ AnswerInv'
  BY <1>1, <1>2, <1>3, <1>4, ReturnStep
<1>6. CachesOK'
  <2> DEFINE bs == MarkedDirty(Overwritten(HitBlock), HitBlock)
  <2>1. bs \in [BlocksOf(N) -> BlockAt(N)]
    BY <1>1, <1>2, OverwrittenType DEF MarkedDirty, BlockAt
  <2>2. blocks' = [blocks EXCEPT ![N] = Touched(bs, HitBlock)]
    BY DEF HitWriteBack
  <2> HIDE DEF bs
  <2>3. Touched(bs, HitBlock) \in [BlocksOf(N) -> BlockAt(N)]
    BY <1>1, <1>2, <2>1, TouchedBlocks DEF Touched
  <2>4. QED
    BY <1>1, <2>2, <2>3, BlocksSet DEF CallInv
<1>7. /\ memory' \in [MemWords -> Values]
      /\ stats' \in [Levels -> [access_counter : Int, miss_num : Nat, replace_num : Nat]]
  BY <1>1, StatsType DEF HitWriteBack, CallInv, DataOK
<1>8. QED
  BY <1>5, <1>6, <1>7, StorageStep DEF HitWriteBack

(* A frame that waits keeps the request of the activation on top.          *)
Waiting(at, b, t) == [Top EXCEPT !.block = b, !.time = t, !.at = at]

(* The latest activation, when it starts to wait, is sound.                *)
LEMMA WaitingOK ==
  ASSUME CallInv, stack # << >>, N \in Levels,
         NEW b \in BlocksOf(N), b[1] = Index,
         NEW at \in {"through", "around", "evict", "refill", "again"},
         at \in {"through", "around"} => ~ Top.read,
         NEW t \in Nat
  PROVE  LET f == Waiting(at, b, t)
         IN /\ FrameOK(f) /\ f.at = at /\ f.level = N /\ f.content = Top.content
            /\ f.addr = Top.addr /\ f.read = Top.read
            /\ f.block = b /\ f.time = t
<1> DEFINE f == Waiting(at, b, t)
<1>1. Top \in Frame /\ FrameOK(Top) /\ N = Top.level
  BY TopOK DEF N
<1>2. b \in Nat \X Nat
  BY LevelBlocks
<1>3. /\ f \in Frame /\ f.at = at /\ f.block = b /\ f.level = Top.level
      /\ f.addr = Top.addr /\ f.content = Top.content /\ f.read = Top.read
      /\ f.time = t
  BY <1>1, <1>2 DEF Frame, Waiting
<1> HIDE DEF f
<1>4. Fits(f)
  BY <1>1, <1>3 DEF FrameOK, Fits
<1>5. FrameOK(f)
  BY <1>1, <1>3, <1>4 DEF FrameOK, Index
<1>6. QED
  BY <1>1, <1>3, <1>5 DEF f

(* The steps in which a level calls the one below.                         *)
LEMMA CallsOutStep ==
  ASSUME CallInv, stack # << >>, pc = "running", UNCHANGED <<pc, req>>,
         NEW at \in {"through", "around", "evict", "refill"},
         NEW b, NEW t, NEW addr, NEW read, NEW words,
         CallsOut(at, b, t, addr, read, words),
         Recursive(Len(stack)) => at = "through"
  PROVE  stack' \in Seq(Frame) /\ StackInv' /\ RecursionHits' /\ AnswerInv'
<1>1. PICK f, g :
        /\ FrameOK(f) /\ f.level = N /\ f.at = at /\ f.content = Top.content
        /\ FrameOK(g) /\ g.at = "enter" /\ Calls(f, g)
        /\ stack' = Front(stack) \o <<f, g>> /\ ret' = Nothing
  BY DEF CallsOut
<1>2. QED
  BY <1>1, CallStep

(* A write hit that writes through is a call of the level below...         *)
LEMMA HitWriteThroughCalls ==
  ASSUME CallInv, HitWriteThrough
  PROVE  CallsOut("through", HitBlock, Top.time, Top.addr, FALSE, Top.content)
<1>1. stack # << >> /\ N \in Levels /\ pc = "running" /\ ~ Top.read
  BY EnteredTop DEF HitWriteThrough, AtCache
<1>2. HitBlock \in BlocksOf(N) /\ HitBlock[1] = Index /\ Top.time \in Nat
  BY <1>1, TopAtLevel DEF HitWriteThrough
<1> DEFINE f == Waiting("through", HitBlock, Top.time)
           g == Below(Top.addr, FALSE, Top.content)
<1>3. /\ FrameOK(f) /\ f.at = "through" /\ f.level = N /\ f.content = Top.content
      /\ f.addr = Top.addr /\ f.read = Top.read /\ f.block = HitBlock /\ f.time = Top.time
  BY <1>1, <1>2, WaitingOK
<1>4. FrameOK(g) /\ g.level = N + 1
  BY <1>1, TopOK, PassedDownOK DEF Below, N
<1>5. /\ g.at = "enter" /\ g.time = HitTime[g.level]
      /\ g.addr = Top.addr /\ g.read = FALSE /\ g.content = Top.content
  BY DEF Activation, Below
<1>6. stack' = Front(stack) \o <<f, g>> /\ ret' = Nothing
  <2>1. Top \in Frame
    BY <1>1, TopOK
  <2>2. [[Top EXCEPT !.block = HitBlock] EXCEPT !.at = "through"] = f
    BY <2>1 DEF Frame, Waiting
  <2> HIDE DEF f, g
  <2>3. QED
    BY <2>2 DEF HitWriteThrough, CallsFrom, g
<1> HIDE DEF f, g
<1>7. Calls(f, g)
  BY <1>3, <1>4, <1>5 DEF Calls, Shape
<1>8. QED
  BY <1>3, <1>4, <1>5, <1>6, <1>7 DEF CallsOut

(* ...and keeps the invariant.                                             *)
LEMMA HitWriteThroughKeeps ==
  ASSUME CallInv, HitWriteThrough
  PROVE  CallInv'
<1>1. stack # << >> /\ N \in Levels /\ pc = "running"
  BY EnteredTop DEF HitWriteThrough, AtCache
<1>2. HitBlock \in BlocksOf(N)
  BY <1>1, TopAtLevel DEF HitWriteThrough
<1>3. UNCHANGED <<pc, req>>
  BY DEF HitWriteThrough, ClientUnchanged
<1>4. stack' \in Seq(Frame) /\ StackInv' /\ RecursionHits' /\ AnswerInv'
  BY <1>1, <1>3, HitWriteThroughCalls, CallsOutStep
<1>5. CachesOK'
  <2>1. Overwritten(HitBlock) \in [BlocksOf(N) -> BlockAt(N)]
    BY <1>1, <1>2, OverwrittenType
  <2>2. blocks' = [blocks EXCEPT ![N] = Overwritten(HitBlock)]
    BY DEF HitWriteThrough
  <2>3. QED
    BY <1>1, <2>1, <2>2, BlocksSet DEF CallInv
<1>6. /\ memory' \in [MemWords -> Values]
      /\ stats' \in [Levels -> [access_counter : Int, miss_num : Nat, replace_num : Nat]]
  BY <1>1, StatsType DEF HitWriteThrough, CallInv, DataOK
<1>7. QED
  BY <1>4, <1>5, <1>6, StorageStep DEF HitWriteThrough

(* So does its return.                                                     *)
LEMMA ThroughDoneKeeps ==
  ASSUME CallInv, ThroughDone
  PROVE  CallInv'
<1>1. /\ stack # << >> /\ N \in Levels /\ Top.at = "through" /\ FrameOK(Top)
  BY ResumedTop DEF ThroughDone
<1>2. /\ Top.block \in BlocksOf(N) /\ Top.time \in Nat
      /\ blocks[N] \in [BlocksOf(N) -> BlockAt(N)]
  BY <1>1, TopAtLevel DEF FrameOK, N
<1>3. Top.content \in [DOMAIN Top.content -> Values]
  BY <1>1, AccessFits
<1>4. Returns(Top.content, Top.time) /\ UNCHANGED <<pc, req>>
  BY DEF ThroughDone, ClientUnchanged
<1>5. stack' \in Seq(Frame) /\ StackInv' /\ RecursionHits' /\ AnswerInv'
  BY <1>1, <1>2, <1>3, <1>4, ReturnStep
<1>6. CachesOK'
  <2>1. Touched(blocks[N], Top.block) \in [BlocksOf(N) -> BlockAt(N)]
    BY <1>1, <1>2, TouchedBlocks DEF Touched
  <2>2. blocks' = [blocks EXCEPT ![N] = Touched(blocks[N], Top.block)]
    BY DEF ThroughDone
  <2>3. QED
    BY <1>1, <2>1, <2>2, BlocksSet DEF CallInv
<1>7. /\ memory' \in [MemWords -> Values]
      /\ stats' \in [Levels -> [access_counter : Int, miss_num : Nat, replace_num : Nat]]
  BY DEF ThroughDone, CallInv, DataOK
<1>8. QED
  BY <1>5, <1>6, <1>7, StorageStep DEF ThroughDone

(* A write around is a call of the level below...                          *)
LEMMA MissWriteAroundCalls ==
  ASSUME CallInv, MissWriteAround
  PROVE  CallsOut("around", Top.block, Top.time, Top.addr, FALSE, Top.content)
<1>1. stack # << >> /\ N \in Levels /\ ~ Top.read
  BY EnteredTop DEF MissWriteAround, AtCache
<1>2. Top \in Frame /\ FrameOK(Top)
  BY <1>1, TopOK
<1> DEFINE f == [Top EXCEPT !.at = "around"]
           g == Below(Top.addr, FALSE, Top.content)
<1>3. /\ f \in Frame /\ f.at = "around" /\ f.level = N /\ f.content = Top.content
      /\ f.addr = Top.addr /\ f.read = Top.read /\ f.block = Top.block
      /\ f.time = Top.time
  BY <1>2 DEF Frame, N
<1>4. FrameOK(g) /\ g.level = N + 1
  BY <1>1, <1>2, PassedDownOK DEF Below, N
<1>5. /\ g.at = "enter" /\ g.time = HitTime[g.level]
      /\ g.addr = Top.addr /\ g.read = FALSE /\ g.content = Top.content
  BY DEF Activation, Below
<1>6. stack' = Front(stack) \o <<f, g>> /\ ret' = Nothing
  BY DEF MissWriteAround, CallsFrom
<1> HIDE DEF f, g
<1>7. FrameOK(f)
  BY <1>1, <1>2, <1>3 DEF FrameOK, Fits, N
<1>8. Calls(f, g)
  BY <1>3, <1>4, <1>5 DEF Calls, Shape
<1>9. QED
  BY <1>3, <1>4, <1>5, <1>6, <1>7, <1>8 DEF CallsOut

(* ...and keeps the invariant.                                             *)
LEMMA MissWriteAroundKeeps ==
  ASSUME CallInv, MissWriteAround
  PROVE  CallInv'
<1>1. /\ stack # << >> /\ N \in Levels /\ pc = "running"
      /\ ~ Recursive(Len(stack))
  BY EnteredTop DEF MissWriteAround, AtCache
<1>2. UNCHANGED <<pc, req>>
  BY DEF MissWriteAround, ClientUnchanged
<1>3. stack' \in Seq(Frame) /\ StackInv' /\ RecursionHits' /\ AnswerInv'
  BY <1>1, <1>2, MissWriteAroundCalls, CallsOutStep
<1>4. /\ CachesOK' /\ memory' \in [MemWords -> Values]
      /\ stats' \in [Levels -> [access_counter : Int, miss_num : Nat, replace_num : Nat]]
  BY <1>1, StatsType DEF MissWriteAround, CallInv, DataOK, CachesOK
<1>5. QED
  BY <1>3, <1>4, StorageStep DEF MissWriteAround

(* So does its return.                                                     *)
LEMMA AroundDoneKeeps ==
  ASSUME CallInv, AroundDone
  PROVE  CallInv'
<1>1. stack # << >> /\ N \in Levels
  BY ResumedTop DEF AroundDone
<1>2. Top.time \in Nat /\ Top.content \in [DOMAIN Top.content -> Values]
  BY <1>1, TopAtLevel, AccessFits
<1>3. Returns(Top.content, Top.time) /\ UNCHANGED <<pc, req>>
  BY DEF AroundDone, ClientUnchanged
<1>4. stack' \in Seq(Frame) /\ StackInv' /\ RecursionHits' /\ AnswerInv'
  BY <1>1, <1>2, <1>3, ReturnStep
<1>5. /\ CachesOK' /\ memory' \in [MemWords -> Values]
      /\ stats' \in [Levels -> [access_counter : Int, miss_num : Nat, replace_num : Nat]]
  BY DEF AroundDone, CallInv, DataOK, CachesOK
<1>6. QED
  BY <1>4, <1>5, StorageStep DEF AroundDone


(* get_missed_block.                                                       *)

(* The words of a fresh vector are zero.                                   *)
LEMMA BlankWords ==
  ASSUME NEW n \in Levels
  PROVE  Blank(NWords(n)) \in Words(NWords(n))
BY HierarchyAssumption DEF Blank, Words

(* The refill is a sound activation of the level below.                    *)
LEMMA RefillOK ==
  ASSUME CallInv, stack # << >>, N \in Levels
  PROVE  /\ FrameOK(Refill) /\ Refill.at = "enter" /\ Refill.level = N + 1
         /\ Refill.time = HitTime[Refill.level]
         /\ Refill.addr = Level(N)!BlockAddr(Tag, Index) /\ Refill.read = TRUE
         /\ Refill.content = Blank(NWords(N))
         /\ DOMAIN Refill.content = 0 .. (NWords(N) - 1)
<1>1. Tag \in Nat /\ Index \in Level(N)!Sets
  BY TopAtLevel
<1>2. Blank(NWords(N)) \in Words(NWords(N))
  BY BlankWords
<1> DEFINE g(read) == Activation(N + 1, Level(N)!BlockAddr(Tag, Index), read,
                                 Blank(NWords(N)))
<1>3. \A read \in BOOLEAN :
        /\ FrameOK(g(read)) /\ g(read).at = "enter"
        /\ g(read).level = N + 1 /\ g(read).content = Blank(NWords(N))
  BY <1>1, <1>2, BlockRequestOK
<1>4. Refill = g(TRUE)
  BY DEF Refill, Below
<1> HIDE DEF g
<1>5. FrameOK(g(TRUE)) /\ g(TRUE).at = "enter"
      /\ g(TRUE).level = N + 1 /\ g(TRUE).content = Blank(NWords(N))
  BY <1>3, Zenon
<1>6. /\ Refill.time = HitTime[Refill.level] /\ Refill.read = TRUE
      /\ Refill.addr = Level(N)!BlockAddr(Tag, Index)
  BY DEF Activation, Refill, Below
<1>7. QED
  BY <1>2, <1>4, <1>5, <1>6 DEF Words

(* A miss that goes on to get_missed_block, and the victim it finds.       *)
LEMMA MissedTop ==
  ASSUME CallInv, Missed
  PROVE  /\ stack # << >> /\ N \in Levels /\ pc = "running" /\ Top.at = "enter"
         /\ ~ Recursive(Len(stack))
         /\ Victim \in BlocksOf(N) /\ Victim[1] = Index /\ Top.time \in Nat
         /\ Top \in Frame
<1>1. stack # << >> /\ N \in Levels /\ pc = "running" /\ Top.at = "enter"
  BY EnteredTop DEF Missed, AtCache
<1>2. ~ Recursive(Len(stack))
  BY EnteredTop DEF Missed, AtCache
<1>3. QED
  BY <1>1, <1>2, TopAtLevel, TopOK

(* The write-back of a victim is a call of the level below...              *)
LEMMA MissEvictCalls ==
  ASSUME CallInv, MissEvict
  PROVE  CallsOut("evict", Victim, Top.time,
                  Level(N)!BlockAddr(blocks[N][Victim].tag, Index), FALSE,
                  blocks[N][Victim].data)
<1>1. /\ stack # << >> /\ N \in Levels /\ pc = "running"
      /\ ~ Recursive(Len(stack))
      /\ Victim \in BlocksOf(N) /\ Victim[1] = Index /\ Top.time \in Nat
      /\ Top \in Frame
  BY MissedTop DEF MissEvict
<1> DEFINE f == Waiting("evict", Victim, Top.time)
           g == Below(Level(N)!BlockAddr(blocks[N][Victim].tag, Index), FALSE,
                      blocks[N][Victim].data)
<1>2. /\ FrameOK(f) /\ f.at = "evict" /\ f.level = N /\ f.content = Top.content
      /\ f.addr = Top.addr /\ f.read = Top.read /\ f.block = Victim /\ f.time = Top.time
  BY <1>1, WaitingOK
<1>3. /\ FrameOK(g) /\ g.at = "enter" /\ g.level = N + 1
      /\ g.content \in Words(NWords(N))
  <2>1. blocks[N][Victim] \in BlockAt(N) /\ Index \in Level(N)!Sets
    BY <1>1, TopAtLevel
  <2>2. blocks[N][Victim].tag \in Nat /\ blocks[N][Victim].data \in Words(NWords(N))
    BY <2>1 DEF BlockAt
  <2> DEFINE h(read) == Activation(N + 1, Level(N)!BlockAddr(blocks[N][Victim].tag, Index),
                                   read, blocks[N][Victim].data)
  <2>3. \A read \in BOOLEAN :
          /\ FrameOK(h(read)) /\ h(read).at = "enter"
          /\ h(read).level = N + 1 /\ h(read).content = blocks[N][Victim].data
    BY <1>1, <2>1, <2>2, BlockRequestOK
  <2>4. g = h(FALSE)
    BY DEF Below
  <2> HIDE DEF g, h
  <2>5. FrameOK(h(FALSE)) /\ h(FALSE).at = "enter"
        /\ h(FALSE).level = N + 1 /\ h(FALSE).content = blocks[N][Victim].data
    BY <2>3, Zenon
  <2>6. QED
    BY <2>2, <2>4, <2>5
<1>4. /\ g.time = HitTime[g.level] /\ g.read = FALSE
       /\ g.addr = Level(N)!BlockAddr(blocks[N][Victim].tag, Index)
       /\ g.content = blocks[N][Victim].data
  BY DEF Activation, Below
<1>5. stack' = Front(stack) \o <<f, g>> /\ ret' = Nothing
  <2>1. [[Top EXCEPT !.block = Victim] EXCEPT !.at = "evict"] = f
    BY <1>1 DEF Frame, Waiting
  <2> HIDE DEF f, g
  <2>2. QED
    BY <2>1 DEF MissEvict, CallsFrom, g
<1> HIDE DEF f, g
<1>6. Calls(f, g)
  BY <1>2, <1>3 DEF Calls, Shape, Words
<1>7. QED
  BY <1>2, <1>3, <1>5, <1>6, <1>4 DEF CallsOut

(* ...and keeps the invariant.                                             *)
LEMMA MissEvictKeeps ==
  ASSUME CallInv, MissEvict
  PROVE  CallInv'
<1>1. /\ stack # << >> /\ N \in Levels /\ pc = "running"
      /\ ~ Recursive(Len(stack))
  BY MissedTop DEF MissEvict
<1>2. UNCHANGED <<pc, req>>
  BY DEF MissEvict, ClientUnchanged
<1>3. stack' \in Seq(Frame) /\ StackInv' /\ RecursionHits' /\ AnswerInv'
  BY <1>1, <1>2, MissEvictCalls, CallsOutStep
<1>4. /\ CachesOK' /\ memory' \in [MemWords -> Values]
      /\ stats' \in [Levels -> [access_counter : Int, miss_num : Nat, replace_num : Nat]]
  BY <1>1, StatsType DEF MissEvict, CallInv, DataOK, CachesOK
<1>5. QED
  BY <1>3, <1>4, StorageStep DEF MissEvict

(* The block is dropped before the refill.                                 *)
LEMMA DroppedType ==
  ASSUME CallInv, NEW n \in Levels, NEW b \in BlocksOf(n),
         blocks' = [blocks EXCEPT ![n][b].valid = FALSE]
  PROVE  CachesOK'
<1> DEFINE bs == [blocks[n] EXCEPT ![b].valid = FALSE]
<1>1. blocks[n] \in [BlocksOf(n) -> BlockAt(n)]
  BY DEF CallInv, CachesOK
<1>2. [blocks[n][b] EXCEPT !.valid = FALSE] \in BlockAt(n)
  BY <1>1 DEF BlockAt
<1>3. bs \in [BlocksOf(n) -> BlockAt(n)]
  BY <1>1, <1>2
<1>4. blocks' = [blocks EXCEPT ![n] = bs]
  OBVIOUS
<1> HIDE DEF bs
<1>5. QED
  BY <1>3, <1>4, BlocksSet DEF CallInv

(* Counting a replacement or uncounting an access keeps the type.          *)
LEMMA CounterType ==
  ASSUME CallInv, NEW n \in Levels
  PROVE  /\ [stats EXCEPT ![n].replace_num = @ + 1] \in
              [Levels -> [access_counter : Int, miss_num : Nat, replace_num : Nat]]
         /\ [stats EXCEPT ![n].access_counter = @ - 1] \in
              [Levels -> [access_counter : Int, miss_num : Nat, replace_num : Nat]]
<1> DEFINE S == [access_counter : Int, miss_num : Nat, replace_num : Nat]
           x == [stats[n] EXCEPT !.replace_num = @ + 1]
           y == [stats[n] EXCEPT !.access_counter = @ - 1]
<1>1. stats \in [Levels -> S]
  BY DEF CallInv, DataOK
<1>2. x \in S /\ y \in S
  <2>1. stats[n] \in S
    BY <1>1
  <2>2. stats[n].replace_num + 1 \in Nat /\ stats[n].access_counter - 1 \in Int
    BY <2>1
  <2>3. QED
    BY <2>1, <2>2
<1> HIDE DEF x, y, S
<1>3. [stats EXCEPT ![n] = x] \in [Levels -> S] /\ [stats EXCEPT ![n] = y] \in [Levels -> S]
  BY <1>1, <1>2
<1>4. QED
  BY <1>3 DEF S, x, y

(* When it returns, the refill is called...                                *)
LEMMA EvictDoneCalls ==
  ASSUME CallInv, EvictDone
  PROVE  CallsOut("refill", Top.block, Top.time + ret.time,
                  Level(N)!BlockAddr(Tag, Index), TRUE, Blank(NWords(N)))
<1>1. /\ stack # << >> /\ N \in Levels /\ pc = "running" /\ Top.at = "evict"
      /\ FrameOK(Top) /\ ret.time \in Nat /\ ~ Recursive(Len(stack))
  BY ResumedTop DEF EvictDone
<1>2. /\ Top.block \in BlocksOf(N) /\ Top.block[1] = Index
      /\ Top.time + ret.time \in Nat /\ Top \in Frame
  BY <1>1, TopAtLevel, TopOK DEF FrameOK, N, Index
<1> DEFINE f == Waiting("refill", Top.block, Top.time + ret.time)
<1>3. /\ FrameOK(f) /\ f.at = "refill" /\ f.level = N /\ f.content = Top.content
      /\ f.addr = Top.addr /\ f.read = Top.read /\ f.block = Top.block
      /\ f.time = Top.time + ret.time
  BY <1>1, <1>2, WaitingOK
<1>4. /\ FrameOK(Refill) /\ Refill.at = "enter" /\ Refill.level = N + 1
      /\ Refill.time = HitTime[Refill.level] /\ Refill.read = TRUE
      /\ Refill.addr = Level(N)!BlockAddr(Tag, Index)
      /\ Refill.content = Blank(NWords(N))
      /\ DOMAIN Refill.content = 0 .. (NWords(N) - 1)
  BY <1>1, RefillOK
<1>5. stack' = Front(stack) \o <<f, Refill>> /\ ret' = Nothing
  <2>1. [[Top EXCEPT !.time = @ + ret.time] EXCEPT !.at = "refill"] = f
    BY <1>2 DEF Frame, Waiting
  <2> HIDE DEF f
  <2>2. QED
    BY <2>1 DEF EvictDone, CallsFrom
<1> HIDE DEF f
<1>6. Calls(f, Refill)
  BY <1>3, <1>4 DEF Calls, Shape
<1>7. QED
  BY <1>3, <1>4, <1>5, <1>6 DEF CallsOut

(* ...which keeps the invariant.                                           *)
LEMMA EvictDoneKeeps ==
  ASSUME CallInv, EvictDone
  PROVE  CallInv'
<1>1. /\ stack # << >> /\ N \in Levels /\ pc = "running"
      /\ ~ Recursive(Len(stack)) /\ Top.block \in BlocksOf(N)
  BY ResumedTop DEF EvictDone, FrameOK, N
<1>2. UNCHANGED <<pc, req>>
  BY DEF EvictDone, ClientUnchanged
<1>3. stack' \in Seq(Frame) /\ StackInv' /\ RecursionHits' /\ AnswerInv'
  BY <1>1, <1>2, EvictDoneCalls, CallsOutStep
<1>4. CachesOK' /\ memory' \in [MemWords -> Values]
  BY <1>1, DroppedType DEF EvictDone, CallInv, DataOK
<1>5. stats' \in [Levels -> [access_counter : Int, miss_num : Nat, replace_num : Nat]]
  BY <1>1, CounterType DEF EvictDone
<1>6. QED
  BY <1>3, <1>4, <1>5, StorageStep DEF EvictDone

(* The refill over a clean victim is a call of the level below...          *)
LEMMA MissRefillCalls ==
  ASSUME CallInv, MissRefill
  PROVE  CallsOut("refill", Victim, Top.time,
                  Level(N)!BlockAddr(Tag, Index), TRUE, Blank(NWords(N)))
<1>1. /\ stack # << >> /\ N \in Levels /\ pc = "running"
      /\ ~ Recursive(Len(stack))
      /\ Victim \in BlocksOf(N) /\ Victim[1] = Index /\ Top.time \in Nat
      /\ Top \in Frame
  BY MissedTop DEF MissRefill
<1> DEFINE f == Waiting("refill", Victim, Top.time)
<1>2. /\ FrameOK(f) /\ f.at = "refill" /\ f.level = N /\ f.content = Top.content
      /\ f.addr = Top.addr /\ f.read = Top.read /\ f.block = Victim
      /\ f.time = Top.time
  BY <1>1, WaitingOK
<1>3. /\ FrameOK(Refill) /\ Refill.at = "enter" /\ Refill.level = N + 1
      /\ Refill.time = HitTime[Refill.level] /\ Refill.read = TRUE
      /\ Refill.addr = Level(N)!BlockAddr(Tag, Index)
      /\ Refill.content = Blank(NWords(N))
      /\ DOMAIN Refill.content = 0 .. (NWords(N) - 1)
  BY <1>1, RefillOK
<1>4. stack' = Front(stack) \o <<f, Refill>> /\ ret' = Nothing
  <2>1. [[Top EXCEPT !.block = Victim] EXCEPT !.at = "refill"] = f
    BY <1>1 DEF Frame, Waiting
  <2> HIDE DEF f
  <2>2. QED
    BY <2>1 DEF MissRefill, CallsFrom
<1> HIDE DEF f
<1>5. Calls(f, Refill)
  BY <1>2, <1>3 DEF Calls, Shape
<1>6. QED
  BY <1>2, <1>3, <1>4, <1>5 DEF CallsOut

(* ...and keeps the invariant.                                             *)
LEMMA MissRefillKeeps ==
  ASSUME CallInv, MissRefill
  PROVE  CallInv'
<1>1. /\ stack # << >> /\ N \in Levels /\ pc = "running"
      /\ ~ Recursive(Len(stack)) /\ Victim \in BlocksOf(N)
  BY MissedTop DEF MissRefill
<1>2. UNCHANGED <<pc, req>>
  BY DEF MissRefill, ClientUnchanged
<1>3. stack' \in Seq(Frame) /\ StackInv' /\ RecursionHits' /\ AnswerInv'
  BY <1>1, <1>2, MissRefillCalls, CallsOutStep
<1>4. CachesOK'
  BY <1>1, DroppedType DEF MissRefill
<1>5. /\ memory' \in [MemWords -> Values]
      /\ stats' \in [Levels -> [access_counter : Int, miss_num : Nat, replace_num : Nat]]
  BY <1>1, StatsType DEF MissRefill, CallInv, DataOK
<1>6. QED
  BY <1>3, <1>4, <1>5, StorageStep DEF MissRefill

(* The state of a level between the refill of a block and its lookup.      *)
LEMMA Refilled ==
  ASSUME CallInv, stack # << >>, N \in Levels, NEW b \in BlocksOf(N), b[1] = Index,
         NEW d \in Words(NWords(N))
  PROVE  LET bs == Touched(Level(N)!Install(blocks[N], b, Tag, d), b)
         IN /\ bs \in [BlocksOf(N) -> BlockAt(N)]
            /\ Level(N)!IsHit(bs, Index, Tag)
<1> DEFINE mid == Level(N)!Install(blocks[N], b, Tag, d)
<1>1. Tag \in Nat /\ blocks[N] \in [BlocksOf(N) -> BlockAt(N)]
  BY TopAtLevel
<1>2. mid \in [BlocksOf(N) -> BlockAt(N)]
  BY <1>1, InstalledBlocks
<1>3. Level(N)!IsHit(Level(N)!UpdateReplacement(mid, LRU, b[1], b), b[1], Tag)
  BY <1>1, InstalledHits
<1> HIDE DEF mid
<1>4. Level(N)!UpdateReplacement(mid, LRU, Index, b) \in [BlocksOf(N) -> BlockAt(N)]
  BY <1>2, TouchedBlocks
<1>5. QED
  BY <1>3, <1>4 DEF Touched, mid

(* When the refill returns, handle_request calls itself...                 *)
LEMMA RefillDoneCalls ==
  ASSUME CallInv, RefillDone
  PROVE  CallsOut("again", Top.block, Top.time + ret.time,
                  Top.addr, Top.read, Top.content)
<1>1. /\ stack # << >> /\ N \in Levels /\ pc = "running" /\ Top.at = "refill"
      /\ FrameOK(Top) /\ ret.time \in Nat /\ ~ Recursive(Len(stack))
      /\ ret.content \in [Shape(Top) -> Values]
  BY ResumedTop DEF RefillDone
<1>2. /\ Top.block \in BlocksOf(N) /\ Top.block[1] = Index
      /\ Top.time + ret.time \in Nat /\ Top \in Frame
      /\ ret.content \in Words(NWords(N))
  BY <1>1, TopAtLevel, TopOK DEF FrameOK, N, Index, Shape, Words
<1> DEFINE f == Waiting("again", Top.block, Top.time + ret.time)
           g == Activation(N, Top.addr, Top.read, Top.content)
<1>3. /\ FrameOK(f) /\ f.at = "again" /\ f.level = N /\ f.content = Top.content
      /\ f.addr = Top.addr /\ f.read = Top.read /\ f.block = Top.block
      /\ f.time = Top.time + ret.time
  BY <1>1, <1>2, WaitingOK
<1>4. /\ FrameOK(g) /\ g.at = "enter" /\ g.level = N /\ g.content = Top.content
      /\ g.addr = Top.addr /\ g.read = Top.read /\ g.time = HitTime[g.level]
  <2>1. PICK c \in Amounts :
          /\ Top.content \in Words(c)
          /\ WordOf(Top.addr) % c = 0
          /\ NWords(N) % c = 0
    BY <1>1 DEF FrameOK, Fits, N
  <2>2. N \in 1 .. (Depth + 1) /\ Top.addr \in Nat /\ Top.read \in BOOLEAN
    BY <1>1, TopOK, TopAtLevel
  <2>3. FrameOK(g) /\ g.at = "enter" /\ g.level = N /\ g.content = Top.content
    BY <2>1, <2>2, ActivationOK
  <2>4. g.addr = Top.addr /\ g.read = Top.read /\ g.time = HitTime[g.level]
    BY ActivationFields
  <2>5. QED
    BY <2>3, <2>4
<1>5. stack' = Front(stack) \o <<f, g>> /\ ret' = Nothing
  <2>1. [[Top EXCEPT !.time = @ + ret.time] EXCEPT !.at = "again"] = f
    BY <1>2 DEF Frame, Waiting
  <2> HIDE DEF f
  <2>2. QED
    BY <2>1 DEF RefillDone, CallsFrom
<1> HIDE DEF f, g
<1>6. Calls(f, g)
  BY <1>3, <1>4 DEF Calls, Shape
<1>7. QED
  BY <1>3, <1>4, <1>5, <1>6 DEF CallsOut

(* ...which keeps the invariant: the recursive call will hit.              *)
LEMMA RefillDoneKeeps ==
  ASSUME CallInv, RefillDone
  PROVE  CallInv'
<1>1. /\ stack # << >> /\ N \in Levels /\ pc = "running" /\ Top.at = "refill"
      /\ FrameOK(Top) /\ ~ Recursive(Len(stack))
      /\ ret.content \in [Shape(Top) -> Values]
  BY ResumedTop DEF RefillDone
<1>2. /\ Top.block \in BlocksOf(N) /\ Top.block[1] = Index
      /\ ret.content \in Words(NWords(N))
  BY <1>1 DEF FrameOK, N, Index, Shape, Words
<1> DEFINE bs == Touched(Level(N)!Install(blocks[N], Top.block, Tag, ret.content), Top.block)
<1>3. bs \in [BlocksOf(N) -> BlockAt(N)] /\ Level(N)!IsHit(bs, Index, Tag)
  BY <1>1, <1>2, Refilled
<1>4. blocks' = [blocks EXCEPT ![N] = bs]
  BY DEF RefillDone
<1> HIDE DEF bs
<1>5. CachesOK' /\ blocks'[N] = bs
  BY <1>1, <1>3, <1>4, BlocksSet DEF CallInv
<1>6. PICK f, g :
        /\ FrameOK(f) /\ f.level = N /\ f.at = "again" /\ f.content = Top.content
        /\ FrameOK(g) /\ g.at = "enter" /\ g.addr = Top.addr /\ Calls(f, g)
        /\ stack' = Front(stack) \o <<f, g>> /\ ret' = Nothing
  BY RefillDoneCalls DEF CallsOut
<1>7. g.level = N
  BY <1>6 DEF Calls
<1>8. Level(g.level)!IsHit(blocks'[g.level], Level(g.level)!IndexOf(g.addr),
                           Level(g.level)!TagOf(g.addr))
  BY <1>3, <1>5, <1>6, <1>7 DEF Index, Tag
<1>9. UNCHANGED <<pc, req>>
  BY DEF RefillDone, ClientUnchanged
<1>10. stack' \in Seq(Frame) /\ StackInv' /\ RecursionHits' /\ AnswerInv'
  BY <1>1, <1>6, <1>8, <1>9, CallStep
<1>11. /\ memory' \in [MemWords -> Values]
       /\ stats' \in [Levels -> [access_counter : Int, miss_num : Nat, replace_num : Nat]]
  BY DEF RefillDone, CallInv, DataOK
<1>12. QED
  BY <1>5, <1>10, <1>11, StorageStep DEF RefillDone

(* The return of the recursive call keeps the invariant.                   *)
LEMMA AgainDoneKeeps ==
  ASSUME CallInv, AgainDone
  PROVE  CallInv'
<1>1. /\ stack # << >> /\ N \in Levels /\ Top.at = "again" /\ FrameOK(Top)
      /\ ret.content \in [Shape(Top) -> Values]
  BY ResumedTop DEF AgainDone
<1>2. Top.time \in Nat /\ ret.content \in [DOMAIN Top.content -> Values]
  BY <1>1, TopAtLevel DEF Shape
<1>3. Returns(ret.content, Top.time) /\ UNCHANGED <<pc, req>>
  BY DEF AgainDone, ClientUnchanged, TimeOfOuter
<1>4. stack' \in Seq(Frame) /\ StackInv' /\ RecursionHits' /\ AnswerInv'
  BY <1>1, <1>2, <1>3, ReturnStep
<1>5. CachesOK' /\ memory' \in [MemWords -> Values]
  BY DEF AgainDone, CallInv, DataOK, CachesOK
<1>6. stats' \in [Levels -> [access_counter : Int, miss_num : Nat, replace_num : Nat]]
  BY <1>1, CounterType DEF AgainDone, UncountAccess
<1>7. QED
  BY <1>4, <1>5, <1>6, StorageStep DEF AgainDone

-----------------------------------------------------------------------------
(* The steps of the client, and the theorem.                               *)

(* A request of the client keeps the invariant.                            *)
LEMMA CallKeepsInv ==
  ASSUME CallInv, NEW r \in Request, NEW v \in Values, Call(r, v)
  PROVE  CallInv'
<1> DEFINE g(read) == Activation(1, r.addr, read, [i \in {0} |-> v])
           top == g(r.read)
<1>1. r.addr \in Nat /\ r.read \in BOOLEAN
  BY HierarchyAssumption DEF Request
<1>2. FrameOK(top) /\ top.at = "enter" /\ top.level = 1 /\ DOMAIN top.content = 0 .. 0
  <2>1. 1 \in Amounts /\ [i \in {0} |-> v] \in Words(1)
    BY DEF Amounts, Words
  <2>2. WordOf(r.addr) % 1 = 0 /\ (1 \in Levels => NWords(1) % 1 = 0)
    <3>1. WordOf(r.addr) \in Nat
      BY <1>1 DEF WordOf
    <3>2. 1 \in Levels => NWords(1) \in Nat
      BY LevelWords
    <3>3. QED
      BY <3>1, <3>2
  <2>3. 1 \in 1 .. (Depth + 1)
    BY HierarchyAssumption
  <2>4. \A read \in BOOLEAN :
          /\ FrameOK(g(read)) /\ g(read).at = "enter"
          /\ g(read).level = 1 /\ g(read).content = [i \in {0} |-> v]
    BY <1>1, <2>1, <2>2, <2>3, ActivationOK
  <2> HIDE DEF g
  <2>5. /\ FrameOK(g(r.read)) /\ g(r.read).at = "enter"
        /\ g(r.read).level = 1 /\ g(r.read).content = [i \in {0} |-> v]
    BY <1>1, <2>4, Zenon
  <2>6. QED
    BY <2>5
<1>3. stack' = <<top>> /\ stack = << >> /\ ret = Nothing
  BY DEF Call, CallInv, AnswerInv
<1>4. top \in Frame
  BY <1>2 DEF FrameOK
<1> HIDE DEF top, g
<1>5. /\ stack' \in Seq(Frame) /\ Len(stack') = 1 /\ stack'[1] = top
      /\ stack' # << >> /\ Top' = top
  BY <1>3, <1>4 DEF Top, Last
<1>6. ret' = Nothing /\ pc' = "running" /\ req' = r /\ content' = v
  BY <1>3 DEF Call
<1>7. ~ Recursive(1)'
  BY DEF Recursive
<1>8. StackInv'
  BY <1>2, <1>5, <1>6, <1>7 DEF StackInv
<1>9. RecursionHits' /\ AnswerInv'
  BY <1>5, <1>6 DEF RecursionHits, AnswerInv
<1>10. CachesOK'
  BY DEF Call, storeVars, CallInv, CachesOK
<1>11. DataOK'
  BY <1>5, <1>6 DEF Call, storeVars, CallInv, DataOK
<1>12. QED
  BY <1>8, <1>9, <1>10, <1>11 DEF CallInv

(* The call stack of a step that changes neither it nor the blocks.        *)
LEMMA StackUnchanged ==
  ASSUME CallInv, UNCHANGED <<blocks, stack>>,
         stack = << >> \/ ret' = ret
  PROVE  StackInv' /\ RecursionHits' /\ CachesOK'
BY DEF CallInv, StackInv, RecursionHits, CachesOK, Recursive, Top

(* So do the steps that leave the storage alone.                           *)
LEMMA ClientKeepsInv ==
  ASSUME CallInv, WildAccess \/ Deliver \/ Return \/ UNCHANGED vars
  PROVE  CallInv'
<1>1. CASE WildAccess
  <2>1. UNCHANGED <<blocks, stack, ret>>
    BY <1>1 DEF WildAccess, storeVars
  <2>2. AnswerInv'
    BY <1>1 DEF WildAccess, storeVars, CallInv, AnswerInv, Top
  <2>3. DataOK'
    BY <1>1 DEF WildAccess, storeVars, CallInv, DataOK
  <2>4. QED
    BY <2>1, <2>2, <2>3, StackUnchanged DEF CallInv
<1>2. CASE Deliver
  <2>1. /\ UNCHANGED <<blocks, stack, ret>> /\ stack = << >> /\ ret # Nothing
        /\ req \in Request /\ pc' = "served"
    BY <1>2 DEF Deliver, storeVars, CallInv, AnswerInv
  <2>2. AnswerInv'
    BY <2>1 DEF CallInv, AnswerInv
  <2>3. ret.content[0] \in Values
    BY <2>1 DEF CallInv, AnswerInv
  <2>4. latest' \in [Cells -> Values]
    <3>1. latest \in [Cells -> Values] /\ content \in Values
      BY DEF CallInv, DataOK
    <3>2. QED
      BY <1>2, <3>1 DEF Deliver
  <2>5. DataOK'
    BY <1>2, <2>3, <2>4 DEF Deliver, storeVars, CallInv, DataOK
  <2>6. QED
    BY <2>1, <2>2, <2>5, StackUnchanged DEF CallInv
<1>3. CASE Return
  <2>1. /\ UNCHANGED <<blocks, stack>> /\ stack = << >> /\ ret # Nothing
        /\ pc' = "idle" /\ ret' = Nothing
    BY <1>3 DEF Return, storeVars, CallInv, AnswerInv
  <2>2. AnswerInv'
    BY <2>1 DEF AnswerInv
  <2>3. ret.time \in Nat
    BY <2>1 DEF CallInv, AnswerInv
  <2>4. DataOK'
    BY <1>3, <2>3 DEF Return, storeVars, CallInv, DataOK
  <2>5. QED
    BY <2>1, <2>2, <2>4, StackUnchanged DEF CallInv
<1>4. CASE UNCHANGED vars
  <2>1. UNCHANGED <<blocks, stack, ret>>
    BY <1>4 DEF vars, storeVars, callVars
  <2>2. AnswerInv' /\ DataOK'
    BY <1>4 DEF vars, storeVars, callVars, CallInv, AnswerInv, DataOK, Top
  <2>3. QED
    BY <2>1, <2>2, StackUnchanged DEF CallInv
<1>5. QED
  BY <1>1, <1>2, <1>3, <1>4

(* The constructors establish the invariant.                               *)
LEMMA CallInvInit ==
  ASSUME Init
  PROVE  CallInv
<1>1. CachesOK
  <2>1. ASSUME NEW n \in Levels
        PROVE  [valid |-> FALSE, dirty |-> FALSE, tag |-> 0, cnt |-> 0,
                data |-> Blank(NWords(n))] \in BlockAt(n)
    <3>1. 0 \in 0 .. (Geometry[n].associativity - 1)
      BY LevelBlocks
    <3>2. Blank(NWords(n)) \in Words(NWords(n))
      BY BlankWords
    <3>3. QED
      BY <3>1, <3>2 DEF BlockAt
  <2>2. QED
    BY <2>1 DEF Init, CachesOK
<1>2. StackInv /\ RecursionHits /\ AnswerInv
  BY DEF Init, StackInv, RecursionHits, AnswerInv
<1>3. DataOK
  BY HierarchyAssumption DEF Init, DataOK
<1>4. QED
  BY <1>1, <1>2, <1>3 DEF CallInv

(* Every step keeps it.                                                    *)
LEMMA CallInvNext ==
  ASSUME CallInv, [Next]_vars
  PROVE  CallInv'
<1>1. ASSUME NEW r \in Request, NEW v \in Values, Call(r, v) PROVE CallInv'
  BY <1>1, CallKeepsInv
<1>2. CASE MemoryServe BY <1>2, MemoryServeKeeps
<1>3. CASE WildAccess BY <1>3, ClientKeepsInv
<1>4. CASE HitRead BY <1>4, HitReadKeeps
<1>5. CASE HitWriteBack BY <1>5, HitWriteBackKeeps
<1>6. CASE HitWriteThrough BY <1>6, HitWriteThroughKeeps
<1>7. CASE ThroughDone BY <1>7, ThroughDoneKeeps
<1>8. CASE MissWriteAround BY <1>8, MissWriteAroundKeeps
<1>9. CASE AroundDone BY <1>9, AroundDoneKeeps
<1>10. CASE MissEvict BY <1>10, MissEvictKeeps
<1>11. CASE EvictDone BY <1>11, EvictDoneKeeps
<1>12. CASE MissRefill BY <1>12, MissRefillKeeps
<1>13. CASE RefillDone BY <1>13, RefillDoneKeeps
<1>14. CASE AgainDone BY <1>14, AgainDoneKeeps
<1>15. CASE Deliver BY <1>15, ClientKeepsInv
<1>16. CASE Return BY <1>16, ClientKeepsInv
<1>17. CASE Stopped \/ UNCHANGED vars BY <1>17, ClientKeepsInv DEF Stopped
<1>18. QED
  BY <1>1, <1>2, <1>3, <1>4, <1>5, <1>6, <1>7, <1>8, <1>9, <1>10, <1>11, <1>12,
     <1>13, <1>14, <1>15, <1>16, <1>17 DEF Next

(* The call stack of handle_request is sound: what a level asks of the next*)
(* is aligned and lies within one of its blocks, what returns has the shape*)
(* asked for, and the recursive call after a refill always hits.           *)
THEOREM CallStackSound == Spec => []CallInv
<1>1. Init => CallInv
  BY CallInvInit
<1>2. CallInv /\ [Next]_vars => CallInv'
  BY CallInvNext
<1>3. QED
  BY <1>1, <1>2, PTL DEF Spec

(* A stack on which each level occurs at most twice is that deep at most.  *)
LEMMA DepthOfStack ==
  ASSUME CallInv
  PROVE  StackBounded
<1>1. CASE stack = << >>
  BY <1>1, EmptySeq, HierarchyAssumption DEF StackBounded
<1>2. CASE stack # << >>
  <2>1. PICK L \in Nat \ {0} : L = Len(stack) /\ Top = stack[L] /\ N = stack[L].level
    BY <1>2, TopOK DEF N
  <2>2. L <= 2 * N - (IF Recursive(L) THEN 0 ELSE 1)
    BY <2>1 DEF CallInv, StackInv
  <2>3. Depth \in Nat /\ N \in 1 .. (Depth + 1)
    BY <1>2, HierarchyAssumption, TopOK
  <2>4. Recursive(L) => N \in Levels
    <3> SUFFICES ASSUME Recursive(L) PROVE N \in Levels
      OBVIOUS
    <3>1. L > 1 /\ stack[L - 1].at = "again"
      BY DEF Recursive
    <3>2. Calls(stack[L - 1], stack[L]) /\ FrameOK(stack[L - 1])
      BY <2>1, <3>1 DEF CallInv, StackInv
    <3>3. QED
      BY <2>1, <3>1, <3>2 DEF Calls, FrameOK
  <2>5. L <= 2 * Depth + 1
    BY <2>2, <2>3, <2>4 DEF Levels
  <2>6. QED
    BY <2>1, <2>5 DEF StackBounded
<1>3. QED
  BY <1>1, <1>2

(* The call stack of nested misses, write-backs and refills is bounded:    *)
(* each level has at most two activations of handle_request on it, the     *)
(* recursive one having hit.                                               *)
THEOREM StackDepth == Spec => []StackBounded
BY CallStackSound, DepthOfStack, PTL
=============================================================================
