---------------------------- MODULE CacheProofs -----------------------------
(***************************************************************************)
(* Theorems about module Cache, for every geometry, set of addresses and   *)
(* length of the trace.                                                    *)
(***************************************************************************)
EXTENDS Cache, TLAPS, WellFoundedInduction, FiniteSetTheorems

-----------------------------------------------------------------------------
(* Facts about the operators of CacheOps and Memory.                       *)

(* The first way a scan of a nonempty set of ways stops at.                *)
LEMMA MinNat ==
  ASSUME NEW S, S \subseteq Nat, S # {}
  PROVE  Min(S) \in S /\ \A x \in S : Min(S) <= x
<1>1. PICK m \in S : \A x \in S : ~ (<<x, m>> \in OpToRel(<, Nat))
  BY NatLessThanWellFounded, WFMin
<1>2. \A x \in S : ~ (x < m)
  BY <1>1, Zenon DEF OpToRel
<1>3. \A x \in S : m <= x
  BY <1>2
<1>4. QED
  BY <1>3, Zenon DEF Min

(* Way 0 exists, and the ways and sets are numbered.                       *)
LEMMA Geometry ==
  /\ 0 \in Ways
  /\ Ways \subseteq Nat
  /\ BlockNum \in Nat
  /\ SetNum \in Nat
  /\ Sets \subseteq Nat
  /\ Offsets \subseteq Nat
  /\ NWords \in Nat
  /\ Offsets = 0 .. (NWords - 1)
BY GeometryAssumption DEF Ways, BlockNum, SetNum, Sets, Offsets, NWords

(* A hit is a valid block of the set that has the tag.                     *)
LEMMA HitIDIsHit ==
  ASSUME NEW bl, NEW s \in Sets, NEW t, IsHit(bl, s, t)
  PROVE  /\ HitID(bl, s, t) \in Blocks
         /\ HitID(bl, s, t)[1] = s
         /\ HitID(bl, s, t)[2] \in Ways
         /\ bl[HitID(bl, s, t)].valid
         /\ bl[HitID(bl, s, t)].tag = t
<1>1. Min(HitWays(bl, s, t)) \in HitWays(bl, s, t)
  BY Geometry, MinNat DEF IsHit, HitWays
<1>2. QED
  BY <1>1 DEF HitID, HitWays, Blocks

(* The victim is a block; with LRU and sane counters it is a block of the  *)
(* set: an invalid one, or one whose counter no other is below.            *)
LEMMA VictimIsBlock ==
  ASSUME NEW bl, NEW p, NEW s \in Sets
  PROVE  GetReplacementID(bl, p, s) \in Blocks
<1>1. <<0, 0>> \in Blocks
  BY Geometry DEF Sets, Blocks
<1>2. InvalidWays(bl, s) # {} => Min(InvalidWays(bl, s)) \in Ways
  BY Geometry, MinNat DEF InvalidWays
<1>3. LeastCntWays(bl, s) # {} => Min(LeastCntWays(bl, s)) \in Ways
  BY Geometry, MinNat DEF LeastCntWays
<1>4. QED
  BY <1>1, <1>2, <1>3 DEF GetReplacementID, Blocks

LEMMA LRUVictim ==
  ASSUME NEW bl \in [Blocks -> Block], NEW s \in Sets,
         \A i \in Ways : bl[<<s, i>>].valid => bl[<<s, i>>].cnt < CntLimit
  PROVE  LET v == GetReplacementID(bl, "LRU", s)
         IN /\ v \in Blocks
            /\ v[1] = s
            /\ v[2] \in Ways
            /\ bl[v].valid => \A i \in Ways :
                 /\ bl[<<s, i>>].valid
                 /\ bl[v].cnt <= bl[<<s, i>>].cnt
<1>1. CASE InvalidWays(bl, s) # {}
  <2>1. Min(InvalidWays(bl, s)) \in InvalidWays(bl, s)
    BY <1>1, Geometry, MinNat DEF InvalidWays
  <2>2. QED
    BY <1>1, <2>1 DEF GetReplacementID, InvalidWays, Blocks
<1>2. CASE InvalidWays(bl, s) = {}
  <2> DEFINE cnts == {bl[<<s, i>>].cnt : i \in Ways}
  <2>1. \A i \in Ways : bl[<<s, i>>].cnt \in Nat /\ bl[<<s, i>>].valid
    BY <1>2 DEF InvalidWays, Blocks, Block
  <2>2. cnts \subseteq Nat /\ cnts # {}
    BY <2>1, Geometry
  <2>3. Min(cnts) \in cnts /\ \A c \in cnts : Min(cnts) <= c
    BY ONLY <2>2, MinNat
  <2> HIDE DEF cnts
  <2>4. PICK m \in Ways : bl[<<s, m>>].cnt = Min(cnts)
    BY <2>3 DEF cnts
  <2>5. \A j \in Ways : bl[<<s, m>>].cnt <= bl[<<s, j>>].cnt
    <3> TAKE j \in Ways
    <3>1. bl[<<s, j>>].cnt \in cnts
      BY DEF cnts
    <3>2. QED
      BY <2>3, <2>4, <3>1
  <2>6. m \in LeastCntWays(bl, s)
    BY <2>1, <2>5 DEF LeastCntWays
  <2>7. Min(LeastCntWays(bl, s)) \in LeastCntWays(bl, s)
    BY <2>6, Geometry, MinNat DEF LeastCntWays
  <2>8. GetReplacementID(bl, "LRU", s) = <<s, Min(LeastCntWays(bl, s))>>
    BY <1>2, <2>6 DEF GetReplacementID
  <2>9. QED
    BY <2>1, <2>7, <2>8 DEF LeastCntWays, Blocks
<1>3. QED
  BY <1>1, <1>2

(* update_replacement and get_missed_block only put blocks in blocks.      *)
LEMMA UpdateReplacementType ==
  ASSUME NEW bl \in [Blocks -> Block], NEW p, NEW s \in Sets, NEW v \in Blocks
  PROVE  UpdateReplacement(bl, p, s, v) \in [Blocks -> Block]
<1>1. \A b \in Blocks : [bl[b] EXCEPT !.cnt = Associativity - 1] \in Block
  <2>1. Associativity - 1 \in Nat
    BY GeometryAssumption
  <2>2. \A x \in Block, n \in Nat : [x EXCEPT !.cnt = n] \in Block
    BY DEF Block
  <2>3. QED
    BY <2>1, <2>2
<1>2. \A b \in Blocks : [bl[b] EXCEPT !.cnt = IF @ = 0 THEN 0 ELSE @ - 1] \in Block
  BY DEF Block
<1>3. CASE p # "LRU"
  BY <1>3 DEF UpdateReplacement
<1>4. CASE p = "LRU"
  <2> DEFINE nb(b) == IF b[1] # s THEN bl[b]
                      ELSE IF b = v THEN [bl[b] EXCEPT !.cnt = Associativity - 1]
                      ELSE [bl[b] EXCEPT !.cnt = IF @ = 0 THEN 0 ELSE @ - 1]
  <2>1. \A b \in Blocks : nb(b) \in Block
    BY <1>1, <1>2
  <2>2. UpdateReplacement(bl, p, s, v) = [b \in Blocks |-> nb(b)]
    BY <1>4 DEF UpdateReplacement
  <2> HIDE DEF nb
  <2>3. QED
    BY <2>1, <2>2
<1>5. QED
  BY <1>3, <1>4

LEMMA InstallType ==
  ASSUME NEW bl \in [Blocks -> Block], NEW v \in Blocks, NEW t \in Tags,
         NEW d \in [Offsets -> Values]
  PROVE  Install(bl, v, t, d) \in [Blocks -> Block]
BY DEF Install, Block

(* The counters update_replacement leaves, and all it leaves alone.        *)
LEMMA UpdateReplacementEffect ==
  ASSUME NEW bl \in [Blocks -> Block], NEW s \in Sets, NEW v \in Blocks,
         v[1] = s, NEW p, NEW b \in Blocks
  PROVE  LET nb == UpdateReplacement(bl, p, s, v)
         IN /\ nb[b].valid = bl[b].valid
            /\ nb[b].dirty = bl[b].dirty
            /\ nb[b].tag = bl[b].tag
            /\ nb[b].data = bl[b].data
            /\ p = "LRU" => nb[b].cnt = IF b[1] # s THEN bl[b].cnt
                                       ELSE IF b = v THEN Associativity - 1
                                       ELSE IF bl[b].cnt = 0 THEN 0
                                       ELSE bl[b].cnt - 1
BY DEF UpdateReplacement, Block

(* A write of words keeps the array an array.                              *)
LEMMA WriteWordsType ==
  ASSUME NEW W, NEW mem \in [W -> Values], NEW a, NEW n,
         NEW c \in [0 .. n -> Values]
  PROVE  WriteWords(mem, a, c) \in [W -> Values]
BY DEF WriteWords

-----------------------------------------------------------------------------
(* Type correctness.                                                       *)

(* What the parsed request is, while a request is in progress.             *)
LEMMA ParsedType ==
  ASSUME TypeOK, pc \in {"lookup", "return"}
  PROVE  /\ req \in Request
         /\ req.addr \in Addrs
         /\ req.words \in {0, 1}
         /\ req.read \in BOOLEAN
         /\ req.read => req.words = 1
         /\ Index \in Sets
         /\ Offset \in Offsets
         /\ Tag \in Tags
         /\ CellOf(req.addr) \in Cells
         /\ <<Tag, Index>> \in Lines
         /\ Payload \in [0 .. (req.words - 1) -> Values]
<1>1. req \in Request
  BY DEF TypeOK
<1>2. /\ req.addr \in Addrs
      /\ req.words \in {0, 1}
      /\ req.read \in BOOLEAN
      /\ req.read => req.words = 1
  BY <1>1 DEF Request
<1>3. /\ Index \in Sets
      /\ Offset \in Offsets
      /\ Tag \in Tags
  BY <1>2, AddrAssumption DEF Index, Offset, Tag, Tags
<1>4. CellOf(req.addr) \in Cells
  BY <1>2 DEF Cells
<1>5. Payload \in [0 .. (req.words - 1) -> Values]
  BY <1>2 DEF Payload, TypeOK
<1>6. QED
  BY <1>1, <1>2, <1>3, <1>4, <1>5 DEF Lines

(* A hit leaves blocks in blocks.                                          *)
LEMMA AfterHitType ==
  ASSUME TypeOK, pc = "lookup", NEW b \in Blocks
  PROVE  AfterHit(b) \in [Blocks -> Block]
<1>1. /\ blocks[b] \in Block
      /\ blocks \in [Blocks -> Block]
      /\ content \in Values
      /\ cc.write_through \in BOOLEAN
  BY ConfigAssumption DEF TypeOK
<1>2. Offset \in Offsets /\ req.read \in BOOLEAN /\ Index \in Sets
  BY ParsedType
<1>3. [blocks[b].data EXCEPT ![Offset] = content] \in [Offsets -> Values]
  BY <1>1, <1>2 DEF Block
<1>4. \A d \in [Offsets -> Values], q \in BOOLEAN :
        [blocks EXCEPT ![b] = [blocks[b] EXCEPT !.data = d, !.dirty = q]]
          \in [Blocks -> Block]
  BY <1>1 DEF Block
<1>5. blocks[b].data \in [Offsets -> Values] /\ blocks[b].dirty \in BOOLEAN
  BY <1>1 DEF Block
<1>6. QED
  BY <1>1, <1>2, <1>3, <1>4, <1>5, UpdateReplacementType, Zenon DEF AfterHit

(* evict_block and the refill that follows, when both stay in the array.   *)
LEMMA RefillType ==
  ASSUME TypeOK, pc = "lookup", RefillInArray
  PROVE  /\ Victim \in Blocks
         /\ EvictBlock(Victim) \in [MemWords -> Values]
         /\ ReadWords(EvictBlock(Victim), BlockAddr(Tag, Index), NWords)
              \in [Offsets -> Values]
<1>1. /\ blocks \in [Blocks -> Block]
      /\ memory \in [MemWords -> Values]
      /\ Index \in Sets
  BY ParsedType DEF TypeOK
<1>2. Victim \in Blocks
  BY <1>1, VictimIsBlock DEF Victim
<1>3. blocks[Victim].data \in [0 .. (NWords - 1) -> Values]
  BY <1>1, <1>2, Geometry DEF Block
<1>4. EvictBlock(Victim) \in [MemWords -> Values]
  BY <1>1, <1>3, WriteWordsType DEF EvictBlock
<1>5. \A k \in Offsets : WordOf(BlockAddr(Tag, Index)) + k \in MemWords
  BY <1>1, Geometry DEF RefillInArray, InArray
<1>6. QED
  BY <1>2, <1>4, <1>5, Geometry DEF ReadWords

(* The statistics and the ages stay numbers.                               *)
Stats == [access_counter : Int, miss_num : Nat, replace_num : Nat]

LEMMA CountAccessType ==
  ASSUME TypeOK, NEW m \in {0, 1}, NEW n \in {0, 1}, CountAccess(m, n)
  PROVE  stats' \in Stats
BY DEF CountAccess, Stats, TypeOK

LEMMA AgedType ==
  ASSUME TypeOK, NEW s, NEW b
  PROVE  Aged(s, b) \in [Blocks -> Nat]
BY DEF Aged, TypeOK

LEMMA TypeOKInit == Init => TypeOK
<1> SUFFICES ASSUME Init PROVE TypeOK
  OBVIOUS
<1>1. blocks \in [Blocks -> Block]
  <2>1. PICK g \in [Blocks -> Garbage] :
          blocks = [b \in Blocks |->
                      [valid |-> FALSE, dirty |-> FALSE, tag |-> 0,
                       cnt |-> g[b], data |-> [k \in Offsets |-> Zero]]]
    BY DEF Init
  <2>2. \A b \in Blocks : g[b] \in Nat
    BY ConfigAssumption
  <2>3. [k \in Offsets |-> Zero] \in [Offsets -> Values] /\ 0 \in Tags
    BY ConfigAssumption DEF Tags
  <2>4. QED
    BY <2>1, <2>2, <2>3 DEF Block
<1>2. QED
  BY <1>1, ConfigAssumption DEF Init, TypeOK

LEMMA TypeOKNext == TypeOK /\ [Next]_vars => TypeOK'
<1> SUFFICES ASSUME TypeOK, [Next]_vars PROVE TypeOK'
  OBVIOUS
<1> USE DEF TypeOK, cacheVars
<1>1. ASSUME NEW r \in Request, NEW v \in Values, Call(r, v) PROVE TypeOK'
  BY <1>1, ConfigAssumption DEF Call
<1>2. CASE HitRead
  <2>1. HitID(blocks, Index, Tag) \in Blocks
    BY <1>2, ParsedType, HitIDIsHit DEF HitRead, Hit
  <2>2. blocks' \in [Blocks -> Block]
    BY <1>2, <2>1, AfterHitType DEF HitRead
  <2>3. content' \in Values
    BY <1>2, <2>1, ParsedType DEF HitRead, Block
  <2>4. stats' \in Stats /\ age' \in [Blocks -> Nat]
    BY <1>2, CountAccessType, AgedType DEF HitRead
  <2>5. QED
    BY <1>2, <2>2, <2>3, <2>4 DEF HitRead, Stats
<1>3. CASE HitWriteBack
  <2>1. HitID(blocks, Index, Tag) \in Blocks
    BY <1>3, ParsedType, HitIDIsHit DEF HitWriteBack, Hit
  <2>2. blocks' \in [Blocks -> Block]
    BY <1>3, <2>1, AfterHitType DEF HitWriteBack
  <2>3. latest' \in [Cells -> Values]
    BY <1>3, ParsedType DEF HitWriteBack, Written
  <2>4. stats' \in Stats /\ age' \in [Blocks -> Nat]
    BY <1>3, CountAccessType, AgedType DEF HitWriteBack
  <2>5. QED
    BY <1>3, <2>2, <2>3, <2>4 DEF HitWriteBack, Stats
<1>4. CASE HitWriteThrough
  <2>1. HitID(blocks, Index, Tag) \in Blocks
    BY <1>4, ParsedType, HitIDIsHit DEF HitWriteThrough, Hit
  <2>2. blocks' \in [Blocks -> Block]
    BY <1>4, <2>1, AfterHitType DEF HitWriteThrough
  <2>3. latest' \in [Cells -> Values]
    BY <1>4, ParsedType DEF HitWriteThrough, Written
  <2>4. memory' \in [MemWords -> Values]
    BY <1>4, ParsedType, WriteWordsType DEF HitWriteThrough
  <2>5. stats' \in Stats /\ age' \in [Blocks -> Nat]
    BY <1>4, CountAccessType, AgedType DEF HitWriteThrough
  <2>6. QED
    BY <1>4, <2>2, <2>3, <2>4, <2>5 DEF HitWriteThrough, Stats
<1>5. CASE MissWriteAround
  <2>1. latest' \in [Cells -> Values]
    BY <1>5, ParsedType DEF MissWriteAround, Written
  <2>2. memory' \in [MemWords -> Values]
    BY <1>5, ParsedType, WriteWordsType DEF MissWriteAround
  <2>3. stats' \in Stats
    BY <1>5, CountAccessType DEF MissWriteAround
  <2>4. QED
    BY <1>5, <2>1, <2>2, <2>3 DEF MissWriteAround, Stats
<1>6. CASE MissRefill
  <2> DEFINE b == Victim
             data == ReadWords(EvictBlock(b), BlockAddr(Tag, Index), NWords)
             wb == IF NeedsWriteBack(b) THEN 1 ELSE 0
  <2>1. /\ pc = "lookup" /\ RefillInArray
        /\ Index \in Sets /\ Tag \in Tags
    BY <1>6, ParsedType DEF MissRefill
  <2>2. /\ b \in Blocks
        /\ EvictBlock(b) \in [MemWords -> Values]
        /\ data \in [Offsets -> Values]
    BY <2>1, RefillType
  <2>3. blocks' = UpdateReplacement(Install(blocks, b, Tag, data),
                                    cc.r_policy, Index, b)
    BY <1>6 DEF MissRefill
  <2>4. memory' = EvictBlock(b) /\ age' = Aged(Index, b)
    BY <1>6 DEF MissRefill
  <2>5. wb \in {0, 1} /\ CountAccess(1, wb)
    BY <1>6 DEF MissRefill
  <2>6. time' = IF depth = 0 THEN time + RefillTime(wb) ELSE time
    BY <1>6 DEF MissRefill
  <2>7. time' \in Nat
    BY <2>5, <2>6, ConfigAssumption DEF RefillTime
  <2>8. /\ depth' = depth + 1
        /\ UNCHANGED <<cc, pc, req, content, total_time, requests, latest>>
    BY <1>6 DEF MissRefill
  <2> HIDE DEF b, data, wb
  <2>9. blocks' \in [Blocks -> Block]
    BY <2>1, <2>2, <2>3, InstallType, UpdateReplacementType
  <2>10. stats' \in Stats /\ age' \in [Blocks -> Nat]
    BY <2>4, <2>5, CountAccessType, AgedType
  <2>11. QED
    BY <2>1, <2>2, <2>4, <2>7, <2>8, <2>9, <2>10 DEF Stats
<1>7. CASE WildAccess
  BY <1>7 DEF WildAccess
<1>8. CASE StackOverflow
  BY <1>8 DEF StackOverflow
<1>9. CASE ReturnInner
  BY <1>9 DEF ReturnInner, UncountAccess
<1>10. CASE Return
  BY <1>10 DEF Return
<1>11. CASE UNCHANGED vars
  BY <1>11 DEF vars, callVars
<1>12. QED
  BY <1>1, <1>2, <1>3, <1>4, <1>5, <1>6, <1>7, <1>8, <1>9, <1>10, <1>11
     DEF Next, Handle, Stopped

(* Cache, memory, counters and the call in progress keep their types: every*)
(* blockID that hit_or_miss or get_replacementID returns is a block, every *)
(* refill fills a block.                                                   *)
THEOREM TypeCorrect == Spec => []TypeOK
BY TypeOKInit, TypeOKNext, PTL DEF Spec

-----------------------------------------------------------------------------
(* The array's end.                                                        *)

LEMMA LinesInArray ==
  ASSUME AddressesInArray, TypeOK, NEW l \in Lines
  PROVE  InArray(memory, BlockAddr(l[1], l[2]), NWords)
<1>1. \A k \in Offsets : WordOf(BlockAddr(l[1], l[2])) + k \in MemWords
  BY DEF AddressesInArray, LineWord, MemWords
<1>2. QED
  BY <1>1, Geometry DEF InArray, TypeOK

LEMMA NotWild ==
  ASSUME AddressesInArray, TypeOK
  PROVE  ~ WildAccess
<1> SUFFICES ASSUME WildAccess PROVE FALSE
  OBVIOUS
<1>1. /\ pc = "lookup"
      /\ req.addr \in Addrs /\ req.words \in {0, 1}
      /\ Tag \in Tags /\ Index \in Sets /\ <<Tag, Index>> \in Lines
  BY ParsedType DEF WildAccess
<1>2. RefillInArray
  <2>1. Victim \in Blocks /\ blocks \in [Blocks -> Block]
    BY <1>1, VictimIsBlock DEF Victim, TypeOK
  <2>2. <<blocks[Victim].tag, Index>> \in Lines
    BY <1>1, <2>1 DEF Lines, Block
  <2>3. InArray(memory, BlockAddr(blocks[Victim].tag, Index), NWords)
    BY <2>2, LinesInArray
  <2>4. InArray(memory, BlockAddr(Tag, Index), NWords)
    BY <1>1, LinesInArray
  <2>5. QED
    BY <2>3, <2>4 DEF RefillInArray
<1>3. InArray(memory, req.addr, req.words)
  <2>1. WordOf(req.addr) \in MemWords /\ WordOf(req.addr) \in Nat
    BY <1>1, AddrAssumption DEF AddressesInArray, MemWords
  <2>2. \A i \in 0 .. (req.words - 1) : WordOf(req.addr) + i = WordOf(req.addr)
    BY <1>1, <2>1
  <2>3. QED
    BY <2>1, <2>2 DEF InArray, TypeOK
<1>4. QED
  BY <1>2, <1>3 DEF WildAccess

(* Whatever the policies, a refill and a write-back stay in the array when *)
(* the requests' lines do.                                                 *)
THEOREM AccessesStayInArray == Spec => []StaysInArray
<1>1. Init => StaysInArray
  BY DEF Init, StaysInArray
<1>2. TypeOK /\ StaysInArray /\ [Next]_vars => StaysInArray'
  <2> SUFFICES ASSUME TypeOK, AddressesInArray, pc # "wild", [Next]_vars
               PROVE  pc' # "wild"
    BY DEF StaysInArray, AddressesInArray
  <2>1. ~ WildAccess
    BY NotWild
  <2>2. QED
    BY <2>1 DEF Next, Handle, Stopped, vars, callVars, Call, HitRead, HitWriteBack,
       HitWriteThrough, MissWriteAround, MissRefill, StackOverflow, ReturnInner, Return
<1>3. QED
  BY <1>1, <1>2, TypeCorrect, PTL DEF Spec

-----------------------------------------------------------------------------
(* Replacement.  The counters follow the ages (CntIsAge), but they follow  *)
(* them only because no two blocks of a set have the same age; and a refill*)
(* must leave the block it was for where the recursive call looks for it.  *)

(* No two valid blocks of a set were touched last at the same time.        *)
AgesDistinct ==
  cc.r_policy = "LRU" => \A b, c \in Blocks :
    /\ b[1] = c[1] /\ b # c
    /\ blocks[b].valid /\ blocks[c].valid
    => age[b] # age[c]

(* The recursive call, and only it, finds what the refill put there.       *)
RecursionHits ==
  cc.r_policy = "LRU" =>
    /\ depth \in {0, 1}
    /\ pc = "lookup" /\ depth = 1 => Hit

ReplacementInv == TypeOK /\ TagsUnique /\ CntIsAge /\ AgesDistinct /\ RecursionHits

(* Touching block v of the set, after v may have been given another tag    *)
(* that no other valid block of the set has.                               *)
LEMMA Touch ==
  ASSUME ReplacementInv, cc.r_policy = "LRU", UNCHANGED cc,
         Index \in Sets, NEW v \in Blocks, v[1] = Index,
         NEW bl \in [Blocks -> Block],
         \A b \in Blocks \ {v} : bl[b] = blocks[b],
         \A b \in Blocks \ {v} :
           b[1] = Index /\ blocks[b].valid => blocks[b].tag # bl[v].tag,
         blocks' = UpdateReplacement(bl, cc.r_policy, Index, v),
         age' = Aged(Index, v)
  PROVE  TagsUnique' /\ CntIsAge' /\ AgesDistinct'
<1>1. \A b \in Blocks :
        /\ blocks'[b].valid = bl[b].valid
        /\ blocks'[b].tag = bl[b].tag
        /\ blocks'[b].cnt = IF b[1] # Index THEN bl[b].cnt
                            ELSE IF b = v THEN Associativity - 1
                            ELSE IF bl[b].cnt = 0 THEN 0
                            ELSE bl[b].cnt - 1
  BY UpdateReplacementEffect
<1>2. \A b \in Blocks : age'[b] = IF b = v THEN 0
                                  ELSE IF b[1] = Index THEN age[b] + 1 ELSE age[b]
  BY DEF Aged
<1>3. \A b \in Blocks : age[b] \in Nat /\ bl[b].cnt \in Nat /\ bl[b] \in Block
  BY DEF ReplacementInv, TypeOK, Block
<1>4. Associativity \in Nat \ {0}
  BY GeometryAssumption
<1>5. TagsUnique'
  <2> SUFFICES ASSUME NEW s \in Sets, NEW i \in Ways, NEW j \in Ways,
                      blocks'[<<s, i>>].valid, blocks'[<<s, j>>].valid,
                      blocks'[<<s, i>>].tag = blocks'[<<s, j>>].tag
               PROVE  i = j
    BY DEF TagsUnique
  <2>1. <<s, i>> \in Blocks /\ <<s, j>> \in Blocks
    BY DEF Blocks
  <2>2. /\ bl[<<s, i>>].valid /\ bl[<<s, j>>].valid
        /\ bl[<<s, i>>].tag = bl[<<s, j>>].tag
    BY <1>1, <2>1
  <2>3. CASE <<s, i>> # v /\ <<s, j>> # v
    BY <2>1, <2>2, <2>3 DEF ReplacementInv, TagsUnique
  <2>4. CASE <<s, i>> = v /\ <<s, j>> # v
    BY <2>1, <2>2, <2>4
  <2>5. CASE <<s, i>> # v /\ <<s, j>> = v
    BY <2>1, <2>2, <2>5
  <2>6. CASE <<s, i>> = v /\ <<s, j>> = v
    BY <2>6
  <2>7. QED
    BY <2>3, <2>4, <2>5, <2>6
<1>6. CntIsAge'
  <2> SUFFICES ASSUME NEW b \in Blocks, blocks'[b].valid
               PROVE  blocks'[b].cnt = IF age'[b] >= Associativity - 1
                                         THEN 0 ELSE Associativity - 1 - age'[b]
    BY DEF CntIsAge
  <2>1. CASE b = v
    BY <1>1, <1>2, <1>4, <2>1
  <2>2. CASE b # v
    <3>1. bl[b] = blocks[b] /\ blocks[b].valid
      BY <1>1, <2>2
    <3>2. blocks[b].cnt = IF age[b] >= Associativity - 1
                            THEN 0 ELSE Associativity - 1 - age[b]
      BY <3>1 DEF ReplacementInv, CntIsAge
    <3>3. QED
      BY <1>1, <1>2, <1>3, <1>4, <2>2, <3>1, <3>2
  <2>3. QED
    BY <2>1, <2>2
<1>7. AgesDistinct'
  <2> SUFFICES ASSUME NEW b \in Blocks, NEW c \in Blocks,
                      b[1] = c[1], b # c,
                      blocks'[b].valid, blocks'[c].valid
               PROVE  age'[b] # age'[c]
    BY DEF AgesDistinct
  <2>1. CASE b = v \/ c = v
    BY <1>2, <1>3, <2>1
  <2>2. CASE b # v /\ c # v
    <3>1. blocks[b].valid /\ blocks[c].valid
      BY <1>1, <2>2
    <3>2. age[b] # age[c]
      BY <3>1 DEF ReplacementInv, AgesDistinct
    <3>3. QED
      BY <1>2, <1>3, <2>2, <3>2
  <2>3. QED
    BY <2>1, <2>2
<1>8. QED
  BY <1>5, <1>6, <1>7

(* What a hit does to the replacement state.                               *)
LEMMA HitTouches ==
  ASSUME ReplacementInv, pc = "lookup", Hit, UNCHANGED cc,
         blocks' = AfterHit(HitID(blocks, Index, Tag)),
         age' = Aged(Index, HitID(blocks, Index, Tag))
  PROVE  /\ TagsUnique' /\ CntIsAge' /\ AgesDistinct'
         /\ \A b \in Blocks : blocks'[b].tag = blocks[b].tag
<1> DEFINE v == HitID(blocks, Index, Tag)
           block == blocks[v]
           data == IF req.read \/ req.words = 0 THEN block.data
                   ELSE [block.data EXCEPT ![Offset] = content]
           dirty == block.dirty \/ (~ req.read /\ ~ cc.write_through)
           bl == [blocks EXCEPT ![v] = [block EXCEPT !.data = data,
                                                     !.dirty = dirty]]
<1>1. /\ Index \in Sets /\ Offset \in Offsets
      /\ req.read \in BOOLEAN
      /\ blocks \in [Blocks -> Block]
      /\ content \in Values
      /\ cc.write_through \in BOOLEAN
  BY ParsedType, ConfigAssumption DEF ReplacementInv, TypeOK
<1>2. v \in Blocks /\ v[1] = Index /\ v[2] \in Ways /\ block.valid /\ block.tag = Tag
  BY <1>1, HitIDIsHit DEF Hit
<1>3. block \in Block
  BY <1>1, <1>2
<1>4. data \in [Offsets -> Values] /\ dirty \in BOOLEAN
  BY <1>1, <1>3 DEF Block
<1>5. blocks' = UpdateReplacement(bl, cc.r_policy, Index, v)
  BY DEF AfterHit
<1> HIDE DEF data, dirty
<1>6. /\ bl \in [Blocks -> Block]
      /\ \A b \in Blocks \ {v} : bl[b] = blocks[b]
      /\ bl[v].tag = Tag
      /\ \A b \in Blocks : bl[b].tag = blocks[b].tag
  BY <1>1, <1>2, <1>3, <1>4 DEF Block
<1> HIDE DEF v, block, bl
<1>7. \A b \in Blocks : blocks'[b].tag = blocks[b].tag
  BY <1>1, <1>2, <1>5, <1>6, UpdateReplacementEffect
<1>8. CASE cc.r_policy # "LRU"
  BY <1>7, <1>8 DEF TagsUnique, CntIsAge, AgesDistinct
<1>9. CASE cc.r_policy = "LRU"
  <2>1. ASSUME NEW b \in Blocks \ {v}, b[1] = Index, blocks[b].valid
        PROVE  blocks[b].tag # bl[v].tag
    <3>1. b = <<Index, b[2]>> /\ b[2] \in Ways /\ v = <<Index, v[2]>>
      BY <1>2, <2>1 DEF Blocks
    <3>2. blocks[v].valid /\ blocks[v].tag = Tag
      BY <1>2 DEF block
    <3>3. QED
      BY <1>1, <1>2, <1>6, <1>9, <2>1, <3>1, <3>2 DEF ReplacementInv, TagsUnique
  <2>2. age' = Aged(Index, v)
    BY DEF v
  <2>3. QED
    BY <1>1, <1>2, <1>5, <1>6, <1>7, <1>9, <2>1, <2>2, Touch
<1>10. QED
  BY <1>8, <1>9

(* With LRU the victim is a block of the set of the request.               *)
LEMMA VictimInSet ==
  ASSUME ReplacementInv, pc = "lookup", cc.r_policy = "LRU"
  PROVE  /\ Victim \in Blocks
         /\ Victim[1] = Index
         /\ Victim[2] \in Ways
         /\ blocks[Victim].valid => \A i \in Ways :
              /\ blocks[<<Index, i>>].valid
              /\ blocks[Victim].cnt <= blocks[<<Index, i>>].cnt
<1>1. Index \in Sets /\ blocks \in [Blocks -> Block] /\ age \in [Blocks -> Nat]
  BY ParsedType DEF ReplacementInv, TypeOK
<1>2. ASSUME NEW i \in Ways, blocks[<<Index, i>>].valid
      PROVE  blocks[<<Index, i>>].cnt < CntLimit
  <2>1. <<Index, i>> \in Blocks
    BY <1>1 DEF Blocks
  <2>2. blocks[<<Index, i>>].cnt <= Associativity - 1
    BY <1>1, <1>2, <2>1, GeometryAssumption DEF ReplacementInv, CntIsAge
  <2>3. blocks[<<Index, i>>].cnt \in Nat
    BY <1>1, <2>1 DEF Block
  <2>4. QED
    BY <2>2, <2>3, GeometryAssumption, ConfigAssumption DEF CntLimit
<1>3. QED
  BY <1>1, <1>2, LRUVictim DEF Victim

(* What a refill does to the replacement state.                            *)
LEMMA RefillTouches ==
  ASSUME ReplacementInv, MissRefill, cc.r_policy = "LRU"
  PROVE  /\ TagsUnique' /\ CntIsAge' /\ AgesDistinct'
         /\ Hit'
         /\ \A b \in Blocks \ {Victim} : blocks'[b].tag = blocks[b].tag
<1> DEFINE v == Victim
           data == ReadWords(EvictBlock(v), BlockAddr(Tag, Index), NWords)
           bl == Install(blocks, v, Tag, data)
<1>1. /\ pc = "lookup" /\ ~ Hit /\ RefillInArray
      /\ blocks' = UpdateReplacement(bl, cc.r_policy, Index, v)
      /\ age' = Aged(Index, v)
      /\ UNCHANGED <<cc, req>>
  BY DEF MissRefill, Refills
<1>2. /\ Index \in Sets /\ Tag \in Tags /\ blocks \in [Blocks -> Block]
      /\ data \in [Offsets -> Values]
  BY <1>1, ParsedType, RefillType DEF ReplacementInv, TypeOK
<1>3. v \in Blocks /\ v[1] = Index /\ v[2] \in Ways
  BY <1>1, VictimInSet
<1> HIDE DEF v, data
<1>4. /\ bl \in [Blocks -> Block]
      /\ \A b \in Blocks \ {v} : bl[b] = blocks[b]
      /\ bl[v].tag = Tag /\ bl[v].valid
  BY <1>2, <1>3, InstallType DEF Install
<1>5. ASSUME NEW b \in Blocks \ {v}, b[1] = Index, blocks[b].valid
      PROVE  blocks[b].tag # bl[v].tag
  <2>1. b = <<Index, b[2]>> /\ b[2] \in Ways
    BY <1>5 DEF Blocks
  <2>2. QED
    BY <1>1, <1>4, <1>5, <2>1 DEF Hit, IsHit, HitWays
<1> HIDE DEF bl
<1>6. TagsUnique' /\ CntIsAge' /\ AgesDistinct'
  BY <1>1, <1>2, <1>3, <1>4, <1>5, Touch
<1>7. \A b \in Blocks : blocks'[b].tag = bl[b].tag /\ blocks'[b].valid = bl[b].valid
  BY <1>1, <1>2, <1>3, <1>4, UpdateReplacementEffect
<1>8. Tag' = Tag /\ Index' = Index
  BY <1>1 DEF Tag, Index
<1>9. v = <<Index, v[2]>>
  BY <1>3 DEF Blocks
<1>10. v[2] \in HitWays(blocks', Index, Tag)
  BY <1>3, <1>4, <1>7, <1>9 DEF HitWays
<1>11. Hit'
  BY <1>8, <1>10 DEF Hit, IsHit
<1>12. QED
  BY <1>4, <1>6, <1>7, <1>11 DEF v

LEMMA ReplacementInit == Init => ReplacementInv
<1> SUFFICES ASSUME Init PROVE ReplacementInv
  OBVIOUS
<1>1. \A b \in Blocks : ~ blocks[b].valid
  BY DEF Init
<1>2. \A s \in Sets, i \in Ways : ~ blocks[<<s, i>>].valid
  BY <1>1 DEF Blocks
<1>3. depth = 0 /\ pc = "idle"
  BY DEF Init
<1>4. TypeOK
  BY TypeOKInit
<1>5. QED
  BY <1>1, <1>2, <1>3, <1>4
     DEF ReplacementInv, TagsUnique, CntIsAge, AgesDistinct, RecursionHits

LEMMA ReplacementNext == ReplacementInv /\ [Next]_vars => ReplacementInv'
<1> SUFFICES ASSUME ReplacementInv, [Next]_vars PROVE ReplacementInv'
  OBVIOUS
<1>1. TypeOK'
  BY TypeOKNext DEF ReplacementInv
<1> SUFFICES (TagsUnique /\ CntIsAge /\ AgesDistinct /\ RecursionHits)'
  BY <1>1 DEF ReplacementInv
<1>2. ASSUME UNCHANGED <<cc, blocks, age>>
      PROVE  TagsUnique' /\ CntIsAge' /\ AgesDistinct'
  BY <1>2 DEF ReplacementInv, TagsUnique, CntIsAge, AgesDistinct
<1>3. ASSUME UNCHANGED <<cc, depth>>, pc' # "lookup"
      PROVE  RecursionHits'
  BY <1>3 DEF ReplacementInv, RecursionHits
<1>4. ASSUME NEW r \in Request, NEW v \in Values, Call(r, v)
      PROVE  (TagsUnique /\ CntIsAge /\ AgesDistinct /\ RecursionHits)'
  BY <1>2, <1>4 DEF Call, RecursionHits, cacheVars
<1>5. CASE HitRead
  BY <1>3, <1>5, HitTouches DEF HitRead
<1>6. CASE HitWriteBack
  BY <1>3, <1>6, HitTouches DEF HitWriteBack
<1>7. CASE HitWriteThrough
  BY <1>3, <1>7, HitTouches DEF HitWriteThrough
<1>8. CASE MissWriteAround
  BY <1>2, <1>3, <1>8 DEF MissWriteAround
<1>9. CASE MissRefill
  <2>1. CASE cc.r_policy = "LRU"
    <3>1. TagsUnique' /\ CntIsAge' /\ AgesDistinct' /\ Hit'
      BY <1>9, <2>1, RefillTouches
    <3>2. depth = 0 /\ depth' = depth + 1
      BY <1>9, <2>1 DEF ReplacementInv, RecursionHits, MissRefill, Refills
    <3>3. QED
      BY <3>1, <3>2 DEF RecursionHits
  <2>2. CASE cc.r_policy # "LRU"
    BY <1>9, <2>2 DEF MissRefill, TagsUnique, CntIsAge, AgesDistinct, RecursionHits
  <2>3. QED
    BY <2>1, <2>2
<1>10. CASE WildAccess
  BY <1>2, <1>3, <1>10 DEF WildAccess, cacheVars
<1>11. CASE StackOverflow
  BY <1>2, <1>3, <1>11 DEF StackOverflow, cacheVars
<1>12. CASE ReturnInner
  <2>1. depth \in Nat
    BY DEF ReplacementInv, TypeOK
  <2>2. QED
    BY <1>2, <1>12, <2>1 DEF ReturnInner, ReplacementInv, RecursionHits
<1>13. CASE Return
  BY <1>2, <1>3, <1>13 DEF Return, cacheVars
<1>14. CASE UNCHANGED vars
  <2>1. UNCHANGED <<cc, blocks, age, pc, depth, req>>
    BY <1>14 DEF vars, cacheVars, callVars
  <2>2. UNCHANGED Hit
    BY <2>1 DEF Hit, Index, Tag
  <2>3. QED
    BY <1>2, <2>1, <2>2 DEF ReplacementInv, RecursionHits
<1>15. QED
  BY <1>4, <1>5, <1>6, <1>7, <1>8, <1>9, <1>10, <1>11, <1>12, <1>13, <1>14
     DEF Next, Handle, Stopped

LEMMA ReplacementCorrect == Spec => []ReplacementInv
BY ReplacementInit, ReplacementNext, PTL DEF Spec

(* No set ever holds two copies of a block, for every geometry and policy  *)
(* of writing: hit_or_miss may stop at the first match.                    *)
THEOREM NoDuplicates == Spec => []TagsUnique
BY ReplacementCorrect, PTL DEF ReplacementInv

(* The replacement counters are the ages they stand for, saturated: what   *)
(* update_replacement keeps up through hits and refills.                   *)
THEOREM CountersAreAges == Spec => []CntIsAge
BY ReplacementCorrect, PTL DEF ReplacementInv

(* handle_request calls itself at most once per request under LRU: the     *)
(* call that follows a refill finds the block.                             *)
THEOREM BoundedRecursion == Spec => []RecursionBounded
<1>1. ReplacementInv => RecursionBounded
  BY DEF ReplacementInv, RecursionHits, RecursionBounded
<1>2. QED
  BY ReplacementCorrect, <1>1, PTL

(* In a full set of blocks whose ages differ, one whose counter is the     *)
(* least is older than all but associativity - 1 touches.                  *)
LEMMA LeastCounterIsOld ==
  ASSUME ReplacementInv, cc.r_policy = "LRU", NEW v \in Blocks,
         blocks[v].valid,
         \A i \in Ways : /\ blocks[<<v[1], i>>].valid
                         /\ blocks[v].cnt <= blocks[<<v[1], i>>].cnt
  PROVE  age[v] >= Associativity - 1
<1> SUFFICES ASSUME age[v] < Associativity - 1 PROVE FALSE
  BY GeometryAssumption DEF ReplacementInv, TypeOK
<1>1. Associativity \in Nat \ {0}
  BY GeometryAssumption
<1>2. \A b \in Blocks : age[b] \in Nat
  BY DEF ReplacementInv, TypeOK
<1>3. \A i \in Ways : <<v[1], i>> \in Blocks
  BY DEF Blocks
<1>4. blocks[v].cnt = Associativity - 1 - age[v]
  BY <1>1, <1>2 DEF ReplacementInv, CntIsAge
<1>5. \A i \in Ways : age[<<v[1], i>>] \in 0 .. (Associativity - 2)
  <2> TAKE i \in Ways
  <2>1. blocks[<<v[1], i>>].cnt = IF age[<<v[1], i>>] >= Associativity - 1
                                    THEN 0 ELSE Associativity - 1 - age[<<v[1], i>>]
    BY <1>3 DEF ReplacementInv, CntIsAge
  <2>2. QED
    BY <1>1, <1>2, <1>3, <1>4, <2>1
<1> DEFINE f == [i \in Ways |-> age[<<v[1], i>>]]
<1>6. f \in [Ways -> 0 .. (Associativity - 2)]
  BY <1>5
<1>7. /\ IsFiniteSet(Ways) /\ Cardinality(Ways) = Associativity
      /\ IsFiniteSet(0 .. (Associativity - 2))
      /\ Cardinality(0 .. (Associativity - 2)) = Associativity - 1
  <2>1. /\ IsFiniteSet(0 .. (Associativity - 1))
        /\ Cardinality(0 .. (Associativity - 1)) =
             IF 0 > Associativity - 1 THEN 0 ELSE Associativity - 1 - 0 + 1
    <3>1. Associativity - 1 \in Int
      BY <1>1
    <3>2. QED
      BY ONLY <3>1, FS_Interval
  <2>2. /\ IsFiniteSet(0 .. (Associativity - 2))
        /\ Cardinality(0 .. (Associativity - 2)) =
             IF 0 > Associativity - 2 THEN 0 ELSE Associativity - 2 - 0 + 1
    <3>1. Associativity - 2 \in Int
      BY <1>1
    <3>2. QED
      BY ONLY <3>1, FS_Interval
  <2>3. QED
    BY <1>1, <2>1, <2>2 DEF Ways
<1>8. PICK i \in Ways, j \in Ways : i # j /\ f[i] = f[j]
  <2> HIDE DEF f
  <2>1. QED
    BY <1>1, <1>6, <1>7, FS_PigeonHole
<1>9. QED
  BY <1>3, <1>8 DEF ReplacementInv, AgesDistinct

(* Under LRU, a block that is replaced was not touched by any of the last  *)
(* associativity - 1 touches of its set.                                   *)
THEOREM OldVictims == Spec => VictimIsOld
<1> DEFINE Kept == cc.r_policy = "LRU" => \A b \in Blocks :
                     blocks[b].valid /\ blocks'[b].tag # blocks[b].tag
                       => age[b] >= Associativity - 1
<1>1. ASSUME ReplacementInv, [Next]_vars PROVE Kept
  <2> SUFFICES ASSUME cc.r_policy = "LRU", NEW b \in Blocks, blocks[b].valid,
                      blocks'[b].tag # blocks[b].tag
               PROVE  age[b] >= Associativity - 1
    OBVIOUS
  <2>1. CASE HitRead \/ HitWriteBack \/ HitWriteThrough
    BY <1>1, <2>1, HitTouches DEF HitRead, HitWriteBack, HitWriteThrough
  <2>2. CASE MissRefill
    <3>1. b = Victim
      BY <1>1, <2>2, RefillTouches
    <3>2. QED
      BY <1>1, <2>2, <3>1, VictimInSet, LeastCounterIsOld DEF MissRefill
  <2>3. CASE UNCHANGED blocks
    BY <2>3
  <2>4. QED
    BY <1>1, <2>1, <2>2, <2>3
       DEF Next, Handle, Stopped, Call, MissWriteAround, WildAccess,
           StackOverflow, ReturnInner, Return, vars, cacheVars
<1>2. ReplacementInv /\ [Next]_vars => [Kept]_vars
  BY <1>1
<1>3. QED
  BY ReplacementCorrect, <1>2, PTL DEF Spec, VictimIsOld

-----------------------------------------------------------------------------
(* Accounting.                                                             *)

(* While a request is in progress, the activations that have counted an    *)
(* access and not yet taken it back are those below the outermost one.     *)
AccessInv ==
  /\ pc = "idle" => stats.access_counter = requests
  /\ pc = "lookup" => stats.access_counter = requests - 1 + depth
  /\ pc = "return" => stats.access_counter = requests + depth

(* What the request in progress still owes to total_time is in time.       *)
TimeInv ==
  cc.write_allocate /\ cc.r_policy = "LRU" =>
    LET due == requests * HitTime + (stats.miss_num + stats.replace_num) * MemTime
    IN /\ pc = "idle" => total_time = due
       /\ pc \in {"lookup", "return"} => total_time + time = due

LEMMA AccessNext ==
  ASSUME TypeOK, AccessInv, [Next]_vars
  PROVE  AccessInv'
<1>1. /\ stats.access_counter \in Int
      /\ depth \in Nat
      /\ requests \in Nat
  BY DEF TypeOK
<1>2. ASSUME NEW r \in Request, NEW v \in Values, Call(r, v) PROVE AccessInv'
  BY <1>1, <1>2 DEF Call, AccessInv, cacheVars
<1>3. CASE HitRead \/ HitWriteBack \/ HitWriteThrough \/ MissWriteAround
  <2>1. /\ pc = "lookup" /\ pc' = "return"
        /\ UNCHANGED <<depth, requests>>
        /\ stats'.access_counter = stats.access_counter + 1
    BY <1>3 DEF HitRead, HitWriteBack, HitWriteThrough, MissWriteAround, CountAccess
  <2>2. QED
    BY <1>1, <2>1 DEF AccessInv
<1>4. CASE MissRefill
  <2>1. /\ pc = "lookup" /\ UNCHANGED <<pc, requests>> /\ depth' = depth + 1
        /\ stats'.access_counter = stats.access_counter + 1
    BY <1>4 DEF MissRefill, CountAccess
  <2>2. QED
    BY <1>1, <2>1 DEF AccessInv
<1>5. CASE WildAccess \/ StackOverflow
  BY <1>5 DEF WildAccess, StackOverflow, AccessInv
<1>6. CASE ReturnInner
  <2>1. stats'.access_counter = stats.access_counter - 1
    BY <1>6 DEF ReturnInner, UncountAccess, TypeOK
  <2>2. QED
    BY <1>1, <1>6, <2>1 DEF ReturnInner, AccessInv
<1>7. CASE Return
  BY <1>1, <1>7 DEF Return, AccessInv, cacheVars
<1>8. CASE UNCHANGED vars
  BY <1>8 DEF vars, cacheVars, callVars, AccessInv
<1>9. QED
  BY <1>2, <1>3, <1>4, <1>5, <1>6, <1>7, <1>8 DEF Next, Handle, Stopped

(* access_counter counts every request once, whatever the policies: the    *)
(* decrement after each recursive call takes back what that call counted.  *)
THEOREM ExactAccesses == Spec => []AccessesExact
<1>1. Init => AccessInv
  BY DEF Init, AccessInv
<1>2. TypeOK /\ AccessInv /\ [Next]_vars => AccessInv'
  BY AccessNext
<1>3. AccessInv => AccessesExact
  BY DEF AccessInv, AccessesExact
<1>4. QED
  BY TypeCorrect, <1>1, <1>2, <1>3, PTL DEF Spec

LEMMA TimeNext ==
  ASSUME ReplacementInv, TimeInv, [Next]_vars
  PROVE  TimeInv'
<1>1. /\ stats.miss_num \in Nat /\ stats.replace_num \in Nat
      /\ depth \in Nat /\ requests \in Nat
      /\ time \in Nat /\ total_time \in Nat
      /\ HitTime \in Nat /\ MemTime \in Nat
  BY ConfigAssumption DEF ReplacementInv, TypeOK
<1>2. ASSUME NEW r \in Request, NEW v \in Values, Call(r, v) PROVE TimeInv'
  BY <1>1, <1>2 DEF Call, TimeInv, cacheVars
<1>3. CASE HitRead \/ HitWriteBack \/ HitWriteThrough
  <2>1. /\ pc = "lookup" /\ pc' = "return"
        /\ UNCHANGED <<cc, depth, requests, time, total_time>>
        /\ stats'.miss_num = stats.miss_num /\ stats'.replace_num = stats.replace_num
    BY <1>1, <1>3 DEF HitRead, HitWriteBack, HitWriteThrough, CountAccess
  <2>2. QED
    BY <1>1, <2>1 DEF TimeInv
<1>4. CASE MissWriteAround
  BY <1>4 DEF MissWriteAround, TimeInv
<1>5. CASE MissRefill
  <2> SUFFICES ASSUME cc.write_allocate, cc.r_policy = "LRU" PROVE TimeInv'
    BY <1>5 DEF MissRefill, TimeInv
  <2>1. depth = 0
    BY <1>5 DEF MissRefill, Refills, ReplacementInv, RecursionHits
  <2>2. PICK wb \in {0, 1} :
          /\ pc = "lookup" /\ UNCHANGED <<cc, pc, requests, total_time>>
          /\ stats'.miss_num = stats.miss_num + 1
          /\ stats'.replace_num = stats.replace_num + wb
          /\ time' = time + (wb * MemTime + MemTime)
    BY <1>5, <2>1 DEF MissRefill, CountAccess, RefillTime
  <2>3. (stats.miss_num + 1 + (stats.replace_num + wb)) * MemTime
          = (stats.miss_num + stats.replace_num) * MemTime + (wb * MemTime + MemTime)
    BY <1>1, <2>2
  <2>4. requests * HitTime \in Nat /\ (stats.miss_num + stats.replace_num) * MemTime \in Nat
    BY <1>1
  <2>5. QED
    BY <1>1, <2>2, <2>3, <2>4 DEF TimeInv
<1>6. CASE WildAccess \/ StackOverflow
  BY <1>6 DEF WildAccess, StackOverflow, TimeInv
<1>7. CASE ReturnInner
  <2>1. /\ pc = "return" /\ UNCHANGED <<cc, pc, requests, time, total_time>>
        /\ stats'.miss_num = stats.miss_num /\ stats'.replace_num = stats.replace_num
    BY <1>7 DEF ReturnInner, UncountAccess, ReplacementInv, TypeOK
  <2>2. QED
    BY <1>1, <2>1 DEF TimeInv
<1>8. CASE Return
  BY <1>1, <1>8 DEF Return, TimeInv, cacheVars
<1>9. CASE UNCHANGED vars
  BY <1>9 DEF vars, cacheVars, callVars, TimeInv
<1>10. QED
  BY <1>2, <1>3, <1>4, <1>5, <1>6, <1>7, <1>8, <1>9 DEF Next, Handle, Stopped

(* With LRU and write allocation, the time run_trace adds up is a hit      *)
(* latency per request and a memory latency per refill and per write-back. *)
THEOREM ExactTime == Spec => []TimeExact
<1>1. Init => TimeInv
  BY ConfigAssumption DEF Init, TimeInv
<1>2. ReplacementInv /\ TimeInv /\ [Next]_vars => TimeInv'
  BY TimeNext
<1>3. AccessInv /\ TimeInv => TimeExact
  BY DEF AccessInv, TimeInv, TimeExact
<1>4. Init => AccessInv
  BY DEF Init, AccessInv
<1>5. TypeOK /\ AccessInv /\ [Next]_vars => AccessInv'
  BY AccessNext
<1>6. QED
  BY TypeCorrect, ReplacementCorrect, <1>1, <1>2, <1>3, <1>4, <1>5, PTL DEF Spec

-----------------------------------------------------------------------------
(* When the address get_missed_block computes tells blocks apart, a write- *)
(* back, write-allocate LRU cache over a memory is a flat store, for every *)
(* geometry and every trace.  The assumption is AddressesSound of Cache.   *)
(* The deployed geometry (256 sets) does not meet it; a cache of a single  *)
(* set does, for the tags that are not shifted out of the word.            *)

(* The inductive invariant, next to ReplacementInv.                        *)
CoherenceInv == Coherent /\ CleanMatchesLower

-----------------------------------------------------------------------------
(* Cells, lines and where they are cached.                                 *)

LEMMA CellType ==
  ASSUME NEW c \in Cells
  PROVE  /\ c[1] \in Tags /\ c[2] \in Sets /\ c[3] \in Offsets
         /\ c = <<c[1], c[2], c[3]>>
         /\ <<c[1], c[2]>> \in Lines
BY AddrAssumption DEF Cells, CellOf, Tags, Lines

LEMMA LineInMemory ==
  ASSUME AddressesSound, NEW l \in Lines, NEW k \in Offsets
  PROVE  LineWord(l, k) \in MemWords
BY DEF AddressesSound, MemWords, LineWord

(* What cell c holds when the cache is bl and the array is mem.            *)
CellIn(bl, mem, c) ==
  IF IsHit(bl, c[2], c[1]) THEN bl[HitID(bl, c[2], c[1])].data[c[3]]
                           ELSE mem[LineWord(<<c[1], c[2]>>, c[3])]

Holds(bl, b, s, t) == b[1] = s /\ bl[b].valid /\ bl[b].tag = t

(* TagsUnique in terms of blocks.                                          *)
Unique(bl) ==
  \A s \in Sets, t \in Tags : \A b, c \in Blocks :
    Holds(bl, b, s, t) /\ Holds(bl, c, s, t) => b = c

LEMMA UniqueBlocks ==
  TagsUnique /\ cc.r_policy = "LRU" => Unique(blocks)
<1> SUFFICES ASSUME TagsUnique, cc.r_policy = "LRU",
                    NEW s \in Sets, NEW t \in Tags, NEW b \in Blocks, NEW c \in Blocks,
                    Holds(blocks, b, s, t), Holds(blocks, c, s, t)
             PROVE  b = c
  BY DEF Unique
<1>1. b = <<s, b[2]>> /\ c = <<s, c[2]>> /\ b[2] \in Ways /\ c[2] \in Ways
  BY DEF Blocks, Holds
<1>2. blocks[b].valid /\ blocks[c].valid /\ blocks[b].tag = blocks[c].tag
  BY DEF Holds
<1>3. b[2] = c[2]
  BY <1>1, <1>2 DEF TagsUnique
<1>4. QED
  BY <1>1, <1>3

LEMMA ContentsIsCellIn ==
  /\ Contents = [c \in Cells |-> CellIn(blocks, memory, c)]
  /\ Contents' = [c \in Cells |-> CellIn(blocks', memory', c)]
BY DEF Contents, CellIn, LineWord

(* A line is found exactly when some block of its set holds it.            *)
LEMMA FoundIffHeld ==
  ASSUME NEW bl, NEW s \in Sets, NEW t
  PROVE  IsHit(bl, s, t) <=> \E b \in Blocks : Holds(bl, b, s, t)
<1>1. ASSUME IsHit(bl, s, t)
      PROVE  \E b \in Blocks : Holds(bl, b, s, t)
  BY <1>1, HitIDIsHit DEF Holds
<1>2. ASSUME NEW b \in Blocks, Holds(bl, b, s, t)
      PROVE  IsHit(bl, s, t)
  <2>1. b = <<s, b[2]>> /\ b[2] \in Ways
    BY <1>2 DEF Blocks, Holds
  <2>2. QED
    BY <1>2, <2>1 DEF IsHit, HitWays, Holds
<1>3. QED
  BY <1>1, <1>2

(* A cell whose line some block holds is in that block...                  *)
LEMMA CellCached ==
  ASSUME NEW bl, Unique(bl), NEW mem, NEW c \in Cells, NEW b \in Blocks,
         Holds(bl, b, c[2], c[1])
  PROVE  CellIn(bl, mem, c) = bl[b].data[c[3]]
<1>1. c[2] \in Sets /\ c[1] \in Tags
  BY CellType
<1>2. IsHit(bl, c[2], c[1])
  BY <1>1, FoundIffHeld
<1>3. /\ HitID(bl, c[2], c[1]) \in Blocks
      /\ Holds(bl, HitID(bl, c[2], c[1]), c[2], c[1])
  BY <1>1, <1>2, HitIDIsHit DEF Holds
<1>4. HitID(bl, c[2], c[1]) = b
  BY <1>1, <1>3 DEF Unique
<1>5. QED
  BY <1>2, <1>4 DEF CellIn

(* ...and one whose line no block holds is in the array.                   *)
LEMMA CellLower ==
  ASSUME NEW bl, NEW mem, NEW c \in Cells,
         \A b \in Blocks : ~ Holds(bl, b, c[2], c[1])
  PROVE  CellIn(bl, mem, c) = mem[LineWord(<<c[1], c[2]>>, c[3])]
<1>1. c[2] \in Sets
  BY CellType
<1>2. ~ IsHit(bl, c[2], c[1])
  BY <1>1, FoundIffHeld
<1>3. QED
  BY <1>2 DEF CellIn

-----------------------------------------------------------------------------
(* The steps of a request.                                                 *)

(* A hit changes the data of the block that is hit, and of no other.       *)
LEMMA HitEffect ==
  ASSUME ReplacementInv, pc = "lookup", Hit, NEW b \in Blocks
  PROVE  LET v  == HitID(blocks, Index, Tag)
             nb == AfterHit(v)
         IN /\ nb[b].valid = blocks[b].valid
            /\ nb[b].tag = blocks[b].tag
            /\ b # v => nb[b].data = blocks[b].data /\ nb[b].dirty = blocks[b].dirty
            /\ b = v => nb[b].data = IF req.read \/ req.words = 0 THEN blocks[v].data
                                    ELSE [blocks[v].data EXCEPT ![Offset] = content]
            /\ b = v => nb[b].dirty = (blocks[v].dirty \/ (~ req.read /\ ~ cc.write_through))
<1> DEFINE v == HitID(blocks, Index, Tag)
           data == IF req.read \/ req.words = 0 THEN blocks[v].data
                   ELSE [blocks[v].data EXCEPT ![Offset] = content]
           dirty == blocks[v].dirty \/ (~ req.read /\ ~ cc.write_through)
           bl == [blocks EXCEPT ![v] = [blocks[v] EXCEPT !.data = data,
                                                         !.dirty = dirty]]
<1>1. /\ Index \in Sets /\ Offset \in Offsets
      /\ req.read \in BOOLEAN
      /\ blocks \in [Blocks -> Block]
      /\ content \in Values
      /\ cc.write_through \in BOOLEAN
  BY ParsedType, ConfigAssumption DEF ReplacementInv, TypeOK
<1>2. v \in Blocks /\ v[1] = Index
  BY <1>1, HitIDIsHit DEF Hit
<1>3. blocks[v] \in Block
  BY <1>1, <1>2
<1>4. data \in [Offsets -> Values] /\ dirty \in BOOLEAN
  BY <1>1, <1>3 DEF Block
<1>5. AfterHit(v) = UpdateReplacement(bl, cc.r_policy, Index, v)
  BY DEF AfterHit
<1> HIDE DEF data, dirty
<1>6. /\ bl \in [Blocks -> Block]
      /\ b # v => bl[b] = blocks[b]
      /\ bl[b].valid = blocks[b].valid
      /\ bl[b].tag = blocks[b].tag
      /\ b = v => bl[b].data = data /\ bl[b].dirty = dirty
  BY <1>1, <1>2, <1>3, <1>4 DEF Block
<1> HIDE DEF v, bl
<1>7. /\ AfterHit(v)[b].valid = blocks[b].valid
      /\ AfterHit(v)[b].tag = blocks[b].tag
      /\ AfterHit(v)[b].data = bl[b].data
      /\ AfterHit(v)[b].dirty = bl[b].dirty
  BY <1>1, <1>2, <1>5, <1>6, UpdateReplacementEffect
<1>8. QED
  BY <1>6, <1>7 DEF v, data, dirty

(* A hit, read or written back: the block that is hit holds the cell of the*)
(* request, and only that cell may change.                                 *)
LEMMA HitCoherent ==
  ASSUME ReplacementInv, CoherenceInv, WriteBackAllocate, [Next]_vars,
         HitRead \/ HitWriteBack
  PROVE  /\ CoherenceInv'
         /\ req.read => content' = latest[CellOf(req.addr)]
<1> DEFINE v == HitID(blocks, Index, Tag)
           r == CellOf(req.addr)
<1>1. /\ pc = "lookup" /\ Hit
      /\ blocks' = AfterHit(v)
      /\ memory' = memory
      /\ req.read => UNCHANGED latest /\ content' = blocks[v].data[Offset]
      /\ ~ req.read => latest' = Written
      /\ cc' = cc
  BY DEF HitRead, HitWriteBack
<1>2. cc.r_policy = "LRU" /\ ~ cc.write_through
  BY DEF WriteBackAllocate, ReplacementInv, TypeOK
<1>3. /\ Index \in Sets /\ Offset \in Offsets /\ Tag \in Tags
      /\ req.read \in BOOLEAN
      /\ blocks \in [Blocks -> Block] /\ latest \in [Cells -> Values]
      /\ r \in Cells /\ r = <<Tag, Index, Offset>>
  BY <1>1, ParsedType DEF ReplacementInv, TypeOK, CellOf, Tag, Index, Offset
<1>4. v \in Blocks /\ Holds(blocks, v, Index, Tag) /\ v[1] = Index
  BY <1>1, <1>3, HitIDIsHit DEF Hit, Holds
<1>5. Unique(blocks) /\ Unique(blocks')
  <2>1. TagsUnique /\ TagsUnique'
    BY ReplacementNext DEF ReplacementInv
  <2>2. (TagsUnique /\ cc.r_policy = "LRU" => Unique(blocks))'
    BY UniqueBlocks, PTL
  <2>3. QED
    BY <1>1, <1>2, <2>1, <2>2, UniqueBlocks DEF Unique, Holds
<1>6. \A b \in Blocks :
        /\ \A s, t : Holds(blocks', b, s, t) <=> Holds(blocks, b, s, t)
        /\ b # v => /\ blocks'[b].data = blocks[b].data
                    /\ blocks'[b].dirty = blocks[b].dirty
        /\ b = v => /\ blocks'[b].data = IF req.read \/ req.words = 0 THEN blocks[v].data
                             ELSE [blocks[v].data EXCEPT ![Offset] = content]
                    /\ blocks'[b].dirty = (blocks[v].dirty \/ ~ req.read)
        /\ blocks'[b].valid = blocks[b].valid
        /\ blocks'[b].tag = blocks[b].tag
  BY <1>1, <1>2, HitEffect DEF Holds
<1>7. blocks[v].data \in [Offsets -> Values]
  BY <1>3, <1>4 DEF Block
<1>8. \A c \in Cells : latest[c] = CellIn(blocks, memory, c)
  BY ContentsIsCellIn DEF CoherenceInv, Coherent
<1>9. \A c \in Cells : latest'[c] = IF ~ req.read /\ req.words # 0 /\ c = r
                                     THEN content ELSE latest[c]
  BY <1>1, <1>3 DEF Written
<1> HIDE DEF v, r
<1>10. ASSUME NEW c \in Cells PROVE CellIn(blocks', memory', c) = latest'[c]
  <2>1. c = <<c[1], c[2], c[3]>> /\ c[3] \in Offsets /\ c[1] \in Tags /\ c[2] \in Sets
    BY CellType
  <2>2. CASE \A b \in Blocks : ~ Holds(blocks, b, c[2], c[1])
    <3>1. c # r
      BY <1>3, <1>4, <2>2
    <3>2. CellIn(blocks', memory', c) = CellIn(blocks, memory, c)
      <4>1. \A b \in Blocks : ~ Holds(blocks', b, c[2], c[1])
        BY <1>6, <2>2
      <4>2. CellIn(blocks', memory', c) = memory'[LineWord(<<c[1], c[2]>>, c[3])]
        BY <4>1, CellLower
      <4>3. CellIn(blocks, memory, c) = memory[LineWord(<<c[1], c[2]>>, c[3])]
        BY <2>2, CellLower
      <4>4. QED
        BY <1>1, <4>2, <4>3
    <3>3. QED
      BY <1>8, <1>9, <3>1, <3>2
  <2>3. ASSUME NEW b \in Blocks, Holds(blocks, b, c[2], c[1])
        PROVE  CellIn(blocks', memory', c) = latest'[c]
    <3>1. /\ CellIn(blocks, memory, c) = blocks[b].data[c[3]]
          /\ CellIn(blocks', memory', c) = blocks'[b].data[c[3]]
      BY <1>5, <1>6, <2>3, CellCached
    <3>2. CASE b # v
      <4>1. c # r
        BY <1>3, <1>4, <1>5, <2>3, <3>2 DEF Unique
      <4>2. QED
        BY <1>6, <1>8, <1>9, <3>1, <3>2, <4>1
    <3>3. CASE b = v
      <4>1. c[1] = Tag /\ c[2] = Index
        BY <1>4, <2>3, <3>3 DEF Holds
      <4>2. c = r <=> c[3] = Offset
        BY <1>3, <2>1, <4>1
      <4>3. QED
        BY <1>3, <1>6, <1>7, <1>8, <1>9, <2>1, <3>1, <3>3, <4>2
    <3>4. QED
      BY <3>2, <3>3
  <2>4. QED
    BY <2>2, <2>3
<1>11. Coherent'
  BY <1>1, <1>3, <1>10, ContentsIsCellIn DEF Coherent, Written
<1>12. CleanMatchesLower'
  <2> SUFFICES ASSUME NEW b \in Blocks, blocks'[b].valid, ~ blocks'[b].dirty,
                      NEW k \in Offsets
               PROVE  blocks'[b].data[k]
                        = memory'[WordOf(BlockAddr(blocks'[b].tag, b[1])) + k]
    BY DEF CleanMatchesLower
  <2>1. blocks'[b].data = blocks[b].data /\ ~ blocks[b].dirty /\ blocks[b].valid
    BY <1>6
  <2>2. QED
    BY <1>1, <1>6, <2>1 DEF CoherenceInv, CleanMatchesLower
<1>13. ASSUME req.read PROVE content' = latest[r]
  <2>1. CellIn(blocks, memory, r) = blocks[v].data[Offset]
    BY <1>3, <1>4, <1>5, CellCached
  <2>2. QED
    BY <1>1, <1>3, <1>8, <1>13, <2>1 DEF v
<1>14. QED
  BY <1>11, <1>12, <1>13 DEF CoherenceInv, r

(* What evict_block leaves in the array: the victim's line is written if it*)
(* was dirty, and every other line is as it was.                           *)
LEMMA EvictEffect ==
  ASSUME AddressesSound, TypeOK, NEW v \in Blocks, v[1] = Index,
         NEW k \in Offsets
  PROVE  /\ NeedsWriteBack(v) =>
              EvictBlock(v)[LineWord(<<blocks[v].tag, Index>>, k)] = blocks[v].data[k]
         /\ \A l \in Lines : ~ NeedsWriteBack(v) \/ l # <<blocks[v].tag, Index>> =>
              EvictBlock(v)[LineWord(l, k)] = memory[LineWord(l, k)]
<1> DEFINE base == WordOf(BlockAddr(blocks[v].tag, Index))
<1>1. /\ blocks[v] \in Block
      /\ memory \in [MemWords -> Values]
      /\ Index \in Sets
  BY DEF TypeOK, Blocks
<1>2. <<blocks[v].tag, Index>> \in Lines
  BY <1>1 DEF Block, Lines
<1>3. base \in Nat /\ \A j \in Offsets : LineWord(<<blocks[v].tag, Index>>, j) = base + j
  BY <1>2, AddrAssumption DEF LineWord
<1>4. DOMAIN blocks[v].data = Offsets
  BY <1>1 DEF Block
<1>5. \A w \in MemWords : NeedsWriteBack(v) =>
        EvictBlock(v)[w] = IF w - base \in Offsets THEN blocks[v].data[w - base]
                           ELSE memory[w]
  BY <1>1, <1>4 DEF EvictBlock, WriteWords
<1>6. ~ NeedsWriteBack(v) => EvictBlock(v) = memory
  BY DEF EvictBlock
<1> HIDE DEF base
<1>7. ASSUME NeedsWriteBack(v)
      PROVE  EvictBlock(v)[LineWord(<<blocks[v].tag, Index>>, k)] = blocks[v].data[k]
  <2>1. base + k \in MemWords
    BY <1>2, <1>3, LineInMemory
  <2>2. (base + k) - base = k
    BY <1>3, Geometry
  <2>3. EvictBlock(v)[base + k] = IF (base + k) - base \in Offsets
                                    THEN blocks[v].data[(base + k) - base]
                                    ELSE memory[base + k]
    BY <1>5, <1>7, <2>1, Zenon
  <2>4. EvictBlock(v)[base + k] = blocks[v].data[k]
    BY <2>2, <2>3, Zenon
  <2>5. QED
    BY <1>3, <2>4, Zenon
<1>8. ASSUME NEW l \in Lines, NeedsWriteBack(v), l # <<blocks[v].tag, Index>>
      PROVE  EvictBlock(v)[LineWord(l, k)] = memory[LineWord(l, k)]
  <2>1. LineWord(l, k) \in MemWords /\ LineWord(l, k) \in Nat
    BY LineInMemory, AddrAssumption, Geometry DEF LineWord
  <2>2. LineWord(l, k) - base \notin Offsets
    <3> SUFFICES ASSUME LineWord(l, k) - base \in Offsets PROVE FALSE
      OBVIOUS
    <3>1. LineWord(l, k) = base + (LineWord(l, k) - base)
      BY <1>3, <2>1
    <3>2. QED
      BY <1>2, <1>3, <1>8, <3>1 DEF AddressesSound
  <2>3. QED
    BY <1>5, <1>8, <2>1, <2>2
<1>9. QED
  BY <1>6, <1>7, <1>8

(* What the refill leaves in the blocks: the victim holds the line of the  *)
(* request, and every other block what it held.                            *)
LEMMA RefillEffect ==
  ASSUME ReplacementInv, MissRefill, cc.r_policy = "LRU", NEW b \in Blocks
  PROVE  /\ b # Victim => /\ blocks'[b].valid = blocks[b].valid
                         /\ blocks'[b].dirty = blocks[b].dirty
                         /\ blocks'[b].tag = blocks[b].tag
                         /\ blocks'[b].data = blocks[b].data
         /\ b = Victim => /\ blocks'[b].valid
                         /\ blocks'[b].tag = Tag
                         /\ blocks'[b].data =
                              ReadWords(EvictBlock(Victim), BlockAddr(Tag, Index), NWords)
<1> DEFINE v == Victim
           data == ReadWords(EvictBlock(v), BlockAddr(Tag, Index), NWords)
           bl == Install(blocks, v, Tag, data)
<1>1. /\ pc = "lookup" /\ RefillInArray
      /\ blocks' = UpdateReplacement(bl, cc.r_policy, Index, v)
  BY DEF MissRefill
<1>2. /\ Index \in Sets /\ Tag \in Tags /\ blocks \in [Blocks -> Block]
      /\ data \in [Offsets -> Values]
  BY <1>1, ParsedType, RefillType DEF ReplacementInv, TypeOK
<1>3. v \in Blocks /\ v[1] = Index
  BY <1>1, VictimInSet
<1> HIDE DEF v, data
<1>4. /\ bl \in [Blocks -> Block]
      /\ b # v => bl[b] = blocks[b]
      /\ b = v => bl[b].tag = Tag /\ bl[b].valid /\ bl[b].data = data
  BY <1>2, <1>3, InstallType DEF Install
<1> HIDE DEF bl
<1>5. /\ blocks'[b].valid = bl[b].valid
      /\ blocks'[b].dirty = bl[b].dirty
      /\ blocks'[b].tag = bl[b].tag
      /\ blocks'[b].data = bl[b].data
  BY <1>1, <1>2, <1>3, <1>4, UpdateReplacementEffect
<1>6. QED
  BY <1>4, <1>5 DEF v, data

(* A refill moves data between cache and array and changes no cell: the    *)
(* line that comes in was not cached, the one that goes out is in the      *)
(* array, and no other line shares their words.                            *)
LEMMA RefillCoherent ==
  ASSUME ReplacementInv, CoherenceInv, WriteBackAllocate, AddressesSound,
         [Next]_vars, MissRefill
  PROVE  CoherenceInv'
<1> DEFINE v == Victim
           out == <<blocks[v].tag, Index>>
           in == <<Tag, Index>>
           mem == EvictBlock(v)
           data == ReadWords(mem, BlockAddr(Tag, Index), NWords)
<1>1. /\ pc = "lookup" /\ ~ Hit /\ RefillInArray
      /\ memory' = mem
      /\ UNCHANGED <<cc, latest>>
  BY DEF MissRefill, Refills
<1>2. cc.r_policy = "LRU"
  BY DEF WriteBackAllocate, ReplacementInv, TypeOK
<1>3. TypeOK /\ Index \in Sets /\ Tag \in Tags /\ in \in Lines
  BY <1>1, ParsedType DEF ReplacementInv
<1>4. /\ v \in Blocks /\ v[1] = Index
      /\ \A k \in Offsets : data[k] = mem[LineWord(in, k)]
  <2>1. v \in Blocks /\ v[1] = Index
    BY <1>1, <1>2, VictimInSet
  <2>2. \A k \in Offsets : data[k] = mem[LineWord(in, k)]
    BY Geometry DEF ReadWords, LineWord
  <2>3. QED
    BY <2>1, <2>2
<1>5. Unique(blocks) /\ Unique(blocks')
  <2>1. TagsUnique /\ TagsUnique'
    BY ReplacementNext DEF ReplacementInv
  <2>2. (TagsUnique /\ cc.r_policy = "LRU" => Unique(blocks))'
    BY UniqueBlocks, PTL
  <2>3. QED
    BY <1>1, <1>2, <2>1, <2>2, UniqueBlocks DEF Unique, Holds
<1>6. \A b \in Blocks :
        /\ b # v => /\ blocks'[b].valid = blocks[b].valid
                    /\ blocks'[b].dirty = blocks[b].dirty
                    /\ blocks'[b].tag = blocks[b].tag
                    /\ blocks'[b].data = blocks[b].data
        /\ b = v => /\ blocks'[b].valid
                    /\ blocks'[b].tag = Tag
                    /\ blocks'[b].data = data
  BY <1>2, RefillEffect
<1>7. \A b \in Blocks : ~ Holds(blocks, b, Index, Tag)
  BY <1>1, <1>3, FoundIffHeld DEF Hit
<1>8. \A k \in Offsets :
        /\ NeedsWriteBack(v) => mem[LineWord(out, k)] = blocks[v].data[k]
        /\ \A l \in Lines : ~ NeedsWriteBack(v) \/ l # out =>
             mem[LineWord(l, k)] = memory[LineWord(l, k)]
  BY <1>3, <1>4, EvictEffect
<1>9. \A b \in Blocks, k \in Offsets : blocks[b].valid /\ ~ blocks[b].dirty =>
        blocks[b].data[k] = memory[LineWord(<<blocks[b].tag, b[1]>>, k)]
  BY DEF CoherenceInv, CleanMatchesLower, LineWord
<1>10. \A b \in Blocks : <<blocks[b].tag, b[1]>> \in Lines
  BY <1>3 DEF TypeOK, Block, Blocks, Lines
<1> HIDE DEF v, mem, data
<1>11. ASSUME NEW c \in Cells PROVE CellIn(blocks', memory', c) = CellIn(blocks, memory, c)
  <2>1. /\ c[1] \in Tags /\ c[2] \in Sets /\ c[3] \in Offsets
        /\ <<c[1], c[2]>> \in Lines
    BY CellType
  <2>2. CASE c[1] = Tag /\ c[2] = Index
    <3>1. CellIn(blocks, memory, c) = memory[LineWord(in, c[3])]
      BY <1>7, <2>2, CellLower
    <3>2. Holds(blocks', v, c[2], c[1])
      BY <1>4, <1>6, <2>2 DEF Holds
    <3>3. CellIn(blocks', memory', c) = mem[LineWord(in, c[3])]
      BY <1>4, <1>5, <1>6, <2>1, <3>2, CellCached
    <3>4. ~ NeedsWriteBack(v) \/ in # out
      BY <1>4, <1>7 DEF NeedsWriteBack, Holds
    <3>5. QED
      BY <1>3, <1>8, <2>1, <3>1, <3>3, <3>4
  <2>3. ASSUME NEW b \in Blocks, Holds(blocks, b, c[2], c[1]), b # v
        PROVE  CellIn(blocks', memory', c) = CellIn(blocks, memory, c)
    <3>1. Holds(blocks', b, c[2], c[1])
      BY <1>6, <2>3 DEF Holds
    <3>2. CellIn(blocks', memory', c) = blocks'[b].data[c[3]]
      BY <1>5, <3>1, CellCached
    <3>3. CellIn(blocks, memory, c) = blocks[b].data[c[3]]
      BY <1>5, <2>3, CellCached
    <3>4. QED
      BY <1>6, <2>3, <3>2, <3>3
  <2>4. CASE Holds(blocks, v, c[2], c[1])
    <3>1. c[1] = blocks[v].tag /\ c[2] = Index /\ blocks[v].valid
      BY <1>4, <2>4 DEF Holds
    <3>2. c[1] # Tag
      BY <1>4, <1>7, <2>4, <3>1
    <3>3. \A b \in Blocks : ~ Holds(blocks', b, c[2], c[1])
      BY <1>4, <1>5, <1>6, <2>1, <2>4, <3>2 DEF Holds, Unique
    <3>4. CellIn(blocks', memory', c) = mem[LineWord(out, c[3])]
      BY <1>1, <3>1, <3>3, CellLower
    <3>5. CellIn(blocks, memory, c) = blocks[v].data[c[3]]
      BY <1>4, <1>5, <2>4, CellCached
    <3>6. CASE NeedsWriteBack(v)
      BY <1>8, <2>1, <3>4, <3>5, <3>6
    <3>7. CASE ~ NeedsWriteBack(v)
      <4>1. blocks[v].data[c[3]] = memory[LineWord(out, c[3])]
        BY <1>4, <1>9, <2>1, <3>1, <3>7 DEF NeedsWriteBack
      <4>2. mem[LineWord(out, c[3])] = memory[LineWord(out, c[3])]
        BY <1>4, <1>8, <1>10, <2>1, <3>7
      <4>3. QED
        BY <3>4, <3>5, <4>1, <4>2
    <3>8. QED
      BY <3>6, <3>7
  <2>5. CASE /\ \A b \in Blocks : ~ Holds(blocks, b, c[2], c[1])
             /\ ~ (c[1] = Tag /\ c[2] = Index)
    <3>1. \A b \in Blocks : ~ Holds(blocks', b, c[2], c[1])
      BY <1>4, <1>6, <2>5 DEF Holds
    <3>2. CellIn(blocks', memory', c) = mem[LineWord(<<c[1], c[2]>>, c[3])]
      BY <1>1, <3>1, CellLower
    <3>3. CellIn(blocks, memory, c) = memory[LineWord(<<c[1], c[2]>>, c[3])]
      BY <2>5, CellLower
    <3>4. ~ NeedsWriteBack(v) \/ <<c[1], c[2]>> # out
      BY <1>4, <2>5 DEF NeedsWriteBack, Holds
    <3>5. QED
      BY <1>8, <2>1, <3>2, <3>3, <3>4
  <2>6. QED
    BY <2>2, <2>3, <2>4, <2>5
<1>12. Coherent'
  BY <1>1, <1>11, ContentsIsCellIn DEF CoherenceInv, Coherent
<1>13. CleanMatchesLower'
  <2> SUFFICES ASSUME NEW b \in Blocks, blocks'[b].valid, ~ blocks'[b].dirty,
                      NEW k \in Offsets
               PROVE  blocks'[b].data[k] = mem[LineWord(<<blocks'[b].tag, b[1]>>, k)]
    BY <1>1 DEF CleanMatchesLower, LineWord
  <2>1. CASE b = v
    BY <1>4, <1>6, <2>1
  <2>2. CASE b # v
    <3>1. /\ blocks[b].valid /\ ~ blocks[b].dirty
          /\ blocks'[b].data = blocks[b].data /\ blocks'[b].tag = blocks[b].tag
      BY <1>6, <2>2
    <3>2. ~ NeedsWriteBack(v) \/ <<blocks[b].tag, b[1]>> # out
      <4> SUFFICES ASSUME blocks[v].valid, blocks[b].tag = blocks[v].tag, b[1] = Index
                   PROVE  FALSE
        BY DEF NeedsWriteBack
      <4>1. /\ Holds(blocks, b, Index, blocks[v].tag)
            /\ Holds(blocks, v, Index, blocks[v].tag)
        BY <1>4, <3>1 DEF Holds
      <4>2. blocks[v].tag \in Tags
        BY <1>3, <1>4 DEF TypeOK, Block
      <4>3. QED
        BY <1>3, <1>4, <1>5, <2>2, <4>1, <4>2 DEF Unique
    <3>3. QED
      BY <1>8, <1>9, <1>10, <3>1, <3>2
  <2>3. QED
    BY <2>1, <2>2
<1>14. QED
  BY <1>12, <1>13 DEF CoherenceInv

-----------------------------------------------------------------------------
(* Coherence.                                                              *)

LEMMA CoherenceInit ==
  ASSUME AddressesSound, Init
  PROVE  CoherenceInv
<1>1. \A b \in Blocks : ~ blocks[b].valid
  BY DEF Init
<1>2. ASSUME NEW c \in Cells PROVE CellIn(blocks, memory, c) = Zero
  <2>1. CellIn(blocks, memory, c) = memory[LineWord(<<c[1], c[2]>>, c[3])]
    BY <1>1, CellLower DEF Holds
  <2>2. LineWord(<<c[1], c[2]>>, c[3]) \in MemWords
    BY CellType, LineInMemory
  <2>3. QED
    BY <2>1, <2>2 DEF Init
<1>3. latest = [c \in Cells |-> Zero]
  BY DEF Init
<1>4. Coherent
  BY <1>2, <1>3, ContentsIsCellIn DEF Coherent
<1>5. QED
  BY <1>1, <1>4 DEF CoherenceInv, CleanMatchesLower

LEMMA CoherenceNext ==
  ASSUME ReplacementInv, CoherenceInv, WriteBackAllocate, AddressesSound, [Next]_vars
  PROVE  CoherenceInv'
<1>1. CASE HitRead \/ HitWriteBack
  BY <1>1, HitCoherent
<1>2. CASE HitWriteThrough \/ MissWriteAround
  BY <1>2 DEF HitWriteThrough, MissWriteAround, WriteBackAllocate, ReplacementInv, TypeOK
<1>3. CASE MissRefill
  BY <1>3, RefillCoherent
<1>4. CASE UNCHANGED <<blocks, memory, latest>>
  BY <1>4 DEF CoherenceInv, Coherent, Contents, CleanMatchesLower
<1>5. QED
  BY <1>1, <1>2, <1>3, <1>4
     DEF Next, Handle, Stopped, Call, WildAccess, StackOverflow, ReturnInner,
         Return, vars, cacheVars

(* With sound addresses, whatever was last written to a cell is what the   *)
(* cell holds, in the cache or below it.                                   *)
THEOREM CacheIsCoherent ==
  ASSUME AddressesSound, WriteBackAllocate
  PROVE  Spec => []Coherent
<1>1. Init => CoherenceInv
  BY CoherenceInit
<1>2. ReplacementInv /\ CoherenceInv /\ [Next]_vars => CoherenceInv'
  BY CoherenceNext
<1>3. CoherenceInv => Coherent
  BY DEF CoherenceInv
<1>4. QED
  BY ReplacementCorrect, <1>1, <1>2, <1>3, PTL DEF Spec

(* Dropping a clean victim loses nothing: the storage below has its data.  *)
THEOREM CleanBlocksAreCopies ==
  ASSUME AddressesSound, WriteBackAllocate
  PROVE  Spec => []CleanMatchesLower
<1>1. Init => CoherenceInv
  BY CoherenceInit
<1>2. ReplacementInv /\ CoherenceInv /\ [Next]_vars => CoherenceInv'
  BY CoherenceNext
<1>3. CoherenceInv => CleanMatchesLower
  BY DEF CoherenceInv
<1>4. QED
  BY ReplacementCorrect, <1>1, <1>2, <1>3, PTL DEF Spec

-----------------------------------------------------------------------------
(* Refinement.                                                             *)

LEMMA FlatInit == Init => Flat!Init
BY DEF Init, Flat!Init, FlatPhase, FlatRequest

(* Every step of the cache is the step of the flat store that the client   *)
(* sees, or one it does not see.                                           *)
LEMMA FlatNext ==
  ASSUME ReplacementInv, CoherenceInv, WriteBackAllocate, AddressesSound, [Next]_vars
  PROVE  [Flat!Next]_(Flat!vars)
<1> DEFINE cell == CellOf(req.addr)
<1>1. ASSUME NEW r \in Request, NEW v \in Values, Call(r, v)
      PROVE  Flat!Next
  <2>1. /\ FlatPhase = "idle" /\ FlatPhase' = "pending"
        /\ UNCHANGED latest /\ content' = v
    BY <1>1 DEF Call, FlatPhase
  <2>2. r # NoRequest
    BY ConfigAssumption
  <2>3. FlatRequest' = [cell |-> CellOf(r.addr), read |-> r.read, words |-> r.words]
    BY <1>1, <2>2 DEF Call, FlatRequest
  <2>4. FlatRequest' \in Flat!Requests
    BY <2>3 DEF Flat!Requests, Request, Cells
  <2>5. Flat!Issue(FlatRequest', v)
    BY <2>1 DEF Flat!Issue
  <2>6. QED
    BY <2>4, <2>5 DEF Flat!Next
<1>2. ASSUME pc = "lookup"
      PROVE  /\ FlatPhase = "pending"
             /\ FlatRequest = [cell |-> cell, read |-> req.read, words |-> req.words]
  <2>1. req # NoRequest
    BY <1>2, ParsedType, ConfigAssumption DEF ReplacementInv
  <2>2. QED
    BY <1>2, <2>1 DEF FlatPhase, FlatRequest
<1>3. CASE HitRead
  <2>1. /\ pc = "lookup" /\ req.read /\ FlatPhase' = "served"
        /\ UNCHANGED <<latest, FlatRequest>>
    BY <1>3 DEF HitRead, FlatPhase, FlatRequest
  <2>2. content' = latest[cell]
    BY <1>3, <2>1, HitCoherent
  <2>3. Flat!ServeRead
    BY <1>2, <2>1, <2>2 DEF Flat!ServeRead
  <2>4. QED
    BY <2>3 DEF Flat!Next
<1>4. CASE HitWriteBack
  <2>1. /\ pc = "lookup" /\ ~ req.read /\ FlatPhase' = "served"
        /\ UNCHANGED <<content, FlatRequest>>
        /\ latest' = IF req.words = 0 THEN latest ELSE [latest EXCEPT ![cell] = content]
    BY <1>4 DEF HitWriteBack, FlatPhase, FlatRequest, Written
  <2>2. /\ FlatPhase = "pending"
        /\ FlatRequest.cell = cell
        /\ FlatRequest.read = req.read
        /\ FlatRequest.words = req.words
    BY <1>2, <2>1
  <2>3. Flat!ServeWrite
    BY <2>1, <2>2, Zenon DEF Flat!ServeWrite
  <2>4. QED
    BY <2>3 DEF Flat!Next
<1>5. CASE HitWriteThrough \/ MissWriteAround
  BY <1>5 DEF HitWriteThrough, MissWriteAround, WriteBackAllocate, ReplacementInv, TypeOK
<1>6. CASE MissRefill \/ WildAccess \/ StackOverflow \/ ReturnInner \/ UNCHANGED vars
  <2>1. UNCHANGED <<latest, FlatPhase, FlatRequest, content>>
    BY <1>6 DEF MissRefill, WildAccess, StackOverflow, ReturnInner, vars, cacheVars,
                callVars, FlatPhase, FlatRequest
  <2>2. QED
    BY <2>1 DEF Flat!vars
<1>7. CASE Return
  <2>1. Flat!Return
    BY <1>7 DEF Return, Flat!Return, FlatPhase, FlatRequest, cacheVars
  <2>2. QED
    BY <2>1 DEF Flat!Next
<1>8. QED
  BY <1>1, <1>3, <1>4, <1>5, <1>6, <1>7 DEF Next, Handle, Stopped

(* With sound addresses, the client of a write-back cache cannot tell it   *)
(* from a flat store: every read returns the latest write to its cell.     *)
THEOREM CacheIsFlatStore ==
  ASSUME AddressesSound, WriteBackAllocate
  PROVE  Spec => ImplementsFlatStore
<1>1. Init => CoherenceInv
  BY CoherenceInit
<1>2. ReplacementInv /\ CoherenceInv /\ [Next]_vars => CoherenceInv'
  BY CoherenceNext
<1>3. ReplacementInv /\ CoherenceInv /\ [Next]_vars => [Flat!Next]_(Flat!vars)
  BY FlatNext
<1>4. QED
  BY ReplacementCorrect, FlatInit, <1>1, <1>2, <1>3, PTL
     DEF Spec, ImplementsFlatStore, Flat!Spec

=============================================================================
