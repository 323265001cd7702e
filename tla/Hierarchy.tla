----------------------------- MODULE Hierarchy ------------------------------
(***************************************************************************)
(* A stack of Caches over a Memory: set_lower (CSimulator/include/cache.h) *)
(* makes any Storage the lower storage of a Cache.  Level 1 is the cache   *)
(* that the client calls, level Depth the last cache, and level Depth + 1  *)
(* the memory.                                                             *)
(*                                                                         *)
(* handle_request calls itself and the level below.  The model is that     *)
(* call stack: an activation is a frame, `at' says where it will go on     *)
(* when the activation it has called returns, and ret is what the last     *)
(* activation has returned.  Every replacement policy is LRU: Cache shows  *)
(* what becomes of a request under the others.                             *)
(***************************************************************************)
EXTENDS Memory, SequencesExt

CONSTANTS
  Depth,         \* how many caches there are
  Geometry,      \* per level: size, associativity, block_size
  AddrBit,       \* ADDR_BIT
  Addrs,         \* the addresses the client requests, one per 8-byte word
  Values,        \* the values of an 8-byte word
  Zero,          \* the value of a word nobody wrote
  Configs,       \* the write policies considered, per level
  NoRequest,     \* no request in progress
  HitTime,       \* per level, memory included: bus_latency + hit_latency
  MaxRequests    \* bound: the length of the client's trace

VARIABLES
  config,        \* per level: write_through, write_allocate
  blocks,        \* per level: Cache::blocks
  memory,        \* Memory::memory
  stats,         \* per level: Cache::stats_
  stack,         \* the activations of handle_request
  ret,           \* what the last activation returned, or Nothing
  pc,            \* "idle", "running", "served", or dead: "wild"
  req,           \* the client's request
  content,       \* the client's in/out argument
  total_time,    \* `time' of run_trace
  requests,      \* history: requests made
  latest         \* history: per word, the value written last

storeVars == <<config, blocks, memory, stats>>
callVars  == <<stack, ret, pc, req, content>>
vars == <<storeVars, callVars, total_time, requests, latest>>

Levels == 1 .. Depth
LRU == "LRU"

(* The cache of a level.                                                   *)
Level(n) == INSTANCE CacheOps WITH
              Size          <- Geometry[n].size,
              Associativity <- Geometry[n].associativity,
              BlockSize     <- Geometry[n].block_size

BlocksOf(n) == Level(n)!Blocks
NWords(n) == Geometry[n].block_size \div 8

Request == [addr : Addrs, read : BOOLEAN]
Cells == {WordOf(a) : a \in Addrs}

(* The byte addresses that level n is asked for: those the client uses,    *)
(* passed down by writes, and those of the blocks the levels above refill. *)
Asked[n \in Nat] ==
  IF n = 1 THEN Addrs
  ELSE Asked[n - 1] \cup
       {Level(n - 1)!BlockAddr(Level(n - 1)!TagOf(a), Level(n - 1)!IndexOf(a)) :
          a \in Asked[n - 1]}

(* The elements of the array that some request reaches.                    *)
MemWords ==
  {WordOf(a) + k : a \in Asked[Depth + 1], k \in 0 .. (NWords(Depth) - 1)}
  \cap ArrayWords

(* A block fits into a block of the level below: handle_request asks for   *)
(* the whole of it in one request.                                         *)
ASSUME HierarchyAssumption ==
  /\ Depth \in Nat \ {0}
  /\ Addrs \subseteq Nat
  /\ \A n \in 1 .. (Depth - 1) :
       Geometry[n + 1].block_size % Geometry[n].block_size = 0
  /\ Configs \subseteq [Levels -> [write_through : BOOLEAN,
                                   write_allocate : BOOLEAN]]
  /\ Zero \in Values
  /\ HitTime \in [1 .. (Depth + 1) -> Nat]
  /\ MaxRequests \in Nat
  /\ NoRequest \notin Request

(* What the constructor relies on, per level: the counters of a set stay   *)
(* below the start of the victim scan, block size and number of sets are   *)
(* powers of two, and an address has room for the fields they select.      *)
ASSUME LevelAssumption ==
  \A n \in Levels :
    /\ Geometry[n].associativity \in 1 .. Level(n)!CntLimit
    /\ Geometry[n].block_size \in Nat \ {0}
    /\ Geometry[n].block_size % 8 = 0
    /\ Geometry[n].block_size = 2^Level(n)!OffsetBit
    /\ Level(n)!SetNum \in Nat \ {0}
    /\ Level(n)!SetNum = 2^Level(n)!IndexBit
    /\ Level(n)!OffsetBit \in Nat /\ Level(n)!IndexBit \in Nat
    /\ Level(n)!OffsetBit + Level(n)!IndexBit < AddrBit

(* ADDR_BIT is a width, and its powers of two are what the shifts take them *)
(* for (which TLC evaluates, and the provers have no definition of).       *)
ASSUME WidthAssumption ==
  /\ AddrBit \in Nat
  /\ \A k \in 0 .. AddrBit : 2^k \in Nat \ {0}
  /\ \A j, k \in 0 .. AddrBit : j + k <= AddrBit => 2^(j + k) = 2^j * 2^k

-----------------------------------------------------------------------------
(* Activations of handle_request.                                          *)

Nothing == [content |-> << >>, time |-> -1]

NoBlock == <<0, 0>>

(* A call of level n: its `time' starts with its own latency.              *)
Activation(n, addr, read, words) ==
  [level |-> n, addr |-> addr, read |-> read, content |-> words,
   at |-> "enter", block |-> NoBlock, time |-> HitTime[n]]

Top == Last(stack)
N   == Top.level

(* The address of the activation on top, as its level parses it.           *)
Tag    == Level(N)!TagOf(Top.addr)
Index  == Level(N)!IndexOf(Top.addr)
Offset == Level(N)!OffsetWord(Top.addr)

(* An activation has just been called...                                   *)
Entered == pc = "running" /\ stack # << >> /\ ret = Nothing

(* ...or the one it waited for, at a point, has returned.                  *)
Resumed(at) == pc = "running" /\ stack # << >> /\ ret # Nothing /\ Top.at = at

(* The activation calls another, and will go on at a point.                *)
CallsFrom(frame, at, activation) ==
  /\ stack' = Front(stack) \o <<[frame EXCEPT !.at = at], activation>>
  /\ ret' = Nothing

(* The activation returns.                                                 *)
Returns(words, time) ==
  /\ stack' = Front(stack)
  /\ ret' = [content |-> words, time |-> time]

(* A request of this level to the one below: lower_->handle_request.       *)
Below(addr, read, words) == Activation(N + 1, addr, read, words)

(* Words for a read to fill in.                                            *)
Blank(n) == [i \in 0 .. (n - 1) |-> Zero]

AtCache == Entered /\ N \in Levels
Hit == Level(N)!IsHit(blocks[N], Index, Tag)
HitBlock == Level(N)!HitID(blocks[N], Index, Tag)

CountAccess(miss) ==
  stats' = [stats EXCEPT ![N].access_counter = @ + 1, ![N].miss_num = @ + miss]

(* update_replacement of this level.                                       *)
Touched(bs, b) == Level(N)!UpdateReplacement(bs, LRU, Index, b)

\* A mutation: the offset in the block is left out.
WordsFromStart(b) == [i \in DOMAIN Top.content |-> blocks[N][b].data[i]]

(* The words of the access that block b holds, and b with them replaced.   *)
WordsIn(b) == [i \in DOMAIN Top.content |-> blocks[N][b].data[Offset + i]]

Overwritten(b) ==
  [blocks[N] EXCEPT ![b].data =
     [k \in DOMAIN @ |-> IF k - Offset \in DOMAIN Top.content
                           THEN Top.content[k - Offset] ELSE @[k]]]

-----------------------------------------------------------------------------
(* The constructors and set_lower.  The counters start at any value; Cache *)
(* shows that none makes a difference to LRU, so they start at 0 here.     *)
Init ==
  /\ config \in Configs
  /\ blocks = [n \in Levels |->
                [b \in BlocksOf(n) |->
                   [valid |-> FALSE, dirty |-> FALSE, tag |-> 0, cnt |-> 0,
                    data |-> Blank(NWords(n))]]]
  /\ memory = [w \in MemWords |-> Zero]
  /\ stats = [n \in Levels |->
               [access_counter |-> 0, miss_num |-> 0, replace_num |-> 0]]
  /\ stack = << >>
  /\ ret = Nothing
  /\ pc = "idle"
  /\ req = NoRequest
  /\ content = Zero
  /\ total_time = 0
  /\ requests = 0
  /\ latest = [c \in Cells |-> Zero]

(* The client calls level 1.  A read passes a fresh vector.                *)
Call(r, v) ==
  /\ pc = "idle"
  /\ requests < MaxRequests
  /\ r.read => v = Zero
  /\ pc' = "running"
  /\ req' = r
  /\ content' = v
  /\ stack' = <<Activation(1, r.addr, r.read, [i \in {0} |-> v])>>
  /\ requests' = requests + 1
  /\ UNCHANGED <<storeVars, ret, total_time, latest>>

(* What every step of the storage leaves to the client.                    *)
ClientUnchanged == UNCHANGED <<config, pc, req, content, total_time, requests, latest>>

(* The memory serves the last cache.                                       *)
MemoryServe ==
  /\ Entered
  /\ N = Depth + 1
  /\ LET n == Cardinality(DOMAIN Top.content)
     IN /\ InArray(memory, Top.addr, n)
        /\ memory' = IF Top.read THEN memory
                     ELSE WriteWords(memory, Top.addr, Top.content)
        /\ Returns(IF Top.read THEN ReadWords(memory, Top.addr, n)
                               ELSE Top.content, Top.time)
  /\ UNCHANGED <<blocks, stats>>
  /\ ClientUnchanged

(* An index beyond the memory array.  The model stops.                     *)
WildAccess ==
  /\ Entered
  /\ N = Depth + 1
  /\ ~ InArray(memory, Top.addr, Cardinality(DOMAIN Top.content))
  /\ pc' = "wild"
  /\ UNCHANGED <<storeVars, stack, ret, req, content, total_time, requests, latest>>

HitRead ==
  /\ AtCache
  /\ Hit
  /\ Top.read
  /\ blocks' = [blocks EXCEPT ![N] = Touched(@, HitBlock)]
  /\ CountAccess(0)
  /\ Returns(WordsIn(HitBlock), Top.time)
  /\ UNCHANGED memory
  /\ ClientUnchanged

\* A mutation: a block written to stays clean.
MarkedClean(bs, b) == bs

(* A block that the level below does not have the words of.                *)
MarkedDirty(bs, b) == [bs EXCEPT ![b].dirty = TRUE]

HitWriteBack ==
  /\ AtCache
  /\ Hit
  /\ ~ Top.read
  /\ ~ config[N].write_through
  /\ blocks' = [blocks EXCEPT ![N] =
                  Touched(MarkedDirty(Overwritten(HitBlock), HitBlock), HitBlock)]
  /\ CountAccess(0)
  /\ Returns(Top.content, Top.time)
  /\ UNCHANGED memory
  /\ ClientUnchanged

(* The write goes into the block, then down; the counters are updated when *)
(* it is back.                                                             *)
HitWriteThrough ==
  /\ AtCache
  /\ Hit
  /\ ~ Top.read
  /\ config[N].write_through
  /\ blocks' = [blocks EXCEPT ![N] = Overwritten(HitBlock)]
  /\ CountAccess(0)
  /\ CallsFrom([Top EXCEPT !.block = HitBlock], "through",
               Below(Top.addr, FALSE, Top.content))
  /\ UNCHANGED memory
  /\ ClientUnchanged

(* The time of the level below is not counted: a write buffer.             *)
ThroughDone ==
  /\ Resumed("through")
  /\ blocks' = [blocks EXCEPT ![N] = Touched(@, Top.block)]
  /\ Returns(Top.content, Top.time)
  /\ UNCHANGED <<memory, stats>>
  /\ ClientUnchanged

(* A write miss without allocation only goes down.                         *)
MissWriteAround ==
  /\ AtCache
  /\ ~ Hit
  /\ ~ Top.read
  /\ ~ config[N].write_allocate
  /\ CountAccess(1)
  /\ CallsFrom(Top, "around", Below(Top.addr, FALSE, Top.content))
  /\ UNCHANGED <<blocks, memory>>
  /\ ClientUnchanged

AroundDone ==
  /\ Resumed("around")
  /\ Returns(Top.content, Top.time)
  /\ UNCHANGED <<blocks, memory, stats>>
  /\ ClientUnchanged

-----------------------------------------------------------------------------
(* get_missed_block.                                                       *)

Missed == AtCache /\ ~ Hit /\ (Top.read \/ config[N].write_allocate)

Victim == Level(N)!GetReplacementID(blocks[N], LRU, Index)

\* A mutation: no victim is written back.
NeverWrittenBack(b) == FALSE

(* evict_block: what it writes back.                                       *)
NeedsWriteBack(b) == blocks[N][b].valid /\ blocks[N][b].dirty

(* The request for the block that was missed.                              *)
Refill == Below(Level(N)!BlockAddr(Tag, Index), TRUE, Blank(NWords(N)))

(* A dirty victim is written to the level below.                           *)
MissEvict ==
  /\ Missed
  /\ NeedsWriteBack(Victim)
  /\ CountAccess(1)
  /\ CallsFrom([Top EXCEPT !.block = Victim], "evict",
               Below(Level(N)!BlockAddr(blocks[N][Victim].tag, Index), FALSE,
                     blocks[N][Victim].data))
  /\ UNCHANGED <<blocks, memory>>
  /\ ClientUnchanged

(* The victim is written back; now the block that was missed is fetched.   *)
EvictDone ==
  /\ Resumed("evict")
  /\ stats' = [stats EXCEPT ![N].replace_num = @ + 1]
  /\ blocks' = [blocks EXCEPT ![N][Top.block].valid = FALSE]
  /\ CallsFrom([Top EXCEPT !.time = @ + ret.time], "refill", Refill)
  /\ UNCHANGED memory
  /\ ClientUnchanged

(* A victim that is clean or invalid is dropped.                           *)
MissRefill ==
  /\ Missed
  /\ ~ NeedsWriteBack(Victim)
  /\ CountAccess(1)
  /\ blocks' = [blocks EXCEPT ![N][Victim].valid = FALSE]
  /\ CallsFrom([Top EXCEPT !.block = Victim], "refill", Refill)
  /\ UNCHANGED memory
  /\ ClientUnchanged

(* The block is there: handle_request calls itself.                        *)
RefillDone ==
  /\ Resumed("refill")
  /\ blocks' = [blocks EXCEPT ![N] =
       Touched(Level(N)!Install(@, Top.block, Tag, ret.content), Top.block)]
  /\ CallsFrom([Top EXCEPT !.time = @ + ret.time], "again",
               Activation(N, Top.addr, Top.read, Top.content))
  /\ UNCHANGED <<memory, stats>>
  /\ ClientUnchanged

\* A mutation: the recursive call's latency is added as well.
TimeOfBoth == Top.time + ret.time

(* The time that the recursive call returned is dropped.                   *)
TimeOfOuter == Top.time

\* A mutation: the access of the recursive call stays counted.
RecountAccess == stats

(* Its access was counted twice.                                           *)
UncountAccess == [stats EXCEPT ![N].access_counter = @ - 1]

AgainDone ==
  /\ Resumed("again")
  /\ stats' = UncountAccess
  /\ Returns(ret.content, TimeOfOuter)
  /\ UNCHANGED <<blocks, memory>>
  /\ ClientUnchanged

-----------------------------------------------------------------------------
(* The outermost activation has returned: the client has its content...    *)
Deliver ==
  /\ pc = "running"
  /\ stack = << >>
  /\ pc' = "served"
  /\ content' = ret.content[0]
  /\ latest' = IF req.read THEN latest
               ELSE [latest EXCEPT ![WordOf(req.addr)] = content]
  /\ UNCHANGED <<storeVars, stack, ret, req, total_time, requests>>

(* ...and adds up the time.                                                *)
Return ==
  /\ pc = "served"
  /\ pc' = "idle"
  /\ req' = NoRequest
  /\ ret' = Nothing
  /\ total_time' = total_time + ret.time
  /\ UNCHANGED <<storeVars, stack, content, requests, latest>>

(* The trace is over, or the process is dead.                              *)
Stopped ==
  /\ \/ pc = "idle" /\ requests = MaxRequests
     \/ pc = "wild"
  /\ UNCHANGED vars

Next ==
  \/ \E r \in Request, v \in Values : Call(r, v)
  \/ MemoryServe
  \/ WildAccess
  \/ HitRead
  \/ HitWriteBack
  \/ HitWriteThrough
  \/ ThroughDone
  \/ MissWriteAround
  \/ AroundDone
  \/ MissEvict
  \/ EvictDone
  \/ MissRefill
  \/ RefillDone
  \/ AgainDone
  \/ Deliver
  \/ Return
  \/ Stopped

Spec == Init /\ [][Next]_vars

-----------------------------------------------------------------------------
(* How many words a request may be for: the client's, or those of a block. *)
Amounts == {1} \cup {NWords(n) : n \in Levels}

Frame == [level : 1 .. (Depth + 1), addr : Nat, read : BOOLEAN,
          at : {"enter", "through", "around", "evict", "refill", "again"},
          block : Nat \X Nat, time : Nat,
          content : UNION {[0 .. (k - 1) -> Values] : k \in Amounts}]

TypeOK ==
  /\ config \in Configs
  /\ \A n \in Levels : \A b \in BlocksOf(n) :
       LET block == blocks[n][b]
       IN /\ block.valid \in BOOLEAN /\ block.dirty \in BOOLEAN
          /\ block.tag \in Nat /\ block.cnt \in Nat
          /\ block.data \in [0 .. (NWords(n) - 1) -> Values]
  /\ memory \in [MemWords -> Values]
  /\ \A n \in Levels :
       stats[n] \in [access_counter : Nat, miss_num : Nat, replace_num : Nat]
  /\ stack \in Seq(Frame)
  /\ pc \in {"idle", "running", "served", "wild"}
  /\ req \in Request \cup {NoRequest}
  /\ content \in Values
  /\ total_time \in Nat /\ requests \in Nat
  /\ latest \in [Cells -> Values]

(* However misses, write-backs and refills of the levels nest, each level  *)
(* has at most two activations on the stack: the recursive call hits.      *)
StackBounded == Len(stack) <= 2 * Depth + 1

(* What a level that does not write through writes back or misses is what  *)
(* the next one is asked, and level 1 is asked what the client requests: no*)
(* access_counter has the recursive calls or a block that was dropped.     *)
TrafficExact ==
  pc = "idle" =>
    /\ stats[1].access_counter = requests
    /\ \A n \in 1 .. (Depth - 1) : ~ config[n].write_through =>
         stats[n + 1].access_counter = stats[n].miss_num + stats[n].replace_num

(* w[1] + ... + w[n].                                                      *)
SumTo(w, n) ==
  LET sum[k \in 0 .. n] == IF k = 0 THEN 0 ELSE sum[k - 1] + w[k]
  IN sum[n]

(* With write back and allocate everywhere, the client's total is a latency*)
(* per access of each level, however the accesses nest, and a memory       *)
(* latency per refill and write-back of the last cache.                    *)
TimeExact ==
  pc = "idle" /\ (\A n \in Levels : config[n].write_allocate
                                   /\ ~ config[n].write_through) =>
    total_time =
      SumTo([n \in Levels |-> stats[n].access_counter * HitTime[n]], Depth)
      + (stats[Depth].miss_num + stats[Depth].replace_num) * HitTime[Depth + 1]

-----------------------------------------------------------------------------
(* The line of level n that holds byte address a, and the address of it at *)
(* the level below.                                                        *)
LineOf(n, a) == <<Level(n)!TagOf(a), Level(n)!IndexOf(a)>>
LineBelow(n, line) == Level(n)!BlockAddr(line[1], line[2])

(* Where the level below has the word at byte address a of level n.        *)
WordBelow(n, a) == LineBelow(n, LineOf(n, a)) + 8 * Level(n)!OffsetWord(a)

(* The element of the array that byte address a of level n comes from.     *)
Source(n, a) ==
  LET source[m \in 0 .. Depth] ==
        [x \in Nat |-> IF m = 0 THEN WordOf(x)
                       ELSE source[m - 1][WordBelow(Depth + 1 - m, x)]]
  IN source[Depth + 1 - n][a]

(* The address at which the next level has the line of a block of level n. *)
AddrBelow(n, b) == LineBelow(n, <<blocks[n][b].tag, b[1]>>)

(* The word at byte address a, as level n would serve it: from its own     *)
(* block, or else from where its refill of that block goes.  (What is not  *)
(* in the array can be in no level.)                                       *)
View(n, a) ==
  LET view[m \in 0 .. Depth] ==
        [x \in Nat |->
           IF m = 0 THEN IF WordOf(x) \in MemWords THEN memory[WordOf(x)] ELSE Zero
           ELSE LET k == Depth + 1 - m
                    line == LineOf(k, x)
                IN IF Level(k)!IsHit(blocks[k], line[2], line[1])
                     THEN blocks[k][Level(k)!HitID(blocks[k], line[2], line[1])]
                            .data[Level(k)!OffsetWord(x)]
                     ELSE view[m - 1][WordBelow(k, x)]]
  IN view[Depth + 1 - n][a]

(* The deployed policy at every level.  A level that writes through or     *)
(* around passes the client's address down, where a refill would ask for   *)
(* BlockAddr: the next level would not find the word again.                *)
WriteBackAllocate ==
  \A n \in Levels : ~ config[n].write_through /\ config[n].write_allocate

(* Between requests the hierarchy holds what was last written to each word,*)
(* whichever level has the copy that counts and however it got there.      *)
Coherent ==
  pc = "idle" /\ WriteBackAllocate =>
    \A a \in Addrs : View(1, a) = latest[WordOf(a)]

(* Between requests a clean block is what the level below would serve, so  *)
(* that evict_block may drop it, even when the line below has moved on.    *)
CleanMatchesBelow ==
  pc = "idle" /\ WriteBackAllocate =>
    \A n \in Levels : \A b \in BlocksOf(n) :
      LET block == blocks[n][b]
      IN block.valid /\ ~ block.dirty =>
           \A k \in DOMAIN block.data :
             block.data[k] = View(n + 1, AddrBelow(n, b) + 8 * k)

(* The lines of level n that the client's addresses lead to: at level 1    *)
(* their own, below those of the blocks that are refilled and written back.*)
Lines(n) ==
  LET lines[m \in 1 .. Depth] ==
        IF m = 1 THEN {LineOf(1, a) : a \in Addrs}
        ELSE {LineOf(m, LineBelow(m - 1, line)) : line \in lines[m - 1]}
  IN lines[n]

(* Addresses fit into their width, and every line of a level has words of  *)
(* the array for itself.                                                   *)
AddressesSound ==
  /\ \A a \in Addrs : a < 2^AddrBit
  /\ \A n \in Levels : \A l, m \in Lines(n), j, k \in 0 .. (NWords(n) - 1) :
       Source(n + 1, LineBelow(n, l) + 8 * j) = Source(n + 1, LineBelow(n, m) + 8 * k)
         => l = m /\ j = k

FlatPhase == IF pc \in {"running", "wild"} THEN "pending" ELSE pc

FlatRequest ==
  IF req = NoRequest THEN NoRequest
  ELSE [cell |-> WordOf(req.addr), read |-> req.read, words |-> 1]

Flat == INSTANCE FlatStore WITH
          store <- latest, phase <- FlatPhase, request <- FlatRequest

(* The stack of caches is a flat store too: a read returns what the latest *)
(* write stored, whatever the levels have evicted in between.              *)
ImplementsFlatStore ==
  Flat!Init /\ [][WriteBackAllocate => [Flat!Next]_(Flat!vars)]_vars

-----------------------------------------------------------------------------
(* The hierarchy is inclusive: what an upper level holds, the level below  *)
(* holds too.                                                              *)
Inclusive ==
  pc = "idle" => \A n \in 1 .. (Depth - 1) : \A b \in BlocksOf(n) :
    blocks[n][b].valid =>
      Level(n + 1)!IsHit(blocks[n + 1], Level(n + 1)!IndexOf(AddrBelow(n, b)),
                         Level(n + 1)!TagOf(AddrBelow(n, b)))

=============================================================================
