------------------------------- MODULE Cache --------------------------------
(***************************************************************************)
(* One Cache over a Memory, driven by a client that makes one request at a *)
(* time (run_trace of CSimulator/src/main.cpp; the pipeline of ISimulator).*)
(*                                                                         *)
(* Cache::handle_request calls itself after a refill.  A request is a Call,*)
(* then one step per activation of handle_request - a hit, a miss that is  *)
(* passed down, or a miss that refills and recurses - and one Return per   *)
(* activation.  depth counts the activations below the outermost one.      *)
(***************************************************************************)
EXTENDS CacheOps, Memory

CONSTANTS
  Configs,       \* the CacheConfigs considered
  Zero,          \* the value of a word nobody wrote
  Garbage,       \* what the uninitialized counters may hold
  NoRequest,     \* no request in progress
  StackLimit,    \* activations of handle_request that fit on the stack
  HitTime,       \* l1: bus_latency + hit_latency
  MemTime,       \* m:  bus_latency + hit_latency
  MaxRequests    \* bound: the length of the client's trace

VARIABLES
  cc,            \* CacheConfig: write_through, write_allocate, r_policy
  blocks,        \* Cache::blocks
  memory,        \* Memory::memory
  stats,         \* Cache::stats_
  pc,            \* "idle", "lookup", "return"; or dead: "wild", "overflow"
  depth,         \* recursive activations of handle_request
  req,           \* the arguments of handle_request
  content,       \* its in/out argument
  time,          \* `time' of the outermost activation
  total_time,    \* `time' of run_trace
  requests,      \* history: requests made
  latest,        \* history: per cell, the value written last
  age            \* history: per block, touches of its set since its own last

cacheVars == <<blocks, memory, stats>>
callVars  == <<pc, depth, req, content, time>>
vars == <<cc, cacheVars, callVars, total_time, requests, latest, age>>

Request == {r \in [addr : Addrs, read : BOOLEAN, words : {0, 1}] :
              r.read => r.words = 1}

(* What a client addresses: a word, named by the fields of its address.    *)
CellOf(addr) == <<TagOf(addr), IndexOf(addr), OffsetWord(addr)>>
Cells == {CellOf(a) : a \in Addrs}

Lines == Tags \X Sets

(* The array elements that some request or some refill addresses.          *)
MemWords ==
  ({WordOf(a) : a \in Addrs} \cup
   {WordOf(BlockAddr(l[1], l[2])) + k : l \in Lines, k \in Offsets})
  \cap ArrayWords

ASSUME ConfigAssumption ==
  /\ Associativity <= CntLimit
  /\ Configs \subseteq [write_through : BOOLEAN, write_allocate : BOOLEAN,
                        r_policy : {"LRU", "LFU", "FIFO"}]
  /\ Garbage \subseteq Nat
  /\ Zero \in Values
  /\ NoRequest \notin Request
  /\ StackLimit \in Nat \ {0}
  /\ MaxRequests \in Nat
  /\ HitTime \in Nat /\ MemTime \in Nat

(* Every requested address selects a set and a word of a block.            *)
ASSUME AddrAssumption ==
  /\ \A a \in Addrs : IndexOf(a) \in Sets /\ OffsetWord(a) \in Offsets
  /\ \A l \in Lines : WordOf(BlockAddr(l[1], l[2])) \in Nat
  /\ \A a \in Addrs : WordOf(a) \in Nat

-----------------------------------------------------------------------------
(* The constructor and init_memory.  It leaves the counters of the blocks  *)
(* uninitialized.                                                          *)
Init ==
  /\ cc \in Configs
  /\ \E g \in [Blocks -> Garbage] :
       blocks = [b \in Blocks |->
                   [valid |-> FALSE, dirty |-> FALSE, tag |-> 0, cnt |-> g[b],
                    data |-> [k \in Offsets |-> Zero]]]
  /\ memory = [w \in MemWords |-> Zero]
  /\ stats = [access_counter |-> 0, miss_num |-> 0, replace_num |-> 0]
  /\ pc = "idle"
  /\ depth = 0
  /\ req = NoRequest
  /\ content = Zero
  /\ time = 0
  /\ total_time = 0
  /\ requests = 0
  /\ latest = [c \in Cells |-> Zero]
  /\ age = [b \in Blocks |-> 0]

-----------------------------------------------------------------------------
(* The address of the request, parsed.                                     *)
Tag    == TagOf(req.addr)
Index  == IndexOf(req.addr)
Offset == OffsetWord(req.addr)

Hit == IsHit(blocks, Index, Tag)

(* The words a write transfers: content[0 .. bytes/8 - 1].                 *)
Payload == [i \in 0 .. (req.words - 1) |-> content]

(* History: blockID becomes the youngest of its set, the others grow older.*)
Aged(index, blockID) ==
  [b \in Blocks |-> IF b = blockID THEN 0
                    ELSE IF b[1] = index THEN age[b] + 1 ELSE age[b]]

(* History: a write of words words has stored content in its cell.         *)
Written == IF req.words = 0 THEN latest
                            ELSE [latest EXCEPT ![CellOf(req.addr)] = content]

CountAccess(miss, replaced) ==
  stats' = [access_counter |-> stats.access_counter + 1,
            miss_num       |-> stats.miss_num + miss,
            replace_num    |-> stats.replace_num + replaced]

(* The client calls handle_request.  A read passes a fresh vector.         *)
Call(r, v) ==
  /\ pc = "idle"
  /\ requests < MaxRequests
  /\ r.read => v = Zero
  /\ pc' = "lookup"
  /\ depth' = 0
  /\ req' = r
  /\ content' = v
  /\ time' = HitTime
  /\ requests' = requests + 1
  /\ UNCHANGED <<cc, cacheVars, total_time, latest, age>>

\* A mutation: a write leaves the block clean.
AfterHitClean(b) ==
  LET block == blocks[b]
      data  == IF req.read \/ req.words = 0 THEN block.data
               ELSE [block.data EXCEPT ![Offset] = content]
      changed == [blocks EXCEPT ![b] = [block EXCEPT !.data = data]]
  IN UpdateReplacement(changed, cc.r_policy, Index, b)

(* What a hit leaves in the cache: a write changes the block, and marks it *)
(* dirty unless it is also written through; then the replacement counters. *)
AfterHit(b) ==
  LET block == blocks[b]
      data  == IF req.read \/ req.words = 0 THEN block.data
               ELSE [block.data EXCEPT ![Offset] = content]
      dirty == block.dirty \/ (~ req.read /\ ~ cc.write_through)
      changed == [blocks EXCEPT ![b] = [block EXCEPT !.data = data,
                                                     !.dirty = dirty]]
  IN UpdateReplacement(changed, cc.r_policy, Index, b)

HitRead ==
  /\ pc = "lookup"
  /\ Hit
  /\ req.read
  /\ LET b == HitID(blocks, Index, Tag)
     IN /\ content' = blocks[b].data[Offset]
        /\ blocks' = AfterHit(b)
        /\ age' = Aged(Index, b)
  /\ CountAccess(0, 0)
  /\ pc' = "return"
  /\ UNCHANGED <<cc, memory, depth, req, time, total_time, requests, latest>>

HitWriteBack ==
  /\ pc = "lookup"
  /\ Hit
  /\ ~ req.read
  /\ ~ cc.write_through
  /\ LET b == HitID(blocks, Index, Tag)
     IN /\ blocks' = AfterHit(b)
        /\ age' = Aged(Index, b)
  /\ latest' = Written
  /\ CountAccess(0, 0)
  /\ pc' = "return"
  /\ UNCHANGED <<cc, memory, depth, req, content, time, total_time, requests>>

(* The write also goes down; its time is not counted.                      *)
HitWriteThrough ==
  /\ pc = "lookup"
  /\ Hit
  /\ ~ req.read
  /\ cc.write_through
  /\ InArray(memory, req.addr, req.words)
  /\ LET b == HitID(blocks, Index, Tag)
     IN /\ blocks' = AfterHit(b)
        /\ age' = Aged(Index, b)
  /\ memory' = WriteWords(memory, req.addr, Payload)
  /\ latest' = Written
  /\ CountAccess(0, 0)
  /\ pc' = "return"
  /\ UNCHANGED <<cc, depth, req, content, time, total_time, requests>>

(* A write miss without allocation goes down only.                         *)
MissWriteAround ==
  /\ pc = "lookup"
  /\ ~ Hit
  /\ ~ req.read
  /\ ~ cc.write_allocate
  /\ InArray(memory, req.addr, req.words)
  /\ memory' = WriteWords(memory, req.addr, Payload)
  /\ latest' = Written
  /\ CountAccess(1, 0)
  /\ pc' = "return"
  /\ UNCHANGED <<cc, blocks, depth, req, content, time, total_time, requests, age>>

Refills == ~ Hit /\ (req.read \/ cc.write_allocate)

Victim == GetReplacementID(blocks, cc.r_policy, Index)

NeedsWriteBack(b) == blocks[b].valid /\ blocks[b].dirty

\* A mutation: the bytes of a block are taken for its words.
NWordsBytes == BlockSize

NWords == BlockSize \div 8

\* A mutation: the victim is dropped without being written back.
EvictDrop(b) == memory

(* evict_block: a dirty victim is written to its block address.            *)
EvictBlock(b) ==
  IF NeedsWriteBack(b)
    THEN WriteWords(memory, BlockAddr(blocks[b].tag, Index), blocks[b].data)
    ELSE memory

(* Both accesses of get_missed_block to the lower storage are in range.    *)
RefillInArray ==
  /\ NeedsWriteBack(Victim) =>
       InArray(memory, BlockAddr(blocks[Victim].tag, Index), NWords)
  /\ InArray(memory, BlockAddr(Tag, Index), NWords)

\* A mutation: the recursive call's latency is added as well.
RefillTimeTwice(writeBack) == 2 * HitTime + writeBack * MemTime + MemTime

(* The time get_missed_block returns: eviction, if any, and refill.        *)
RefillTime(writeBack) == writeBack * MemTime + MemTime

(* get_missed_block, then the recursive call.                              *)
MissRefill ==
  /\ pc = "lookup"
  /\ Refills
  /\ RefillInArray
  /\ depth + 1 < StackLimit
  /\ LET b == Victim
         writeBack == IF NeedsWriteBack(b) THEN 1 ELSE 0
         data == ReadWords(EvictBlock(b), BlockAddr(Tag, Index), NWords)
     IN /\ memory' = EvictBlock(b)
        /\ blocks' = UpdateReplacement(Install(blocks, b, Tag, data),
                                       cc.r_policy, Index, b)
        /\ age' = Aged(Index, b)
        /\ CountAccess(1, writeBack)
        /\ time' = IF depth = 0 THEN time + RefillTime(writeBack) ELSE time
  /\ depth' = depth + 1
  /\ UNCHANGED <<cc, pc, req, content, total_time, requests, latest>>

(* A refill or a write outside the memory array: the process dies, or     *)
(* goes on with another object's bytes.  The model stops.                  *)
WildAccess ==
  /\ pc = "lookup"
  /\ \/ Refills /\ ~ RefillInArray
     \/ /\ ~ req.read
        /\ IF Hit THEN cc.write_through ELSE ~ cc.write_allocate
        /\ ~ InArray(memory, req.addr, req.words)
  /\ pc' = "wild"
  /\ UNCHANGED <<cc, cacheVars, depth, req, content, time, total_time,
                 requests, latest, age>>

(* One activation of handle_request too many for the stack.                *)
StackOverflow ==
  /\ pc = "lookup"
  /\ Refills
  /\ RefillInArray
  /\ depth + 1 = StackLimit
  /\ pc' = "overflow"
  /\ UNCHANGED <<cc, cacheVars, depth, req, content, time, total_time,
                 requests, latest, age>>

\* A mutation: the access of the recursive call stays counted.
RecountAccess == stats

(* Back in the activation that recursed: its access was counted twice.     *)
UncountAccess == [stats EXCEPT !.access_counter = @ - 1]

ReturnInner ==
  /\ pc = "return"
  /\ depth > 0
  /\ depth' = depth - 1
  /\ stats' = UncountAccess
  /\ UNCHANGED <<cc, blocks, memory, pc, req, content, time, total_time,
                 requests, latest, age>>

(* handle_request returns to the client, which adds up the time.           *)
Return ==
  /\ pc = "return"
  /\ depth = 0
  /\ pc' = "idle"
  /\ req' = NoRequest
  /\ time' = 0
  /\ total_time' = total_time + time
  /\ UNCHANGED <<cc, cacheVars, depth, content, requests, latest, age>>

(* The trace is over, or the process is dead.                              *)
Stopped ==
  /\ \/ pc = "idle" /\ requests = MaxRequests
     \/ pc \in {"wild", "overflow"}
  /\ UNCHANGED vars

Handle ==
  \/ HitRead
  \/ HitWriteBack
  \/ HitWriteThrough
  \/ MissWriteAround
  \/ MissRefill
  \/ WildAccess
  \/ StackOverflow
  \/ ReturnInner
  \/ Return

Next ==
  \/ \E r \in Request, v \in Values : Call(r, v)
  \/ Handle
  \/ Stopped

(* Once called, handle_request runs: the program has a single thread.      *)
Spec == Init /\ [][Next]_vars /\ WF_vars(Handle)

-----------------------------------------------------------------------------
TypeOK ==
  /\ cc \in Configs
  /\ blocks \in [Blocks -> Block]
  /\ memory \in [MemWords -> Values]
  /\ stats \in [access_counter : Int, miss_num : Nat, replace_num : Nat]
  /\ pc \in {"idle", "lookup", "return", "wild", "overflow"}
  /\ depth \in Nat
  /\ req \in Request \cup {NoRequest}
  /\ pc \in {"lookup", "return"} => req \in Request
  /\ content \in Values
  /\ time \in Nat
  /\ total_time \in Nat
  /\ requests \in Nat
  /\ latest \in [Cells -> Values]
  /\ age \in [Blocks -> Nat]

(* A tag is in at most one way of its set, whatever the order of misses,   *)
(* refills and evictions: hit_or_miss stops at the first match, so a second*)
(* copy would be a stale one nobody updates.                               *)
TagsUnique ==
  cc.r_policy = "LRU" => \A s \in Sets : \A i, j \in Ways :
    /\ blocks[<<s, i>>].valid
    /\ blocks[<<s, j>>].valid
    /\ blocks[<<s, i>>].tag = blocks[<<s, j>>].tag
    => i = j

(* The counter of a valid block is exactly its age in touches of the set,  *)
(* counted down from associativity - 1 and stuck at zero: this is what the *)
(* decrements of update_replacement preserve, refills counting twice.      *)
CntIsAge ==
  cc.r_policy = "LRU" => \A b \in Blocks : blocks[b].valid =>
    blocks[b].cnt = IF age[b] >= Associativity - 1
                      THEN 0 ELSE Associativity - 1 - age[b]

(* With LRU a refill never throws out a block that one of the last         *)
(* associativity - 1 touches of its set was for.  In particular the most   *)
(* recently used block survives the next miss when there are two ways.     *)
VictimIsOld ==
  [][cc.r_policy = "LRU" => \A b \in Blocks :
       blocks[b].valid /\ blocks'[b].tag # blocks[b].tag
         => age[b] >= Associativity - 1]_vars

(* With LRU the recursive call of handle_request always hits: it never     *)
(* recurses again, however the sets have filled up.                        *)
RecursionBounded == cc.r_policy = "LRU" => depth <= 1

(* access_counter counts each request once, although handle_request adds   *)
(* to it in every activation and takes back one after a recursive call.    *)
AccessesExact == pc = "idle" => stats.access_counter = requests

(* With write allocate and LRU, run_trace's total is one hit latency per   *)
(* request and one memory latency per refill and per write-back; nothing is*)
(* counted for the recursive call.                                         *)
TimeExact ==
  pc = "idle" /\ cc.write_allocate /\ cc.r_policy = "LRU" =>
    total_time = stats.access_counter * HitTime
                 + (stats.miss_num + stats.replace_num) * MemTime

(* With LRU a request returns, unless its refill leaves the memory array:  *)
(* the recursion ends whatever the cache holds.                            *)
RequestReturns ==
  pc = "lookup" /\ cc.r_policy = "LRU" ~> pc \in {"idle", "wild"}

-----------------------------------------------------------------------------
(* The client's view of the storage.                                       *)

(* What a cell holds: the cached copy, or else the word its refill reads.  *)
Contents ==
  [c \in Cells |->
     IF IsHit(blocks, c[2], c[1])
       THEN blocks[HitID(blocks, c[2], c[1])].data[c[3]]
       ELSE memory[WordOf(BlockAddr(c[1], c[2])) + c[3]]]

(* Nothing is lost between cache and memory: each cell holds what was last *)
(* written to it, through every refill, write-back and dropped clean block.*)
Coherent == Contents = latest

FlatPhase == CASE pc = "idle"   -> "idle"
               [] pc = "return" -> "served"
               [] OTHER         -> "pending"

FlatRequest ==
  IF req = NoRequest THEN NoRequest
  ELSE [cell |-> CellOf(req.addr), read |-> req.read, words |-> req.words]

Flat == INSTANCE FlatStore WITH
          store <- latest, phase <- FlatPhase, request <- FlatRequest

(* The cache and the memory behind it are a flat store: a read returns what*)
(* the latest write stored, wherever the block has been in between.        *)
ImplementsFlatStore == Flat!Spec

(* A clean block equals the lower storage's copy, so that evict_block may  *)
(* drop it.                                                                *)
CleanMatchesLower ==
  \A b \in Blocks : blocks[b].valid /\ ~ blocks[b].dirty =>
    \A k \in Offsets :
      blocks[b].data[k] = memory[WordOf(BlockAddr(blocks[b].tag, b[1])) + k]

(* The two things coherence needs of the constants.                        *)

(* The word of the array that offset k of line l is fetched from.          *)
LineWord(l, k) == WordOf(BlockAddr(l[1], l[2])) + k

(* Every line has words of the array for itself.                           *)
AddressesSound ==
  /\ \A l \in Lines, k \in Offsets : LineWord(l, k) \in ArrayWords
  /\ \A l, m \in Lines : l # m =>
       \A j, k \in Offsets : LineWord(l, j) # LineWord(m, k)

(* Every request, and every line where BlockAddr puts it, is in the array. *)
AddressesInArray ==
  /\ \A a \in Addrs : WordOf(a) \in ArrayWords
  /\ \A l \in Lines, k \in Offsets : LineWord(l, k) \in ArrayWords

(* Memory::handle_request uses its index unchecked.  When the requests and *)
(* their lines lie in the array, no access leaves it: no refill transfers  *)
(* a word more than its line has, and no victim, whenever its block was    *)
(* filled and whichever policy chose it, is written back anywhere else.    *)
StaysInArray == AddressesInArray => pc # "wild"

(* cc of both programs: write back, write allocate, LRU.                   *)
WriteBackAllocate ==
  \A c \in Configs : ~ c.write_through /\ c.write_allocate /\ c.r_policy = "LRU"

-----------------------------------------------------------------------------
(* LRU as its name says: the victim is the block that was not used for the *)
(* longest time.                                                           *)
VictimIsLeastRecent ==
  [][\A b \in Blocks :
       blocks[b].valid /\ blocks'[b].tag # blocks[b].tag
         => \A i \in Ways : age[<<b[1], i>>] <= age[b]]_vars

(* Every replacement policy of the enumeration is served: the recursion of *)
(* handle_request ends before the stack does.                              *)
PolicyServes == pc # "overflow"

=============================================================================
