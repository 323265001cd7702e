# Verification of SimpleSimulator

TLA+ modules, TLC configurations and TLAPS proofs about the two programs of this
repository: **CSimulator**, a cache simulator driven by address traces, and
**ISimulator**, a five-stage pipeline simulator of RV64IM that uses the cache
of CSimulator for its instruction and data memory.

## 1. The system

| Component | Source | State | Operations | Modelled in |
|---|---|---|---|---|
| Cache | `CSimulator/src/cache.cpp`, `include/cache.h` | `blocks` (valid, dirty, tag, cnt, data), `stats_` | `handle_request` (recursive), `hit_or_miss`, `get_replacementID`, `update_replacement`, `evict_block`, `get_missed_block` | `CacheOps`, `Cache` |
| Memory | `CSimulator/include/memory.h` | the array | `handle_request` | `Memory` |
| Storage | `CSimulator/include/storage.h` | statistics, latencies | the interface of both | `FlatStore` (what it promises) |
| Trace driver | `CSimulator/src/main.cpp` | total time | `run_trace`, `init_memory` | the client in `Cache` |
| Pipeline | `ISimulator/src/Simulation.cpp`, `DataHazard.cpp` | PC, registers, four pipeline registers, counters, `exit_flag` | five stages, `update_regs`, `simulate_inst` | `Pipeline` |
| Cache hierarchy | `Cache::set_lower` and the calls through `lower_` | a cache per level | nested and recursive `handle_request` | `Hierarchy` |
| Decode, ALU, Branch, LSU | `ISimulator/src/*.cpp` | `last_mul`, `last_div`, `last_div_u` | pure but for the state and `exit_flag` | `Decode`, `Exec`, `LoadStore`; what the pipeline needs of them in `Insts`, the state in `Pipeline` |
| Shell | `Simulation.cpp` | none of its own | commands i, n, a run cycles | actions of `Pipeline` |
| Loader | `Read_Elf.cpp`, `load_memory` | addresses of sections | `char2num`, `read_elf_sections`, `load_memory` | `Loader` |

**How they interact.** Everything runs in one thread, by calls. `run_trace` and
the pipeline's IF and MEM stages call `Cache::handle_request`. On a miss it
evicts and refills through its lower storage and then calls *itself*, counting
on the second lookup to hit. The pipeline's stages call each other through
`reg_X` and `reg_X_new`, which `update_regs` copies at the end of a cycle; the
global register file is the exception, as WB writes it after ID has read it.
`exit_flag` is set by ID, by the LSU and by MEM, and read by the shell between
cycles.

**What is hard.** There is no concurrency, no persistence and no message. What
a test would hardly reach are the long sequences: a set filling up over many
requests, whose counters are touched twice per miss; data that moves up and
down between cache and memory; instructions that overlap, so that a hazard, a
misprediction, an exit and a write to the register file fall into one cycle;
and counters that are increased in one place and taken back in another.
`PROJECT.json` lists these as hazards with their lines.

**What makes each part correct.** The *cache*: a client sees a flat array
(`ImplementsFlatStore`); no value is lost (`Coherent`); clean blocks may be
dropped (`CleanMatchesLower`); a lookup is unambiguous (`TagsUnique`); the
counters mean what replacement takes them for (`CntIsAge`, `VictimIsOld`); a
request ends (`RecursionBounded`, `RequestReturns`) and, if the requests and their
lines lie in the array, never leaves it (`StaysInArray`); the statistics are exact
(`AccessesExact`, `TimeExact`). The *pipeline*: it computes what executing one
instruction at a time computes (`ImplementsISA`), no operand is stale
(`OperandsCurrent`), it does not lock up (`Progress`), and its counters are
exact (`BranchesExact`, `CyclesExact`). A *hierarchy* of caches: it is a flat
store as one cache is (`ImplementsFlatStore`, `Coherent`), whatever the levels
drop under each other (`CleanMatchesBelow`); nested misses end
(`StackBounded`); what one level reports explains what the next one was asked
(`TrafficExact`, `TimeExact`). The *units without state*: the decoder takes the
words of RV64IM for what they are and rejects others (`DecodesRV64IM`,
`RejectsTheRest`), the ALU and the branch unit compute RISC-V's results
(`AluConforms`, `BranchConforms`), loads take the bytes RISC-V's would from the
lower half of an element, and exactly which are wrong in the upper half is known
(`LoadsSelect`), as it is of stores (`StoresConform`), header fields are read exactly (`FieldsExact`), and what is
fetched is what the file holds (`ImageLoaded`).

### The state of the sources

At this commit neither program compiles: `Cache::write_byte` (`cache.cpp:95-119`)
has an unfinished statement, and `Simulation.cpp:18` declares a `Memory` whose
header `Common.h` does not include. `write_byte` is never called, so the models
leave it out. ISimulator also never calls `l1.set_lower`, which CSimulator does;
the pipeline is modelled with the lower storage that `l1` is meant to have.

## 2. Modules

```
Memory   CacheOps                     Insts
  |  \     /  |                       /     \
  |   Cache --+-implements-> FlatStore    Pipeline --implements--> ISA
  |  /     \  |                 ^         |        \
MCCache   CacheProofs           |     MCPipeline  PipelineProofs
  |          |                  |
  |      MCCoherence            |      Decode  Exec  LoadStore  Loader
  |                             |            \   |     |       /
  +------- Hierarchy -----------+             \  |     |      /
            |     |    NatProofs ----+          Units ---- RISCV (reference)
     MCHierarchy  |    /             |         /     \
              HierarchyProofs        +-- UnitsProofs  MCUnits
               |        |                    |
               |  HierarchyCoherenceProofs  DecodeProofs
       HierarchyCountProofs
```

### `Memory`, `CacheOps`: the storage as operators

Memory is a function from element numbers (byte address / 8) to values. Its
domain (`MemWords`) is the part of the array that the addresses of an instance
can reach, so that an access outside the domain is one outside the array. `CacheOps` has the geometry of the constructor, `parse_addr`, the lookup,
the choice of a victim and the counters. A blockID, which the code computes as
`i * set_num + index`, is the pair `<<index, i>>`. `BlockAddr` is the expression
of `evict_block` and `get_missed_block` as C++ parses it, including the width of
the shifts.

### `Cache`: requests as steps

A request is a `Call`, one step per activation of `handle_request`, and one
`Return` per activation; `depth` counts the recursion.

| Code | Action |
|---|---|
| `run_trace` calls | `Call(r, v)` |
| hit, read / write back / write through (`cache.cpp:132-158`) | `HitRead`, `HitWriteBack`, `HitWriteThrough` |
| miss without allocation (`170-174`) | `MissWriteAround` |
| `get_missed_block`, then the recursive call (`160-168`) | `MissRefill` |
| the array index is out of range | `WildAccess` (the model stops) |
| one activation too many for the stack | `StackOverflow` (the model stops) |
| back from the recursive call, `access_counter--` | `ReturnInner` |
| back in `run_trace` | `Return` |

The counters that the constructor leaves uninitialized start with any value of
`Garbage`. Words of 8 bytes are opaque values. A write of fewer than 8 bytes
transfers `bytes / 8 = 0` words, which the model keeps (`words = 0`): it still
allocates and marks the block dirty. `latest`, `age` and `requests` are history
variables that only properties read.

### `FlatStore`: what a Storage promises

A cell per 8-byte word, and a request that is issued, served atomically and
returned. `Cache` maps `store` to `latest`, and the tag, index and word of an
address to the cell it names.

### `Hierarchy`: caches over caches

`set_lower` takes any `Storage`, so that a `Cache` may be the lower storage of
another. `Hierarchy` is `Depth` caches over a memory. As an activation may now
call itself and the level below, each of which may do the same, the model keeps
the call stack: a frame is one activation of `handle_request`, with the level it
runs in, its arguments, its `time` and the point (`at`) where it waits for the
activation it called; `ret` is what the last one returned. The operators of
`CacheOps` are instantiated per level, `Level(n)`.

| Code | Action |
|---|---|
| `run_trace` calls, gets its content, adds the time | `Call`, `Deliver`, `Return` |
| `Memory::handle_request`; an index beyond the array | `MemoryServe`; `WildAccess` (the model stops) |
| a hit that calls nobody | `HitRead`, `HitWriteBack` |
| a write-through hit: before and after the call below | `HitWriteThrough`, `ThroughDone` |
| a write miss without allocation: before and after | `MissWriteAround`, `AroundDone` |
| `evict_block` of a dirty victim: before and after its write-back | `MissEvict`, `EvictDone` |
| a clean or invalid victim, then the refill | `MissRefill` |
| the refill has returned; the recursive call | `RefillDone`, `AgainDone` |

Every level replaces by LRU and starts with counters at 0: that nothing depends
on the initial counters, and what the other policies do, is shown for one cache
by `Cache`. Only properties use `View`, what a level would serve for an address
(its own word, or else what the level below would serve at the address that a
refill asks for), `Source`, the element of the array that this way down ends at,
and `Lines`, the lines of a level that the client's addresses lead to.

### `Insts`, `ISA`, `Pipeline`

`Insts` is one instruction: which registers it reads and writes, what
`execute_Decode` makes of it, what the ALU, the branch unit and the LSU do with
the operands. An instruction word is the record the decoder takes it apart
into; the arithmetic (`Alu`, `Taken`, `LoadData`) is a parameter. `ISA` executes
one instruction per step. `Pipeline` has one action per command that runs
cycles: `StepOnce` (command i) and `RunOn` (a turn of the loops of n and a),
which differ in whether register 0 is cleared after the last cycle. Each is a
whole cycle: the stages are operators on the old pipeline registers
(`IFIDNew`, `IDEXNew`, `EXMEMNew`, `MEMWBNew`, `RegNew`), and `UpdateRegs` is
`update_regs`. `hazard_occur` and `mispre_occur` are set anew in every cycle
before they are used, hence operators and not variables.

The refinement mapping lets an instruction take effect when MEM has processed
it: the register that the instruction in WB will write counts as written
(`ArchRegs`), and the program counter is that of the oldest instruction that has
not reached MEM (`ArchPC`), which lies in EX, ID or IF or is yet to be fetched.
Memory is the array of elements the LSU addresses. The program is separate from
it and constant: programs that store into their own text are left out.

### `Decode`, `Exec`, `LoadStore`, `Loader`, and `RISCV` to compare them with

The functions of ISimulator without state are operators. `Decode` is
`execute_Decode` on words of 32 bits: the slices that `getbit` takes, the tables
of the switches and the words that end in a default case. `Exec` has
`execute_ALU` and `execute_Branch` with the conversions between signed and
unsigned types as C++ makes them, at a width of `XLen` bits; `Fault` stands for
the SIGFPE that x86 raises. `^`, `|` and `&` of C++ are the word whose bits are
those asked for (`WordOf`). `LoadStore` is `execute_LSU` on elements of eight
bytes. `LSU.cpp` sees the declaration of the 32-bit `getbit` only and calls it
with bits 32 to 63: the negative shift counts are undefined behaviour, and the
model has what the build's unoptimized x86 code does, a shift by 0. `Loader` is
`char2num` with its `int` accumulator, `read_elf_sections`, `load_memory` and
the fetch.

`RISCV` is not a model of code. It restates what the RISC-V manual says of RV64IM
(encoding, operations, loads), as that is what ISimulator's README promises.
`Units` compares the two: a behaviour takes one input for one unit, and an
invariant per unit says what the unit makes of it; `MCUnits` gives the inputs
that TLC takes. Where code and manual differ,
the invariant says exactly where (`Deviates`, `Unsupported`, `overlooked`), so
that it fails both when the code would get worse and when it would be fixed.

## 3. What TLC checks

| Run | Instance | Properties | Result |
|---|---|---|---|
| `cache_sets` | 2 sets x 2 ways, all write policies with LRU, and FIFO | `TypeOK`, `TagsUnique`, `CntIsAge`, `RecursionBounded`, `AccessesExact`, `TimeExact`, `RequestReturns` | hold |
| `cache_coherence` | 1 set x 3 ways, deployed policy | `CntIsAge`, `CleanMatchesLower`, `Coherent`, `StaysInArray`, `VictimIsOld`, `ImplementsFlatStore` | hold |
| `v_not_lru` | 1 set x 3 ways | `VictimIsLeastRecent` | violated |
| `v_fifo` | 2 sets x 2 ways, FIFO | `PolicyServes` | violated |
| `v_address` | 2 sets x 2 ways | `ImplementsFlatStore` | violated |
| `pipeline` | programs of 4 instructions out of 14 kinds | `TypeOK`, `OperandsCurrent`, `BranchesExact`, `CyclesExact`, `Progress`, `ImplementsISA` | hold |
| `v_exit` | programs of 3 with an illegal word | `AllInstructionsDone` | violated |
| `v_stalls` | programs of 2 | `StallsExact` | violated |
| `hierarchy` | 2 levels: 2 blocks of 2 words over 2 blocks of 4 words, 5 mixes of write policies | `TypeOK`, `StackBounded`, `TrafficExact`, `TimeExact`, `Coherent`, `CleanMatchesBelow`, `ImplementsFlatStore` | hold |
| `v_inclusive` | the same levels, deployed policy | `Inclusive` | violated |
| `units` | 245012 inputs of eight kinds | `FieldsExact`, `ImageLoaded`, `DecodesRV64IM`, `RejectsTheRest`, `AluConforms`, `BranchConforms`, `LoadsSelect`, `StoresConform` | hold |
| `v_rv64im` | the same inputs | `LoadsSeeStores` | violated |

### The bounds and why they are enough

* **Cache.** `MaxRequests = 5` requests fill a set, evict from it, refill the
  evicted line and evict again (a set has two or three ways). In `cache_sets` every
  address lies in a line of its own and four share a set, and the
  array is short enough that some refills leave it, so that hits, evictions
  with and without write-back, recursion and `WildAccess` all occur.
  `StackLimit = 4` is enough for one recursion too many to be told from the
  legal one. Two data values tell an old value from a new one. In
  `cache_coherence` the array ends with the last word of the last line, so that one
  word more in a refill or a write-back would be outside.
* **Initial counters.** `Garbage` is below the start of the victim scan (7) in
  one run and above it (200) in the others. No behaviour of LRU depends on it:
  invalid ways are chosen first, and a refill sets the counter.
* **Pipeline.** Four instructions are as many as ID looks back over (EX, MEM,
  WB), and the text after them is harmless. Their kinds include every class that
  stalls, flushes, writes memory, prints, exits or traps; branches reach
  backwards, and `jalr` jumps to a computed address. `MaxCycles = 13` lets a
  program of four run to its exit with three stalls and a flush. Registers are
  the four the programs name, of 8 bits, so that sums and products wrap.

* **Hierarchy.** Five addresses, of which two share a line of the first level, and
  four requests (the refills of different lines go to different lines of the
  second level, as the address is shifted twice): enough to fill both levels, to have the second evict what the first holds, and to write that back
  from above. The five configurations are the four policies at the first level
  over the deployed one, and write through with allocation at both levels. One
  set per level gives every line words of its own (see `v_address`).
* **Units.** Registers have 8 bits instead of 64, and words 4 instead of 32; the
  operands are every upper half with the lower halves 0, 1, 7, 8 and 15, the
  boundaries of both. Shift amounts are taken modulo the width in both, so that
  what depends on it scales. Instruction words have all their 32 bits: every
  instruction with three register numbers, seven immediates at their limits and
  five shift amounts, and every opcode of RV64IM, and four others, with every
  funct3 and funct7. Bytes of header fields have 4 values instead of 256: `int`
  then has 256 values and `long` 65536. None of this limits the theorems of
  section 4, which have the widths of the program. Sections start at multiples of 4 and 8
  and elsewhere, and headers come in both orders.

### Fairness

Only `Cache` states fairness, `WF_vars(Handle)`: once called, `handle_request`
runs, as the program has one thread and calls nothing that waits. The client
need not make another request. `Pipeline` has no liveness property, as its
shell runs cycles only when the user asks; that stalls end is the bound
`Progress` on consecutive cycles in which MEM has no instruction.

### What the violated runs show

* `v_not_lru`: a miss touches its set in `get_missed_block` and again in the
  recursive hit. With three ways the other two counters meet at zero and the
  first is evicted. What does hold is `VictimIsOld`: no block of the last
  `associativity - 1` touches is evicted, where a miss is two touches.
* `v_fifo`: policies other than LRU return block 0 of set 0 for any set.
* `v_address`: `tag << (index_bit + offset_bit) + index << offset_bit` shifts by
  the index instead of adding it, so that lines share memory words. The deployed
  geometry (256 sets) is affected as this small one is, so the coherence results
  do not carry over to it. They show that the rest of the cache is right once
  every line has words of its own (`AddressesSound`), as with one set.
* `v_exit`: an illegal word stops the program from ID. The instruction in WB is
  still written and counted in the same cycle; those in EX and MEM, at most two, are
  lost. By the same line, a word after a taken
  jump, which is never executed, ends the program when it is decoded.
* `v_stalls`: an instruction right behind the `jal` that writes its source
  counts a stall, and is flushed in the same cycle.
* `v_inclusive`: hits in the first level do not reach the second, whose counters
  age the block, and `evict_block` tells no level above. The levels are not
  inclusive, but `Coherent`, `CleanMatchesBelow` and `ImplementsFlatStore` hold
  all the same: a block that is written back to a level that has dropped it is
  fetched again there first.
* `v_rv64im`: `(addr >> 1) << 3` is an address in an array of 4-byte words;
  stores use the byte address. Only at address 0 does `ld` see an `sd`.

### What the exact comparisons show

* `AluConforms`: of the operations of `execute_ALU`, division and remainder
  fault on a zero divisor and on the overflowing quotient, `mulh` is wrong for a
  negative second operand (it multiplies by an unsigned number, as `mulhsu`),
  and `srlw` shifts bits of the upper half of the register into its result. All
  others are RISC-V's for all operands.
* `LoadsSelect`: `ld` and the loads from the lower half of an element (`addr % 8 < 4`)
  take the bytes that RISC-V's would. Where `addr % 8 >= 4`, `lb`, `lh`, `lw` and
  their unsigned forms get the bytes at `addr % 4` of the *lower* half, as the 32-bit
  `getbit` never delivers the upper one, and are right only if the upper half's
  bytes are the same. The comparison is within the element that the load asks
  for; that this is another one than RISC-V's is `v_rv64im`.
* `StoresConform`: `sd` stores what RISC-V's does. `sb`, `sh` and `sw` transfer
  `bytes / 8 = 0` words and store nothing, which is right only if the bytes are
  there already.
* `DecodesRV64IM`, `RejectsTheRest`: `divuw` and `fence` are rejected; `slliw`
  with any funct7 and `jalr` with any funct3 are accepted.
* `FieldsExact`: fields of eight bytes are right below 2^31 and, by sign
  extension, in the 2^31 highest values.
* `ImageLoaded`: both sections must start at a multiple of 8.
* Under write through or without allocation at an upper level, a hierarchy is
  not coherent: those writes go down with the client's address, a refill with
  `tag << ...` of it, and a cache below keeps the word under both. `Coherent` and
  its companions therefore have the premise `WriteBackAllocate`; `TypeOK`,
  `StackBounded` and `TrafficExact` have not.

## 4. What is proved

For every value of the constants that meets the named assumptions:

* `GeometryAssumption`, `ConfigAssumption`, `AddrAssumption` of the cache;
* `HierarchyAssumption`, `LevelAssumption`, `WidthAssumption` of the hierarchy:
  the same per level, and that an upper block fits into a lower one. That sizes
  are powers of two is stated with `^`, of which the provers have no definition;
  that those powers are positive, and that a sum of exponents is a product of
  powers, is therefore assumed too, and TLC evaluates it;
* `InstsAssumption`, `OperationsAssumption`, `PipelineAssumption` of the
  pipeline: instructions name registers, the arithmetic yields words, programs
  are sequences of instructions;
* `XLenAssumption`, `ByteAssumption` of the units: words have 4, 8 or 64 bits,
  and the bytes of header fields 4, 16 or 256 values, so that the instance that
  TLC checks and the widths of the program are both among them.
  `PowerAssumption` and `BytePowerAssumption` say of powers what `^` is by
  definition. `FilesAssumption`, `WordsAssumption` and `OperandsAssumption`
  give the inputs their types, each as wide as the program's: any words as
  operands, any 5-bit registers and any immediates their formats have bits for,
  any bytes in an element, headers in any order with any others among them, and
  sections that fit below 2^31, do not overlap and hold whole instructions. The
  file's bytes are opaque and differ from each other and from memory's, which
  is how `ImageLoaded` tells where a byte came from.

| Theorem | States |
|---|---|
| `CacheProofs!TypeCorrect` | `Spec => []TypeOK` |
| `CacheProofs!AccessesStayInArray` | `Spec => []StaysInArray` |
| `CacheProofs!NoDuplicates` | `Spec => []TagsUnique` |
| `CacheProofs!CountersAreAges` | `Spec => []CntIsAge` |
| `CacheProofs!BoundedRecursion` | `Spec => []RecursionBounded` |
| `CacheProofs!OldVictims` | `Spec => VictimIsOld` |
| `CacheProofs!ExactAccesses`, `ExactTime` | `Spec => []AccessesExact`, `Spec => []TimeExact` |
| `CacheProofs!CleanBlocksAreCopies`, `CacheIsCoherent` | `Spec => []CleanMatchesLower`, `Spec => []Coherent` |
| `CacheProofs!CacheIsFlatStore` | `Spec => ImplementsFlatStore` |
| `PipelineProofs!TypeCorrect` | `Spec => []TypeOK` |
| `PipelineProofs!CurrentOperands` | `Spec => []OperandsCurrent` |
| `PipelineProofs!ExactBranches` | `Spec => []BranchesExact` |
| `PipelineProofs!ExactCycles` | `Spec => []CyclesExact` |
| `PipelineProofs!NeverStandsStill` | `Spec => []Progress` |
| `PipelineProofs!PipelineIsSequential` | `Spec => ImplementsISA` |
| `HierarchyProofs!CallStackSound`, `StackDepth` | `Spec => []CallInv`, `Spec => []StackBounded` |
| `HierarchyCountProofs!TypeCorrect` | `Spec => []TypeOK` |
| `HierarchyCountProofs!CountsSound`, `ExactTraffic` | `Spec => []CountInv`, `Spec => []TrafficExact` |
| `HierarchyCountProofs!ExactTime` | `Spec => []TimeExact` |
| `HierarchyCoherenceProofs!StoreSound` | `Spec => []StoreInv` |
| `HierarchyCoherenceProofs!HierarchyIsCoherent`, `CleanBlocksBelow` | `Spec => []Coherent`, `Spec => []CleanMatchesBelow` |
| `HierarchyCoherenceProofs!HierarchyIsFlatStore` | `Spec => ImplementsFlatStore` |
| `UnitsProofs!AluIsRight` | `Spec => []AluConforms` |
| `UnitsProofs!BranchesAreRight` | `Spec => []BranchConforms` |
| `UnitsProofs!LoadsAreRight`, `StoresAreRight` | `Spec => []LoadsSelect`, `Spec => []StoresConform` |
| `UnitsProofs!FieldsAreExact`, `ImageIsLoaded` | `Spec => []FieldsExact`, `Spec => []ImageLoaded` |
| `DecodeProofs!DecodingIsRight`, `RejectionIsRight` | `Spec => []DecodesRV64IM`, `Spec => []RejectsTheRest` |

The three of `CacheProofs` on coherence assume `AddressesSound` (every line has words of the array for
itself) and `WriteBackAllocate` (the deployed policy); `MCCoherence` has TLC
evaluate both on its instance. Those of `HierarchyCoherenceProofs` assume the
`AddressesSound` of `Hierarchy`: addresses fit into their width, and what two
words of a level's lines come from (`Source`) is the same element only if they
are the same word of the same line. `MCHierarchy` has TLC evaluate it
(`InstanceIsSound`). That every level writes back and allocates is a premise of the properties
themselves. `PipelineIsSequential` assumes `NoIllegal`, that
no program contains an illegal word: `v_exit` shows why it must, and
`MCPipeline` has TLC evaluate that the instance with legal programs meets it
(`LegalInstance`).

**The argument: cache.** `StaysInArray` needs only `TypeOK`: the tag of every
valid block is that of some request, so its line is one of `Lines`, whichever
policy chose it (`LinesInArray`, `NotWild`). None of `TagsUnique`, `CntIsAge` and `RecursionBounded` is
inductive. A second copy of a tag could only be made by a refill in the
recursive call, which is excluded because the refill has left the block there
(`RecursionHits`: at depth 1 the lookup hits). The counters' meaning needs the
ages to be those of distinct blocks (`AgesDistinct`). `ReplacementInv` conjoins
these with `TypeOK` and is inductive. `VictimIsOld` follows from it by the
pigeonhole principle: if the victim's counter, the least of the set, were
positive, all the ways' distinct ages would lie below it, and there are more
ways than such ages. `AccessInv` and `TimeInv` add what the statistics are
between the call and the return, when the recursive call has been counted and
not yet taken back. Coherence adds `CoherenceInv`, the conjunction of `Coherent`
and `CleanMatchesLower`: a hit changes the one copy of a line (`TagsUnique`), a
dirty victim carries its values to words that no other line uses, and a clean
victim has nothing to carry.

**The argument: pipeline.** `TypeOK` says that the cycle count is a natural
number, which a fused remainder's -1 could break; `SurplusInv` adds that a
division, which has added 39, is remembered only when the surplus is positive.
`OperandsCurrent` is re-established in every cycle from `ZeroInv` (register 0 is
0 between cycles, so that an instruction in WB whose target is register 0 does
no harm): an instruction leaves ID only if none in EX, MEM or WB writes a source
of it, so WB's write leaves its sources as they were read. `CyclesExact` needs
`OccupancyInv`: ID is empty only when EX is, so a misprediction always costs two
bubbles, and an exit is never in WB while the program runs. `Progress` follows
from `DistanceInv`, which counts the cycles until MEM has an instruction: a
hazard can hold an instruction behind empty EX and MEM for one cycle only, and a
flush delays nothing, as the branch that causes it goes to MEM itself.

`ImplementsISA` is proved step by step: a cycle in which MEM has an instruction
is a step of `ISA` that executes it, any other a stutter. That needs to know that
what is in flight is what the program has at its program counter (`FetchedInv`);
that each stage's instruction is the successor of the one ahead of it, unless
that is a jump or a branch which is going to flush it (`PathInv`), so that
`ArchPC` moves as the ISA's program counter does; and that what EX has put into
the pipeline register to MEM is what the ISA would compute (`MemInv`), which
`OperandsCurrent` carries through EX.

**The argument: hierarchy.** No property between requests is inductive, as most
steps are taken inside one. `CallInv` speaks of the whole call stack: `FrameOK`
says of each activation that its address, length and waiting point fit its level
(a refill is aligned, as long as a block of the level above, and lies within one
of its own); `StackInv`, who may have called whom (a level only itself, from
`again`, or the next, never itself twice); `RecursionHits`, that the activation called from `again`
finds its block; `AnswerInv`, that what was returned has the length the caller
asked for. So a stack is a path down the levels with at most two activations for
each, which bounds it. The counts are then exact at every step, not only
between requests: a level has counted each request once, but for an activation
on the stack that has not looked up yet (`Asks`), for one that waits for its
recursive call (`Overcounted`), and for a victim whose write-back is under way
(`Uncounted`). For the total time the latencies of the frames (`Spent`) are
added level by level; `SumTo` is a recursive function, and a step changes one
level's summand. The existence of such a function is shown by induction over the
set of the arguments for which it exists (`NatProofs`).

**The argument: what a hierarchy stores.** `Coherent` speaks of the idle
hierarchy and of `View`, which recurs over the levels; neither survives a step in
the middle of a request. `HierarchyCoherenceProofs` looks at each element of the
array on its own instead. `Contents` says of each level which elements it holds,
which of them dirty, and their values (the memory holds all of them); as lines do
not share elements, a block holds an element at one position at most. Two facts
then hold at every moment. `CopiesAgree`: a clean copy is equal to the next copy
below it, however many levels in between have dropped theirs (`v_inclusive`: they
may). `TopIsCurrent`: the uppermost copy is what the client wrote last, where a
write that level 1 has taken counts before the client knows of it (`Written`).
Four changes of a level keep both: a write from the level above, which has the
element dirty (`WrittenBelow`); the client's write at level 1
(`WrittenByClient`); dropping a copy that is clean or written back (`Dropped`);
and taking a copy from the level below (`Fetched`). That a step makes one of
these changes needs to know what the waiting activations have asked for and been
told: `LinkInv`, each activation serves the request of the one that waits for it
(`RequestOf`), which cannot change meanwhile, because the blocks it depends on
belong to another level than that which runs; `WaitInv`, the line that is missed
stays absent until it is refilled; and `ReturnInv`, what has been returned is
what the level that was asked now holds, and what it took is dirty there, so that
the caller may drop its own. `StoreInv` is their conjunction under the deployed
policy. `View` is the uppermost copy by induction from the memory upwards
(`ViewIsUppermost`), which gives the three theorems.

**The argument: units.** A behaviour of `Units` takes one input, so one
invariant (`InputLegal`) serves all eight theorems, and the work is in the lemmas
about the operators.

*ALU.* Everything is modulo 2^n. `LongFacts` and `IntFacts` say that a word, its
signed reading and its lower half differ by multiples of 2^n, so that sums,
differences and products agree whichever reading they are made of (`RingMod`,
`SumsConform`, `WordSumsConform`). The high words of products differ by the other
factor when the reading does (`HighWordsConform`): that is why `mulhsu` is right
and `mulh` is wrong for exactly the negative factors. Truncating division is
unique (`DivisionFacts`), so faulting is the only deviation of `div` and `rem`.
`srlw` is right if and only if the bits that reach its result from the upper half
are zero (`WordShiftsConform`). For `xor`, `or` and `and` a word is shown to be
determined by its bits, and to be the sum that RISC-V's definition makes of them
(`WordOfBits`, `SumOfBits`).

*Loads and stores.* What a narrow load makes of an element is the extension of
the bytes at `addr % 4` (`NarrowTakes`). Different bytes stay different when they
are extended (`ExtendedTells`), so a load is right if and only if those are the
bytes at `addr % 8` (`LoadMatches`); an element that should get other bytes than
it has is wrong if nothing is stored (`StoreMatches`).

*Header fields and loading.* `char2num` wraps around in `int` at each byte;
`FieldSums` has the sum, cut off to an `int`, at every length, and `FieldValues`
says which values of eight bytes survive: the sign extensions. `HeaderFields` and
`ReadHeader` have the program read back what a header was written with,
`LayoutRead` that the headers of other sections change nothing, `MemoryLoaded`
which byte of which section ends at an address. When a start is not a multiple
of 8 the section's first byte is elsewhere, as all bytes differ
(`SectionsInPlace`).

*Decoding.* What an encoding puts together out of shifted fields and what
`getbit` and `get_imm` take out meet in one notion, a word that holds a number in
a stretch of its bits (`BitsHold`, `SliceHolds`, one lemma for each format). The
scattered immediates of branches and `jal` are put together from their stretches
and extended (`BFields`, `JFields`, `ExtSignOf`). The tables of the switches are
maps (`TablesAreMaps`, `LookupOf`): each instruction's key is found with its own
operation. For the words that are none, the keys that occur are those of RISC-V
and the two forms that are overlooked (`FormsRejected`).

The sums over bits and bytes are recursive functions; that they exist and what
they are at each argument is shown by induction over the set of arguments for
which it holds, as in `NatProofs`.

**Only model-checked.** `RequestReturns`, the liveness of one cache: fairness is
out of the provers' reach. All other properties of the passing runs are theorems.
The violated properties have TLC's counterexamples; `NoIllegal`,
`AddressesSound`, `AddressesInArray` and `WriteBackAllocate` are premises of
theorems, and TLC evaluates on the instances that they can be met.

## 5. Not modelled

* The pipeline runs programs of records, not of words: `Pipeline` takes the
  arithmetic and the narrow loads as parameters, which `Decode`, `Exec` and
  `LoadStore` give for themselves. That loads and stores address different
  elements (`addr / 2` and `addr / 8`), and that narrow stores store nothing, is
  in `Insts` as the code does it; `ISA` shares these operators, so
  `ImplementsISA` is about the overlap of instructions, and `LoadsSelect`,
  `StoresConform` and `v_rv64im` about RISC-V's memory.
* What command r prints. `RunOn` leaves in register 0 what the instruction that
  is in WB at the exit writes there, as the loops of commands n and a do; while the
  program runs, `ZeroInv` (section 4) has it 0 between cycles, and `ArchRegs` reads
  it as 0, so that no property says that it is 0 after the exit, which it need not be.
* Which remainders ought to be fused with a division before them: no document
  says, so `AluExtra` has what the code does, and nothing is checked against it.
* Programs that store into their own text.
* A hierarchy whose lower blocks are smaller than the upper ones: a refill would
  read beyond a block (`HierarchyAssumption` excludes it).
* Liveness of `Hierarchy`: `StackBounded` bounds its recursion instead.
* The fields of the ELF header, the listing `elf.txt`, `read_Phdr` and
  `read_symtable` (never called); log files and printing; the shell at the end
  of its input. `main` sets `entry` to a constant, not to the header's field.

## 6. What could follow

* The pipeline over words: `Decode`, `Exec` and `LoadStore` as the parameters of
  `Pipeline`, so that `ImplementsISA` and the theorems about the units become one
  about machine code.
* Hierarchies with other policies than LRU, or with lower blocks smaller than
  upper ones, should the code come to use them.
