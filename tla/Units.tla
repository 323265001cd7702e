------------------------------- MODULE Units --------------------------------
(***************************************************************************)
(* The parts of ISimulator that keep no state, each compared with what     *)
(* RISC-V (module RISCV) or the ELF format asks of it.  A behaviour takes  *)
(* one input of one part; the invariants say what the part makes of it.    *)
(***************************************************************************)
EXTENDS Exec, Decode, LoadStore, Loader

CONSTANTS
  FieldBytes,   \* the bytes of header fields
  File,         \* an ELF file: its bytes by their offset
  Memory0,      \* memory before the file is loaded, a byte per address
  Sections,     \* where .text and .data are in the file, and are to be
  NameTables,   \* the section names of a file, in the order of its headers
  Registers, Imms12, Imms20, Shamts,  \* the operands of instructions
  Opcodes,      \* the opcodes of words that may be no instructions...
  RegisterTriples, \* ...and what they have as rs2, rs1 and rd
  Operands,     \* the words that are computed with
  Elements,     \* what l1 may serve: 8 bytes for each element
  Addresses,    \* what is loaded from and stored to
  Doublewords   \* what is stored, 8 bytes each

(* The reference.                                                          *)
Rv == INSTANCE RISCV

(* Text and data do not overlap, neither in the file nor in memory.        *)
Apart(a, n, b, m) == a + n <= b \/ b + m <= a

IsLayout(s) ==
  /\ s \in [vadr : Nat, cadr : Nat, csize : Nat \ {0},
            gp : Nat, dadr : Nat, dsize : Nat \ {0}]
  /\ \A f \in DOMAIN s : s[f] < IntRange \div 2
  /\ s.vadr % 4 = 0 /\ s.csize % 4 = 0
  /\ Apart(s.cadr, s.csize, s.dadr, s.dsize)
  /\ Apart(s.vadr, s.csize, s.gp, s.dsize)
  /\ s.cadr .. (s.cadr + s.csize - 1) \subseteq DOMAIN File
  /\ s.dadr .. (s.dadr + s.dsize - 1) \subseteq DOMAIN File
  /\ s.vadr .. (s.vadr + s.csize - 1) \subseteq DOMAIN Memory0
  /\ s.gp .. (s.gp + s.dsize - 1) \subseteq DOMAIN Memory0

(* Any two bytes of the file can be told apart, and from those that memory *)
(* starts with.                                                            *)
ASSUME FilesAssumption ==
  /\ FieldBytes \subseteq 0 .. (Byte - 1)
  /\ DOMAIN File \subseteq Nat /\ DOMAIN Memory0 \subseteq Nat
  /\ \A o, p \in DOMAIN File : File[o] = File[p] => o = p
  /\ \A o \in DOMAIN File, a \in DOMAIN Memory0 : File[o] # Memory0[a]
  /\ \A s \in Sections : IsLayout(s)
  /\ \A names \in NameTables :
       /\ names \in Seq(0 .. (IntRange - 1))
       /\ \A name \in {TextName, DataName} :
            \E i \in DOMAIN names : \A j \in DOMAIN names :
              names[j] = name <=> j = i

ASSUME WordsAssumption ==
  /\ Registers \subseteq 0 .. 31
  /\ Imms12 \subseteq -2^11 .. (2^11 - 1)
  /\ Imms20 \subseteq -2^19 .. (2^19 - 1)
  /\ Shamts \subseteq 0 .. 63
  /\ Opcodes \subseteq 0 .. 127 \ {115}
  /\ RegisterTriples \subseteq (0 .. 31) \X (0 .. 31) \X (0 .. 31)

ASSUME OperandsAssumption ==
  /\ Operands \subseteq 0 .. (2^XLen - 1)
  /\ Addresses \subseteq Nat
  /\ Doublewords \subseteq [0 .. 7 -> 0 .. 255]
  /\ \A elements \in Elements :
       /\ elements \in [DOMAIN elements -> [0 .. 7 -> 0 .. 255]]
       /\ \A addr \in Addresses :
            {LoadedElement(addr), StoredElement(addr)} \subseteq DOMAIN elements

VARIABLE input

RvOps == {o[1] : o \in Rv!RegisterOps}

FieldSizes == {2, 4, 8}

(* A field of n bytes for a number, the lowest first.                      *)
Field(v, n) == [i \in 1 .. n |-> (v \div Byte^(i - 1)) % Byte]

Header(name, addr, offset, size) ==
  [name |-> Field(name, 4), addr |-> Field(addr, 8),
   offset |-> Field(offset, 8), size |-> Field(size, 8)]

(* The headers of a file: those of .text, of .data and of sections that are*)
(* not loaded.                                                             *)
HeaderFor(s, name) ==
  CASE name = TextName -> Header(TextName, s.vadr, s.cadr, s.csize)
    [] name = DataName -> Header(DataName, s.gp, s.dadr, s.dsize)
    [] OTHER           -> Header(name, 0, s.cadr, s.dsize)

Headers(s, names) == [i \in DOMAIN names |-> HeaderFor(s, names[i])]

(* The inputs of each part.                                                *)
FieldInputs ==
  UNION {[check : {"field"}, bytes : [1 .. n -> FieldBytes]] : n \in FieldSizes}

ImageInputs == [check : {"image"}, sections : Sections, names : NameTables]

WordInputs ==
  {[check |-> "word", inst |-> e.inst, word |-> e.word] :
     e \in Rv!Encodings(Registers, Imms12, Shamts, Imms20)}

Form(opcode, f3, f7, r) ==
  [check |-> "form", opcode |-> opcode, f3 |-> f3, f7 |-> f7,
   word |-> Rv!RWord(f7, r[1], r[2], f3, r[3], opcode)]

FormInputs == {Form(opcode, f3, f7, r) :
                 opcode \in Opcodes, f3 \in 0 .. 7, f7 \in 0 .. 127,
                 r \in RegisterTriples}

AluInputs == [check : {"alu"}, op : RvOps, a : Operands, b : Operands]

BranchInputs ==
  [check : {"branch"}, op : {o[1] : o \in Rv!BranchOps}, a : Operands, b : Operands]

AccessInputs ==
  {i \in [check : {"access"}, op : Narrow \cup {"d"}, addr : Addresses,
          elements : Elements] :
     i.addr % Rv!AccessWidth(i.op) = 0}

StoreInputs ==
  {i \in [check : {"store"}, op : {"b", "h", "w", "d"}, addr : Addresses,
          data : Doublewords, elements : Elements] :
     i.addr % Rv!AccessWidth(i.op) = 0}

-----------------------------------------------------------------------------
Init == input = [check |-> "none"]

(* Nothing has been taken yet.                                             *)
Fresh == input.check = "none"

CheckField  == Fresh /\ input' \in FieldInputs
CheckImage  == Fresh /\ input' \in ImageInputs
CheckWord   == Fresh /\ input' \in WordInputs
CheckForm   == Fresh /\ input' \in FormInputs
CheckAlu    == Fresh /\ input' \in AluInputs
CheckBranch == Fresh /\ input' \in BranchInputs
CheckAccess == Fresh /\ input' \in AccessInputs
CheckStore  == Fresh /\ input' \in StoreInputs

Checked == ~ Fresh /\ UNCHANGED input

Next == \/ CheckField \/ CheckImage \/ CheckWord \/ CheckForm
        \/ CheckAlu \/ CheckBranch \/ CheckAccess \/ CheckStore \/ Checked

Spec == Init /\ [][Next]_input

-----------------------------------------------------------------------------
(* ELF files.                                                              *)

LittleEndian(bytes) ==
  LET sum[i \in 0 .. Len(bytes)] ==
        IF i = 0 THEN 0 ELSE sum[i - 1] + bytes[i] * Byte^(i - 1)
  IN sum[Len(bytes)]

(* A field that is cast to unsigned int is read as it stands in the file,  *)
(* although char2num accumulates it in an int.  An address, offset or size *)
(* of eight bytes is, exactly if it is below 2^31 or the sign extension of *)
(* a negative int.                                                         *)
FieldsExact ==
  input.check = "field" =>
    LET c == input.bytes
        v == LittleEndian(c)
    IN IF Len(c) < 8
         THEN Char2UInt(c, Len(c)) = v
         ELSE Char2Num(c, 8) = v
                <=> v < IntRange \div 2 \/ v >= LongRange - IntRange \div 2

(* IF fetches the text of the file from the addresses its section header   *)
(* gives, and the bytes of .data stand at theirs, whatever the order of the*)
(* headers, exactly if both sections start at a multiple of 8: load_memory *)
(* rounds their addresses down.                                            *)
ImageLoaded ==
  input.check = "image" =>
    LET s == input.sections
        layout == ReadElfSections(Headers(s, input.names))
        memory == LoadMemory(Memory0, layout, File)
        TextLoaded ==
          \A k \in 0 .. (s.csize \div 4 - 1) :
            FetchBytes(memory, s.vadr \div 4 + k)
              = [i \in 0 .. 3 |-> File[s.cadr + 4 * k + i]]
        DataLoaded ==
          \A i \in 0 .. (s.dsize - 1) :
            memory[s.gp + i] = File[s.dadr + i]
    IN (TextLoaded /\ DataLoaded) <=> (s.vadr % 8 = 0 /\ s.gp % 8 = 0)

-----------------------------------------------------------------------------
(* Decoding.                                                               *)

Unsupported(i) == i.op = "divuw" \/ i.kind = "fence"

(* execute_Decode takes every word of RV64IM for the instruction it encodes*)
(* with its registers and its immediate, but for divuw and fence, which it *)
(* calls illegal.                                                          *)
DecodesRV64IM ==
  input.check = "word" =>
    IF Unsupported(input.inst) THEN Decode(input.word).kind = Illegal
    ELSE Decode(input.word) = input.inst

(* It rejects the words that are no instruction: with those of slliw it    *)
(* does not look at funct7, nor at funct3 with those of jalr.              *)
RejectsTheRest ==
  input.check = "form" =>
    LET overlooked == \/ input.opcode = 27 /\ input.f3 = 1
                      \/ input.opcode = 103
    IN Decode(input.word).kind # Illegal =>
         Rv!Defined(input.opcode, input.f3, input.f7) \/ overlooked

-----------------------------------------------------------------------------
(* Executing.                                                              *)

(* Where execute_ALU does not compute what RISC-V does: the divisions that *)
(* raise SIGFPE instead of yielding a value; mulh, which multiplies by an  *)
(* unsigned number; srlw, which shifts bits of the upper half down.        *)
Deviates(op, a, b) ==
  CASE op \in {"div", "rem"}   -> b = 0 \/ (long(a) = LeastLong /\ long(b) = -1)
    [] op \in {"divu", "remu"} -> b = 0
    [] op \in {"divw", "remw"} -> uint(b) = 0 \/ (int(a) = LeastInt /\ int(b) = -1)
    [] op = "remuw" -> uint(b) = 0
    [] op = "mulh"  -> long(b) < 0 /\ a # 0
    [] op = "srlw"  -> (a \div 2^Half) % 2^(b % Half) # 0
    [] OTHER        -> FALSE

(* execute_ALU computes RISC-V's result from all operands but these.       *)
AluConforms ==
  input.check = "alu" /\ input.op \in AluOps =>
    Alu(input.op, input.a, input.b) = Rv!Result(input.op, input.a, input.b)
      <=> ~ Deviates(input.op, input.a, input.b)

(* execute_Branch decides as RISC-V does, signed and unsigned.             *)
BranchConforms ==
  input.check = "branch" =>
    Taken(input.op, input.a, input.b) = Rv!Branches(input.op, input.a, input.b)

(* A narrow load from the upper half of an element gets the bytes of the   *)
(* lower half, which may happen to be the same.                            *)
UpperHalfLost(op, addr, element) ==
  /\ op \in Narrow
  /\ addr % 8 >= 4
  /\ \E i \in 0 .. (Rv!AccessWidth(op) - 1) :
       element[(addr % 4) + i] # element[(addr % 8) + i]

(* Of the element it asks l1 for, a load yields the bytes that RISC-V loads *)
(* from the doubleword at this address, extended as RISC-V does, except    *)
(* exactly when those are lost: getbit cannot see the upper half.          *)
LoadsSelect ==
  input.check = "access" =>
    LET element == input.elements[LoadedElement(input.addr)]
    IN Load(input.op, input.addr, input.elements)
         = Rv!Load(input.op, input.addr % 8, element)
       <=> ~ UpperHalfLost(input.op, input.addr, element)

(* sb, sh and sw transfer no word, which shows unless the bytes are there  *)
(* already.                                                                *)
StoreLost(op, addr, data, element) ==
  /\ op # "d"
  /\ \E i \in 0 .. (Rv!AccessWidth(op) - 1) : element[(addr % 8) + i] # data[i]

(* A store leaves memory as RISC-V's does, except exactly when it is lost. *)
StoresConform ==
  input.check = "store" =>
    LET e == input.addr \div 8
        stored == Rv!Store(input.op, input.addr % 8, input.data, input.elements[e])
    IN Store(input.op, input.addr, input.data, input.elements)
         = [input.elements EXCEPT ![e] = stored]
       <=> ~ StoreLost(input.op, input.addr, input.data, input.elements[e])

(* RV64IM: what sd stores, ld loads from the same address.                 *)
LoadsSeeStores ==
  input.check = "store" /\ input.op = "d" =>
    Load("d", input.addr, Store("d", input.addr, input.data, input.elements)) = input.data

=============================================================================
