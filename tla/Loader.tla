------------------------------- MODULE Loader -------------------------------
(***************************************************************************)
(* From the ELF file to the instruction that IF fetches: char2num and      *)
(* read_elf_sections (ISimulator/src/Read_Elf.cpp), load_memory and the    *)
(* fetch of pipeline_IF (Simulation.cpp).                                  *)
(*                                                                         *)
(* A byte of a header field has Byte values, 256 in the program and fewer  *)
(* in an instance; int has 4 bytes and long 8.  Text and data are bytes    *)
(* that only need to be told apart.                                        *)
(***************************************************************************)
EXTENDS Integers, Sequences

CONSTANT Byte

ASSUME ByteAssumption == Byte \in {4, 16, 256}

(* What powers are, of which the provers have no definition.               *)
ASSUME BytePowerAssumption ==
  Byte^0 = 1 /\ \A k \in 0 .. 7 : Byte^(k + 1) = Byte * Byte^k

IntRange  == Byte^4
LongRange == Byte^8

(* The conversion to int, which may turn a number negative.                *)
ToInt(x) == LET u == x % IntRange
            IN IF u >= IntRange \div 2 THEN u - IntRange ELSE u

\* A mutation: the bytes are taken in the order of the file, highest first.
BytesSumReversed(c, n) ==
  LET ans[i \in 0 .. n] ==
        IF i = 0 THEN 0 ELSE ToInt(ans[i - 1] + Byte^(n - i) * c[i])
  IN ans[n]

(* The loop of char2num: ans, an int, after i of its turns.                *)
BytesSum(c, n) ==
  LET ans[i \in 0 .. n] ==
        IF i = 0 THEN 0 ELSE ToInt(ans[i - 1] + Byte^(i - 1) * c[i])
  IN ans[n]

(* char2num(c, n), an unsigned long.                                       *)
Char2Num(c, n) == BytesSum(c, n) % LongRange

(* (unsigned int)char2num(c, 4).                                           *)
Char2UInt(c, n) == Char2Num(c, n) % IntRange

-----------------------------------------------------------------------------
(* read_elf_sections: a section header is its sh_name, an offset into the  *)
(* table of names, and its sh_addr, sh_offset and sh_size.  The code takes *)
(* the sections at TextName and DataName for .text and .data.              *)
TextName == 27
DataName == 67

NoLayout == [vadr |-> 0, cadr |-> 0, csize |-> 0, gp |-> 0, dadr |-> 0, dsize |-> 0]

ReadSection(layout, header) ==
  LET name == Char2UInt(header.name, 4)
      addr == Char2Num(header.addr, 8)
      off  == Char2Num(header.offset, 8)
      size == Char2Num(header.size, 8)
  IN CASE name = TextName -> [layout EXCEPT !.vadr = addr, !.cadr = off, !.csize = size]
       [] name = DataName -> [layout EXCEPT !.gp = addr, !.dadr = off, !.dsize = size]
       [] OTHER -> layout

(* What the globals hold after i of the headers.                           *)
ReadElfSections(headers) ==
  LET layout[i \in 0 .. Len(headers)] ==
        IF i = 0 THEN NoLayout ELSE ReadSection(layout[i - 1], headers[i])
  IN layout[Len(headers)]

(* fread(&m.memory[to >> 3], 1, size, file) at offset from: memory is an   *)
(* array of 8-byte elements, here the bytes they occupy.  At the end of the*)
(* file it stops.                                                          *)
Fread(memory, to, size, file, from) ==
  [a \in DOMAIN memory |->
     LET i == a - 8 * (to \div 8)
     IN IF i \in 0 .. (size - 1) /\ from + i \in DOMAIN file
          THEN file[from + i] ELSE memory[a]]

\* A mutation: .data is read from where .text starts in the file.
LoadMemoryTextTwice(memory, layout, file) ==
  Fread(Fread(memory, layout.vadr, layout.csize, file, layout.cadr),
        layout.gp, layout.dsize, file, layout.cadr)

LoadMemory(memory, layout, file) ==
  Fread(Fread(memory, layout.vadr, layout.csize, file, layout.cadr),
        layout.gp, layout.dsize, file, layout.dadr)

(* pipeline_IF: element PC / 2, of which getbit takes the low half (bits 32*)
(* to 63) for an even PC and the high half for an odd one.                 *)
FetchBytes(memory, PC) ==
  LET low == 8 * (PC \div 2) + (IF PC % 2 = 0 THEN 0 ELSE 4)
  IN [i \in 0 .. 3 |-> memory[low + i]]

=============================================================================
