----------------------------- MODULE LoadStore ------------------------------
(***************************************************************************)
(* execute_LSU (ISimulator/src/LSU.cpp) on memory as l1 serves it: an array*)
(* of elements of 8 bytes each, byte 0 the least significant.  That a      *)
(* misaligned access sets exit_flag, after which it takes place all the    *)
(* same, is part of Pipeline.                                              *)
(***************************************************************************)
EXTENDS Integers, Sequences

Narrow == {"b", "h", "w", "bu", "hu", "wu"}

(* new_addr = (addr >> 1) << 3 asks l1 for element addr / 2; a store asks  *)
(* for byte address addr.                                                  *)
LoadedElement(addr) == addr \div 2
StoredElement(addr) == addr \div 8

(* The uint32_t data1.  LSU.cpp sees only the getbit of 32-bit words: it   *)
(* gets the low half of content[0] for bits 32 to 63 and for bits 0 to 31  *)
(* (a shift by -32 is a shift by 0 on the processor).                      *)
Data1(element) == [i \in 0 .. 3 |-> element[i]]

\* A mutation: bytes are picked as on a big-endian machine.
PickedBigEndian(op, addr, data1) ==
  CASE op \in {"b", "bu"} -> <<data1[3 - (addr % 4)]>>
    [] op \in {"h", "hu"} -> IF addr % 4 = 0 THEN <<data1[2], data1[3]>>
                             ELSE <<data1[0], data1[1]>>
    [] OTHER -> <<data1[0], data1[1], data1[2], data1[3]>>

(* The bytes of data1 that a narrow load takes, the lowest first.          *)
Picked(op, addr, data1) ==
  CASE op \in {"b", "bu"} -> <<data1[addr % 4]>>
    [] op \in {"h", "hu"} -> IF addr % 4 = 0 THEN <<data1[0], data1[1]>>
                             ELSE <<data1[2], data1[3]>>
    [] OTHER -> <<data1[0], data1[1], data1[2], data1[3]>>

(* ldata: bytes filled up with their sign, or with zeros for lbu, lhu, lwu.*)
Filled(op, bytes) ==
  LET n == Len(bytes)
      fill == IF op \in {"b", "h", "w"} /\ bytes[n] >= 128 THEN 255 ELSE 0
  IN [i \in 0 .. 7 |-> IF i < n THEN bytes[i + 1] ELSE fill]

Load(op, addr, elements) ==
  LET element == elements[LoadedElement(addr)]
  IN IF op \in Narrow THEN Filled(op, Picked(op, addr, Data1(element)))
     ELSE element

\* A mutation: bytes / 8 is rounded up.
StoreRoundedUp(op, addr, data, elements) ==
  [elements EXCEPT ![StoredElement(addr)] = data]

(* bytes / 8 words are stored: none but for sd.                            *)
Store(op, addr, data, elements) ==
  IF op = "d" THEN [elements EXCEPT ![StoredElement(addr)] = data]
  ELSE elements

=============================================================================
