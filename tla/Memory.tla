------------------------------- MODULE Memory -------------------------------
(***************************************************************************)
(* class Memory of CSimulator/include/memory.h: the array at the bottom of *)
(* the storage hierarchy, as pure operators on its contents.  The array is *)
(* kept as a function from word numbers (byte address / 8) to values; its  *)
(* domain holds the words a model can reach, never a word beyond the       *)
(* array.                                                                  *)
(***************************************************************************)
EXTENDS Integers

CONSTANT
  MemSize     \* MAX: the size of the array in bytes

(* memory[addr / 8]: the element that holds byte address addr.             *)
WordOf(addr) == addr \div 8

(* The elements of uint64_t memory[MAX / 8].                               *)
ArrayWords == 0 .. (MemSize \div 8 - 1)

(* An access of n words at addr stays inside mem.                          *)
InArray(mem, addr, n) ==
  \A i \in 0 .. (n - 1) : WordOf(addr) + i \in DOMAIN mem

(* handle_request with read set: content[i] = memory[addr / 8 + i].        *)
ReadWords(mem, addr, n) ==
  [i \in 0 .. (n - 1) |-> mem[WordOf(addr) + i]]

(* handle_request with read clear: memory[addr / 8 + i] = content[i].      *)
WriteWords(mem, addr, content) ==
  [w \in DOMAIN mem |->
     IF w - WordOf(addr) \in DOMAIN content
       THEN content[w - WordOf(addr)]
       ELSE mem[w]]

=============================================================================
