------------------------------ MODULE MCUnits -------------------------------
(* Constants of the model-checking runs of Units.                          *)
EXTENDS Units

SomeFieldBytes == {0, 1, Byte - 1}

(* Every byte of the file is another one.                                  *)
SomeFile   == [o \in 0 .. 40 |-> o + 1]
SomeMemory == [a \in 0 .. 71 |-> 0]

(* The data follow the text, in the file and in memory.                    *)
SomeSections ==
  {[vadr |-> v, cadr |-> c, csize |-> n, gp |-> g, dadr |-> c + n, dsize |-> m] :
     <<v, c, n, g, m>> \in
       {<<v, c, n, g, m>> \in
          {0, 4, 8, 12, 16} \X {3, 8} \X {4, 8, 12} \X {16, 24, 28, 32, 33}
          \X {1, 8, 9} : v + n <= g}}

(* Among the sections is one that is not loaded.                           *)
SomeNames == {<<TextName, DataName, DataName + 6>>,
              <<DataName + 6, DataName, TextName>>}

(* Registers: all bits clear, 00101 and 11010.                             *)
SomeRegs   == {0, 5, 26}
SomeImms12 == {-2048, -1024, -1, 0, 5, 1023, 2047}
SomeImms20 == {-524288, -262144, -1, 0, 5, 262143, 524287}
SomeShamts == {0, 1, 31, 32, 63}

(* The opcodes of RV64IM and four that it does not have.                   *)
SomeOpcodes == {3, 15, 19, 23, 27, 35, 51, 55, 59, 99, 103, 111} \cup {0, 7, 47, 127}
SomeTriples == {<<5, 26, 5>>}

(* Registers of two halves, the lower of which is at a boundary, signed or *)
(* unsigned.                                                               *)
SomeWords == {w \in 0 .. 255 : w % 16 \in {0, 1, 7, 8, 15}}

(* Elements with and without the sign bit, whose bytes are all different,  *)
(* or whose upper half repeats the first byte of the lower one, or all.    *)
SomeElements ==
  {[e \in 0 .. 7 |->
      [i \in 0 .. 7 |-> (8 * e + 31 * (IF i < n THEN i % 4 ELSE i) + k) % 256]] :
     k \in {0, 100, 128}, n \in {4, 5, 8}}
SomeAddresses == 0 .. 15
SomeData  == {[i \in 0 .. 7 |-> 200 + i], [i \in 0 .. 7 |-> 31 * i]}

=============================================================================
