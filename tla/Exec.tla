-------------------------------- MODULE Exec --------------------------------
(***************************************************************************)
(* What execute_ALU (ISimulator/src/ALU.cpp) and execute_Branch            *)
(* (ISimulator/src/Branch.cpp) compute, on words of XLen bits instead of   *)
(* 64: long has XLen bits, int half of them, __int128 twice as many.       *)
(* Signed overflow wraps around, as it does in the code compilers make.    *)
(***************************************************************************)
EXTENDS Integers

CONSTANT XLen

ASSUME XLenAssumption == XLen \in {4, 8, 64}

(* What powers of two are, of which the provers have no definition.        *)
ASSUME PowerAssumption ==
  \A m, n \in 0 .. XLen : m + n <= XLen =>
    2^m \in Nat \ {0} /\ 2^(m + n) = 2^m * 2^n

Half == XLen \div 2

(* The conversions of C++: to an unsigned type of n bits, to a signed one. *)
Unsigned(n, x) == x % 2^n
AsSigned(n, x) == LET u == Unsigned(n, x)
                  IN IF u >= 2^(n - 1) THEN u - 2^n ELSE u

ulong(x) == Unsigned(XLen, x)
long(x)  == AsSigned(XLen, x)
uint(x)  == Unsigned(Half, x)
int(x)   == AsSigned(Half, x)

(* ext_signed(src, 32).                                                    *)
ExtSigned(src) == ulong(AsSigned(Half, src))

(* The processor's integer division: by zero, or with a quotient that does *)
(* not fit (the least number by -1), it raises SIGFPE, here a value that no*)
(* word has.                                                               *)
Fault == -1

OrFault(least, x, y, value) ==
  IF y = 0 \/ (x = least /\ y = -1) THEN Fault ELSE value

Abs(x) == IF x < 0 THEN -x ELSE x

Div(x, y) == IF (x < 0) = (y < 0) THEN Abs(x) \div Abs(y)
             ELSE -(Abs(x) \div Abs(y))
Rem(x, y) == IF x < 0 THEN -(Abs(x) % Abs(y)) ELSE Abs(x) % Abs(y)

LeastLong == -(2^(XLen - 1))
LeastInt  == -(2^(Half - 1))

(* The high word of a product in __int128: >> XLen.                        *)
High(product) == ulong(product \div 2^XLen)

(* The operators ^, | and & of C++ decide on each bit of a word by the bits *)
(* of the operands.                                                        *)
BitOf(x, i) == (x \div 2^i) % 2
Ones(x) == {i \in 0 .. (XLen - 1) : BitOf(x, i) = 1}
WordOf(ones) == CHOOSE w \in 0 .. (2^XLen - 1) : Ones(w) = ones

Xor(a, b) == WordOf((Ones(a) \ Ones(b)) \cup (Ones(b) \ Ones(a)))
Or(a, b)  == WordOf(Ones(a) \cup Ones(b))
And(a, b) == WordOf(Ones(a) \cap Ones(b))

\* A mutation: sraw shifts an unsigned number.
SraWordLogical(a, b) == ExtSigned(uint(a) \div 2^(b % Half))

(* The case of ALU_SRAW.                                                   *)
SraWord(a, b) == ExtSigned(uint(int(a) \div 2^(b % Half)))

(* execute_ALU: the value of an operation on two registers.                *)
Alu(op, a, b) ==
  CASE op = "add"    -> ulong(long(a) + long(b))
    [] op = "sub"    -> ulong(long(a) - long(b))
    [] op = "mul"    -> ulong(long(a) * long(b))
    [] op = "mulh"   -> High(long(a) * b)
    [] op = "mulhsu" -> High(long(a) * b)
    [] op = "mulhu"  -> High(a * b)
    [] op = "sll"    -> ulong(a * 2^(b % XLen))
    [] op = "srl"    -> a \div 2^(b % XLen)
    [] op = "sra"    -> ulong(long(a) \div 2^(b % XLen))
    [] op = "slt"    -> IF long(a) < long(b) THEN 1 ELSE 0
    [] op = "sltu"   -> IF a < b THEN 1 ELSE 0
    [] op = "xor"    -> Xor(a, b)
    [] op = "or"     -> Or(a, b)
    [] op = "and"    -> And(a, b)
    [] op = "div"    ->
         OrFault(LeastLong, long(a), long(b), ulong(Div(long(a), long(b))))
    [] op = "rem"    ->
         OrFault(LeastLong, long(a), long(b), ulong(Rem(long(a), long(b))))
    [] op = "divu"   -> OrFault(LeastLong, a, b, a \div b)
    [] op = "remu"   -> OrFault(LeastLong, a, b, a % b)
    [] op = "addw"   -> ExtSigned(uint(int(a) + int(b)))
    [] op = "subw"   -> ExtSigned(uint(int(a) - int(b)))
    [] op = "sllw"   -> ExtSigned(uint(a * 2^(b % Half)))
    [] op = "srlw"   -> ExtSigned(uint(a \div 2^(b % Half)))
    [] op = "sraw"   -> SraWord(a, b)
    [] op = "mulw"   -> ExtSigned(uint(int(a) * int(b)))
    [] op = "divw"   ->
         OrFault(LeastInt, int(a), int(b), ExtSigned(uint(Div(int(a), int(b)))))
    [] op = "remw"   ->
         OrFault(LeastInt, int(a), int(b), ExtSigned(uint(Rem(int(a), int(b)))))
    [] op = "remuw"  ->
         OrFault(LeastInt, uint(a), uint(b), ExtSigned(uint(a) % uint(b)))

AluOps ==
  {"add", "sub", "mul", "mulh", "mulhsu", "mulhu", "sll", "srl", "sra", "slt",
   "sltu", "xor", "or", "and", "div", "rem", "divu", "remu", "addw", "subw",
   "sllw", "srlw", "sraw", "mulw", "divw", "remw", "remuw"}

\* A mutation: the unsigned comparisons are signed.
TakenSigned(op, a, b) ==
  CASE op = "beq"               -> a = b
    [] op = "bne"               -> a # b
    [] op \in {"blt", "bltu"}   -> long(a) < long(b)
    [] op \in {"bge", "bgeu"}   -> long(a) >= long(b)

(* execute_Branch: the condition of a branch.                              *)
Taken(op, a, b) ==
  CASE op = "beq"  -> a = b
    [] op = "bne"  -> a # b
    [] op = "blt"  -> long(a) < long(b)
    [] op = "bge"  -> long(a) >= long(b)
    [] op = "bltu" -> a < b
    [] op = "bgeu" -> a >= b

=============================================================================
