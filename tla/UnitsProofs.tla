---------------------------- MODULE UnitsProofs -----------------------------
(***************************************************************************)
(* What module Units says of the parts of ISimulator that keep no state,   *)
(* proved for all inputs that its constants may hold.                      *)
(***************************************************************************)
EXTENDS Units, NatProofs

(* A behaviour takes one input of one part.                                *)
InputLegal ==
  \/ input = [check |-> "none"]
  \/ input \in FieldInputs \/ input \in ImageInputs \/ input \in WordInputs
  \/ input \in FormInputs \/ input \in AluInputs \/ input \in BranchInputs
  \/ input \in AccessInputs \/ input \in StoreInputs

LEMMA InputsLegal == Spec => []InputLegal
<1>1. Init => InputLegal
  BY DEF Init, InputLegal
<1>2. InputLegal /\ [Next]_input => InputLegal'
  BY Zenon DEF InputLegal, Next, CheckField, CheckImage, CheckWord, CheckForm, CheckAlu,
               CheckBranch, CheckAccess, CheckStore, Checked
<1>3. QED
  BY <1>1, <1>2, PTL DEF Spec

(* Which part an input is for tells which set it is from.                  *)
LEMMA InputKinds ==
  ASSUME InputLegal
  PROVE  /\ input.check = "field" => input \in FieldInputs
         /\ input.check = "image" => input \in ImageInputs
         /\ input.check = "word" => input \in WordInputs
         /\ input.check = "form" => input \in FormInputs
         /\ input.check = "alu" => input \in AluInputs
         /\ input.check = "branch" => input \in BranchInputs
         /\ input.check = "access" => input \in AccessInputs
         /\ input.check = "store" => input \in StoreInputs
<1>1. input \in FieldInputs => input.check = "field"
  BY DEF FieldInputs
<1>2. input \in ImageInputs => input.check = "image"
  BY DEF ImageInputs
<1>3. input \in WordInputs => input.check = "word"
  BY DEF WordInputs
<1>4. input \in FormInputs => input.check = "form"
  <2> SUFFICES ASSUME input \in FormInputs PROVE input.check = "form"
    OBVIOUS
  <2>1. PICK opcode \in Opcodes, f3 \in 0 .. 7, f7 \in 0 .. 127, r \in RegisterTriples :
          input = Form(opcode, f3, f7, r)
    BY DEF FormInputs
  <2>2. QED
    BY <2>1 DEF Form
<1>5. input \in AluInputs => input.check = "alu"
  BY DEF AluInputs
<1>6. input \in BranchInputs => input.check = "branch"
  BY DEF BranchInputs
<1>7. input \in AccessInputs => input.check = "access"
  BY DEF AccessInputs
<1>8. input \in StoreInputs => input.check = "store"
  BY DEF StoreInputs
<1>9. QED
  BY <1>1, <1>2, <1>3, <1>4, <1>5, <1>6, <1>7, <1>8 DEF InputLegal

-----------------------------------------------------------------------------
(* Loads and stores.                                                       *)

LEMMA AccessWidths ==
  /\ Rv!AccessWidth("d") = 8
  /\ \A op \in {"b", "bu"} : Rv!AccessWidth(op) = 1
  /\ \A op \in {"h", "hu"} : Rv!AccessWidth(op) = 2
  /\ \A op \in {"w", "wu"} : Rv!AccessWidth(op) = 4
BY DEF Rv!AccessWidth

(* Different bytes stay different when they are extended.                  *)
LEMMA ExtendedTells ==
  ASSUME NEW op \in Narrow, NEW n, n = Rv!AccessWidth(op),
         NEW b \in [0 .. (n - 1) -> 0 .. 255], NEW c \in [0 .. (n - 1) -> 0 .. 255]
  PROVE  Rv!Extended(op, b) = Rv!Extended(op, c) <=> b = c
<1>1. n \in {1, 2, 4}
  BY AccessWidths DEF Narrow
<1>2. ASSUME NEW x \in [0 .. (n - 1) -> 0 .. 255], NEW i \in 0 .. (n - 1)
      PROVE  Rv!Extended(op, x)[i] = x[i]
  <2>1. i \in 0 .. 7 /\ i < n
    BY <1>1
  <2>2. QED
    BY <2>1 DEF Rv!Extended
<1>3. ASSUME Rv!Extended(op, b) = Rv!Extended(op, c) PROVE b = c
  <2>1. \A i \in 0 .. (n - 1) : b[i] = c[i]
    BY <1>2, <1>3
  <2>2. b = [i \in 0 .. (n - 1) |-> b[i]] /\ c = [i \in 0 .. (n - 1) |-> c[i]]
    BY Zenon
  <2>3. QED
    BY <2>1, <2>2, Zenon
<1>4. QED
  BY <1>3

(* The bytes that a narrow load takes, as its position in the lower half   *)
(* says.                                                                   *)
LEMMA NarrowTakes ==
  ASSUME NEW op \in Narrow, NEW addr \in Nat, NEW element \in [0 .. 7 -> 0 .. 255],
         addr % Rv!AccessWidth(op) = 0
  PROVE  Filled(op, Picked(op, addr, Data1(element)))
           = Rv!Extended(op, [i \in 0 .. (Rv!AccessWidth(op) - 1) |-> element[(addr % 4) + i]])
<1> DEFINE at == addr % 4
           bytes == [i \in 0 .. (Rv!AccessWidth(op) - 1) |-> element[at + i]]
<1>1. CASE op \in {"b", "bu"}
  <2>1. at \in 0 .. 3
    OBVIOUS
  <2>2. Picked(op, addr, Data1(element)) = <<element[at]>>
    BY <1>1, <2>1 DEF Picked, Data1
  <2>3. bytes[0] = element[at]
    BY <1>1, <2>1, AccessWidths
  <2> HIDE DEF at, bytes
  <2>4. Filled(op, <<element[at]>>) = Rv!Extended(op, bytes)
    BY <1>1, <2>3 DEF Filled, Rv!Extended, Rv!AccessWidth
  <2>5. QED
    BY <2>2, <2>4 DEF at, bytes
<1>2. CASE op \in {"h", "hu"}
  <2>1. at = 0 \/ at = 2
    BY <1>2, AccessWidths
  <2>2. Picked(op, addr, Data1(element)) = <<element[at], element[at + 1]>>
    BY <1>2, <2>1 DEF Picked, Data1
  <2>3. bytes[0] = element[at] /\ bytes[1] = element[at + 1]
    BY <1>2, <2>1, AccessWidths
  <2> HIDE DEF at, bytes
  <2>4. Filled(op, <<element[at], element[at + 1]>>) = Rv!Extended(op, bytes)
    BY <1>2, <2>3 DEF Filled, Rv!Extended, Rv!AccessWidth
  <2>5. QED
    BY <2>2, <2>4 DEF at, bytes
<1>3. CASE op \in {"w", "wu"}
  <2>1. at = 0
    BY <1>3, AccessWidths
  <2>2. Picked(op, addr, Data1(element))
          = <<element[0], element[1], element[2], element[3]>>
    BY <1>3 DEF Picked, Data1
  <2>3. \A i \in 0 .. 3 : bytes[i] = element[i]
    BY <1>3, <2>1, AccessWidths
  <2> HIDE DEF at, bytes
  <2>4. Filled(op, <<element[0], element[1], element[2], element[3]>>)
          = Rv!Extended(op, bytes)
    BY <1>3, <2>3 DEF Filled, Rv!Extended, Rv!AccessWidth
  <2>5. QED
    BY <2>2, <2>4 DEF at, bytes
<1>4. QED
  BY <1>1, <1>2, <1>3 DEF Narrow

LEMMA LoadMatches ==
  ASSUME NEW op \in Narrow \cup {"d"}, NEW addr \in Nat, NEW elements,
         NEW element \in [0 .. 7 -> 0 .. 255], element = elements[LoadedElement(addr)],
         addr % Rv!AccessWidth(op) = 0
  PROVE  Load(op, addr, elements) = Rv!Load(op, addr % 8, element)
           <=> ~ UpperHalfLost(op, addr, element)
<1> DEFINE n == Rv!AccessWidth(op)
           low == [i \in 0 .. (n - 1) |-> element[(addr % 4) + i]]
           there == [i \in 0 .. (n - 1) |-> element[(addr % 8) + i]]
<1>1. Rv!Load(op, addr % 8, element) = Rv!Extended(op, there)
  BY DEF Rv!Load
<1>2. CASE op = "d"
  <2>1. n = 8 /\ addr % 8 = 0
    BY <1>2, AccessWidths
  <2>2. \A i \in 0 .. 7 : there[i] = element[i]
    BY <2>1
  <2> HIDE DEF n, there
  <2>3. Rv!Extended(op, there) = element
    BY <1>2, <2>2 DEF Rv!Extended, Rv!AccessWidth
  <2>4. Load(op, addr, elements) = element
    BY <1>2 DEF Load, Narrow
  <2>5. ~ UpperHalfLost(op, addr, element)
    BY <1>2 DEF UpperHalfLost, Narrow
  <2>6. QED
    BY <1>1, <2>3, <2>4, <2>5
<1>3. CASE op \in Narrow
  <2>1. n \in {1, 2, 4} /\ addr % n = 0
    BY <1>3, AccessWidths DEF Narrow
  <2>2. \A i \in 0 .. (n - 1) : (addr % 4) + i \in 0 .. 3 /\ (addr % 8) + i \in 0 .. 7
    <3>1. CASE n = 1
      BY <3>1
    <3>2. CASE n = 2
      BY <2>1, <3>2
    <3>3. CASE n = 4
      BY <2>1, <3>3
    <3>4. QED
      BY <2>1, <3>1, <3>2, <3>3
  <2>3. low \in [0 .. (n - 1) -> 0 .. 255] /\ there \in [0 .. (n - 1) -> 0 .. 255]
    <3> HIDE DEF n
    <3>1. QED
      BY <2>1, <2>2
  <2>4. Load(op, addr, elements) = Rv!Extended(op, low)
    BY <1>3, NarrowTakes DEF Load
  <2>5. Load(op, addr, elements) = Rv!Load(op, addr % 8, element) <=> low = there
    <3>1. low \in [0 .. (Rv!AccessWidth(op) - 1) -> 0 .. 255]
          /\ there \in [0 .. (Rv!AccessWidth(op) - 1) -> 0 .. 255]
      BY <2>3
    <3> HIDE DEF low, there, n
    <3>2. Rv!Extended(op, low) = Rv!Extended(op, there) <=> low = there
      BY <1>3, <3>1, ExtendedTells
    <3>3. QED
      BY <1>1, <2>4, <3>2
  <2>6. low = there <=> \A i \in 0 .. (n - 1) :
                          element[(addr % 4) + i] = element[(addr % 8) + i]
    <3>1. \A i \in 0 .. (n - 1) : low[i] = element[(addr % 4) + i]
                                  /\ there[i] = element[(addr % 8) + i]
      OBVIOUS
    <3> HIDE DEF n
    <3>2. QED
      BY <3>1
  <2>7. addr % 8 < 4 => addr % 8 = addr % 4
    OBVIOUS
  <2>8. QED
    BY <1>3, <2>5, <2>6, <2>7 DEF UpperHalfLost
<1>4. QED
  BY <1>2, <1>3

(* Of the element that execute_LSU asks l1 for, every load takes and       *)
(* extends the bytes that RISC-V's would, unless it is a narrow one from   *)
(* the upper half, and other bytes are there.                              *)
THEOREM LoadsAreRight == Spec => []LoadsSelect
<1>1. InputLegal => LoadsSelect
  <2> SUFFICES ASSUME InputLegal, input.check = "access" PROVE LoadsSelect
    BY DEF LoadsSelect
  <2>1. input \in AccessInputs
    BY InputKinds
  <2>2. /\ input.op \in Narrow \cup {"d"}
        /\ input.addr \in Addresses /\ input.elements \in Elements
        /\ input.addr % Rv!AccessWidth(input.op) = 0
    BY <2>1 DEF AccessInputs
  <2>3. \A addr \in Addresses, elements \in Elements :
          addr \in Nat /\ elements[LoadedElement(addr)] \in [0 .. 7 -> 0 .. 255]
    BY OperandsAssumption
  <2>4. QED
    BY <2>2, <2>3, LoadMatches DEF LoadsSelect
<1>2. QED
  BY <1>1, InputsLegal, PTL

LEMMA StoreMatches ==
  ASSUME NEW op \in {"b", "h", "w", "d"}, NEW addr \in Nat, NEW data \in [0 .. 7 -> 0 .. 255],
         NEW elements, elements \in [DOMAIN elements -> [0 .. 7 -> 0 .. 255]],
         StoredElement(addr) \in DOMAIN elements, addr % Rv!AccessWidth(op) = 0
  PROVE  LET e == addr \div 8
             stored == Rv!Store(op, addr % 8, data, elements[e])
         IN Store(op, addr, data, elements) = [elements EXCEPT ![e] = stored]
              <=> ~ StoreLost(op, addr, data, elements[e])
<1> DEFINE e == addr \div 8
           element == elements[e]
           n == Rv!AccessWidth(op)
           at == addr % 8
           stored == Rv!Store(op, at, data, element)
<1>1. e \in DOMAIN elements /\ element \in [0 .. 7 -> 0 .. 255]
  BY DEF StoredElement
<1>2. stored = [a \in 0 .. 7 |-> IF a \in at .. (at + n - 1) THEN data[a - at] ELSE element[a]]
  BY <1>1 DEF Rv!Store
<1>3. CASE op = "d"
  <2>1. n = 8 /\ at = 0
    BY <1>3, AccessWidths
  <2>2. stored = data
    <3> HIDE DEF stored, element, n, at
    <3>1. stored = [a \in 0 .. 7 |-> data[a]]
      BY <1>2, <2>1
    <3>2. QED
      BY <3>1
  <2>3. Store(op, addr, data, elements) = [elements EXCEPT ![e] = data]
    BY <1>3 DEF Store, StoredElement
  <2>4. ~ StoreLost(op, addr, data, element)
    BY <1>3 DEF StoreLost
  <2>5. QED
    BY <2>2, <2>3, <2>4
<1>4. CASE op # "d"
  <2>1. n \in {1, 2, 4} /\ addr % n = 0
    BY <1>4, AccessWidths
  <2>2. at \in 0 .. 7 /\ at + n <= 8
    <3>1. CASE n = 1
      BY <3>1
    <3>2. CASE n = 2
      BY <2>1, <3>2
    <3>3. CASE n = 4
      BY <2>1, <3>3
    <3>4. QED
      BY <2>1, <3>1, <3>2, <3>3
  <2>3. Store(op, addr, data, elements) = elements
    BY <1>4 DEF Store
  <2>4. elements = [elements EXCEPT ![e] = stored] <=> stored = element
    <3> HIDE DEF stored, element, e
    <3>1. QED
      BY <1>1 DEF element
  <2>5. stored = element <=> \A i \in 0 .. (n - 1) : element[at + i] = data[i]
    <3> HIDE DEF stored, element, n, at
    <3>1. \A i \in 0 .. (n - 1) : at + i \in 0 .. 7 /\ at + i \in at .. (at + n - 1)
                                  /\ (at + i) - at = i
      <4>1. n \in {1, 2, 4}
        BY <2>1
      <4>2. QED
        BY ONLY <2>2, <4>1
    <3>2. ASSUME stored = element, NEW i \in 0 .. (n - 1) PROVE element[at + i] = data[i]
      BY <1>2, <3>1, <3>2
    <3>3. ASSUME \A i \in 0 .. (n - 1) : element[at + i] = data[i] PROVE stored = element
      <4>1. \A a \in at .. (at + n - 1) : a - at \in 0 .. (n - 1) /\ at + (a - at) = a
        BY <2>1, <2>2
      <4>2. \A a \in 0 .. 7 : stored[a] = element[a]
        BY <1>2, <3>3, <4>1
      <4>3. QED
        BY <1>1, <1>2, <4>2
    <3>4. QED
      BY <3>2, <3>3
  <2>6. QED
    BY <1>4, <2>3, <2>4, <2>5 DEF StoreLost
<1>5. QED
  BY <1>3, <1>4

(* sd stores what RISC-V's would, and sb, sh and sw nothing.               *)
THEOREM StoresAreRight == Spec => []StoresConform
<1>1. InputLegal => StoresConform
  <2> SUFFICES ASSUME InputLegal, input.check = "store" PROVE StoresConform
    BY DEF StoresConform
  <2>1. input \in StoreInputs
    BY InputKinds
  <2>2. /\ input.op \in {"b", "h", "w", "d"} /\ input.addr \in Nat
        /\ input.data \in [0 .. 7 -> 0 .. 255]
        /\ input.elements \in [DOMAIN input.elements -> [0 .. 7 -> 0 .. 255]]
        /\ StoredElement(input.addr) \in DOMAIN input.elements
        /\ input.addr % Rv!AccessWidth(input.op) = 0
    BY <2>1, OperandsAssumption DEF StoreInputs
  <2>3. QED
    BY <2>2, StoreMatches DEF StoresConform
<1>2. QED
  BY <1>1, InputsLegal, PTL

-----------------------------------------------------------------------------
(* Words.                                                                  *)

LEMMA WordFacts ==
  /\ XLen \in Nat \ {0} /\ Half \in Nat \ {0} /\ XLen = 2 * Half
  /\ 2^XLen \in Nat \ {0} /\ 2^Half \in Nat \ {0}
  /\ 2^(XLen - 1) \in Nat \ {0} /\ 2^(Half - 1) \in Nat \ {0}
  /\ 2^XLen = 2 * 2^(XLen - 1) /\ 2^Half = 2 * 2^(Half - 1)
  /\ 2^XLen = 2^Half * 2^Half
  /\ \A s \in 0 .. XLen : 2^s \in Nat \ {0}
  /\ \A s \in 0 .. (XLen - 1) : 2^(s + 1) = 2 * 2^s
  /\ \A s \in 0 .. Half : 2^Half = 2^s * 2^(Half - s)
  /\ \A s \in 0 .. XLen : 2^XLen = 2^s * 2^(XLen - s)
<1>1. XLen \in Nat \ {0} /\ Half \in Nat \ {0} /\ XLen = 2 * Half /\ XLen - 1 \in Nat
      /\ Half - 1 \in Nat
  BY XLenAssumption DEF Half
<1> HIDE DEF Half
<1>2. \A m, n \in 0 .. XLen : m + n <= XLen =>
        2^m \in Nat \ {0} /\ 2^(m + n) = 2^m * 2^n
  BY PowerAssumption
<1>3. \A s \in 0 .. XLen : 2^s \in Nat \ {0}
  <2> TAKE s \in 0 .. XLen
  <2>1. 0 \in 0 .. XLen /\ s + 0 <= XLen
    BY <1>1
  <2>2. QED
    BY <1>2, <2>1
<1>4. 2^1 = 2
  OBVIOUS
<1>5. \A s \in 0 .. (XLen - 1) : 2^(s + 1) = 2 * 2^s
  <2> TAKE s \in 0 .. (XLen - 1)
  <2>1. s \in 0 .. XLen /\ 1 \in 0 .. XLen /\ 1 + s <= XLen /\ s + 1 = 1 + s
    BY <1>1
  <2>2. 2^(1 + s) = 2^1 * 2^s
    BY <1>2, <2>1
  <2>3. QED
    BY <1>4, <2>1, <2>2
<1>6. ASSUME NEW n \in 0 .. XLen, NEW s \in 0 .. n PROVE 2^n = 2^s * 2^(n - s)
  <2>1. s \in 0 .. XLen /\ n - s \in 0 .. XLen /\ s + (n - s) = n /\ n <= XLen
    BY <1>1
  <2>2. 2^(s + (n - s)) = 2^s * 2^(n - s)
    BY <1>2, <2>1
  <2>3. QED
    BY <2>1, <2>2
<1>7. 2^XLen = 2 * 2^(XLen - 1)
  <2>1. XLen - 1 \in 0 .. (XLen - 1) /\ (XLen - 1) + 1 = XLen
    BY <1>1
  <2>2. 2^((XLen - 1) + 1) = 2 * 2^(XLen - 1)
    BY <1>5, <2>1
  <2>3. QED
    BY <2>1, <2>2
<1>8. 2^Half = 2 * 2^(Half - 1)
  <2>1. Half - 1 \in 0 .. (XLen - 1) /\ (Half - 1) + 1 = Half
    BY <1>1
  <2>2. 2^((Half - 1) + 1) = 2 * 2^(Half - 1)
    BY <1>5, <2>1
  <2>3. QED
    BY <2>1, <2>2
<1>9. 2^XLen = 2^Half * 2^Half
  <2>1. XLen \in 0 .. XLen /\ Half \in 0 .. XLen /\ XLen - Half = Half
    BY <1>1
  <2>2. 2^XLen = 2^Half * 2^(XLen - Half)
    BY <1>1, <1>6, <2>1
  <2>3. QED
    BY <2>1, <2>2
<1>10. Half \in 0 .. XLen /\ XLen \in 0 .. XLen /\ Half - 1 \in 0 .. XLen
       /\ XLen - 1 \in 0 .. XLen
  BY <1>1
<1>11. QED
  BY <1>1, <1>3, <1>5, <1>6, <1>7, <1>8, <1>9, <1>10

(* A quotient and a remainder are determined by what they add up to...     *)
LEMMA IntDivUnique ==
  ASSUME NEW x \in Int, NEW d \in Nat \ {0}, NEW q \in Int, NEW r \in 0 .. (d - 1),
         x = d * q + r
  PROVE  x \div d = q /\ x % d = r
<1> DEFINE p == x \div d
           s == x % d
<1>1. x = d * p + s /\ p \in Int /\ s \in 0 .. (d - 1)
  OBVIOUS
<1> HIDE DEF p, s
<1>2. d * (p - q) = r - s
  BY <1>1
<1>3. ~ (p - q >= 1)
  <2> SUFFICES ASSUME p - q >= 1 PROVE FALSE
    OBVIOUS
  <2>1. d * (p - q) >= d
    BY <1>1
  <2>2. QED
    BY <1>1, <1>2, <2>1
<1>4. ~ (q - p >= 1)
  <2> SUFFICES ASSUME q - p >= 1 PROVE FALSE
    OBVIOUS
  <2>1. d * (q - p) >= d
    BY <1>1
  <2>2. d * (q - p) = s - r
    BY <1>1, <1>2
  <2>3. QED
    BY <1>1, <2>1, <2>2
<1>5. p = q
  BY <1>1, <1>3, <1>4
<1>6. r = s
  BY <1>1, <1>2, <1>5
<1>7. QED
  BY <1>5, <1>6 DEF p, s

(* ...and exist.                                                           *)
LEMMA IntDivMod ==
  ASSUME NEW x \in Int, NEW d \in Nat \ {0}
  PROVE  /\ x = d * (x \div d) + (x % d)
         /\ x \div d \in Int
         /\ x % d \in 0 .. (d - 1)
OBVIOUS

(* Adding a multiple of the divisor changes the quotient only.             *)
LEMMA AddMultiple ==
  ASSUME NEW x \in Int, NEW k \in Int, NEW d \in Nat \ {0}
  PROVE  (x + k * d) % d = x % d /\ (x + k * d) \div d = (x \div d) + k
<1> DEFINE q == x \div d
           r == x % d
<1>1. x = d * q + r /\ q \in Int /\ r \in 0 .. (d - 1)
  BY IntDivMod
<1> HIDE DEF q, r
<1>2. x + k * d = d * (q + k) + r /\ q + k \in Int /\ x + k * d \in Int
  BY <1>1
<1>3. (x + k * d) \div d = q + k /\ (x + k * d) % d = r
  BY <1>1, <1>2, IntDivUnique
<1>4. QED
  BY <1>3 DEF q, r

(* Two's complement: a signed number is its word, or that less 2^n.        *)
LEMMA SignedFacts ==
  ASSUME NEW n, 2^n \in Nat \ {0}, 2^(n - 1) \in Nat, 2^n = 2 * 2^(n - 1),
         NEW a \in 0 .. (2^n - 1)
  PROVE  /\ Rv!Signed(n, a) \in Int
         /\ \E i \in {0, 1} : Rv!Signed(n, a) = a - i * 2^n
                              /\ (i = 1 <=> Rv!Signed(n, a) < 0)
         /\ Rv!Signed(n, a) = 0 <=> a = 0
         /\ Rv!Signed(n, a) >= - 2^(n - 1) /\ Rv!Signed(n, a) < 2^(n - 1)
<1> DEFINE P == 2^n
           Q == 2^(n - 1)
<1> HIDE DEF P, Q
<1>1. Rv!Signed(n, a) = IF a >= Q THEN a - P ELSE a
  BY DEF Rv!Signed, P, Q
<1>2. P \in Nat \ {0} /\ Q \in Nat /\ P = 2 * Q /\ a \in 0 .. (P - 1)
  BY DEF P, Q
<1>3. CASE a >= Q
  <2>1. Rv!Signed(n, a) = a - 1 * P /\ Rv!Signed(n, a) < 0
    BY <1>1, <1>2, <1>3
  <2>2. QED
    BY <1>2, <1>3, <2>1 DEF P, Q
<1>4. CASE ~ (a >= Q)
  <2>1. Rv!Signed(n, a) = a - 0 * P /\ ~ (Rv!Signed(n, a) < 0)
    BY <1>1, <1>2, <1>4
  <2>2. QED
    BY <1>2, <1>4, <2>1 DEF P, Q
<1>5. QED
  BY <1>3, <1>4

(* A conversion to long reads a word in two's complement.                  *)
LEMMA LongIsSigned ==
  ASSUME NEW a \in 0 .. (2^XLen - 1)
  PROVE  long(a) = Rv!Signed(XLen, a)
<1>1. 2^XLen \in Nat \ {0}
  BY WordFacts
<1>2. a % 2^XLen = a
  BY <1>1
<1>3. QED
  BY <1>2 DEF long, AsSigned, Unsigned, Rv!Signed

(* execute_Branch decides every branch as RISC-V does, at every width.     *)
THEOREM BranchesAreRight == Spec => []BranchConforms
<1>1. InputLegal => BranchConforms
  <2> SUFFICES ASSUME InputLegal, input.check = "branch" PROVE BranchConforms
    BY DEF BranchConforms
  <2>1. input \in BranchInputs
    BY InputKinds
  <2> DEFINE op == input.op
             a == input.a
             b == input.b
  <2>2. op \in {"beq", "bne", "blt", "bge", "bltu", "bgeu"}
    BY <2>1 DEF BranchInputs, Rv!BranchOps
  <2>3. a \in 0 .. (2^XLen - 1) /\ b \in 0 .. (2^XLen - 1)
    BY <2>1, OperandsAssumption DEF BranchInputs
  <2>4. long(a) = Rv!Signed(XLen, a) /\ long(b) = Rv!Signed(XLen, b)
    BY <2>3, LongIsSigned
  <2> HIDE DEF op, a, b
  <2>5. Taken(op, a, b) = Rv!Branches(op, a, b)
    BY <2>2, <2>4 DEF Taken, Rv!Branches
  <2>6. QED
    BY <2>5 DEF BranchConforms, op, a, b
<1>2. QED
  BY <1>1, InputsLegal, PTL

-----------------------------------------------------------------------------
(* The ALU.                                                                *)

Word == 0 .. (2^XLen - 1)

(* What AluConforms says of one operation on two operands.                 *)
Conforms(op, a, b) ==
  Alu(op, a, b) = Rv!Result(op, a, b) <=> ~ Deviates(op, a, b)

(* Sums, differences and products of signed numbers are those of their     *)
(* words, but for multiples of 2^n.                                        *)
Congruent(sx, x, d) == sx \in Int /\ x \in Int /\ \E i \in Int : sx = x - i * d

LEMMA RingMod ==
  ASSUME NEW x, NEW y, NEW sx, NEW sy, NEW d \in Nat \ {0},
         Congruent(sx, x, d), Congruent(sy, y, d)
  PROVE  /\ (sx + sy) % d = (x + y) % d
         /\ (sx - sy) % d = (x - y) % d
         /\ (sx * sy) % d = (x * y) % d
<1> PICK i \in Int : sx = x - i * d
  BY DEF Congruent
<1> PICK j \in Int : sy = y - j * d
  BY DEF Congruent
<1> x \in Int /\ y \in Int
  BY DEF Congruent
<1>1. (x - i * d) + (y - j * d) = (x + y) + (- i - j) * d
  OBVIOUS
<1>2. (x - i * d) - (y - j * d) = (x - y) + (j - i) * d
  OBVIOUS
<1>3. (x - i * d) * (y - j * d) = x * y + (i * j * d - i * y - j * x) * d
  OBVIOUS
<1>4. /\ x + y \in Int /\ - i - j \in Int /\ x - y \in Int /\ j - i \in Int
      /\ x * y \in Int /\ i * j * d - i * y - j * x \in Int
  OBVIOUS
<1>5. ((x + y) + (- i - j) * d) % d = (x + y) % d
  BY <1>4, AddMultiple
<1>6. ((x - y) + (j - i) * d) % d = (x - y) % d
  BY <1>4, AddMultiple
<1>7. (x * y + (i * j * d - i * y - j * x) * d) % d = (x * y) % d
  BY <1>4, AddMultiple
<1>8. QED
  BY <1>1, <1>2, <1>3, <1>5, <1>6, <1>7

(* The words of the ALU and their signed values.                           *)
LEMMA LongFacts ==
  ASSUME NEW a \in Word
  PROVE  /\ a \in Int /\ a >= 0 /\ a < 2^XLen
         /\ long(a) = Rv!Signed(XLen, a) /\ long(a) \in Int
         /\ \E i \in {0, 1} : long(a) = a - i * 2^XLen /\ (i = 1 <=> long(a) < 0)
         /\ long(a) = 0 <=> a = 0
         /\ long(a) >= LeastLong /\ long(a) < 2^(XLen - 1)
<1>1. a \in 0 .. (2^XLen - 1)
  BY DEF Word
<1>2. long(a) = Rv!Signed(XLen, a)
  BY <1>1, LongIsSigned
<1>3. 2^XLen \in Nat \ {0} /\ 2^(XLen - 1) \in Nat /\ 2^XLen = 2 * 2^(XLen - 1)
  BY WordFacts
<1>4. QED
  BY <1>1, <1>2, <1>3, SignedFacts DEF LeastLong

LEMMA SumsConform ==
  ASSUME NEW a \in Word, NEW b \in Word, NEW op \in {"add", "sub", "mul"}
  PROVE  Conforms(op, a, b)
<1> DEFINE P == 2^XLen
<1>1. P \in Nat \ {0}
  BY WordFacts
<1>2. Congruent(long(a), a, P)
  BY LongFacts DEF Congruent
<1>3. Congruent(long(b), b, P)
  BY LongFacts DEF Congruent
<1> HIDE DEF P
<1>5. /\ (long(a) + long(b)) % P = (a + b) % P
      /\ (long(a) - long(b)) % P = (a - b) % P
      /\ (long(a) * long(b)) % P = (a * b) % P
  BY <1>1, <1>2, <1>3, RingMod
<1>6. CASE op = "add"
  <2>1. Alu(op, a, b) = (long(a) + long(b)) % P
    BY <1>6 DEF Alu, ulong, Unsigned, P
  <2>2. Rv!Result(op, a, b) = (a + b) % P
    BY <1>6 DEF Rv!Result, Rv!WordOps, Rv!Compute, Rv!ToWord, P
  <2>3. ~ Deviates(op, a, b)
    BY <1>6 DEF Deviates
  <2>4. QED
    BY <1>5, <2>1, <2>2, <2>3 DEF Conforms
<1>7. CASE op = "sub"
  <2>1. Alu(op, a, b) = (long(a) - long(b)) % P
    BY <1>7 DEF Alu, ulong, Unsigned, P
  <2>2. Rv!Result(op, a, b) = (a - b) % P
    BY <1>7 DEF Rv!Result, Rv!WordOps, Rv!Compute, Rv!ToWord, P
  <2>3. ~ Deviates(op, a, b)
    BY <1>7 DEF Deviates
  <2>4. QED
    BY <1>5, <2>1, <2>2, <2>3 DEF Conforms
<1>8. CASE op = "mul"
  <2>1. Alu(op, a, b) = (long(a) * long(b)) % P
    BY <1>8 DEF Alu, ulong, Unsigned, P
  <2>2. Rv!Result(op, a, b) = (a * b) % P
    BY <1>8 DEF Rv!Result, Rv!WordOps, Rv!Compute, Rv!ToWord, P
  <2>3. ~ Deviates(op, a, b)
    BY <1>8 DEF Deviates
  <2>4. QED
    BY <1>5, <2>1, <2>2, <2>3 DEF Conforms
<1>9. QED
  BY <1>6, <1>7, <1>8

(* mulhu is exact; mulh takes its second operand for an unsigned number,   *)
(* which adds the first to the high word when the second is negative.      *)
LEMMA HighWordsConform ==
  ASSUME NEW a \in Word, NEW b \in Word, NEW op \in {"mulh", "mulhsu", "mulhu"}
  PROVE  Conforms(op, a, b)
<1> DEFINE P == 2^XLen
           x == long(a)
           y == long(b)
<1>1. P \in Nat \ {0}
  BY WordFacts
<1>2. a \in 0 .. (P - 1) /\ b \in 0 .. (P - 1) /\ x \in Int /\ y \in Int
  BY <1>1, LongFacts DEF Word
<1>3. /\ x = Rv!Signed(XLen, a) /\ y = Rv!Signed(XLen, b)
      /\ x = 0 <=> a = 0
      /\ x > - P /\ x < P
  <2>1. 2^(XLen - 1) \in Nat \ {0} /\ P = 2 * 2^(XLen - 1)
    BY WordFacts
  <2>2. x >= - 2^(XLen - 1) /\ x < 2^(XLen - 1)
    BY LongFacts DEF LeastLong
  <2>3. - 2^(XLen - 1) > - P /\ 2^(XLen - 1) < P
    BY <2>1
  <2>4. QED
    BY <1>1, <1>2, <2>1, <2>2, <2>3, LongFacts
<1>4. PICK j \in {0, 1} : y = b - j * P /\ (j = 1 <=> y < 0)
  BY LongFacts
<1>5. j \in Int
  OBVIOUS
<1> HIDE DEF P, x, y
<1>6. CASE op = "mulh"
  <2> DEFINE q == (x * y) \div P
  <2>1. Alu(op, a, b) = ((x * b) \div P) % P
    BY <1>6 DEF Alu, High, ulong, Unsigned, P, x
  <2>2. Rv!Result(op, a, b) = q % P
    BY <1>3, <1>6 DEF Rv!Result, Rv!WordOps, Rv!Compute, Rv!ToWord, P
  <2>3. Deviates(op, a, b) <=> y < 0 /\ a # 0
    BY <1>6 DEF Deviates, y
  <2>4. x * b = x * y + (j * x) * P /\ x * y \in Int /\ j * x \in Int
    BY <1>1, <1>2, <1>4, <1>5
  <2>5. (x * b) \div P = q + j * x
    <3>1. \A m, k \in Int : (m + k * P) \div P = (m \div P) + k
      BY <1>1, AddMultiple, Zenon
    <3>2. ((x * y) + (j * x) * P) \div P = ((x * y) \div P) + j * x
      BY <2>4, <3>1, Zenon
    <3>3. QED
      BY <2>4, <3>2, Zenon DEF q
  <2>6. q \in Int
    BY <1>1, <2>4
  <2> HIDE DEF q
  <2>7. CASE j = 0 \/ x = 0
    <3>1. j * x = 0
      BY <1>2, <1>5, <2>7
    <3>2. Alu(op, a, b) = q % P
      BY <2>1, <2>5, <2>6, <3>1
    <3>3. ~ Deviates(op, a, b)
      BY <1>2, <1>3, <1>4, <2>3, <2>7
    <3>4. QED
      BY <2>2, <3>2, <3>3 DEF Conforms
  <2>8. CASE j = 1 /\ x # 0
    <3>1. Deviates(op, a, b)
      BY <1>3, <1>4, <2>3, <2>8
    <3>2. (q + x) % P # q % P
      <4> SUFFICES ASSUME (q + x) % P = q % P PROVE FALSE
        OBVIOUS
      <4> DEFINE k == ((q + x) \div P) - (q \div P)
      <4>1. /\ q + x = P * ((q + x) \div P) + ((q + x) % P)
            /\ q = P * (q \div P) + (q % P)
            /\ (q + x) \div P \in Int /\ q \div P \in Int /\ q % P \in Int
        <5>1. /\ q = P * (q \div P) + (q % P)
              /\ q \div P \in Int /\ q % P \in 0 .. (P - 1)
          BY <1>1, <2>6, IntDivMod
        <5>2. q + x \in Int
          BY <1>2, <2>6
        <5>3. /\ q + x = P * ((q + x) \div P) + ((q + x) % P)
              /\ (q + x) \div P \in Int
          BY <1>1, <5>2, IntDivMod
        <5>4. QED
          BY <1>1, <5>1, <5>3
      <4>2. x = P * k /\ k \in Int
        BY <1>1, <1>2, <2>6, <4>1
      <4> HIDE DEF k
      <4>3. k >= 1 \/ k <= -1 \/ k = 0
        BY <4>2
      <4>4. k >= 1 => P * k >= P
        BY <1>1, <4>2
      <4>5. k <= -1 => P * k <= - P
        BY <1>1, <4>2
      <4>6. k = 0 => P * k = 0
        BY <1>1
      <4>7. QED
        BY <1>1, <1>2, <1>3, <2>8, <4>2, <4>3, <4>4, <4>5, <4>6
    <3>3. j * x = x
      BY <1>2, <2>8
    <3>4. QED
      BY <2>1, <2>2, <2>5, <3>1, <3>2, <3>3 DEF Conforms
  <2>9. QED
    BY <2>7, <2>8
<1>7. CASE op = "mulhsu"
  <2>1. Alu(op, a, b) = ((x * b) \div P) % P
    BY <1>7 DEF Alu, High, ulong, Unsigned, P, x
  <2>2. Rv!Result(op, a, b) = ((x * b) \div P) % P
    BY <1>3, <1>7 DEF Rv!Result, Rv!WordOps, Rv!Compute, Rv!ToWord, P
  <2>3. ~ Deviates(op, a, b)
    BY <1>7 DEF Deviates
  <2>4. QED
    BY <2>1, <2>2, <2>3 DEF Conforms
<1>8. CASE op = "mulhu"
  <2> DEFINE q == (a * b) \div P
             r == (a * b) % P
  <2>1. Alu(op, a, b) = q % P
    BY <1>8 DEF Alu, High, ulong, Unsigned, P
  <2>2. Rv!Result(op, a, b) = q
    BY <1>8 DEF Rv!Result, Rv!WordOps, Rv!Compute, P
  <2>3. ~ Deviates(op, a, b)
    BY <1>8 DEF Deviates
  <2>4. a * b \in Int /\ a * b >= 0 /\ a * b <= (P - 1) * b /\ (P - 1) * b <= (P - 1) * P
    BY <1>1, <1>2
  <2>5. a * b = P * q + r /\ q \in Int /\ r \in 0 .. (P - 1)
    BY <1>1, <2>4, IntDivMod
  <2> HIDE DEF q, r
  <2>6. q >= 0
    <3> SUFFICES ASSUME q <= -1 PROVE FALSE
      BY <2>5
    <3>1. P * q <= - P
      BY <1>1, <2>5
    <3>2. QED
      BY <1>1, <2>4, <2>5, <3>1
  <2>7. q < P
    <3> SUFFICES ASSUME q >= P PROVE FALSE
      BY <1>1, <2>5
    <3>1. P * q >= P * P
      BY <1>1, <2>5
    <3>2. (P - 1) * P = P * P - P
      BY <1>1
    <3>3. P * P \in Int /\ P * q \in Int /\ (P - 1) * P \in Int
      BY <1>1, <2>5
    <3>4. a * b <= (P - 1) * P
      BY <1>1, <1>2, <2>4, <3>3
    <3>5. QED
      BY <1>1, <2>4, <2>5, <3>1, <3>2, <3>3, <3>4
  <2>8. q % P = q
    BY <1>1, <2>5, <2>6, <2>7
  <2>9. QED
    BY <2>1, <2>2, <2>3, <2>8 DEF Conforms
<1>9. QED
  BY <1>6, <1>7, <1>8

(* Shifts, comparisons.                                                    *)
LEMMA ShiftsConform ==
  ASSUME NEW a \in Word, NEW b \in Word,
         NEW op \in {"sll", "srl", "sra", "slt", "sltu"}
  PROVE  Conforms(op, a, b)
<1>1. /\ long(a) = Rv!Signed(XLen, a) /\ long(b) = Rv!Signed(XLen, b)
  BY LongFacts
<1>2. ~ Deviates(op, a, b)
  BY DEF Deviates
<1>3. CASE op = "sll"
  BY <1>1, <1>2, <1>3 DEF Conforms, Alu, ulong, Unsigned, Rv!Result, Rv!WordOps, Rv!Compute,
                          Rv!ToWord
<1>4. CASE op = "srl"
  BY <1>1, <1>2, <1>4 DEF Conforms, Alu, Rv!Result, Rv!WordOps, Rv!Compute
<1>5. CASE op = "sra"
  BY <1>1, <1>2, <1>5 DEF Conforms, Alu, ulong, Unsigned, Rv!Result, Rv!WordOps, Rv!Compute,
                          Rv!ToWord
<1>6. CASE op = "slt"
  BY <1>1, <1>2, <1>6 DEF Conforms, Alu, Rv!Result, Rv!WordOps, Rv!Compute
<1>7. CASE op = "sltu"
  BY <1>1, <1>2, <1>7 DEF Conforms, Alu, Rv!Result, Rv!WordOps, Rv!Compute
<1>8. QED
  BY <1>3, <1>4, <1>5, <1>6, <1>7

(* Division rounds towards zero, and leaves a remainder with the sign of   *)
(* the dividend.                                                           *)
LEMMA DivisionFacts ==
  ASSUME NEW x \in Int, NEW y \in Int, y # 0
  PROVE  /\ Div(x, y) = Rv!Quotient(x, y)
         /\ Rem(x, y) = x - y * Rv!Quotient(x, y)
         /\ Div(x, y) \in Int /\ Rem(x, y) \in Int
<1> DEFINE m == Abs(x)
           d == Abs(y)
           q == m \div d
           r == m % d
<1>1. m \in Nat /\ d \in Nat \ {0} /\ (x < 0 => m = - x) /\ (~ (x < 0) => m = x)
      /\ (y < 0 => d = - y) /\ (~ (y < 0) => d = y)
  BY DEF Abs
<1>2. Rv!Quotient(x, y) = IF (x < 0) = (y < 0) THEN q ELSE - q
  BY DEF Rv!Quotient, Abs
<1>3. Div(x, y) = IF (x < 0) = (y < 0) THEN q ELSE - q
  BY DEF Div
<1>4. Rem(x, y) = IF x < 0 THEN - r ELSE r
  BY DEF Rem
<1> HIDE DEF m, d
<1>5. m = d * q + r /\ q \in Int /\ r \in Int
  BY <1>1, IntDivMod
<1> HIDE DEF q, r
<1>6. Rem(x, y) = x - y * Rv!Quotient(x, y)
  <2>1. CASE x < 0 /\ y < 0
    <3>1. y * q = - (d * q)
      BY <1>1, <1>5, <2>1
    <3>2. QED
      BY <1>1, <1>2, <1>4, <1>5, <2>1, <3>1
  <2>2. CASE x < 0 /\ ~ (y < 0)
    <3>1. y * (- q) = - (d * q)
      BY <1>1, <1>5, <2>2
    <3>2. QED
      BY <1>1, <1>2, <1>4, <1>5, <2>2, <3>1
  <2>3. CASE ~ (x < 0) /\ y < 0
    <3>1. y * (- q) = d * q
      BY <1>1, <1>5, <2>3
    <3>2. QED
      BY <1>1, <1>2, <1>4, <1>5, <2>3, <3>1
  <2>4. CASE ~ (x < 0) /\ ~ (y < 0)
    <3>1. y * q = d * q
      BY <1>1, <1>5, <2>4
    <3>2. QED
      BY <1>1, <1>2, <1>4, <1>5, <2>4, <3>1
  <2>5. QED
    BY <2>1, <2>2, <2>3, <2>4
<1>7. QED
  BY <1>2, <1>3, <1>4, <1>5, <1>6

(* A division either faults, where it deviates, or yields RISC-V's result. *)
LEMMA DivisionsConform ==
  ASSUME NEW a \in Word, NEW b \in Word, NEW op \in {"div", "rem", "divu", "remu"}
  PROVE  Conforms(op, a, b)
<1> DEFINE P == 2^XLen
           x == long(a)
           y == long(b)
<1>1. P \in Nat \ {0} /\ LeastLong < 0
  BY WordFacts DEF LeastLong
<1>2. /\ x \in Int /\ y \in Int /\ (y = 0 <=> b = 0)
      /\ x = Rv!Signed(XLen, a) /\ y = Rv!Signed(XLen, b)
      /\ a \in Int /\ b \in Int /\ a >= 0 /\ b >= 0
  BY LongFacts
<1>3. \A z \in Int : z % P \in 0 .. (P - 1) /\ z % P # Fault
  <2> TAKE z \in Int
  <2>1. z % P \in 0 .. (P - 1)
    BY <1>1, IntDivMod
  <2>2. QED
    BY <1>1, <2>1 DEF Fault
<1> HIDE DEF P, x, y
<1>4. CASE op = "div"
  <2>1. Alu(op, a, b) = OrFault(LeastLong, x, y, Div(x, y) % P)
    BY <1>4 DEF Alu, ulong, Unsigned, P, x, y
  <2>2. Rv!Result(op, a, b) = IF b = 0 THEN P - 1 ELSE Rv!Quotient(x, y) % P
    BY <1>2, <1>4 DEF Rv!Result, Rv!WordOps, Rv!Compute, Rv!ToWord, P
  <2>3. Deviates(op, a, b) <=> b = 0 \/ (x = LeastLong /\ y = -1)
    BY <1>4 DEF Deviates, x, y
  <2>4. CASE Deviates(op, a, b)
    <3>1. Alu(op, a, b) = Fault
      BY <1>2, <2>1, <2>3, <2>4 DEF OrFault
    <3>2. P - 1 # Fault
      BY <1>1 DEF Fault
    <3>3. b # 0 => Rv!Quotient(x, y) \in Int
      BY <1>2, DivisionFacts
    <3>4. QED
      BY <1>3, <2>2, <2>4, <3>1, <3>2, <3>3 DEF Conforms
  <2>5. CASE ~ Deviates(op, a, b)
    <3>1. Alu(op, a, b) = Div(x, y) % P
      BY <1>2, <2>1, <2>3, <2>5 DEF OrFault
    <3>2. b # 0 /\ y # 0
      BY <1>2, <2>3, <2>5
    <3>3. Div(x, y) = Rv!Quotient(x, y)
      BY <1>2, <3>2, DivisionFacts
    <3>4. QED
      BY <2>2, <2>5, <3>1, <3>2, <3>3 DEF Conforms
  <2>6. QED
    BY <2>4, <2>5
<1>5. CASE op = "rem"
  <2>1. Alu(op, a, b) = OrFault(LeastLong, x, y, Rem(x, y) % P)
    BY <1>5 DEF Alu, ulong, Unsigned, P, x, y
  <2>2. Rv!Result(op, a, b) = IF b = 0 THEN a ELSE (x - y * Rv!Quotient(x, y)) % P
    BY <1>2, <1>5 DEF Rv!Result, Rv!WordOps, Rv!Compute, Rv!ToWord, P
  <2>3. Deviates(op, a, b) <=> b = 0 \/ (x = LeastLong /\ y = -1)
    BY <1>5 DEF Deviates, x, y
  <2>4. b # 0 => /\ Rem(x, y) = x - y * Rv!Quotient(x, y)
                 /\ x - y * Rv!Quotient(x, y) \in Int
    <3> HAVE b # 0
    <3>1. y # 0
      BY <1>2
    <3>2. Rem(x, y) = x - y * Rv!Quotient(x, y) /\ Rem(x, y) \in Int
      BY <1>2, <3>1, DivisionFacts
    <3>3. QED
      BY <3>2
  <2>5. CASE Deviates(op, a, b)
    <3>1. Alu(op, a, b) = Fault
      BY <1>2, <2>1, <2>3, <2>5 DEF OrFault
    <3>2. a # Fault
      BY <1>2 DEF Fault
    <3>3. QED
      BY <1>3, <2>2, <2>4, <2>5, <3>1, <3>2 DEF Conforms
  <2>6. CASE ~ Deviates(op, a, b)
    <3>1. Alu(op, a, b) = Rem(x, y) % P /\ b # 0
      BY <1>2, <2>1, <2>3, <2>6 DEF OrFault
    <3>2. QED
      BY <2>2, <2>4, <2>6, <3>1 DEF Conforms
  <2>7. QED
    BY <2>5, <2>6
<1>6. CASE op \in {"divu", "remu"}
  <2>1. Deviates(op, a, b) <=> b = 0
    BY <1>6 DEF Deviates
  <2>2. a # LeastLong
    BY <1>1, <1>2
  <2>3. OrFault(LeastLong, a, b, a \div b) = IF b = 0 THEN Fault ELSE a \div b
    BY <2>2 DEF OrFault
  <2>4. OrFault(LeastLong, a, b, a % b) = IF b = 0 THEN Fault ELSE a % b
    BY <2>2 DEF OrFault
  <2>5. P - 1 # Fault /\ a # Fault
    BY <1>1, <1>2 DEF Fault
  <2>6. CASE op = "divu"
    <3>1. Alu(op, a, b) = IF b = 0 THEN Fault ELSE a \div b
      BY <2>3, <2>6 DEF Alu
    <3>2. Rv!Result(op, a, b) = IF b = 0 THEN P - 1 ELSE a \div b
      BY <2>6 DEF Rv!Result, Rv!WordOps, Rv!Compute, P
    <3>3. QED
      BY <2>1, <2>5, <3>1, <3>2 DEF Conforms
  <2>7. CASE op = "remu"
    <3>1. Alu(op, a, b) = IF b = 0 THEN Fault ELSE a % b
      BY <2>4, <2>7 DEF Alu
    <3>2. Rv!Result(op, a, b) = IF b = 0 THEN a ELSE a % b
      BY <2>7 DEF Rv!Result, Rv!WordOps, Rv!Compute
    <3>3. QED
      BY <2>1, <2>5, <3>1, <3>2 DEF Conforms
  <2>8. QED
    BY <1>6, <2>6, <2>7
<1>7. QED
  BY <1>4, <1>5, <1>6

-----------------------------------------------------------------------------
(* The operations on the lower halves of words.                            *)

LEMMA IntFacts ==
  ASSUME NEW a \in Int
  PROVE  /\ uint(a) = Rv!ToWord(Half, a) /\ uint(a) = a % 2^Half
         /\ uint(a) \in 0 .. (2^Half - 1)
         /\ int(a) = Rv!Signed(Half, uint(a))
         /\ Congruent(int(a), uint(a), 2^Half)
         /\ int(a) = 0 <=> uint(a) = 0
         /\ Congruent(a, uint(a), 2^Half)
<1> DEFINE P == 2^Half
           u == a % P
<1>1. P \in Nat \ {0} /\ 2^(Half - 1) \in Nat /\ P = 2 * 2^(Half - 1)
  BY WordFacts
<1>2. u \in 0 .. (P - 1) /\ a = P * (a \div P) + u /\ a \div P \in Int
  BY <1>1, IntDivMod
<1>3. uint(a) = u /\ Rv!ToWord(Half, a) = u
  BY DEF uint, Unsigned, Rv!ToWord
<1>4. int(a) = Rv!Signed(Half, u)
  BY DEF int, AsSigned, Unsigned, Rv!Signed
<1>5. /\ Rv!Signed(Half, u) \in Int
      /\ \E i \in {0, 1} : Rv!Signed(Half, u) = u - i * P
      /\ Rv!Signed(Half, u) = 0 <=> u = 0
  BY <1>1, <1>2, SignedFacts
<1> HIDE DEF P, u
<1>6. Congruent(int(a), u, P)
  BY <1>2, <1>4, <1>5 DEF Congruent
<1>7. Congruent(a, u, P)
  <2> DEFINE q == a \div P
  <2>1. q \in Int /\ a = P * q + u
    BY <1>2
  <2> HIDE DEF q
  <2>2. a = u - (- q) * P /\ - q \in Int
    BY <1>1, <1>2, <2>1
  <2>3. QED
    BY <1>2, <2>2 DEF Congruent
<1>8. QED
  BY <1>2, <1>3, <1>4, <1>5, <1>6, <1>7 DEF P, u

(* ext_signed tells the words of half the width apart.                     *)
LEMMA ExtSignedFacts ==
  ASSUME NEW z \in 0 .. (2^Half - 1)
  PROVE  /\ ExtSigned(z) = Rv!ToWord(XLen, Rv!Signed(Half, z))
         /\ ExtSigned(z) # Fault
         /\ \A w \in 0 .. (2^Half - 1) : ExtSigned(w) = ExtSigned(z) => w = z
<1> DEFINE P == 2^Half
           Q == 2^(Half - 1)
           M == 2^XLen
<1>1. /\ P \in Nat \ {0} /\ Q \in Nat \ {0} /\ P = 2 * Q /\ M \in Nat \ {0} /\ M = P * P
  BY WordFacts
<1> HIDE DEF P, Q, M
<1>2. P >= 2 /\ M >= 2 * P
  <2>1. P >= 2
    BY <1>1
  <2>2. P * P >= 2 * P
    BY <1>1, <2>1
  <2>3. QED
    BY <1>1, <2>1, <2>2
<1>3. ASSUME NEW w \in 0 .. (P - 1)
      PROVE  /\ ExtSigned(w) = Rv!ToWord(XLen, Rv!Signed(Half, w))
             /\ ExtSigned(w) = IF w >= Q THEN w - P + M ELSE w
  <2>1. w % P = w
    BY <1>1
  <2>2. AsSigned(Half, w) = IF w >= Q THEN w - P ELSE w
    BY <2>1 DEF AsSigned, Unsigned, P, Q
  <2>3. Rv!Signed(Half, w) = IF w >= Q THEN w - P ELSE w
    BY DEF Rv!Signed, P, Q
  <2>4. ExtSigned(w) = AsSigned(Half, w) % M
    BY DEF ExtSigned, ulong, Unsigned, M
  <2>5. Rv!ToWord(XLen, Rv!Signed(Half, w)) = Rv!Signed(Half, w) % M
    BY DEF Rv!ToWord, M
  <2>6. w < M => w % M = w
    BY <1>1
  <2>7. CASE w >= Q
    <3>1. (w - P) + 1 * M \in 0 .. (M - 1)
      BY <1>1, <1>2, <2>7
    <3>2. (w - P) % M = w - P + M
      <4> DEFINE x == w - P
                 q == -1
                 r == w - P + M
      <4>1. x \in Int /\ q \in Int /\ x = M * q + r
        BY <1>1
      <4>2. r \in 0 .. (M - 1)
        BY <1>1, <3>1
      <4> HIDE DEF x, q, r
      <4>3. x % M = r
        BY <1>1, <4>1, <4>2, IntDivUnique
      <4>4. QED
        BY <4>3 DEF x, r
    <3>3. QED
      BY <2>2, <2>3, <2>4, <2>5, <2>7, <3>2
  <2>8. CASE ~ (w >= Q)
    BY <1>1, <1>2, <2>2, <2>3, <2>4, <2>5, <2>6, <2>8
  <2>9. QED
    BY <2>7, <2>8
<1>4. z \in 0 .. (P - 1)
  BY DEF P
<1>5. ExtSigned(z) # Fault
  BY <1>1, <1>2, <1>3, <1>4 DEF Fault
<1>6. ASSUME NEW w \in 0 .. (P - 1), ExtSigned(w) = ExtSigned(z) PROVE w = z
  BY <1>1, <1>2, <1>3, <1>4, <1>6
<1>7. QED
  BY <1>3, <1>4, <1>5, <1>6 DEF P

(* What RISC-V makes of the result of an operation on halves.              *)
LEMMA WordResult ==
  ASSUME NEW a \in Int, NEW b \in Int, NEW op \in DOMAIN Rv!WordOps, NEW z,
         z = Rv!Compute(Rv!WordOps[op], Half, uint(a), uint(b)),
         z \in 0 .. (2^Half - 1)
  PROVE  Rv!Result(op, a, b) = ExtSigned(z)
<1>1. uint(a) = Rv!ToWord(Half, a) /\ uint(b) = Rv!ToWord(Half, b)
  BY IntFacts
<1>2. ExtSigned(z) = Rv!ToWord(XLen, Rv!Signed(Half, z))
  BY ExtSignedFacts
<1>3. QED
  BY <1>1, <1>2 DEF Rv!Result, Half

(* An operation of the ALU that sign-extends some half agrees with RISC-V  *)
(* exactly if that half does.                                              *)
LEMMA HalvesDecide ==
  ASSUME NEW a \in Int, NEW b \in Int, NEW op \in DOMAIN Rv!WordOps, NEW z, NEW w,
         z = Rv!Compute(Rv!WordOps[op], Half, uint(a), uint(b)),
         z \in 0 .. (2^Half - 1), w \in 0 .. (2^Half - 1),
         Alu(op, a, b) = ExtSigned(w)
  PROVE  Alu(op, a, b) = Rv!Result(op, a, b) <=> w = z
<1>1. Rv!Result(op, a, b) = ExtSigned(z)
  BY WordResult
<1>2. ExtSigned(w) = ExtSigned(z) => w = z
  BY ExtSignedFacts
<1>3. QED
  BY <1>1, <1>2

LEMMA WordSumsConform ==
  ASSUME NEW a \in Word, NEW b \in Word, NEW op \in {"addw", "subw", "mulw"}
  PROVE  Conforms(op, a, b)
<1> DEFINE P == 2^Half
           x == uint(a)
           y == uint(b)
<1>1. P \in Nat \ {0} /\ a \in Int /\ b \in Int
  BY WordFacts, LongFacts
<1>2. Congruent(int(a), x, P) /\ Congruent(int(b), y, P) /\ int(a) \in Int /\ int(b) \in Int
      /\ x \in Int /\ y \in Int
  BY <1>1, IntFacts DEF Congruent
<1> HIDE DEF P, x, y
<1>3. /\ (int(a) + int(b)) % P = (x + y) % P
      /\ (int(a) - int(b)) % P = (x - y) % P
      /\ (int(a) * int(b)) % P = (x * y) % P
  BY <1>1, <1>2, RingMod
<1>4. /\ (x + y) % P \in 0 .. (P - 1) /\ (x - y) % P \in 0 .. (P - 1)
      /\ (x * y) % P \in 0 .. (P - 1)
  <2>1. x + y \in Int /\ x - y \in Int /\ x * y \in Int
    BY <1>2
  <2>2. QED
    BY <1>1, <2>1, IntDivMod
<1>5. ~ Deviates(op, a, b)
  BY DEF Deviates
<1>6. CASE op = "addw"
  <2>1. Alu(op, a, b) = ExtSigned((int(a) + int(b)) % P)
    BY <1>6 DEF Alu, uint, Unsigned, P
  <2>2. Rv!Compute(Rv!WordOps[op], Half, x, y) = (x + y) % P /\ op \in DOMAIN Rv!WordOps
    BY <1>6 DEF Rv!WordOps, Rv!Compute, Rv!ToWord, P
  <2>3. Alu(op, a, b) = Rv!Result(op, a, b)
    BY <1>1, <1>3, <1>4, <2>1, <2>2, HalvesDecide DEF P, x, y
  <2>4. QED
    BY <1>5, <2>3 DEF Conforms
<1>7. CASE op = "subw"
  <2>1. Alu(op, a, b) = ExtSigned((int(a) - int(b)) % P)
    BY <1>7 DEF Alu, uint, Unsigned, P
  <2>2. Rv!Compute(Rv!WordOps[op], Half, x, y) = (x - y) % P /\ op \in DOMAIN Rv!WordOps
    BY <1>7 DEF Rv!WordOps, Rv!Compute, Rv!ToWord, P
  <2>3. Alu(op, a, b) = Rv!Result(op, a, b)
    BY <1>1, <1>3, <1>4, <2>1, <2>2, HalvesDecide DEF P, x, y
  <2>4. QED
    BY <1>5, <2>3 DEF Conforms
<1>8. CASE op = "mulw"
  <2>1. Alu(op, a, b) = ExtSigned((int(a) * int(b)) % P)
    BY <1>8 DEF Alu, uint, Unsigned, P
  <2>2. Rv!Compute(Rv!WordOps[op], Half, x, y) = (x * y) % P /\ op \in DOMAIN Rv!WordOps
    BY <1>8 DEF Rv!WordOps, Rv!Compute, Rv!ToWord, P
  <2>3. Alu(op, a, b) = Rv!Result(op, a, b)
    BY <1>1, <1>3, <1>4, <2>1, <2>2, HalvesDecide DEF P, x, y
  <2>4. QED
    BY <1>5, <2>3 DEF Conforms
<1>9. QED
  BY <1>6, <1>7, <1>8

(* A shift amount of half the width is the same in the lower half.         *)
LEMMA ShiftAmounts ==
  ASSUME NEW b \in Int
  PROVE  /\ uint(b) % Half = b % Half
         /\ b % Half \in 0 .. (Half - 1)
         /\ 2^(b % Half) \in Nat \ {0}
         /\ \E t \in Nat \ {0} : 2^Half = 2^(b % Half) * t
<1> DEFINE P == 2^Half
           q == b \div P
<1>1. Half \in Nat \ {0} /\ P \in Nat \ {0}
  BY WordFacts
<1>2. b % Half \in 0 .. (Half - 1)
  BY <1>1, IntDivMod
<1>3. \E c \in Int : P = c * Half
  <2>1. Half \in {2, 4, 32}
    BY XLenAssumption DEF Half
  <2>2. CASE Half = 2
    BY <2>2
  <2>3. CASE Half = 4
    BY <2>3
  <2>4. CASE Half = 32
    <3>1. 2^32 = 2^27 * 32 /\ 2^27 \in Int
      OBVIOUS
    <3>2. QED
      BY <2>4, <3>1
  <2>5. QED
    BY <2>1, <2>2, <2>3, <2>4
<1>4. uint(b) = b % P /\ b = P * q + (b % P) /\ q \in Int /\ b % P \in Int
  <2>1. uint(b) = b % P
    BY IntFacts
  <2>2. b = P * q + (b % P) /\ q \in Int /\ b % P \in 0 .. (P - 1)
    BY <1>1, IntDivMod
  <2>3. QED
    BY <1>1, <2>1, <2>2
<1> HIDE DEF P, q
<1>5. PICK c \in Int : P = c * Half
  BY <1>3
<1>6. b = (b % P) + (c * q) * Half /\ c * q \in Int
  BY <1>1, <1>4, <1>5
<1>7. ((b % P) + (c * q) * Half) % Half = (b % P) % Half
  BY <1>1, <1>4, <1>6, AddMultiple
<1>8. uint(b) % Half = b % Half
  BY <1>4, <1>6, <1>7
<1>9. b % Half \in 0 .. Half /\ b % Half \in 0 .. XLen
  BY <1>1, <1>2, WordFacts
<1>10. 2^(b % Half) \in Nat \ {0} /\ 2^Half = 2^(b % Half) * 2^(Half - (b % Half))
  BY <1>9, WordFacts
<1>11. 2^(Half - (b % Half)) \in Nat \ {0}
  <2>1. Half - (b % Half) \in 0 .. XLen
    BY <1>1, <1>2, WordFacts
  <2>2. QED
    BY <2>1, WordFacts
<1>12. QED
  BY <1>2, <1>8, <1>10, <1>11

(* srlw shifts the lower bits of the upper half into its result.           *)
Parts(a, d, q, u) == a = d * q + u /\ q \in Nat /\ u \in 0 .. (d - 1)

LEMMA ShiftedHalves ==
  ASSUME NEW s \in Nat \ {0}, NEW t \in Nat \ {0}, NEW d, d = s * t,
         NEW u, NEW q, NEW a, Parts(a, d, q, u)
  PROVE  /\ u \div s \in 0 .. (t - 1)
         /\ (a \div s) % d = (u \div s) + (q % s) * t
<1>0. u \in 0 .. (s * t - 1) /\ a = (s * t) * q + u /\ q \in Nat
  BY DEF Parts
<1> DEFINE v == u \div s
           r == u % s
           p == q \div s
           w == q % s
<1>1. u = s * v + r /\ v \in Int /\ r \in 0 .. (s - 1) /\ u \in Int
  BY <1>0, IntDivMod
<1>2. q = s * p + w /\ p \in Int /\ w \in 0 .. (s - 1)
  BY <1>0, IntDivMod
<1> HIDE DEF v, r, p, w
<1>3. s * t \in Nat \ {0}
  OBVIOUS
<1>4. v \in 0 .. (t - 1)
  <2>1. v >= 0
    <3> SUFFICES ASSUME v <= -1 PROVE FALSE
      BY <1>1
    <3>1. s * v <= - s
      BY <1>1
    <3>2. QED
      BY <1>0, <1>1, <1>3, <3>1
  <2>2. v < t
    <3> SUFFICES ASSUME v >= t PROVE FALSE
      BY <1>1
    <3>1. s * v >= s * t
      BY <1>1
    <3>2. QED
      BY <1>0, <1>1, <1>3, <3>1
  <2>3. QED
    BY <1>1, <2>1, <2>2
<1>5. a \div s = v + q * t
  <2> DEFINE k == v + q * t
  <2>1. a = s * k + r /\ k \in Int /\ a \in Int
    BY <1>0, <1>1
  <2> HIDE DEF k
  <2>2. a \div s = k
    BY <1>1, <2>1, IntDivUnique
  <2>3. QED
    BY <2>2 DEF k
<1>6. (v + q * t) % (s * t) = v + w * t
  <2> DEFINE e == s * t
             x == v + q * t
             z == v + w * t
  <2>1. q * t = (s * p + w) * t
    BY <1>2
  <2>2. (s * p + w) * t = e * p + w * t
    BY <1>2
  <2>3. x = e * p + z /\ x \in Int
    BY <1>2, <1>4, <2>1, <2>2
  <2>4. w * t <= (s - 1) * t /\ w * t >= 0 /\ w * t \in Int
    BY <1>2
  <2>5. (s - 1) * t = e - t
    OBVIOUS
  <2>6. z \in 0 .. (e - 1)
    BY <1>3, <1>4, <2>4, <2>5
  <2> HIDE DEF e, x, z
  <2>7. e \in Nat \ {0}
    BY <1>3 DEF e
  <2>8. x % e = z
    BY <1>2, <2>3, <2>6, <2>7, IntDivUnique
  <2>9. QED
    BY <2>8 DEF e, x, z
<1>7. QED
  BY <1>4, <1>5, <1>6 DEF v, w

LEMMA WordShiftsConform ==
  ASSUME NEW a \in Word, NEW b \in Word, NEW op \in {"sllw", "srlw", "sraw"}
  PROVE  Conforms(op, a, b)
<1> DEFINE P == 2^Half
           n == b % Half
           k == 2^n
           x == uint(a)
           y == uint(b)
<1>1. P \in Nat \ {0} /\ a \in Int /\ b \in Int /\ a >= 0
  BY WordFacts, LongFacts
<1>2. y % Half = n /\ k \in Nat \ {0} /\ \E t \in Nat \ {0} : P = k * t
  BY <1>1, ShiftAmounts
<1>3. x \in 0 .. (P - 1) /\ x = a % P /\ int(a) = Rv!Signed(Half, x) /\ int(a) \in Int
      /\ Congruent(a, x, P)
  BY <1>1, IntFacts DEF Congruent
<1> HIDE DEF P, n, x, y
<1>4. CASE op = "sllw"
  <2>1. Alu(op, a, b) = ExtSigned((a * k) % P)
    BY <1>4 DEF Alu, uint, Unsigned, P, n
  <2>2. Rv!Compute(Rv!WordOps[op], Half, x, y) = (x * k) % P /\ op \in DOMAIN Rv!WordOps
    BY <1>2, <1>4 DEF Rv!WordOps, Rv!Compute, Rv!ToWord, P
  <2> HIDE DEF k
  <2>3. Congruent(k, k, P)
    <3>1. k \in Int /\ k = k - 0 * P
      BY <1>1, <1>2
    <3>2. QED
      BY <3>1 DEF Congruent
  <2>4. (a * k) % P = (x * k) % P
    BY <1>1, <1>3, <2>3, RingMod
  <2>5. (x * k) % P \in 0 .. (P - 1)
    <3>1. x * k \in Int
      BY <1>2, <1>3
    <3>2. QED
      BY <1>1, <3>1, IntDivMod
  <2>6. Alu(op, a, b) = Rv!Result(op, a, b)
    BY <1>1, <2>1, <2>2, <2>4, <2>5, HalvesDecide DEF P, x, y
  <2>7. ~ Deviates(op, a, b)
    BY <1>4 DEF Deviates
  <2>8. QED
    BY <2>6, <2>7 DEF Conforms
<1>5. CASE op = "srlw"
  <2> DEFINE q == a \div P
             z == (a \div k) % P
             v == x \div k
  <2>1. Alu(op, a, b) = ExtSigned(z)
    BY <1>5 DEF Alu, uint, Unsigned, P, n
  <2>2. Rv!Compute(Rv!WordOps[op], Half, x, y) = v /\ op \in DOMAIN Rv!WordOps
    BY <1>2, <1>5 DEF Rv!WordOps, Rv!Compute
  <2>3. Deviates(op, a, b) <=> q % k # 0
    BY <1>5 DEF Deviates, P, n
  <2> HIDE DEF k
  <2>4. PICK t \in Nat \ {0} : P = k * t
    BY <1>2
  <2>5. a = P * q + x /\ q \in Nat
    BY <1>1, <1>3
  <2> HIDE DEF q
  <2>6. /\ v \in 0 .. (t - 1)
        /\ z = v + (q % k) * t
    <3>1. Parts(a, P, q, x)
      BY <1>3, <2>5 DEF Parts
    <3>2. QED
      BY <1>2, <2>4, <3>1, ShiftedHalves
  <2>7. z \in 0 .. (P - 1)
    <3>1. a \div k \in Int
      BY <1>1, <1>2
    <3>2. QED
      BY <1>1, <3>1, IntDivMod
  <2> HIDE DEF z, v
  <2>8. v \in 0 .. (P - 1)
    <3>1. k * t >= t
      BY <1>2
    <3>2. QED
      BY <1>1, <2>4, <2>6, <3>1
  <2>9. q % k \in 0 .. (k - 1)
    BY <1>2, <2>5, IntDivMod
  <2>10. z = v <=> q % k = 0
    <3>1. q % k >= 1 => (q % k) * t >= 1
      BY <2>9
    <3>2. q % k = 0 => (q % k) * t = 0
      OBVIOUS
    <3>3. (q % k) * t \in Int /\ v \in Int
      BY <1>2, <2>6, <2>9
    <3>4. QED
      BY <2>6, <2>9, <3>1, <3>2, <3>3
  <2>11. Alu(op, a, b) = Rv!Result(op, a, b) <=> z = v
    BY <1>1, <2>1, <2>2, <2>7, <2>8, HalvesDecide DEF P, x, y
  <2>12. QED
    BY <2>3, <2>10, <2>11 DEF Conforms
<1>6. CASE op = "sraw"
  <2> DEFINE z == (Rv!Signed(Half, x) \div k) % P
  <2>1. Alu(op, a, b) = ExtSigned(z)
    BY <1>3, <1>6 DEF Alu, SraWord, uint, Unsigned, P, n
  <2>2. Rv!Compute(Rv!WordOps[op], Half, x, y) = z /\ op \in DOMAIN Rv!WordOps
    BY <1>2, <1>6 DEF Rv!WordOps, Rv!Compute, Rv!ToWord, P
  <2>3. z \in 0 .. (P - 1)
    <3>1. Rv!Signed(Half, x) \div k \in Int
      BY <1>2, <1>3
    <3>2. QED
      BY <1>1, <3>1, IntDivMod
  <2>4. Alu(op, a, b) = Rv!Result(op, a, b)
    BY <1>1, <2>1, <2>2, <2>3, HalvesDecide DEF P, x, y
  <2>5. ~ Deviates(op, a, b)
    BY <1>6 DEF Deviates
  <2>6. QED
    BY <2>4, <2>5 DEF Conforms
<1>7. QED
  BY <1>4, <1>5, <1>6

(* A division of halves faults where it deviates, too.                     *)
LEMMA WordDivisionsConform ==
  ASSUME NEW a \in Word, NEW b \in Word, NEW op \in {"divw", "remw", "remuw"}
  PROVE  Conforms(op, a, b)
<1> DEFINE P == 2^Half
           u == uint(a)
           v == uint(b)
           x == int(a)
           y == int(b)
           z == Rv!Compute(Rv!WordOps[op], Half, u, v)
<1>1. P \in Nat \ {0} /\ a \in Int /\ b \in Int /\ LeastInt < 0
  BY WordFacts, LongFacts DEF LeastInt
<1>2. /\ u \in 0 .. (P - 1) /\ v \in 0 .. (P - 1) /\ x \in Int /\ y \in Int
      /\ (y = 0 <=> v = 0) /\ x = Rv!Signed(Half, u) /\ y = Rv!Signed(Half, v)
  BY <1>1, IntFacts DEF Congruent
<1>3. \A q \in Int : uint(q) = q % P /\ q % P \in 0 .. (P - 1)
  BY IntFacts
<1>4. op \in DOMAIN Rv!WordOps
  BY DEF Rv!WordOps
<1>5. ASSUME z \in 0 .. (P - 1), Alu(op, a, b) = Fault PROVE ~ (Alu(op, a, b) = Rv!Result(op, a, b))
  <2>1. Rv!Result(op, a, b) = ExtSigned(z)
    BY <1>1, <1>4, <1>5, WordResult
  <2>2. ExtSigned(z) # Fault
    BY <1>5, ExtSignedFacts
  <2>3. QED
    BY <1>5, <2>1, <2>2
<1>6. ASSUME z \in 0 .. (P - 1), Alu(op, a, b) = ExtSigned(z) PROVE Alu(op, a, b) = Rv!Result(op, a, b)
  BY <1>1, <1>4, <1>6, WordResult
<1> HIDE DEF P, u, v, x, y, z
<1>7. CASE op = "divw"
  <2>1. z = IF v = 0 THEN P - 1 ELSE Rv!Quotient(x, y) % P
    BY <1>2, <1>7 DEF Rv!WordOps, Rv!Compute, Rv!ToWord, P, z
  <2>2. Alu(op, a, b) = OrFault(LeastInt, x, y, ExtSigned(uint(Div(x, y))))
    BY <1>7 DEF Alu, x, y
  <2>3. Deviates(op, a, b) <=> v = 0 \/ (x = LeastInt /\ y = -1)
    BY <1>7 DEF Deviates, x, y, v
  <2>4. v # 0 => Div(x, y) = Rv!Quotient(x, y) /\ Div(x, y) \in Int
    BY <1>2, DivisionFacts
  <2>5. z \in 0 .. (P - 1)
    BY <1>1, <1>3, <2>1, <2>4
  <2>6. CASE Deviates(op, a, b)
    <3>1. Alu(op, a, b) = Fault
      BY <1>2, <2>2, <2>3, <2>6 DEF OrFault
    <3>2. QED
      BY <1>5, <2>5, <2>6, <3>1 DEF Conforms
  <2>7. CASE ~ Deviates(op, a, b)
    <3>1. v # 0 /\ y # 0
      BY <1>2, <2>3, <2>7
    <3>2. uint(Div(x, y)) = z
      BY <1>3, <2>1, <2>4, <3>1
    <3>3. Alu(op, a, b) = ExtSigned(z)
      BY <2>2, <2>3, <2>7, <3>1, <3>2 DEF OrFault
    <3>4. QED
      BY <1>6, <2>5, <2>7, <3>3 DEF Conforms
  <2>8. QED
    BY <2>6, <2>7
<1>8. CASE op = "remw"
  <2>1. z = IF v = 0 THEN u ELSE (x - y * Rv!Quotient(x, y)) % P
    BY <1>2, <1>8 DEF Rv!WordOps, Rv!Compute, Rv!ToWord, P, z
  <2>2. Alu(op, a, b) = OrFault(LeastInt, x, y, ExtSigned(uint(Rem(x, y))))
    BY <1>8 DEF Alu, x, y
  <2>3. Deviates(op, a, b) <=> v = 0 \/ (x = LeastInt /\ y = -1)
    BY <1>8 DEF Deviates, x, y, v
  <2>4. v # 0 => Rem(x, y) = x - y * Rv!Quotient(x, y) /\ Rem(x, y) \in Int
    <3> HAVE v # 0
    <3>1. y # 0
      BY <1>2
    <3>2. QED
      BY <1>2, <3>1, DivisionFacts
  <2>5. z \in 0 .. (P - 1)
    <3>1. CASE v = 0
      BY <1>2, <2>1, <3>1
    <3>2. CASE v # 0
      <4>1. z = Rem(x, y) % P /\ Rem(x, y) \in Int
        BY <2>1, <2>4, <3>2
      <4>2. QED
        BY <1>3, <4>1
    <3>3. QED
      BY <3>1, <3>2
  <2>6. CASE Deviates(op, a, b)
    <3>1. Alu(op, a, b) = Fault
      BY <1>2, <2>2, <2>3, <2>6 DEF OrFault
    <3>2. QED
      BY <1>5, <2>5, <2>6, <3>1 DEF Conforms
  <2>7. CASE ~ Deviates(op, a, b)
    <3>1. v # 0 /\ y # 0
      BY <1>2, <2>3, <2>7
    <3>2. uint(Rem(x, y)) = z
      BY <1>3, <2>1, <2>4, <3>1
    <3>3. Alu(op, a, b) = ExtSigned(z)
      BY <2>2, <2>3, <2>7, <3>1, <3>2 DEF OrFault
    <3>4. QED
      BY <1>6, <2>5, <2>7, <3>3 DEF Conforms
  <2>8. QED
    BY <2>6, <2>7
<1>9. CASE op = "remuw"
  <2>1. z = IF v = 0 THEN u ELSE u % v
    BY <1>9 DEF Rv!WordOps, Rv!Compute, z
  <2>2. Alu(op, a, b) = OrFault(LeastInt, u, v, ExtSigned(u % v))
    BY <1>9 DEF Alu, u, v
  <2>3. Deviates(op, a, b) <=> v = 0
    BY <1>9 DEF Deviates, v
  <2>4. z \in 0 .. (P - 1)
    <3>1. v # 0 => u % v \in 0 .. (v - 1)
      BY <1>2, IntDivMod
    <3>2. QED
      BY <1>1, <1>2, <2>1, <3>1
  <2>5. u # LeastInt
    BY <1>1, <1>2
  <2>6. CASE v = 0
    <3>1. Alu(op, a, b) = Fault
      BY <2>2, <2>6 DEF OrFault
    <3>2. QED
      BY <1>5, <2>3, <2>4, <2>6, <3>1 DEF Conforms
  <2>7. CASE v # 0
    <3>1. Alu(op, a, b) = ExtSigned(z)
      BY <2>1, <2>2, <2>5, <2>7 DEF OrFault
    <3>2. QED
      BY <1>6, <2>3, <2>4, <2>7, <3>1 DEF Conforms
  <2>8. QED
    BY <2>6, <2>7
<1>10. QED
  BY <1>7, <1>8, <1>9

(* The bits of a word, from the lowest, add up to it.                      *)
LEMMA NextBit ==
  ASSUME NEW w \in Nat, NEW i \in 0 .. (XLen - 1)
  PROVE  /\ BitOf(w, i) \in {0, 1}
         /\ w % 2^(i + 1) = (w % 2^i) + 2^i * BitOf(w, i)
<1> DEFINE d == 2^i
           q == w \div d
           r == w % d
           p == q \div 2
           t == q % 2
<1>1. d \in Nat \ {0} /\ 2^(i + 1) = 2 * d
  BY WordFacts
<1>2. w = d * q + r /\ q \in Nat /\ r \in 0 .. (d - 1)
  BY <1>1
<1>3. q = 2 * p + t /\ p \in Int /\ t \in {0, 1}
  BY <1>2
<1>4. BitOf(w, i) = t
  BY DEF BitOf
<1> HIDE DEF d, q, r, p, t
<1>5. w = (2 * d) * p + (r + d * t)
  BY <1>1, <1>2, <1>3
<1>6. r + d * t \in 0 .. (2 * d - 1)
  <2>1. d * t = 0 \/ d * t = d
    BY <1>1, <1>3
  <2>2. QED
    BY <1>1, <1>2, <2>1
<1>7. w % (2 * d) = r + d * t
  <2> DEFINE e == 2 * d
             z == r + d * t
  <2>1. e \in Nat \ {0} /\ z \in 0 .. (e - 1) /\ w = e * p + z /\ w \in Int
    BY <1>1, <1>5, <1>6
  <2> HIDE DEF e, z
  <2>2. w % e = z
    BY <1>3, <2>1, IntDivUnique
  <2>3. QED
    BY <2>2 DEF e, z
<1>8. QED
  BY <1>1, <1>3, <1>4, <1>7 DEF d, r

(* A sum of powers is the only word with those bits.                       *)
LEMMA WordOfBits ==
  ASSUME NEW b \in [0 .. (XLen - 1) -> {0, 1}], NEW f, f[0] = 0,
         \A k \in 1 .. XLen : f[k] = f[k - 1] + 2^(k - 1) * b[k - 1]
  PROVE  /\ f[XLen] \in Word
         /\ \A i \in 0 .. (XLen - 1) : BitOf(f[XLen], i) = b[i]
         /\ \A w \in Word :
              (\A i \in 0 .. (XLen - 1) : BitOf(w, i) = b[i]) => w = f[XLen]
<1>1. XLen \in Nat \ {0} /\ 2^0 = 1
  BY WordFacts
<1> DEFINE Has(w) == \A i \in 0 .. (XLen - 1) : BitOf(w, i) = b[i]
           P(k) == /\ f[k] \in 0 .. (2^k - 1)
                   /\ \A i \in 0 .. k : f[k] % 2^i = f[i]
                   /\ \A w \in Word : Has(w) => w % 2^k = f[k]
           S == {k \in Nat : k <= XLen => P(k)}
<1>2. 0 \in S
  <2>1. \A w \in Word : w % 2^0 = 0
    BY <1>1 DEF Word
  <2>2. f[0] \in 0 .. (2^0 - 1)
    BY <1>1
  <2>3. \A i \in 0 .. 0 : f[0] % 2^i = f[i]
    <3> TAKE i \in 0 .. 0
    <3>1. i = 0
      OBVIOUS
    <3>2. QED
      BY <1>1, <3>1
  <2>4. P(0)
    BY <2>1, <2>2, <2>3
  <2> HIDE DEF P
  <2>5. QED
    BY <2>4
<1>3. ASSUME NEW k \in Nat, k \in S PROVE k + 1 \in S
  <2> HIDE DEF P
  <2> SUFFICES ASSUME k + 1 <= XLen PROVE P(k + 1)
    OBVIOUS
  <2>0. P(k)
    BY <1>1, <1>3
  <2>1. k \in 0 .. (XLen - 1) /\ k + 1 \in 1 .. XLen /\ (k + 1) - 1 = k
    BY <1>1
  <2> DEFINE d == 2^k
  <2>2. d \in Nat \ {0} /\ 2^(k + 1) = 2 * d
    BY <2>1, WordFacts
  <2>3. f[k + 1] = f[k] + d * b[k] /\ b[k] \in {0, 1}
    BY <2>1
  <2>4. f[k] \in 0 .. (d - 1)
    BY <2>0 DEF P
  <2>5. f[k + 1] \in 0 .. (2 * d - 1)
    <3>1. d * b[k] = 0 \/ d * b[k] = d
      BY <2>2, <2>3
    <3>2. QED
      BY <2>2, <2>3, <2>4, <3>1
  <2>6. ASSUME NEW i \in 0 .. (k + 1) PROVE f[k + 1] % 2^i = f[i]
    <3>1. CASE i = k + 1
      <4>1. 2^i = 2 * d
        BY <2>2, <3>1
      <4>2. f[k + 1] % (2 * d) = f[k + 1]
        BY <2>2, <2>5
      <4>3. QED
        BY <3>1, <4>1, <4>2
    <3>2. CASE i # k + 1
      <4> DEFINE e == 2^i
                 c == 2^(k - i)
      <4>1. i \in 0 .. k /\ k - i \in 0 .. XLen /\ i \in 0 .. XLen /\ i + (k - i) = k
            /\ k <= XLen
        BY <1>1, <2>1, <3>2
      <4>2. 2^(i + (k - i)) = e * c
        BY <4>1, PowerAssumption
      <4>3. e \in Nat \ {0} /\ c \in Nat \ {0}
        BY <4>1, WordFacts
      <4>4. d = e * c
        BY <4>1, <4>2
      <4>5. f[k] % e = f[i]
        BY <2>0, <4>1 DEF P
      <4> HIDE DEF d, e, c
      <4>6. f[k + 1] = f[k] + (c * b[k]) * e /\ c * b[k] \in Int /\ f[k] \in Int
        BY <2>3, <2>4, <4>3, <4>4
      <4>7. (f[k] + (c * b[k]) * e) % e = f[k] % e
        BY <4>3, <4>6, AddMultiple
      <4>8. QED
        BY <4>5, <4>6, <4>7 DEF e
    <3>3. QED
      BY <3>1, <3>2
  <2>7. ASSUME NEW w \in Word, Has(w) PROVE w % 2^(k + 1) = f[k + 1]
    <3>1. w % d = f[k]
      BY <2>0, <2>7 DEF P
    <3>2. w \in Nat
      BY DEF Word
    <3>3. w % 2^(k + 1) = (w % d) + d * BitOf(w, k)
      BY <2>1, <3>2, NextBit
    <3>4. QED
      BY <2>1, <2>3, <2>7, <3>1, <3>3
  <2>8. f[k + 1] \in 0 .. (2^(k + 1) - 1)
    BY <2>2, <2>5
  <2>9. QED
    BY <2>6, <2>7, <2>8 DEF P
<1>4. P(XLen)
  <2> HIDE DEF P
  <2>1. Nat \subseteq S
    <3> HIDE DEF S
    <3>1. QED
      BY <1>2, <1>3, SetInduction
  <2>2. QED
    BY <1>1, <2>1
<1>5. f[XLen] \in Word /\ \A i \in 0 .. XLen : f[XLen] % 2^i = f[i]
  BY <1>4 DEF Word
<1>6. ASSUME NEW i \in 0 .. (XLen - 1) PROVE BitOf(f[XLen], i) = b[i]
  <2> DEFINE d == 2^i
             t == BitOf(f[XLen], i)
  <2>1. i \in 0 .. XLen /\ i + 1 \in 0 .. XLen /\ i + 1 \in 1 .. XLen /\ (i + 1) - 1 = i
    BY <1>1
  <2>2. f[XLen] \in Nat
    BY <1>5 DEF Word
  <2>3. t \in {0, 1} /\ f[XLen] % 2^(i + 1) = (f[XLen] % d) + d * t
    BY <2>2, NextBit
  <2>4. f[i + 1] = f[i] + d * b[i] /\ b[i] \in {0, 1}
    BY <2>1
  <2>5. f[XLen] % 2^(i + 1) = f[i + 1] /\ f[XLen] % d = f[i]
    BY <1>5, <2>1
  <2>6. d \in Nat \ {0}
    BY <2>1, WordFacts
  <2>7. f[i] \in Int
    BY <2>2, <2>5, <2>6
  <2> HIDE DEF d, t
  <2>8. d * t = d * b[i]
    BY <2>3, <2>4, <2>5, <2>6, <2>7
  <2>9. t = b[i]
    BY <2>3, <2>4, <2>6, <2>8
  <2>10. QED
    BY <2>9 DEF t
<1>7. ASSUME NEW w \in Word, Has(w) PROVE w = f[XLen]
  <2>1. w % 2^XLen = f[XLen]
    BY <1>4, <1>7
  <2>2. w % 2^XLen = w
    <3> DEFINE d == 2^XLen
    <3>1. d \in Nat \ {0} /\ w \in Nat /\ w < d
      BY WordFacts DEF Word
    <3> HIDE DEF d
    <3>2. w % d = w
      BY <3>1, ModInRange
    <3>3. QED
      BY <3>2 DEF d
  <2>3. QED
    BY <2>1, <2>2
<1>8. QED
  BY <1>5, <1>6, <1>7

(* The sums by which RISC-V's bitwise operations are defined.              *)
SumsBits(g, b) ==
  g = [i \in 0 .. XLen |-> IF i = 0 THEN 0 ELSE g[i - 1] + 2^(i - 1) * b[i - 1]]

LEMMA SumOfBits ==
  ASSUME NEW b \in [0 .. (XLen - 1) -> {0, 1}]
  PROVE  /\ \E sum : SumsBits(sum, b)
         /\ \A sum : SumsBits(sum, b) =>
              /\ sum[0] = 0
              /\ \A k \in 1 .. XLen : sum[k] = sum[k - 1] + 2^(k - 1) * b[k - 1]
<1> DEFINE step == [p \in Nat \X Int |->
                      IF p[1] \in 1 .. XLen THEN p[2] + 2^(p[1] - 1) * b[p[1] - 1] ELSE 0]
<1>1. XLen \in Nat
  BY WordFacts
<1>2. step \in [Nat \X Int -> Int]
  <2>1. ASSUME NEW k \in 1 .. XLen PROVE 2^(k - 1) * b[k - 1] \in Int
    <3>1. k - 1 \in 0 .. (XLen - 1) /\ k - 1 \in 0 .. XLen
      BY <1>1
    <3>2. b[k - 1] \in {0, 1} /\ 2^(k - 1) \in Nat \ {0}
      BY <3>1, WordFacts
    <3>3. QED
      BY <3>2
  <2>2. ASSUME NEW p \in Nat \X Int
        PROVE  (IF p[1] \in 1 .. XLen THEN p[2] + 2^(p[1] - 1) * b[p[1] - 1] ELSE 0) \in Int
    BY <2>1
  <2>3. QED
    BY <2>2
<1>3. PICK f : Recurs(f, Int, 0, step, XLen)
  <2> HIDE DEF step
  <2>1. 0 \in Int
    OBVIOUS
  <2>2. QED
    BY <1>1, <1>2, <2>1, Recursion, Zenon
<1>4. SumsBits(f, b)
  <2>1. ASSUME NEW i \in 0 .. XLen
        PROVE  f[i] = IF i = 0 THEN 0 ELSE f[i - 1] + 2^(i - 1) * b[i - 1]
    <3>1. CASE i = 0
      BY <1>3, <3>1 DEF Recurs
    <3>2. CASE i # 0
      <4>0. i \in 1 .. XLen /\ i \in Nat /\ i - 1 \in 0 .. XLen
        BY <1>1, <3>2
      <4>1. f[i - 1] \in Int
        <5> HIDE DEF step
        <5>1. QED
          BY <1>3, <4>0 DEF Recurs
      <4>2. f[i] = step[<<i, f[i - 1]>>]
        <5> HIDE DEF step
        <5>1. QED
          BY <1>3, <4>0 DEF Recurs
      <4>3. step[<<i, f[i - 1]>>] = f[i - 1] + 2^(i - 1) * b[i - 1]
        BY <4>0, <4>1
      <4>4. QED
        BY <3>2, <4>2, <4>3
    <3>3. QED
      BY <3>1, <3>2
  <2> HIDE DEF step
  <2>2. f = [i \in 0 .. XLen |-> f[i]]
    BY <1>3 DEF Recurs
  <2>3. QED
    BY <2>1, <2>2 DEF SumsBits
<1>5. ASSUME NEW sum, SumsBits(sum, b)
      PROVE  /\ sum[0] = 0
             /\ \A k \in 1 .. XLen : sum[k] = sum[k - 1] + 2^(k - 1) * b[k - 1]
  <2>1. \A k \in 0 .. XLen : sum[k] = IF k = 0 THEN 0 ELSE sum[k - 1] + 2^(k - 1) * b[k - 1]
    BY <1>5 DEF SumsBits
  <2>2. 0 \in 0 .. XLen /\ \A k \in 1 .. XLen : k \in 0 .. XLen /\ k # 0
    BY <1>1
  <2>3. QED
    BY <2>1, <2>2
<1>6. QED
  BY <1>4, <1>5

(* The word that execute_ALU's operators make bit by bit is the sum that   *)
(* RISC-V's are defined by.                                                *)
LEMMA LogicConforms ==
  ASSUME NEW a \in Word, NEW b \in Word, NEW op \in {"xor", "or", "and"}
  PROVE  Conforms(op, a, b)
<1> DEFINE s(i) == BitOf(a, i)
           t(i) == BitOf(b, i)
           F(x, y) == CASE op = "xor" -> (x + y) % 2
                        [] op = "or"  -> x + y - x * y
                        [] op = "and" -> x * y
           bits == [i \in 0 .. (XLen - 1) |-> F(s(i), t(i))]
           IsSet(i) == CASE op = "xor" -> s(i) # t(i)
                         [] op = "or"  -> s(i) = 1 \/ t(i) = 1
                         [] op = "and" -> s(i) = 1 /\ t(i) = 1
           set == {i \in 0 .. (XLen - 1) : IsSet(i)}
           Is(w) == Ones(w) = set
<1>1. XLen \in Nat \ {0} /\ a \in Nat /\ b \in Nat
  BY WordFacts DEF Word
<1>2. \A w \in Nat, i \in 0 .. (XLen - 1) : BitOf(w, i) \in {0, 1}
  BY NextBit
<1>3. \A i \in 0 .. (XLen - 1) : F(s(i), t(i)) \in {0, 1} /\ (F(s(i), t(i)) = 1 <=> IsSet(i))
  <2> TAKE i \in 0 .. (XLen - 1)
  <2>1. s(i) \in {0, 1} /\ t(i) \in {0, 1}
    BY <1>1, <1>2
  <2> HIDE DEF s, t
  <2>2. CASE op = "xor"
    BY <2>1, <2>2
  <2>3. CASE op = "or"
    BY <2>1, <2>3
  <2>4. CASE op = "and"
    BY <2>1, <2>4
  <2>5. QED
    BY <2>2, <2>3, <2>4
<1>4. Alu(op, a, b) = CHOOSE w \in 0 .. (2^XLen - 1) : Is(w)
  <2>0. /\ Ones(a) = {i \in 0 .. (XLen - 1) : s(i) = 1}
        /\ Ones(b) = {i \in 0 .. (XLen - 1) : t(i) = 1}
        /\ \A i \in 0 .. (XLen - 1) : s(i) \in {0, 1} /\ t(i) \in {0, 1}
    BY <1>1, <1>2, Zenon DEF Ones
  <2> HIDE DEF s, t
  <2>1. CASE op = "xor"
    <3>1. set = {i \in 0 .. (XLen - 1) : s(i) # t(i)}
      BY <2>1
    <3>2. (Ones(a) \ Ones(b)) \cup (Ones(b) \ Ones(a)) = set
      BY <2>0, <3>1
    <3> HIDE DEF set
    <3>3. QED
      BY <2>1, <3>2 DEF Alu, Xor, WordOf
  <2>2. CASE op = "or"
    <3>1. set = {i \in 0 .. (XLen - 1) : s(i) = 1 \/ t(i) = 1}
      BY <2>2
    <3>2. Ones(a) \cup Ones(b) = set
      BY <2>0, <3>1
    <3> HIDE DEF set
    <3>3. QED
      BY <2>2, <3>2 DEF Alu, Or, WordOf
  <2>3. CASE op = "and"
    <3>1. set = {i \in 0 .. (XLen - 1) : s(i) = 1 /\ t(i) = 1}
      BY <2>3
    <3>2. Ones(a) \cap Ones(b) = set
      BY <2>0, <3>1
    <3> HIDE DEF set
    <3>3. QED
      BY <2>3, <3>2 DEF Alu, And, WordOf
  <2>4. QED
    BY <2>1, <2>2, <2>3
<1>5. bits \in [0 .. (XLen - 1) -> {0, 1}]
  BY <1>3
<1>6. PICK sum : Rv!Result(op, a, b) = sum[XLen] /\ SumsBits(sum, bits)
  <2>1. \E f : SumsBits(f, bits)
    <3> HIDE DEF bits
    <3>1. QED
      BY <1>5, SumOfBits
  <2>2. CASE op = "xor"
    <3> DEFINE G(g) == g = [i \in 0 .. XLen |->
                         IF i = 0 THEN 0
                         ELSE g[i - 1] + 2^(i - 1) * ((BitOf(a, i - 1) + BitOf(b, i - 1)) % 2)]
    <3>1. Rv!Result(op, a, b) = (CHOOSE g : G(g))[XLen]
      BY <2>2 DEF Rv!Result, Rv!WordOps, Rv!Compute, BitOf
    <3>2. \A i \in 1 .. XLen : bits[i - 1] = ((BitOf(a, i - 1) + BitOf(b, i - 1)) % 2)
      BY <1>1, <2>2
    <3>3. \A g : G(g) <=> SumsBits(g, bits)
      <4> TAKE g
      <4> HIDE DEF bits
      <4>1. QED
        BY <1>1, <3>2 DEF SumsBits
    <3>4. G(CHOOSE g : G(g))
      BY <2>1, <3>3
    <3>5. QED
      BY <3>1, <3>3, <3>4
  <2>3. CASE op = "or"
    <3> DEFINE G(g) == g = [i \in 0 .. XLen |->
                         IF i = 0 THEN 0
                         ELSE g[i - 1] + 2^(i - 1) * (BitOf(a, i - 1) + BitOf(b, i - 1)
                                                - BitOf(a, i - 1) * BitOf(b, i - 1))]
    <3>1. Rv!Result(op, a, b) = (CHOOSE g : G(g))[XLen]
      BY <2>3 DEF Rv!Result, Rv!WordOps, Rv!Compute, BitOf
    <3>2. \A i \in 1 .. XLen : bits[i - 1] = (BitOf(a, i - 1) + BitOf(b, i - 1)
                                          - BitOf(a, i - 1) * BitOf(b, i - 1))
      BY <1>1, <2>3
    <3>3. \A g : G(g) <=> SumsBits(g, bits)
      <4> TAKE g
      <4> HIDE DEF bits
      <4>1. QED
        BY <1>1, <3>2 DEF SumsBits
    <3>4. G(CHOOSE g : G(g))
      BY <2>1, <3>3
    <3>5. QED
      BY <3>1, <3>3, <3>4
  <2>4. CASE op = "and"
    <3> DEFINE G(g) == g = [i \in 0 .. XLen |->
                         IF i = 0 THEN 0
                         ELSE g[i - 1] + 2^(i - 1) * (BitOf(a, i - 1) * BitOf(b, i - 1))]
    <3>1. Rv!Result(op, a, b) = (CHOOSE g : G(g))[XLen]
      BY <2>4 DEF Rv!Result, Rv!WordOps, Rv!Compute, BitOf
    <3>2. \A i \in 1 .. XLen : bits[i - 1] = (BitOf(a, i - 1) * BitOf(b, i - 1))
      BY <1>1, <2>4
    <3>3. \A g : G(g) <=> SumsBits(g, bits)
      <4> TAKE g
      <4> HIDE DEF bits
      <4>1. QED
        BY <1>1, <3>2 DEF SumsBits
    <3>4. G(CHOOSE g : G(g))
      BY <2>1, <3>3
    <3>5. QED
      BY <3>1, <3>3, <3>4
  <2>5. QED
    BY <2>2, <2>3, <2>4
<1>7. /\ sum[0] = 0
      /\ \A k \in 1 .. XLen : sum[k] = sum[k - 1] + 2^(k - 1) * bits[k - 1]
  <2> HIDE DEF bits
  <2>1. QED
    BY <1>5, <1>6, SumOfBits
<1>8. /\ sum[XLen] \in Word
      /\ \A i \in 0 .. (XLen - 1) : BitOf(sum[XLen], i) = bits[i]
      /\ \A w \in Word : (\A i \in 0 .. (XLen - 1) : BitOf(w, i) = bits[i]) => w = sum[XLen]
  <2> HIDE DEF bits
  <2>1. QED
    BY <1>5, <1>7, WordOfBits
<1>9. \A w \in Word : Is(w) <=> \A i \in 0 .. (XLen - 1) : BitOf(w, i) = bits[i]
  <2> TAKE w \in Word
  <2>1. \A i \in 0 .. (XLen - 1) : BitOf(w, i) \in {0, 1}
    BY <1>2 DEF Word
  <2> HIDE DEF F, IsSet, s, t
  <2>2. \A i \in 0 .. (XLen - 1) : bits[i] = F(s(i), t(i))
    OBVIOUS
  <2>3. Is(w) <=> \A i \in 0 .. (XLen - 1) : BitOf(w, i) = 1 <=> IsSet(i)
    BY DEF Ones
  <2> HIDE DEF Is
  <2>4. QED
    BY <1>3, <2>1, <2>2, <2>3
<1>10. sum[XLen] = CHOOSE w \in 0 .. (2^XLen - 1) : Is(w)
  <2> HIDE DEF Is, bits
  <2>1. Word = 0 .. (2^XLen - 1)
    BY DEF Word
  <2>2. QED
    BY <1>8, <1>9, <2>1
<1>11. ~ Deviates(op, a, b)
  BY DEF Deviates
<1>12. QED
  BY <1>4, <1>6, <1>10, <1>11 DEF Conforms

(* execute_ALU computes what RISC-V does, at every width and for all       *)
(* operands, but for the deviations that AluConforms lists, and only there *)
(* does it differ.                                                         *)
THEOREM AluIsRight == Spec => []AluConforms
<1>1. InputLegal => AluConforms
  <2> SUFFICES ASSUME InputLegal, input.check = "alu", input.op \in AluOps
               PROVE  Conforms(input.op, input.a, input.b)
    BY DEF AluConforms, Conforms
  <2>1. input \in AluInputs
    BY InputKinds
  <2>2. input.a \in Word /\ input.b \in Word
    BY <2>1, OperandsAssumption DEF AluInputs, Word
  <2>3. \/ input.op \in {"add", "sub", "mul"}
        \/ input.op \in {"mulh", "mulhsu", "mulhu"}
        \/ input.op \in {"sll", "srl", "sra", "slt", "sltu"}
        \/ input.op \in {"xor", "or", "and"}
        \/ input.op \in {"div", "rem", "divu", "remu"}
        \/ input.op \in {"addw", "subw", "mulw"}
        \/ input.op \in {"sllw", "srlw", "sraw"}
        \/ input.op \in {"divw", "remw", "remuw"}
    BY DEF AluOps
  <2>4. QED
    BY <2>2, <2>3, SumsConform, HighWordsConform, ShiftsConform, LogicConforms,
       DivisionsConform, WordSumsConform, WordShiftsConform, WordDivisionsConform
<1>2. QED
  BY <1>1, InputsLegal, PTL

-----------------------------------------------------------------------------
(* ELF files.                                                              *)

LEMMA ByteFacts ==
  /\ Byte \in Nat /\ Byte >= 4
  /\ \A k \in 0 .. 8 : Byte^k \in Nat \ {0}
  /\ Byte^0 = 1 /\ \A k \in 0 .. 7 : Byte^(k + 1) = Byte * Byte^k
  /\ IntRange \in Nat /\ IntRange >= 256
  /\ IntRange \div 2 \in Nat /\ IntRange = 2 * (IntRange \div 2)
  /\ LongRange \in Nat \ {0} /\ LongRange = IntRange * IntRange
<1>1. Byte \in {4, 16, 256}
  BY ByteAssumption
<1>2. Byte^0 = 1 /\ \A k \in 0 .. 7 : Byte^(k + 1) = Byte * Byte^k
  BY BytePowerAssumption
<1>3. /\ Byte^(0 + 1) = Byte * Byte^0 /\ Byte^(1 + 1) = Byte * Byte^1
      /\ Byte^(2 + 1) = Byte * Byte^2 /\ Byte^(3 + 1) = Byte * Byte^3
      /\ Byte^(4 + 1) = Byte * Byte^4 /\ Byte^(5 + 1) = Byte * Byte^5
      /\ Byte^(6 + 1) = Byte * Byte^6 /\ Byte^(7 + 1) = Byte * Byte^7
  <2>1. 0 \in 0 .. 7 /\ 1 \in 0 .. 7 /\ 2 \in 0 .. 7 /\ 3 \in 0 .. 7 /\ 4 \in 0 .. 7
        /\ 5 \in 0 .. 7 /\ 6 \in 0 .. 7 /\ 7 \in 0 .. 7
    OBVIOUS
  <2>2. QED
    BY <1>2, <2>1, Zenon
<1>4. /\ Byte^1 = Byte /\ Byte^2 = Byte * Byte^1 /\ Byte^3 = Byte * Byte^2
      /\ Byte^4 = Byte * Byte^3 /\ Byte^5 = Byte * Byte^4 /\ Byte^6 = Byte * Byte^5
      /\ Byte^7 = Byte * Byte^6 /\ Byte^8 = Byte * Byte^7
  BY <1>1, <1>2, <1>3
<1> DEFINE S == {k \in Nat : k <= 8 => Byte^k \in Nat \ {0}}
<1>5. 0 \in S
  BY <1>2
<1>6. ASSUME NEW k \in Nat, k \in S PROVE k + 1 \in S
  BY <1>1, <1>2, <1>6
<1>7. \A k \in 0 .. 8 : Byte^k \in Nat \ {0}
  <2>1. Nat \subseteq S
    <3> HIDE DEF S
    <3>1. QED
      BY <1>5, <1>6, SetInduction
  <2>2. QED
    BY <2>1
<1>8. /\ Byte^4 \in Nat /\ Byte^4 = Byte * (Byte * (Byte * Byte))
      /\ Byte^8 = (Byte * (Byte * (Byte * Byte))) * Byte^4
  <2> DEFINE p1 == Byte^1
             p2 == Byte^2
             p3 == Byte^3
             p4 == Byte^4
             p5 == Byte^5
             p6 == Byte^6
             p7 == Byte^7
  <2>1. p1 = Byte /\ p2 = Byte * p1 /\ p3 = Byte * p2 /\ p4 = Byte * p3 /\ p5 = Byte * p4
        /\ p6 = Byte * p5 /\ p7 = Byte * p6 /\ Byte^8 = Byte * p7
    BY <1>4
  <2> HIDE DEF p1, p2, p3, p4, p5, p6, p7
  <2>2. p4 = Byte * (Byte * (Byte * Byte)) /\ p4 \in Nat
    BY <1>1, <2>1
  <2>3. Byte^8 = Byte * (Byte * (Byte * (Byte * p4)))
    BY <2>1
  <2>4. QED
    BY <1>1, <2>2, <2>3 DEF p4
<1>9. IntRange = Byte * (Byte * (Byte * Byte)) /\ LongRange = IntRange * IntRange
  BY <1>8 DEF IntRange, LongRange
<1>10. IntRange \in {256, 65536, 4294967296}
  BY <1>1, <1>9
<1>11. QED
  BY <1>1, <1>2, <1>7, <1>9, <1>10

(* char2num's int keeps what its bytes add up to, but for multiples of its *)
(* range.                                                                  *)
LEMMA ToIntFacts ==
  ASSUME NEW x \in Int
  PROVE  /\ ToInt(x) \in Int
         /\ \E i \in Int : ToInt(x) = x - i * IntRange
         /\ \A y \in Int : ToInt(ToInt(x) + y) = ToInt(x + y)
         /\ ToInt(x) = IF x % IntRange >= IntRange \div 2
                         THEN (x % IntRange) - IntRange ELSE x % IntRange
<1> DEFINE R == IntRange
           u == x % R
           q == x \div R
<1>1. R \in Nat \ {0}
  BY ByteFacts
<1>2. x = R * q + u /\ q \in Int /\ u \in 0 .. (R - 1)
  BY <1>1, IntDivMod
<1>3. ToInt(x) = IF u >= R \div 2 THEN u - R ELSE u
  BY DEF ToInt
<1> HIDE DEF R, u, q
<1>4. PICK i \in Int : ToInt(x) = x - i * R
  <2>1. u = x - q * R /\ u - R = x - (q + 1) * R /\ q + 1 \in Int
    BY <1>1, <1>2
  <2>2. QED
    BY <1>2, <1>3, <2>1
<1>5. ASSUME NEW y \in Int PROVE ToInt(ToInt(x) + y) = ToInt(x + y)
  <2>1. ToInt(x) + y = (x + y) + (- i) * R /\ - i \in Int /\ x + y \in Int
    BY <1>1, <1>4
  <2>2. ((x + y) + (- i) * R) % R = (x + y) % R
    BY <1>1, <2>1, AddMultiple
  <2>3. (ToInt(x) + y) % R = (x + y) % R
    BY <2>1, <2>2
  <2>4. QED
    BY <2>3 DEF ToInt, R
<1>6. ToInt(x) \in Int
  BY <1>1, <1>2, <1>3
<1>7. QED
  BY <1>3, <1>4, <1>5, <1>6 DEF R, u

(* The sums of a field's bytes, and what the loop of char2num accumulates. *)
LEMMA FieldSums ==
  ASSUME NEW n \in FieldSizes, NEW c \in [1 .. n -> 0 .. (Byte - 1)]
  PROVE  \E sum :
           /\ LittleEndian(c) = sum[n] /\ Len(c) = n
           /\ sum[0] = 0 /\ \A k \in 1 .. n : sum[k] = sum[k - 1] + c[k] * Byte^(k - 1)
           /\ \A k \in 0 .. n : sum[k] \in 0 .. (Byte^k - 1)
           /\ BytesSum(c, n) = ToInt(sum[n])
<1> DEFINE Sum(g) == g = [i \in 0 .. n |->
                       IF i = 0 THEN 0 ELSE g[i - 1] + c[i] * Byte^(i - 1)]
           Ans(g) == g = [i \in 0 .. n |->
                       IF i = 0 THEN 0 ELSE ToInt(g[i - 1] + Byte^(i - 1) * c[i])]
           step == [p \in Nat \X Int |->
                      IF p[1] \in 1 .. n THEN p[2] + c[p[1]] * Byte^(p[1] - 1) ELSE 0]
           sum == CHOOSE g : Sum(g)
           ans == CHOOSE g : Ans(g)
<1>1. n \in {2, 4, 8} /\ n \in Nat /\ Byte \in Nat /\ Byte >= 4
  BY ByteFacts DEF FieldSizes
<1>2. \A k \in 1 .. n : /\ k - 1 \in 0 .. n /\ k \in Nat /\ k - 1 \in 0 .. 7
                        /\ c[k] \in 0 .. (Byte - 1) /\ Byte^(k - 1) \in Nat \ {0}
                        /\ c[k] * Byte^(k - 1) \in Nat
  <2> TAKE k \in 1 .. n
  <2>1. k - 1 \in 0 .. n /\ k \in Nat /\ k - 1 \in 0 .. 7 /\ k - 1 \in 0 .. 8
    BY <1>1
  <2>2. c[k] \in 0 .. (Byte - 1) /\ Byte^(k - 1) \in Nat \ {0}
    BY <2>1, ByteFacts
  <2>3. QED
    BY <1>1, <2>1, <2>2
<1>3. Len(c) = n
  BY <1>1
<1>4. LittleEndian(c) = sum[n]
  BY <1>3 DEF LittleEndian
<1>5. BytesSum(c, n) = ans[n]
  BY DEF BytesSum
<1>6. step \in [Nat \X Int -> Int]
  <2>1. ASSUME NEW p \in Nat \X Int
        PROVE  (IF p[1] \in 1 .. n THEN p[2] + c[p[1]] * Byte^(p[1] - 1) ELSE 0) \in Int
    <3>1. CASE p[1] \in 1 .. n
      BY <1>2, <3>1
    <3>2. QED
      BY <3>1
  <2>2. QED
    BY <2>1
<1>7. PICK f : Recurs(f, Int, 0, step, n)
  <2> HIDE DEF step
  <2>1. 0 \in Int
    OBVIOUS
  <2>2. QED
    BY <1>1, <1>6, <2>1, Recursion, Zenon
<1>8. /\ f[0] = 0 /\ \A k \in 0 .. n : f[k] \in Int
      /\ \A k \in 1 .. n : f[k] = f[k - 1] + c[k] * Byte^(k - 1)
  <2>1. f[0] = 0 /\ \A k \in 0 .. n : f[k] \in Int
    <3> HIDE DEF step
    <3>1. QED
      BY <1>7 DEF Recurs
  <2>2. ASSUME NEW k \in 1 .. n PROVE f[k] = f[k - 1] + c[k] * Byte^(k - 1)
    <3>1. f[k] = step[<<k, f[k - 1]>>]
      <4> HIDE DEF step
      <4>1. QED
        BY <1>7 DEF Recurs
    <3>2. f[k - 1] \in Int /\ k \in Nat
      BY <1>2, <2>1
    <3>3. step[<<k, f[k - 1]>>] = f[k - 1] + c[k] * Byte^(k - 1)
      BY <3>2
    <3>4. QED
      BY <3>1, <3>3
  <2>3. QED
    BY <2>1, <2>2
<1> HIDE DEF step
<1>9. Sum(sum)
  <2>1. f = [i \in 0 .. n |-> f[i]]
    BY <1>7 DEF Recurs
  <2>2. \A i \in 0 .. n : f[i] = IF i = 0 THEN 0 ELSE f[i - 1] + c[i] * Byte^(i - 1)
    BY <1>8
  <2>3. Sum(f)
    BY <2>1, <2>2
  <2>4. QED
    BY <2>3
<1>10. Ans(ans)
  <2> DEFINE g == [i \in 0 .. n |-> ToInt(f[i])]
  <2>1. ASSUME NEW i \in 0 .. n
        PROVE  g[i] = IF i = 0 THEN 0 ELSE ToInt(g[i - 1] + Byte^(i - 1) * c[i])
    <3>1. CASE i = 0
      <4>1. ToInt(0) = 0
        <5>1. IntRange \in Nat /\ IntRange >= 256 /\ IntRange \div 2 \in Nat
              /\ IntRange = 2 * (IntRange \div 2)
          BY ByteFacts
        <5>2. QED
          BY <5>1 DEF ToInt
      <4>2. QED
        BY <1>8, <3>1, <4>1
    <3>2. CASE i # 0
      <4>1. i \in 1 .. n /\ i - 1 \in 0 .. n
        BY <1>1, <3>2
      <4>2. /\ f[i - 1] \in Int /\ c[i] * Byte^(i - 1) \in Int
            /\ c[i] * Byte^(i - 1) = Byte^(i - 1) * c[i]
        BY <1>2, <1>8, <4>1
      <4>3. ToInt(ToInt(f[i - 1]) + c[i] * Byte^(i - 1)) = ToInt(f[i - 1] + c[i] * Byte^(i - 1))
        BY <4>2, ToIntFacts
      <4>4. g[i] = ToInt(f[i]) /\ g[i - 1] = ToInt(f[i - 1])
        BY <4>1
      <4>5. f[i] = f[i - 1] + c[i] * Byte^(i - 1)
        BY <1>8, <4>1
      <4>6. QED
        BY <3>2, <4>2, <4>3, <4>4, <4>5
    <3>3. QED
      BY <3>1, <3>2
  <2>2. g = [i \in 0 .. n |-> g[i]]
    OBVIOUS
  <2> HIDE DEF g
  <2>3. Ans(g)
    BY <2>1, <2>2
  <2>4. QED
    BY <2>3
<1> HIDE DEF sum, ans
<1>11. sum[0] = 0 /\ \A k \in 1 .. n : sum[k] = sum[k - 1] + c[k] * Byte^(k - 1)
  <2>1. \A i \in 0 .. n : sum[i] = IF i = 0 THEN 0 ELSE sum[i - 1] + c[i] * Byte^(i - 1)
    BY <1>9
  <2> HIDE DEF Sum
  <2>2. QED
    BY <1>1, <2>1
<1>12. ans[0] = 0
       /\ \A k \in 1 .. n : ans[k] = ToInt(ans[k - 1] + Byte^(k - 1) * c[k])
  <2>1. \A i \in 0 .. n :
          ans[i] = IF i = 0 THEN 0 ELSE ToInt(ans[i - 1] + Byte^(i - 1) * c[i])
    BY <1>10
  <2> HIDE DEF Ans
  <2>2. QED
    BY <1>1, <2>1
<1> HIDE DEF Sum, Ans
<1> DEFINE P(k) == /\ sum[k] \in 0 .. (Byte^k - 1)
                   /\ ans[k] = ToInt(sum[k])
           S == {k \in Nat : k <= n => P(k)}
<1>13. 0 \in S
  <2>1. ToInt(0) = 0
    <3>1. IntRange \in Nat /\ IntRange >= 256 /\ IntRange \div 2 \in Nat
          /\ IntRange = 2 * (IntRange \div 2)
      BY ByteFacts
    <3>2. QED
      BY <3>1 DEF ToInt
  <2>2. Byte^0 = 1
    BY ByteFacts
  <2>3. QED
    BY <1>11, <1>12, <2>1, <2>2
<1>14. ASSUME NEW k \in Nat, k \in S PROVE k + 1 \in S
  <2> HIDE DEF P
  <2> SUFFICES ASSUME k + 1 <= n PROVE P(k + 1)
    OBVIOUS
  <2>1. P(k)
    BY <1>1, <1>14
  <2>2. k + 1 \in 1 .. n /\ (k + 1) - 1 = k /\ k \in 0 .. 7
    BY <1>1
  <2> DEFINE d == Byte^k
             b == c[k + 1]
  <2>3. /\ sum[k + 1] = sum[k] + b * d
        /\ ans[k + 1] = ToInt(ans[k] + d * b)
    BY <1>11, <1>12, <2>2
  <2>4. d \in Nat \ {0} /\ b \in 0 .. (Byte - 1) /\ Byte^(k + 1) = Byte * d
    BY <1>2, <2>2, ByteFacts
  <2>5. sum[k] \in 0 .. (d - 1) /\ ans[k] = ToInt(sum[k])
    BY <2>1 DEF P
  <2> HIDE DEF d, b
  <2>6. sum[k + 1] \in 0 .. (Byte * d - 1)
    <3>1. b * d \in Nat /\ b * d <= (Byte - 1) * d /\ (Byte - 1) * d = Byte * d - d
      BY <1>1, <2>4
    <3>2. Byte * d \in Nat
      BY <1>1, <2>4
    <3>3. QED
      BY <2>3, <2>4, <2>5, <3>1, <3>2
  <2>7. ans[k + 1] = ToInt(sum[k + 1])
    <3>1. sum[k] \in Int /\ b * d \in Int /\ b * d = d * b
      BY <1>1, <2>4, <2>5
    <3>2. ToInt(ToInt(sum[k]) + b * d) = ToInt(sum[k] + b * d)
      BY <3>1, ToIntFacts
    <3>3. QED
      BY <2>3, <2>5, <3>1, <3>2
  <2>8. QED
    BY <2>4, <2>6, <2>7 DEF P
<1>15. \A k \in 0 .. n : P(k)
  <2> HIDE DEF P
  <2>1. Nat \subseteq S
    <3> HIDE DEF S
    <3>1. QED
      BY <1>13, <1>14, SetInduction
  <2>2. QED
    BY <2>1
<1>16. n \in 0 .. n
  BY <1>1
<1>17. QED
  BY <1>3, <1>4, <1>5, <1>11, <1>15, <1>16

(* What is left of a number when the unsigned types cut it.                *)
LEMMA CutTwice ==
  ASSUME NEW x, NEW y, NEW R \in Nat \ {0}, Congruent(x, y, R)
  PROVE  (x % (R * R)) % R = y % R
<1>0. PICK i \in Int : x = y - i * R /\ x \in Int /\ y \in Int
  BY DEF Congruent
<1> DEFINE L == R * R
           q == x \div L
           r == x % L
<1>1. L \in Nat \ {0}
  OBVIOUS
<1>2. x = L * q + r /\ q \in Int /\ r \in 0 .. (L - 1)
  BY <1>0, <1>1, IntDivMod
<1> HIDE DEF q, r
<1>3. r = y + (- i - R * q) * R /\ - i - R * q \in Int
  BY <1>0, <1>1, <1>2
<1>4. (y + (- i - R * q) * R) % R = y % R
  BY <1>0, <1>3, AddMultiple
<1>5. QED
  BY <1>3, <1>4 DEF r

(* A field as an unsigned int, and as an unsigned long.                    *)
LEMMA FieldValues ==
  ASSUME NEW n \in FieldSizes, NEW c \in [1 .. n -> 0 .. (Byte - 1)],
         NEW v, v = LittleEndian(c)
  PROVE  /\ Len(c) = n
         /\ n < 8 => Char2UInt(c, n) = v
         /\ n = 8 => (Char2Num(c, 8) = v
                        <=> v < IntRange \div 2 \/ v >= LongRange - IntRange \div 2)
<1> DEFINE R == IntRange
           H == IntRange \div 2
           L == LongRange
           u == v % R
<1>1. PICK sum : /\ LittleEndian(c) = sum[n] /\ Len(c) = n
                 /\ \A k \in 0 .. n : sum[k] \in 0 .. (Byte^k - 1)
                 /\ BytesSum(c, n) = ToInt(sum[n])
  BY FieldSums
<1>2. n \in {2, 4, 8} /\ n \in 0 .. n
  BY DEF FieldSizes
<1>3. v \in 0 .. (Byte^n - 1) /\ BytesSum(c, n) = ToInt(v)
  BY <1>1, <1>2
<1>4. R \in Nat /\ R >= 256 /\ H \in Nat /\ R = 2 * H /\ L = R * R /\ L \in Nat \ {0}
  BY ByteFacts
<1>5. Byte^n \in Nat \ {0} /\ (n < 8 => Byte^n <= R) /\ (n = 8 => Byte^n = L)
  <2>1. Byte^n \in Nat \ {0}
    BY <1>2, ByteFacts
  <2>2. CASE n = 2
    <3>1. /\ Byte^(2 + 1) = Byte * Byte^2 /\ Byte^(3 + 1) = Byte * Byte^3
          /\ Byte^2 \in Nat /\ Byte^3 \in Nat /\ Byte \in Nat /\ Byte >= 4
      <4>1. 2 \in 0 .. 7 /\ 3 \in 0 .. 7 /\ 2 \in 0 .. 8 /\ 3 \in 0 .. 8
        OBVIOUS
      <4>2. QED
        BY <4>1, ByteFacts
    <3> DEFINE p2 == Byte^2
               p3 == Byte^3
    <3>2. p3 = Byte * p2 /\ R = Byte * p3
      BY <3>1 DEF IntRange
    <3>3. p2 \in Nat /\ p3 \in Nat /\ Byte \in Nat /\ Byte >= 4
      BY <3>1
    <3> HIDE DEF p2, p3, R
    <3>4. Byte * p2 >= p2 /\ Byte * p3 >= p3
      BY <3>3
    <3>5. R >= p2
      BY <1>4, <3>2, <3>3, <3>4
    <3>6. QED
      BY <2>1, <2>2, <3>5 DEF p2
  <2>3. CASE n = 4
    BY <1>4, <2>1, <2>3 DEF IntRange
  <2>4. CASE n = 8
    BY <2>1, <2>4 DEF LongRange
  <2>5. QED
    BY <1>2, <2>2, <2>3, <2>4
<1>6. v \in Int /\ v >= 0 /\ u \in 0 .. (R - 1)
  BY <1>3, <1>4, <1>5
<1>7. ASSUME n < 8 PROVE Char2UInt(c, n) = v
  <2>1. Congruent(ToInt(v), v, R)
    <3>1. ToInt(v) \in Int /\ \E i \in Int : ToInt(v) = v - i * R
      BY <1>6, ToIntFacts
    <3>2. QED
      BY <1>6, <3>1 DEF Congruent
  <2>2. Char2UInt(c, n) = (ToInt(v) % L) % R
    BY <1>3 DEF Char2UInt, Char2Num
  <2>3. v < R
    BY <1>3, <1>4, <1>5, <1>7
  <2>4. R \in Nat \ {0} /\ L = R * R /\ v \in Nat
    BY <1>4, <1>6
  <2> HIDE DEF R, L
  <2>5. (ToInt(v) % (R * R)) % R = v % R
    BY <2>1, <2>4, CutTwice
  <2>6. v % R = v
    BY <2>3, <2>4, ModInRange
  <2>7. QED
    BY <2>2, <2>4, <2>5, <2>6
<1>8. ASSUME n = 8
      PROVE  Char2Num(c, 8) = v <=> v < H \/ v >= L - H
  <2> DEFINE w == ToInt(v) % L
  <2>1. Char2Num(c, 8) = w
    BY <1>3, <1>8 DEF Char2Num
  <2>2. v < L
    BY <1>3, <1>4, <1>5, <1>8
  <2>3. ToInt(v) = IF u >= H THEN u - R ELSE u
    BY <1>6, ToIntFacts
  <2>4. L >= 2 * R
    <3> HIDE DEF R, L
    <3>1. R * R >= 2 * R
      BY <1>4
    <3>2. QED
      BY <1>4, <3>1
  <2>5. w = IF u >= H THEN u - R + L ELSE u
    <3> HIDE DEF R, L, H, u
    <3>1. CASE u >= H
      <4> DEFINE x == u - R
                 q == -1
                 r == u - R + L
      <4>1. x \in Int /\ q \in Int /\ x = L * q + r /\ r \in 0 .. (L - 1)
        BY <1>4, <1>6, <2>4
      <4> HIDE DEF x, q, r
      <4>2. x % L = r
        BY <1>4, <4>1, IntDivUnique
      <4>3. QED
        BY <2>3, <3>1, <4>2 DEF x, r
    <3>2. CASE ~ (u >= H)
      <4>1. u \in Nat /\ u < L
        BY <1>4, <1>6, <2>4
      <4>2. u % L = u
        BY <1>4, <4>1
      <4>3. QED
        BY <2>3, <3>2, <4>2
    <3>3. QED
      BY <3>1, <3>2
  <2>6. v < R => u = v
    BY <1>4, <1>6
  <2>7. v >= L - R => u = v - L + R
    <3> HAVE v >= L - R
    <3> DEFINE q == R - 1
               r == v - L + R
    <3>1. R \in Nat \ {0} /\ L \in Nat /\ L = R * R /\ v \in Int
      BY <1>4, <1>6
    <3> HIDE DEF R, L
    <3>2. R * q = L - R /\ q \in Int
      BY <3>1
    <3>3. r \in 0 .. (R - 1) /\ v = (L - R) + r
      BY <2>2, <3>1
    <3>4. v = R * q + r
      BY <3>2, <3>3
    <3> HIDE DEF q, r
    <3>5. v % R = r
      BY <3>1, <3>2, <3>3, <3>4, IntDivUnique
    <3>6. QED
      BY <3>5 DEF r, R
  <2> HIDE DEF R, L, H, u, w
  <2>8. QED
    BY <1>4, <1>6, <2>1, <2>2, <2>4, <2>5, <2>6, <2>7
<1>9. QED
  BY <1>1, <1>7, <1>8

(* A field that is cast to unsigned int is read as it stands in the file;  *)
(* one of eight bytes exactly if it is the sign extension of an int.       *)
THEOREM FieldsAreExact == Spec => []FieldsExact
<1>1. InputLegal => FieldsExact
  <2> SUFFICES ASSUME InputLegal, input.check = "field" PROVE FieldsExact
    BY DEF FieldsExact
  <2> DEFINE c == input.bytes
             v == LittleEndian(c)
  <2>1. input \in FieldInputs
    BY InputKinds
  <2>2. PICK n \in FieldSizes : input \in [check : {"field"}, bytes : [1 .. n -> FieldBytes]]
    BY <2>1 DEF FieldInputs
  <2>3. c \in [1 .. n -> 0 .. (Byte - 1)]
    BY <2>2, FilesAssumption
  <2> HIDE DEF c
  <2>4. /\ Len(c) = n
        /\ n < 8 => Char2UInt(c, n) = v
        /\ n = 8 => (Char2Num(c, 8) = v
                       <=> v < IntRange \div 2 \/ v >= LongRange - IntRange \div 2)
    BY <2>3, FieldValues
  <2>5. n \in {2, 4, 8}
    BY DEF FieldSizes
  <2>6. QED
    BY <2>4, <2>5 DEF FieldsExact, c
<1>2. QED
  BY <1>1, InputsLegal, PTL

(* A number's lowest digits, one more at a time.                           *)
LEMMA NextDigit ==
  ASSUME NEW v \in Nat, NEW d \in Nat \ {0}, NEW m \in Nat \ {0}
  PROVE  v % (m * d) = (v % d) + ((v \div d) % m) * d
<1> DEFINE q == v \div d
           r == v % d
           p == q \div m
           t == q % m
<1>1. v = d * q + r /\ q \in Int /\ r \in 0 .. (d - 1)
  BY IntDivMod
<1>2. q = m * p + t /\ p \in Int /\ t \in 0 .. (m - 1)
  BY <1>1, IntDivMod
<1> DEFINE e == m * d
           z == r + t * d
<1>3. e \in Nat \ {0}
  OBVIOUS
<1> HIDE DEF q, r, p, t
<1>4. v = e * p + z
  BY <1>1, <1>2
<1>5. z \in 0 .. (e - 1)
  <2>1. t * d <= (m - 1) * d /\ (m - 1) * d = e - d /\ t * d \in Nat
    BY <1>2
  <2> HIDE DEF e
  <2>2. QED
    BY <1>1, <1>3, <2>1
<1> HIDE DEF e, z
<1>6. v % e = z
  BY <1>2, <1>3, <1>4, <1>5, IntDivUnique
<1>7. QED
  BY <1>6 DEF e, z, q, r, t

(* A field holds the number it was made for.                               *)
LEMMA FieldHolds ==
  ASSUME NEW n \in FieldSizes, NEW v \in 0 .. (Byte^n - 1)
  PROVE  /\ Field(v, n) \in [1 .. n -> 0 .. (Byte - 1)]
         /\ LittleEndian(Field(v, n)) = v
<1> DEFINE c == Field(v, n)
<1>1. n \in {2, 4, 8} /\ n \in Nat /\ Byte \in Nat /\ Byte >= 4 /\ v \in Nat
  BY ByteFacts DEF FieldSizes
<1>2. ASSUME NEW k \in 1 .. n
      PROVE  /\ c[k] = (v \div Byte^(k - 1)) % Byte /\ c[k] \in 0 .. (Byte - 1)
             /\ k - 1 \in 0 .. 7 /\ Byte^(k - 1) \in Nat \ {0}
  <2>1. k - 1 \in 0 .. 7 /\ k - 1 \in 0 .. 8
    BY <1>1
  <2>2. Byte^(k - 1) \in Nat \ {0}
    BY <2>1, ByteFacts
  <2>3. c[k] = (v \div Byte^(k - 1)) % Byte
    BY DEF Field
  <2> DEFINE q == v \div Byte^(k - 1)
  <2>4. q \in Int
    BY <1>1, <2>2
  <2> HIDE DEF q
  <2>5. q % Byte \in 0 .. (Byte - 1)
    BY <1>1, <2>4
  <2>6. QED
    BY <2>1, <2>2, <2>3, <2>5 DEF q
<1>3. c \in [1 .. n -> 0 .. (Byte - 1)]
  <2>1. c = [i \in 1 .. n |-> c[i]]
    BY DEF Field
  <2> HIDE DEF c
  <2>2. QED
    BY <1>2, <2>1
<1> HIDE DEF c
<1>4. PICK sum : /\ LittleEndian(c) = sum[n] /\ sum[0] = 0
                 /\ \A k \in 1 .. n : sum[k] = sum[k - 1] + c[k] * Byte^(k - 1)
  BY <1>3, FieldSums
<1> DEFINE S == {k \in Nat : k <= n => sum[k] = v % Byte^k}
<1>5. 0 \in S
  <2>1. Byte^0 = 1
    BY ByteFacts
  <2>2. v % 1 = 0
    BY <1>1
  <2>3. QED
    BY <1>4, <2>1, <2>2
<1>6. ASSUME NEW k \in Nat, k \in S PROVE k + 1 \in S
  <2> SUFFICES ASSUME k + 1 <= n PROVE sum[k + 1] = v % Byte^(k + 1)
    OBVIOUS
  <2>1. k + 1 \in 1 .. n /\ (k + 1) - 1 = k /\ k \in 0 .. 7 /\ sum[k] = v % Byte^k
    BY <1>1, <1>6
  <2> DEFINE d == Byte^k
  <2>2. d \in Nat \ {0} /\ c[k + 1] = (v \div d) % Byte
    BY <1>2, <2>1
  <2>3. sum[k + 1] = sum[k] + c[k + 1] * d
    BY <1>4, <2>1
  <2>4. Byte^(k + 1) = Byte * d
    BY <2>1, ByteFacts
  <2> HIDE DEF d
  <2>5. v % (Byte * d) = (v % d) + ((v \div d) % Byte) * d
    <3>1. Byte \in Nat \ {0}
      BY <1>1
    <3>2. QED
      BY <1>1, <2>2, <3>1, NextDigit, Zenon
  <2>6. QED
    BY <2>1, <2>2, <2>3, <2>4, <2>5 DEF d
<1>7. sum[n] = v % Byte^n
  <2>1. Nat \subseteq S
    <3> HIDE DEF S
    <3>1. QED
      BY <1>5, <1>6, SetInduction
  <2>2. QED
    BY <1>1, <2>1
<1>8. v % Byte^n = v
  <2> DEFINE d == Byte^n
  <2>1. n \in 0 .. 8
    BY <1>1
  <2>2. d \in Nat \ {0} /\ v < d
    BY <1>1, <2>1, ByteFacts
  <2> HIDE DEF d
  <2>3. v % d = v
    BY <1>1, <2>2, ModInRange
  <2>4. QED
    BY <2>3 DEF d
<1>9. QED
  BY <1>3, <1>4, <1>7, <1>8 DEF c

(* The fields of a section header, read back.                              *)
LEMMA HeaderFields ==
  /\ \A name \in 0 .. (IntRange - 1) : Char2UInt(Field(name, 4), 4) = name
  /\ \A v \in Nat : v < IntRange \div 2 => Char2Num(Field(v, 8), 8) = v
<1>1. IntRange \in Nat /\ IntRange >= 256 /\ IntRange \div 2 \in Nat
      /\ IntRange = 2 * (IntRange \div 2) /\ LongRange = IntRange * IntRange
      /\ LongRange \in Nat \ {0}
  BY ByteFacts
<1>2. 4 \in FieldSizes /\ 8 \in FieldSizes
  BY DEF FieldSizes
<1>3. ASSUME NEW name \in 0 .. (IntRange - 1) PROVE Char2UInt(Field(name, 4), 4) = name
  <2>1. name \in 0 .. (Byte^4 - 1)
    BY DEF IntRange
  <2>2. /\ Field(name, 4) \in [1 .. 4 -> 0 .. (Byte - 1)]
        /\ LittleEndian(Field(name, 4)) = name
    BY <1>2, <2>1, FieldHolds
  <2>3. 4 < 8 => Char2UInt(Field(name, 4), 4) = LittleEndian(Field(name, 4))
    BY <1>2, <2>2, FieldValues, Zenon
  <2>4. QED
    BY <2>2, <2>3
<1>4. ASSUME NEW v \in Nat, v < IntRange \div 2 PROVE Char2Num(Field(v, 8), 8) = v
  <2>1. LongRange >= IntRange
    <3> DEFINE R == IntRange
    <3> HIDE DEF R
    <3>1. R * R >= R
      BY <1>1 DEF R
    <3>2. QED
      BY <1>1, <3>1 DEF R
  <2>2. v \in 0 .. (Byte^8 - 1)
    BY <1>1, <1>4, <2>1 DEF LongRange
  <2>3. /\ Field(v, 8) \in [1 .. 8 -> 0 .. (Byte - 1)]
        /\ LittleEndian(Field(v, 8)) = v
    BY <1>2, <2>2, FieldHolds
  <2>4. 8 = 8 => (Char2Num(Field(v, 8), 8) = v
                    <=> v < IntRange \div 2 \/ v >= LongRange - IntRange \div 2)
    BY <1>2, <2>3, FieldValues, Zenon
  <2>5. QED
    BY <1>4, <2>4
<1>5. QED
  BY <1>3, <1>4

(* Reading all headers yields the addresses, offsets and sizes that they   *)
(* were made for, in any order.                                            *)
Layouts == [vadr : Nat, cadr : Nat, csize : Nat, gp : Nat, dadr : Nat, dsize : Nat]

Known(s, text, data) ==
  [vadr |-> IF text THEN s.vadr ELSE 0, cadr |-> IF text THEN s.cadr ELSE 0,
   csize |-> IF text THEN s.csize ELSE 0, gp |-> IF data THEN s.gp ELSE 0,
   dadr |-> IF data THEN s.dadr ELSE 0, dsize |-> IF data THEN s.dsize ELSE 0]

(* What a header of .text or of .data changes.                             *)
WithText(l, addr, offset, size) ==
  [l EXCEPT !.vadr = addr, !.cadr = offset, !.csize = size]
WithData(l, addr, offset, size) ==
  [l EXCEPT !.gp = addr, !.dadr = offset, !.dsize = size]

LEMMA ReadHeader ==
  ASSUME NEW s, IsLayout(s), NEW name \in 0 .. (IntRange - 1)
  PROVE  /\ \A layout \in Layouts : ReadSection(layout, HeaderFor(s, name)) \in Layouts
         /\ \A text, data \in BOOLEAN :
              ReadSection(Known(s, text, data), HeaderFor(s, name))
                = Known(s, text \/ name = TextName, data \/ name = DataName)
<1> DEFINE h == HeaderFor(s, name)
<1>1. s \in [vadr : Nat, cadr : Nat, csize : Nat \ {0},
             gp : Nat, dadr : Nat, dsize : Nat \ {0}]
  BY DEF IsLayout
<1>2. /\ s.vadr < IntRange \div 2 /\ s.cadr < IntRange \div 2 /\ s.csize < IntRange \div 2
      /\ s.gp < IntRange \div 2 /\ s.dadr < IntRange \div 2 /\ s.dsize < IntRange \div 2
  BY <1>1 DEF IsLayout
<1>3. /\ Char2Num(Field(s.vadr, 8), 8) = s.vadr /\ Char2Num(Field(s.cadr, 8), 8) = s.cadr
      /\ Char2Num(Field(s.csize, 8), 8) = s.csize /\ Char2Num(Field(s.gp, 8), 8) = s.gp
      /\ Char2Num(Field(s.dadr, 8), 8) = s.dadr /\ Char2Num(Field(s.dsize, 8), 8) = s.dsize
  BY <1>1, <1>2, HeaderFields
<1>4. Char2UInt(h.name, 4) = name
  <2>1. h.name = Field(name, 4)
    BY DEF HeaderFor, Header
  <2>2. QED
    BY <2>1, HeaderFields
<1>5. ASSUME NEW l PROVE ReadSection(l, h)
        = CASE name = TextName -> WithText(l, s.vadr, s.cadr, s.csize)
            [] name = DataName -> WithData(l, s.gp, s.dadr, s.dsize)
            [] OTHER -> l
  <2>1. ReadSection(l, h)
          = CASE name = TextName -> WithText(l, Char2Num(h.addr, 8), Char2Num(h.offset, 8),
                                             Char2Num(h.size, 8))
              [] name = DataName -> WithData(l, Char2Num(h.addr, 8), Char2Num(h.offset, 8),
                                             Char2Num(h.size, 8))
              [] OTHER -> l
    <3> HIDE DEF h
    <3>1. QED
      BY <1>4 DEF ReadSection, WithText, WithData
  <2>2. CASE name = TextName
    <3>1. h.addr = Field(s.vadr, 8) /\ h.offset = Field(s.cadr, 8)
          /\ h.size = Field(s.csize, 8)
      BY <2>2 DEF HeaderFor, Header, TextName, DataName
    <3> HIDE DEF h
    <3>2. QED
      BY <1>3, <2>1, <2>2, <3>1 DEF TextName, DataName
  <2>3. CASE name = DataName
    <3>1. h.addr = Field(s.gp, 8) /\ h.offset = Field(s.dadr, 8)
          /\ h.size = Field(s.dsize, 8)
      BY <2>3 DEF HeaderFor, Header, TextName, DataName
    <3> HIDE DEF h
    <3>2. QED
      BY <1>3, <2>1, <2>3, <3>1 DEF TextName, DataName
  <2>4. CASE name # TextName /\ name # DataName
    <3> HIDE DEF h
    <3>1. QED
      BY <2>1, <2>4
  <2>5. QED
    BY <2>2, <2>3, <2>4
<1> HIDE DEF h
<1>6. TextName # DataName
  BY DEF TextName, DataName
<1>7. ASSUME NEW l \in Layouts PROVE ReadSection(l, h) \in Layouts
  <2>1. WithText(l, s.vadr, s.cadr, s.csize) \in Layouts
    BY <1>1 DEF WithText, Layouts
  <2>2. WithData(l, s.gp, s.dadr, s.dsize) \in Layouts
    BY <1>1 DEF WithData, Layouts
  <2>3. QED
    BY <1>5, <1>6, <2>1, <2>2
<1>8. ASSUME NEW text \in BOOLEAN, NEW data \in BOOLEAN
      PROVE  ReadSection(Known(s, text, data), h)
               = Known(s, text \/ name = TextName, data \/ name = DataName)
  <2>1. WithText(Known(s, text, data), s.vadr, s.cadr, s.csize) = Known(s, TRUE, data)
    <3> DEFINE l == Known(s, text, data)
               k == Known(s, TRUE, data)
               w == WithText(l, s.vadr, s.cadr, s.csize)
    <3>1. l \in Layouts /\ k \in Layouts
      BY <1>1 DEF Layouts, Known
    <3>2. w \in Layouts
      <4> HIDE DEF l
      <4>1. QED
        BY <1>1, <3>1 DEF WithText, Layouts
    <3>3. /\ k.vadr = s.vadr /\ k.cadr = s.cadr /\ k.csize = s.csize
          /\ k.gp = l.gp /\ k.dadr = l.dadr /\ k.dsize = l.dsize
      BY DEF Known
    <3>4. /\ w.vadr = s.vadr /\ w.cadr = s.cadr /\ w.csize = s.csize
          /\ w.gp = l.gp /\ w.dadr = l.dadr /\ w.dsize = l.dsize
      <4> HIDE DEF l
      <4>1. QED
        BY <1>1, <3>1 DEF WithText, Layouts
    <3> HIDE DEF l, k, w
    <3>5. w = k
      BY <3>1, <3>2, <3>3, <3>4 DEF Layouts
    <3>6. QED
      BY <3>5 DEF w, k, l
  <2>2. WithData(Known(s, text, data), s.gp, s.dadr, s.dsize) = Known(s, text, TRUE)
    <3> DEFINE l == Known(s, text, data)
               k == Known(s, text, TRUE)
               w == WithData(l, s.gp, s.dadr, s.dsize)
    <3>1. l \in Layouts /\ k \in Layouts
      BY <1>1 DEF Layouts, Known
    <3>2. w \in Layouts
      <4> HIDE DEF l
      <4>1. QED
        BY <1>1, <3>1 DEF WithData, Layouts
    <3>3. /\ k.vadr = l.vadr /\ k.cadr = l.cadr /\ k.csize = l.csize
          /\ k.gp = s.gp /\ k.dadr = s.dadr /\ k.dsize = s.dsize
      BY DEF Known
    <3>4. /\ w.vadr = l.vadr /\ w.cadr = l.cadr /\ w.csize = l.csize
          /\ w.gp = s.gp /\ w.dadr = s.dadr /\ w.dsize = s.dsize
      <4> HIDE DEF l
      <4>1. QED
        BY <1>1, <3>1 DEF WithData, Layouts
    <3> HIDE DEF l, k, w
    <3>5. w = k
      BY <3>1, <3>2, <3>3, <3>4 DEF Layouts
    <3>6. QED
      BY <3>5 DEF w, k, l
  <2>3. CASE name = TextName
    <3>1. (text \/ name = TextName) = TRUE /\ (data \/ name = DataName) = data
      BY <1>6, <2>3
    <3>2. QED
      BY <1>5, <1>6, <2>1, <2>3, <3>1
  <2>4. CASE name = DataName
    <3>1. (text \/ name = TextName) = text /\ (data \/ name = DataName) = TRUE
      BY <1>6, <2>4
    <3>2. QED
      BY <1>5, <1>6, <2>2, <2>4, <3>1
  <2>5. CASE name # TextName /\ name # DataName
    <3>1. (text \/ name = TextName) = text /\ (data \/ name = DataName) = data
      BY <2>5
    <3>2. QED
      BY <1>5, <2>5, <3>1
  <2>6. QED
    BY <2>3, <2>4, <2>5
<1>9. QED
  BY <1>7, <1>8 DEF h

LEMMA LayoutRead ==
  ASSUME NEW s \in Sections, NEW names \in NameTables
  PROVE  ReadElfSections(Headers(s, names)) = s
<1> DEFINE n == Len(names)
           hs == Headers(s, names)
           Is(g) == g = [i \in 0 .. Len(hs) |->
                      IF i = 0 THEN NoLayout ELSE ReadSection(g[i - 1], hs[i])]
           step == [p \in Nat \X Layouts |->
                      IF p[1] \in 1 .. n THEN ReadSection(p[2], hs[p[1]]) ELSE NoLayout]
           layout == CHOOSE g : Is(g)
           Text(k) == \E i \in 1 .. k : names[i] = TextName
           Data(k) == \E i \in 1 .. k : names[i] = DataName
<1>1. /\ IsLayout(s) /\ names \in Seq(0 .. (IntRange - 1))
      /\ \A name \in {TextName, DataName} :
           \E i \in DOMAIN names : \A j \in DOMAIN names : names[j] = name <=> j = i
  BY FilesAssumption
<1>2. n \in Nat /\ DOMAIN names = 1 .. n /\ \A i \in 1 .. n : names[i] \in 0 .. (IntRange - 1)
  <2> DEFINE N == 0 .. (IntRange - 1)
  <2>1. names \in Seq(N)
    BY <1>1
  <2> HIDE DEF N
  <2>2. n \in Nat /\ DOMAIN names = 1 .. n /\ \A i \in 1 .. n : names[i] \in N
    BY <2>1
  <2>3. QED
    BY <2>2 DEF N
<1>3. /\ hs = [i \in 1 .. n |-> HeaderFor(s, names[i])] /\ Len(hs) = n
      /\ \A i \in 1 .. n : hs[i] = HeaderFor(s, names[i])
  BY <1>2 DEF Headers
<1> HIDE DEF hs
<1>4. ASSUME NEW i \in 1 .. n
      PROVE  /\ \A l \in Layouts : ReadSection(l, hs[i]) \in Layouts
             /\ \A text, data \in BOOLEAN :
                  ReadSection(Known(s, text, data), hs[i])
                    = Known(s, text \/ names[i] = TextName, data \/ names[i] = DataName)
  BY <1>1, <1>2, <1>3, ReadHeader
<1>5. NoLayout \in Layouts /\ NoLayout = Known(s, FALSE, FALSE)
  BY DEF NoLayout, Layouts, Known
<1>6. step \in [Nat \X Layouts -> Layouts]
  <2>1. ASSUME NEW p \in Nat \X Layouts
        PROVE  (IF p[1] \in 1 .. n THEN ReadSection(p[2], hs[p[1]]) ELSE NoLayout) \in Layouts
    <3> HIDE DEF n
    <3>1. QED
      BY <1>4, <1>5
  <2>2. QED
    BY <2>1
<1> HIDE DEF n
<1>7. PICK f : Recurs(f, Layouts, NoLayout, step, n)
  <2> HIDE DEF step
  <2>1. QED
    BY <1>2, <1>5, <1>6, Recursion, Zenon
<1>8. Is(f)
  <2>1. f = [i \in 0 .. n |-> f[i]] /\ f[0] = NoLayout /\ \A k \in 0 .. n : f[k] \in Layouts
    <3> HIDE DEF step
    <3>1. QED
      BY <1>7, <1>2 DEF Recurs
  <2>2. ASSUME NEW i \in 0 .. n
        PROVE  f[i] = IF i = 0 THEN NoLayout ELSE ReadSection(f[i - 1], hs[i])
    <3>1. CASE i = 0
      BY <2>1, <3>1
    <3>2. CASE i # 0
      <4>1. i \in 1 .. n /\ i \in Nat /\ i - 1 \in 0 .. n
        BY <1>2, <3>2
      <4>2. f[i] = step[<<i, f[i - 1]>>]
        <5> HIDE DEF step
        <5>1. QED
          BY <1>7, <4>1 DEF Recurs
      <4>3. f[i - 1] \in Layouts
        BY <2>1, <4>1
      <4>4. step[<<i, f[i - 1]>>] = ReadSection(f[i - 1], hs[i])
        BY <4>1, <4>3
      <4>5. QED
        BY <3>2, <4>2, <4>4
    <3>3. QED
      BY <3>1, <3>2
  <2>3. QED
    BY <1>3, <2>1, <2>2
<1>9. Is(layout)
  BY <1>8
<1>10. ReadElfSections(hs) = layout[n]
  BY <1>3 DEF ReadElfSections
<1> HIDE DEF layout
<1>11. /\ layout[0] = NoLayout
       /\ \A k \in 1 .. n : layout[k] = ReadSection(layout[k - 1], hs[k])
  <2>1. \A i \in 0 .. n :
          layout[i] = IF i = 0 THEN NoLayout ELSE ReadSection(layout[i - 1], hs[i])
    BY <1>3, <1>9
  <2> HIDE DEF Is
  <2>2. QED
    BY <1>2, <2>1
<1> DEFINE P(k) == layout[k] = Known(s, Text(k), Data(k))
           S == {k \in Nat : k <= n => P(k)}
<1>12. 0 \in S
  <2>1. Text(0) = FALSE /\ Data(0) = FALSE
    OBVIOUS
  <2> HIDE DEF Text, Data
  <2>2. QED
    BY <1>5, <1>11, <2>1
<1>13. ASSUME NEW k \in Nat, k \in S PROVE k + 1 \in S
  <2> HIDE DEF P
  <2> SUFFICES ASSUME k + 1 <= n PROVE P(k + 1)
    OBVIOUS
  <2>0. P(k)
    BY <1>2, <1>13
  <2>1. k + 1 \in 1 .. n /\ (k + 1) - 1 = k /\ 1 .. (k + 1) = 1 .. k \cup {k + 1}
    BY <1>2
  <2>2. Text(k + 1) <=> (Text(k) \/ names[k + 1] = TextName)
    BY <2>1
  <2>3. Data(k + 1) <=> (Data(k) \/ names[k + 1] = DataName)
    BY <2>1
  <2>4. Text(k) \in BOOLEAN /\ Data(k) \in BOOLEAN
        /\ Text(k + 1) \in BOOLEAN /\ Data(k + 1) \in BOOLEAN
    OBVIOUS
  <2>5. layout[k] = Known(s, Text(k), Data(k))
    BY <2>0 DEF P
  <2>6. layout[k + 1] = ReadSection(layout[k], hs[k + 1])
    BY <1>11, <2>1
  <2> HIDE DEF Text, Data
  <2>7. ReadSection(Known(s, Text(k), Data(k)), hs[k + 1])
          = Known(s, Text(k) \/ names[k + 1] = TextName, Data(k) \/ names[k + 1] = DataName)
    BY <1>4, <2>1, <2>4
  <2>8. /\ Text(k + 1) = (Text(k) \/ names[k + 1] = TextName)
        /\ Data(k + 1) = (Data(k) \/ names[k + 1] = DataName)
    BY <2>2, <2>3, <2>4
  <2>9. QED
    BY <2>5, <2>6, <2>7, <2>8 DEF P
<1>14. P(n)
  <2> HIDE DEF P
  <2>1. Nat \subseteq S
    <3> HIDE DEF S
    <3>1. QED
      BY <1>12, <1>13, SetInduction
  <2>2. QED
    BY <1>2, <2>1
<1>15. Text(n) = TRUE /\ Data(n) = TRUE
  BY <1>1, <1>2
<1> HIDE DEF Text, Data
<1>16. Known(s, TRUE, TRUE) = s
  <2>1. s \in Layouts
    BY <1>1 DEF IsLayout, Layouts
  <2>2. QED
    BY <2>1 DEF Known, Layouts
<1>17. QED
  BY <1>10, <1>14, <1>15, <1>16 DEF hs

(* What memory holds after both sections have been read from the file.     *)
LEMMA MemoryLoaded ==
  ASSUME NEW s \in Sections, NEW a \in DOMAIN Memory0
  PROVE  LET text == a - 8 * (s.vadr \div 8)
             data == a - 8 * (s.gp \div 8)
         IN LoadMemory(Memory0, s, File)[a]
              = IF data \in 0 .. (s.dsize - 1) THEN File[s.dadr + data]
                ELSE IF text \in 0 .. (s.csize - 1) THEN File[s.cadr + text]
                ELSE Memory0[a]
<1> DEFINE m == Fread(Memory0, s.vadr, s.csize, File, s.cadr)
           text == a - 8 * (s.vadr \div 8)
           data == a - 8 * (s.gp \div 8)
<1>1. IsLayout(s) /\ a \in Nat
  BY FilesAssumption
<1>2. /\ s.vadr \in Nat /\ s.cadr \in Nat /\ s.csize \in Nat
      /\ s.gp \in Nat /\ s.dadr \in Nat /\ s.dsize \in Nat
      /\ s.cadr .. (s.cadr + s.csize - 1) \subseteq DOMAIN File
      /\ s.dadr .. (s.dadr + s.dsize - 1) \subseteq DOMAIN File
  BY <1>1 DEF IsLayout
<1>3. text \in Int /\ data \in Int
  BY <1>1, <1>2
<1>4. text \in 0 .. (s.csize - 1) => s.cadr + text \in DOMAIN File
  <2> HIDE DEF text
  <2>1. QED
    BY <1>2, <1>3
<1>5. data \in 0 .. (s.dsize - 1) => s.dadr + data \in DOMAIN File
  <2> HIDE DEF data
  <2>1. QED
    BY <1>2, <1>3
<1>6. DOMAIN m = DOMAIN Memory0
      /\ m[a] = IF text \in 0 .. (s.csize - 1) /\ s.cadr + text \in DOMAIN File
                  THEN File[s.cadr + text] ELSE Memory0[a]
  BY DEF Fread
<1>7. LoadMemory(Memory0, s, File) = Fread(m, s.gp, s.dsize, File, s.dadr)
  BY DEF LoadMemory
<1> HIDE DEF m
<1>8. Fread(m, s.gp, s.dsize, File, s.dadr)[a]
        = IF data \in 0 .. (s.dsize - 1) /\ s.dadr + data \in DOMAIN File
            THEN File[s.dadr + data] ELSE m[a]
  BY <1>6 DEF Fread
<1> HIDE DEF text, data
<1>9. QED
  BY <1>4, <1>5, <1>6, <1>7, <1>8 DEF text, data

(* The multiple of 8 below an address.                                     *)
LEMMA RoundedDown ==
  ASSUME NEW a \in Nat
  PROVE  /\ 8 * (a \div 8) \in Nat /\ 8 * (a \div 8) <= a
         /\ 8 * (a \div 8) = a <=> a % 8 = 0
OBVIOUS

(* What IF fetches from the addresses of the text is the text, exactly if  *)
(* its bytes are there.                                                    *)
LEMMA TextByBytes ==
  ASSUME NEW s \in Sections, NEW memory
  PROVE  (\A k \in 0 .. (s.csize \div 4 - 1) :
            FetchBytes(memory, s.vadr \div 4 + k)
              = [i \in 0 .. 3 |-> File[s.cadr + 4 * k + i]])
         <=> \A j \in 0 .. (s.csize - 1) : memory[s.vadr + j] = File[s.cadr + j]
<1> DEFINE v == s.vadr
           c == s.cadr
           n == s.csize
<1>1. v \in Nat /\ c \in Nat /\ n \in Nat /\ v % 4 = 0 /\ n % 4 = 0
  BY FilesAssumption DEF IsLayout
<1> HIDE DEF v, c, n
<1>2. ASSUME NEW k \in Nat
      PROVE  FetchBytes(memory, v \div 4 + k) = [i \in 0 .. 3 |-> memory[v + 4 * k + i]]
  <2> DEFINE pc == v \div 4 + k
             low == 8 * (pc \div 2) + (IF pc % 2 = 0 THEN 0 ELSE 4)
  <2>1. pc \in Nat /\ 4 * pc = v + 4 * k
    BY <1>1
  <2> HIDE DEF pc
  <2>2. low = v + 4 * k
    BY <2>1
  <2>3. FetchBytes(memory, pc) = [i \in 0 .. 3 |-> memory[low + i]]
    BY DEF FetchBytes
  <2> HIDE DEF low
  <2>4. QED
    BY <2>2, <2>3 DEF pc
<1>3. ASSUME \A k \in 0 .. (n \div 4 - 1) :
               FetchBytes(memory, v \div 4 + k) = [i \in 0 .. 3 |-> File[c + 4 * k + i]],
             NEW j \in 0 .. (n - 1)
      PROVE  memory[v + j] = File[c + j]
  <2> DEFINE k == j \div 4
             i == j % 4
  <2>1. k \in 0 .. (n \div 4 - 1) /\ i \in 0 .. 3 /\ j = 4 * k + i /\ k \in Nat
    BY <1>1
  <2> HIDE DEF k, i
  <2>2. [x \in 0 .. 3 |-> memory[v + 4 * k + x]] = [x \in 0 .. 3 |-> File[c + 4 * k + x]]
    BY <1>2, <1>3, <2>1
  <2>3. memory[v + 4 * k + i] = File[c + 4 * k + i]
    BY <2>1, <2>2
  <2>4. v + 4 * k + i = v + j /\ c + 4 * k + i = c + j
    BY <1>1, <2>1
  <2>5. QED
    BY <2>3, <2>4
<1>4. ASSUME \A j \in 0 .. (n - 1) : memory[v + j] = File[c + j],
             NEW k \in 0 .. (n \div 4 - 1)
      PROVE  FetchBytes(memory, v \div 4 + k) = [i \in 0 .. 3 |-> File[c + 4 * k + i]]
  <2>1. k \in Nat
    BY <1>1
  <2>2. ASSUME NEW i \in 0 .. 3 PROVE memory[v + 4 * k + i] = File[c + 4 * k + i]
    <3>1. 4 * k + i \in 0 .. (n - 1)
      BY <1>1
    <3>2. v + (4 * k + i) = v + 4 * k + i /\ c + (4 * k + i) = c + 4 * k + i
      BY <1>1, <2>1
    <3>3. memory[v + (4 * k + i)] = File[c + (4 * k + i)]
      BY <1>4, <3>1
    <3>4. QED
      BY <3>2, <3>3
  <2>3. QED
    BY <1>2, <2>1, <2>2
<1>5. QED
  BY <1>3, <1>4 DEF v, c, n

LEMMA SectionsInPlace ==
  ASSUME NEW s \in Sections
  PROVE  LET memory == LoadMemory(Memory0, s, File)
             Text == \A j \in 0 .. (s.csize - 1) : memory[s.vadr + j] = File[s.cadr + j]
             Data == \A i \in 0 .. (s.dsize - 1) : memory[s.gp + i] = File[s.dadr + i]
         IN (Text /\ Data) <=> (s.vadr % 8 = 0 /\ s.gp % 8 = 0)
<1> DEFINE v == s.vadr
           c == s.cadr
           n == s.csize
           g == s.gp
           d == s.dadr
           m == s.dsize
           vb == 8 * (v \div 8)
           gb == 8 * (g \div 8)
           memory == LoadMemory(Memory0, s, File)
<1>1. /\ v \in Nat /\ c \in Nat /\ n \in Nat \ {0} /\ g \in Nat /\ d \in Nat /\ m \in Nat \ {0}
      /\ (c + n <= d \/ d + m <= c) /\ (v + n <= g \/ g + m <= v)
      /\ c .. (c + n - 1) \subseteq DOMAIN File /\ d .. (d + m - 1) \subseteq DOMAIN File
      /\ v .. (v + n - 1) \subseteq DOMAIN Memory0 /\ g .. (g + m - 1) \subseteq DOMAIN Memory0
  BY FilesAssumption DEF IsLayout, Apart
<1>2. /\ DOMAIN Memory0 \subseteq Nat
      /\ \A o, p \in DOMAIN File : File[o] = File[p] => o = p
      /\ \A o \in DOMAIN File, a \in DOMAIN Memory0 : File[o] # Memory0[a]
  BY FilesAssumption
<1>3. /\ vb \in Nat /\ vb <= v /\ (vb = v <=> v % 8 = 0)
      /\ gb \in Nat /\ gb <= g /\ (gb = g <=> g % 8 = 0)
  BY <1>1, RoundedDown
<1>4. \A a \in DOMAIN Memory0 :
        memory[a] = IF a - gb \in 0 .. (m - 1) THEN File[d + (a - gb)]
                    ELSE IF a - vb \in 0 .. (n - 1) THEN File[c + (a - vb)]
                    ELSE Memory0[a]
  BY MemoryLoaded
<1> HIDE DEF v, c, n, g, d, m, vb, gb, memory
<1>5. ASSUME vb = v, gb = g
      PROVE  /\ \A j \in 0 .. (n - 1) : memory[v + j] = File[c + j]
             /\ \A i \in 0 .. (m - 1) : memory[g + i] = File[d + i]
  <2>1. ASSUME NEW j \in 0 .. (n - 1) PROVE memory[v + j] = File[c + j]
    <3> DEFINE a == v + j
    <3>1. a \in v .. (v + n - 1) /\ a - v = j /\ ~ (a - g \in 0 .. (m - 1))
      BY <1>1
    <3>2. a \in DOMAIN Memory0
      BY <1>1, <3>1
    <3> HIDE DEF a
    <3>3. memory[a] = File[c + j]
      BY <1>4, <1>5, <3>1, <3>2
    <3>4. QED
      BY <3>3 DEF a
  <2>2. ASSUME NEW i \in 0 .. (m - 1) PROVE memory[g + i] = File[d + i]
    <3> DEFINE a == g + i
    <3>1. a \in g .. (g + m - 1) /\ a - g = i
      BY <1>1
    <3>2. a \in DOMAIN Memory0
      BY <1>1, <3>1
    <3> HIDE DEF a
    <3>3. memory[a] = File[d + i]
      BY <1>4, <1>5, <3>1, <3>2
    <3>4. QED
      BY <3>3 DEF a
  <2>3. QED
    BY <2>1, <2>2
<1>6. ASSUME \A i \in 0 .. (m - 1) : memory[g + i] = File[d + i] PROVE gb = g
  <2> SUFFICES ASSUME gb < g PROVE FALSE
    BY <1>1, <1>3
  <2> DEFINE a == g + (m - 1)
             last == d + (m - 1)
  <2>1. m - 1 \in 0 .. (m - 1) /\ a \in g .. (g + m - 1) /\ last \in d .. (d + m - 1)
    BY <1>1
  <2>2. a \in DOMAIN Memory0 /\ last \in DOMAIN File /\ memory[a] = File[last]
    BY <1>1, <1>6, <2>1
  <2>3. ~ (a - gb \in 0 .. (m - 1))
    BY <1>1, <1>3
  <2>4. CASE a - vb \in 0 .. (n - 1)
    <3> DEFINE o == c + (a - vb)
    <3>1. o \in c .. (c + n - 1) /\ o # last
      BY <1>1, <1>3, <2>1, <2>4
    <3>2. memory[a] = File[o] /\ o \in DOMAIN File
      BY <1>1, <1>4, <2>2, <2>3, <2>4, <3>1
    <3> HIDE DEF o, last
    <3>3. QED
      BY <1>2, <2>2, <3>1, <3>2
  <2>5. CASE ~ (a - vb \in 0 .. (n - 1))
    <3>1. memory[a] = Memory0[a]
      BY <1>4, <2>2, <2>3, <2>5
    <3> HIDE DEF a, last
    <3>2. QED
      BY <1>2, <2>2, <3>1
  <2>6. QED
    BY <2>4, <2>5
<1>7. ASSUME \A j \in 0 .. (n - 1) : memory[v + j] = File[c + j] PROVE vb = v
  <2> SUFFICES ASSUME vb < v PROVE FALSE
    BY <1>1, <1>3
  <2> DEFINE a == v + (n - 1)
             last == c + (n - 1)
  <2>1. n - 1 \in 0 .. (n - 1) /\ a \in v .. (v + n - 1) /\ last \in c .. (c + n - 1)
    BY <1>1
  <2>2. a \in DOMAIN Memory0 /\ last \in DOMAIN File /\ memory[a] = File[last]
    BY <1>1, <1>7, <2>1
  <2>3. ~ (a - vb \in 0 .. (n - 1))
    BY <1>1, <1>3
  <2>4. CASE a - gb \in 0 .. (m - 1)
    <3> DEFINE o == d + (a - gb)
    <3>1. o \in d .. (d + m - 1) /\ o # last
      BY <1>1, <1>3, <2>1, <2>4
    <3>2. memory[a] = File[o] /\ o \in DOMAIN File
      BY <1>1, <1>4, <2>2, <2>4, <3>1
    <3> HIDE DEF o, last
    <3>3. QED
      BY <1>2, <2>2, <3>1, <3>2
  <2>5. CASE ~ (a - gb \in 0 .. (m - 1))
    <3>1. memory[a] = Memory0[a]
      BY <1>4, <2>2, <2>3, <2>5
    <3> HIDE DEF a, last
    <3>2. QED
      BY <1>2, <2>2, <3>1
  <2>6. QED
    BY <2>4, <2>5
<1>8. QED
  BY <1>3, <1>5, <1>6, <1>7 DEF v, c, n, g, d, m, memory

(* Text and data of every file arrive where its section headers say,       *)
(* exactly if both start at a multiple of 8, whatever the order of the     *)
(* headers is and however many other sections there are.                   *)
THEOREM ImageIsLoaded == Spec => []ImageLoaded
<1>1. InputLegal => ImageLoaded
  <2> SUFFICES ASSUME InputLegal, input.check = "image" PROVE ImageLoaded
    BY DEF ImageLoaded
  <2> DEFINE s == input.sections
             layout == ReadElfSections(Headers(s, input.names))
  <2>1. s \in Sections /\ input.names \in NameTables
    <3>1. input \in ImageInputs
      BY InputKinds
    <3>2. QED
      BY <3>1 DEF ImageInputs
  <2>2. layout = s
    BY <2>1, LayoutRead
  <2> HIDE DEF s, layout
  <2> DEFINE memory == LoadMemory(Memory0, layout, File)
             Text == \A k \in 0 .. (s.csize \div 4 - 1) :
                       FetchBytes(memory, s.vadr \div 4 + k)
                         = [i \in 0 .. 3 |-> File[s.cadr + 4 * k + i]]
             Data == \A i \in 0 .. (s.dsize - 1) : memory[s.gp + i] = File[s.dadr + i]
  <2>3. Text <=> \A j \in 0 .. (s.csize - 1) : memory[s.vadr + j] = File[s.cadr + j]
    <3> HIDE DEF memory
    <3>1. QED
      BY <2>1, TextByBytes
  <2>4. (\A j \in 0 .. (s.csize - 1) : memory[s.vadr + j] = File[s.cadr + j]) /\ Data
          <=> (s.vadr % 8 = 0 /\ s.gp % 8 = 0)
    BY <2>1, <2>2, SectionsInPlace
  <2>5. (Text /\ Data) <=> (s.vadr % 8 = 0 /\ s.gp % 8 = 0)
    <3> HIDE DEF Text, Data, memory
    <3>1. QED
      BY <2>3, <2>4
  <2>6. QED
    BY <2>5 DEF ImageLoaded, s, layout
<1>2. QED
  BY <1>1, InputsLegal, PTL

=============================================================================
