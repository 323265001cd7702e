----------------------------- MODULE NatProofs ------------------------------
(***************************************************************************)
(* Facts about natural numbers that the proofs about the caches share.     *)
(***************************************************************************)
EXTENDS Integers, FiniteSetsExt, TLAPS, WellFoundedInduction

(* A nonempty set of naturals has a least element.                         *)
LEMMA LeastNat ==
  ASSUME NEW S, S \subseteq Nat, S # {}
  PROVE  \E m \in S : \A x \in S : m <= x
<1>1. PICK m \in S : \A x \in S : ~ (<<x, m>> \in OpToRel(<, Nat))
  BY NatLessThanWellFounded, WFMin
<1>2. \A x \in S : ~ (x < m)
  BY <1>1, Zenon DEF OpToRel
<1>3. \A x \in S : m <= x
  BY <1>2
<1>4. QED
  BY <1>3

(* The first way a scan of a nonempty set of ways stops at.                *)
LEMMA MinNat ==
  ASSUME NEW S, S \subseteq Nat, S # {}
  PROVE  Min(S) \in S /\ \A x \in S : Min(S) <= x
<1>1. PICK m \in S : \A x \in S : m <= x
  BY LeastNat
<1>2. QED
  BY <1>1, Zenon DEF Min

(* Induction, for a set in the place of the library's operator.            *)
LEMMA SetInduction ==
  ASSUME NEW S, 0 \in S, \A k \in Nat : k \in S => k + 1 \in S
  PROVE  Nat \subseteq S
<1> SUFFICES ASSUME Nat \ S # {} PROVE FALSE
  OBVIOUS
<1>1. PICK m \in Nat \ S : \A x \in Nat \ S : m <= x
  BY LeastNat
<1>2. m # 0
  OBVIOUS
<1>3. m - 1 \in Nat
  BY <1>2
<1>4. m - 1 \in S
  BY <1>1, <1>3
<1>5. m - 1 + 1 \in S
  BY <1>3, <1>4
<1>6. QED
  BY <1>5

(* A multiple leaves no remainder.                                         *)
LEMMA MultipleMod ==
  ASSUME NEW c \in Nat \ {0}, NEW y \in Nat
  PROVE  (c * y) % c = 0
OBVIOUS

(* What a remainder and a quotient are.                                    *)
LEMMA ModInRange ==
  ASSUME NEW x \in Nat, NEW c \in Nat \ {0}
  PROVE  /\ x % c \in 0 .. (c - 1)
         /\ x < c => x % c = x
         /\ x \div c \in Nat
OBVIOUS

(* An aligned group of c words lies in one block of k words.               *)
LEMMA AlignedFits ==
  ASSUME NEW w \in Nat, NEW k \in Nat \ {0}, NEW c \in Nat \ {0},
         w % c = 0, k % c = 0
  PROVE  (w % k) + c <= k
<1>1. PICK p \in Nat : w = c * p
  <2>1. w = c * (w \div c) /\ w \div c \in Nat
    OBVIOUS
  <2>2. QED
    BY <2>1
<1>2. PICK q \in Nat \ {0} : k = c * q
  <2>1. k = c * (k \div c) /\ k \div c \in Nat /\ k \div c # 0
    OBVIOUS
  <2>2. QED
    BY <2>1
<1>3. w % k = c * (p % q)
  BY ONLY <1>1, <1>2, w \in Nat, k \in Nat, c \in Nat \ {0}, p \in Nat, q \in Nat \ {0}
<1>4. p % q \in Nat /\ p % q <= q - 1
  BY <1>1, <1>2
<1>5. c * (p % q) <= c * (q - 1)
  BY <1>2, <1>4
<1>6. c * (q - 1) = c * q - c
  BY <1>2
<1>7. QED
  BY <1>2, <1>3, <1>4, <1>5, <1>6

(* Divisibility is transitive.                                             *)
LEMMA DividesTransitive ==
  ASSUME NEW a \in Nat, NEW b \in Nat \ {0}, NEW c \in Nat \ {0},
         a % b = 0, b % c = 0
  PROVE  a % c = 0
<1>1. PICK p \in Nat : a = b * p
  <2>1. a = b * (a \div b) /\ a \div b \in Nat
    OBVIOUS
  <2>2. QED
    BY <2>1
<1>2. PICK q \in Nat : b = c * q
  <2>1. b = c * (b \div c) /\ b \div c \in Nat
    OBVIOUS
  <2>2. QED
    BY <2>1
<1>3. a = c * (q * p) /\ q * p \in Nat
  BY <1>1, <1>2
<1>4. QED
  BY <1>3, MultipleMod

(* Dropping the position in a word commutes with taking it in a block.     *)
LEMMA WordInBlock ==
  ASSUME NEW a \in Nat, NEW k \in Nat \ {0}
  PROVE  (a % (8 * k)) \div 8 = (a \div 8) % k
<1> DEFINE w == a \div 8
           p == w \div k
           s == w % k
<1>1. a = 8 * w + (a % 8) /\ a % 8 \in 0 .. 7 /\ w \in Nat
  OBVIOUS
<1>2. w = k * p + s /\ p \in Nat /\ s \in 0 .. (k - 1)
  BY <1>1
<1> HIDE DEF w, p, s
<1>3. a = (8 * k) * p + (8 * s + (a % 8))
  BY <1>1, <1>2
<1>4. 8 * s + (a % 8) \in 0 .. (8 * k - 1)
  BY <1>1, <1>2
<1>5. a % (8 * k) = 8 * s + (a % 8)
  BY <1>2, <1>3, <1>4
<1>6. (a % (8 * k)) \div 8 = s
  BY <1>1, <1>2, <1>5
<1>7. QED
  BY <1>6 DEF s, w

(* A number has a quotient and a remainder...                              *)
LEMMA DivMod ==
  ASSUME NEW x \in Nat, NEW k \in Nat \ {0}
  PROVE  \E q \in Nat, r \in 0 .. (k - 1) :
           x = k * q + r /\ x \div k = q /\ x % k = r
<1> DEFINE q == x \div k
           r == x % k
<1>1. x = k * q + r /\ q \in Nat /\ r \in 0 .. (k - 1)
  OBVIOUS
<1>2. QED
  BY <1>1

(* ...which are determined by what they add up to.                         *)
LEMMA DivUnique ==
  ASSUME NEW a \in Nat, NEW k \in Nat \ {0}, NEW q \in Nat, NEW r \in 0 .. (k - 1),
         a = k * q + r
  PROVE  a \div k = q /\ a % k = r
<1> DEFINE p == a \div k
           s == a % k
<1>1. a = k * p + s /\ p \in Int /\ s \in 0 .. (k - 1)
  OBVIOUS
<1> HIDE DEF p, s
<1>2. k * (p - q) = r - s
  BY <1>1
<1>3. ~ (p - q >= 1)
  <2> SUFFICES ASSUME p - q >= 1 PROVE FALSE
    OBVIOUS
  <2>1. k * (p - q) >= k
    BY <1>1
  <2>2. QED
    BY <1>1, <1>2, <2>1
<1>4. ~ (q - p >= 1)
  <2> SUFFICES ASSUME q - p >= 1 PROVE FALSE
    OBVIOUS
  <2>1. k * (q - p) >= k
    BY <1>1
  <2>2. k * (q - p) = s - r
    BY <1>1, <1>2
  <2>3. QED
    BY <1>1, <2>1, <2>2
<1>5. p = q
  BY <1>1, <1>3, <1>4
<1>6. r = s
  BY <1>1, <1>2, <1>5
<1>7. QED
  BY <1>5, <1>6 DEF p, s

(* Dividing twice is dividing by the product.                              *)
LEMMA DivDiv ==
  ASSUME NEW a \in Nat, NEW b \in Nat \ {0}, NEW c \in Nat \ {0}
  PROVE  (a \div b) \div c = a \div (b * c)
<1> DEFINE p == a \div b
           r == a % b
           q == p \div c
           s == p % c
<1>1. a = b * p + r /\ p \in Nat /\ r \in 0 .. (b - 1)
  OBVIOUS
<1>2. p = c * q + s /\ q \in Nat /\ s \in 0 .. (c - 1)
  BY <1>1
<1> HIDE DEF p, r, q, s
<1>3. a = (b * c) * q + (b * s + r)
  BY <1>1, <1>2
<1>4. b * s + r \in 0 .. (b * c - 1)
  <2>1. b * s <= b * (c - 1) /\ b * s \in Nat
    BY <1>2
  <2>2. b * (c - 1) = b * c - b
    OBVIOUS
  <2>3. b * c \in Int
    OBVIOUS
  <2>4. QED
    BY <1>1, <2>1, <2>2, <2>3
<1>5. b * c \in Nat \ {0}
  OBVIOUS
<1>6. a \div (b * c) = q
  <2> DEFINE k == b * c
             t == b * s + r
  <2>1. k \in Nat \ {0} /\ t \in 0 .. (k - 1) /\ a = k * q + t
    BY <1>3, <1>4, <1>5
  <2> HIDE DEF k, t
  <2>2. a \div k = q
    BY <1>2, <2>1, DivUnique
  <2>3. QED
    BY <2>2 DEF k
<1>7. QED
  BY <1>6 DEF q, p

(* A function that starts with x0, and whose other values are those of the *)
(* step from the one before: it exists.                                    *)
Recurs(f, X, x0, step, n) ==
  /\ f \in [0 .. n -> X]
  /\ f[0] = x0
  /\ \A k \in 1 .. n : f[k] = step[<<k, f[k - 1]>>]

LEMMA Recursion ==
  ASSUME NEW X, NEW x0 \in X, NEW step \in [Nat \X X -> X], NEW n \in Nat
  PROVE  \E f : Recurs(f, X, x0, step, n)
<1> DEFINE P(k) == \E f \in [0 .. k -> X] :
                     f[0] = x0 /\ \A j \in 1 .. k : f[j] = step[<<j, f[j - 1]>>]
           S == {k \in Nat : P(k)}
<1>1. 0 \in S
  <2> DEFINE f == [j \in 0 .. 0 |-> x0]
  <2>1. f \in [0 .. 0 -> X] /\ f[0] = x0 /\ \A j \in 1 .. 0 : f[j] = step[<<j, f[j - 1]>>]
    OBVIOUS
  <2>2. QED
    BY <2>1
<1>2. ASSUME NEW k \in Nat, k \in S PROVE k + 1 \in S
  <2>1. PICK f \in [0 .. k -> X] :
          f[0] = x0 /\ \A j \in 1 .. k : f[j] = step[<<j, f[j - 1]>>]
    BY <1>2
  <2> DEFINE g == [j \in 0 .. (k + 1) |-> IF j = k + 1 THEN step[<<k + 1, f[k]>>] ELSE f[j]]
  <2>2. f[k] \in X /\ <<k + 1, f[k]>> \in Nat \X X
    BY <2>1
  <2>3. step[<<k + 1, f[k]>>] \in X
    BY <2>2
  <2>4. g \in [0 .. (k + 1) -> X]
    BY <2>1, <2>3
  <2>5. g[0] = x0
    BY <2>1
  <2>6. ASSUME NEW j \in 1 .. (k + 1) PROVE g[j] = step[<<j, g[j - 1]>>]
    <3>1. j - 1 \in 0 .. k /\ g[j - 1] = f[j - 1]
      OBVIOUS
    <3>2. CASE j = k + 1
      <4>1. g[j] = step[<<k + 1, f[k]>>] /\ j - 1 = k
        BY <3>2
      <4>2. g[j - 1] = f[k]
        BY <3>1, <4>1
      <4>3. QED
        BY <3>2, <4>1, <4>2
    <3>3. CASE j # k + 1
      <4>1. j \in 1 .. k /\ g[j] = f[j]
        BY <3>3
      <4>2. QED
        BY <2>1, <3>1, <4>1
    <3>4. QED
      BY <3>2, <3>3
  <2> HIDE DEF g
  <2>7. P(k + 1)
    BY <2>4, <2>5, <2>6
  <2>8. QED
    BY <2>7
<1>3. \A k \in Nat : k \in S => k + 1 \in S
  BY <1>2
<1> HIDE DEF S
<1>4. Nat \subseteq S
  BY <1>1, <1>3, SetInduction
<1>5. PICK f \in [0 .. n -> X] :
        f[0] = x0 /\ \A k \in 1 .. n : f[k] = step[<<k, f[k - 1]>>]
  BY <1>4 DEF S
<1>6. QED
  BY <1>5 DEF Recurs

=============================================================================
