---------------------------- MODULE DecodeProofs ----------------------------
(***************************************************************************)
(* execute_Decode takes out of a word the fields that RISC-V's formats put *)
(* there, and finds the instruction in its tables: the two properties of   *)
(* module Units about decoding, for all registers, immediates and fields   *)
(* of words.                                                               *)
(***************************************************************************)
EXTENDS UnitsProofs

LEMMA SmallPowers ==
  /\ 2^0 = 1
  /\ \A k \in 0 .. 20 : 2^k \in Nat \ {0} /\ 2^(k + 1) = 2 * 2^k
<1>1. ASSUME NEW k \in 0 .. 20 PROVE 2^k \in Nat \ {0} /\ 2^(k + 1) = 2 * 2^k
  <2>1. CASE k = 0
    BY <2>1
  <2>2. CASE k = 1
    BY <2>2
  <2>3. CASE k = 2
    BY <2>3
  <2>4. CASE k = 3
    BY <2>4
  <2>5. CASE k = 4
    BY <2>5
  <2>6. CASE k = 5
    BY <2>6
  <2>7. CASE k = 6
    BY <2>7
  <2>8. CASE k = 7
    BY <2>8
  <2>9. CASE k = 8
    BY <2>9
  <2>10. CASE k = 9
    BY <2>10
  <2>11. CASE k = 10
    BY <2>11
  <2>12. CASE k = 11
    BY <2>12
  <2>13. CASE k = 12
    BY <2>13
  <2>14. CASE k = 13
    BY <2>14
  <2>15. CASE k = 14
    BY <2>15
  <2>16. CASE k = 15
    BY <2>16
  <2>17. CASE k = 16
    BY <2>17
  <2>18. CASE k = 17
    BY <2>18
  <2>19. CASE k = 18
    BY <2>19
  <2>20. CASE k = 19
    BY <2>20
  <2>21. CASE k = 20
    BY <2>21
  <2>22. QED
    BY <2>1, <2>2, <2>3, <2>4, <2>5, <2>6, <2>7, <2>8, <2>9, <2>10, <2>11, <2>12,
       <2>13, <2>14, <2>15, <2>16, <2>17, <2>18, <2>19, <2>20, <2>21
<1>2. QED
  BY <1>1

LEMMA SmallProducts ==
  ASSUME NEW j \in 0 .. 20, NEW k \in 0 .. 20, j + k <= 20
  PROVE  2^j \in Nat \ {0} /\ 2^k \in Nat \ {0} /\ 2^(j + k) = 2^j * 2^k
<1> DEFINE S == {i \in Nat : j + i <= 20 => 2^(j + i) = 2^j * 2^i}
<1>1. \A i \in 0 .. 20 : 2^i \in Nat \ {0} /\ 2^(i + 1) = 2 * 2^i
  BY SmallPowers
<1>2. 0 \in S
  <2>1. 2^0 = 1
    BY SmallPowers
  <2>2. 2^j \in Nat
    BY <1>1
  <2>3. j + 0 = j
    OBVIOUS
  <2>4. QED
    BY <2>1, <2>2, <2>3
<1>3. ASSUME NEW i \in Nat, i \in S PROVE i + 1 \in S
  <2> SUFFICES ASSUME j + (i + 1) <= 20 PROVE 2^(j + (i + 1)) = 2^j * 2^(i + 1)
    OBVIOUS
  <2>1. i \in 0 .. 20 /\ j + i \in 0 .. 20 /\ j + (i + 1) = (j + i) + 1
        /\ 2^(j + i) = 2^j * 2^i
    BY <1>3
  <2>2. 2^((j + i) + 1) = 2 * 2^(j + i) /\ 2^(i + 1) = 2 * 2^i
        /\ 2^j \in Nat /\ 2^i \in Nat
    BY <1>1, <2>1
  <2> DEFINE a == 2^j
             b == 2^i
  <2>3. 2^(j + (i + 1)) = 2 * (a * b) /\ 2^(i + 1) = 2 * b /\ a \in Nat /\ b \in Nat
    BY <2>1, <2>2
  <2> HIDE DEF a, b
  <2>4. 2 * (a * b) = a * (2 * b)
    BY <2>3
  <2>5. QED
    BY <2>3, <2>4 DEF a
<1>4. k \in S
  <2>1. Nat \subseteq S
    <3> HIDE DEF S
    <3>1. QED
      BY <1>2, <1>3, SetInduction
  <2>2. QED
    BY <2>1
<1>5. QED
  BY <1>1, <1>4

(* Dividing twice, here a number that may be negative.                     *)
LEMMA IntDivDiv ==
  ASSUME NEW x \in Int, NEW b \in Nat \ {0}, NEW c \in Nat \ {0}
  PROVE  (x \div b) \div c = x \div (b * c)
<1> DEFINE p == x \div b
           r == x % b
           q == p \div c
           t == p % c
           e == b * c
           z == b * t + r
<1>1. x = b * p + r /\ p \in Int /\ r \in 0 .. (b - 1)
  BY IntDivMod
<1>2. p = c * q + t /\ q \in Int /\ t \in 0 .. (c - 1)
  BY <1>1, IntDivMod
<1>3. e \in Nat \ {0}
  OBVIOUS
<1> HIDE DEF p, r, q, t
<1>4. x = e * q + z
  BY <1>1, <1>2
<1>5. z \in 0 .. (e - 1)
  <2>1. b * t \in Nat /\ b * t <= b * (c - 1) /\ b * (c - 1) = e - b
    BY <1>2
  <2> HIDE DEF e
  <2>2. QED
    BY <1>1, <1>3, <2>1
<1> HIDE DEF e, z
<1>6. x \div e = q
  BY <1>2, <1>3, <1>4, <1>5, IntDivUnique
<1>7. QED
  BY <1>6 DEF e, q, p

(* The m bits of a word that follow its first s are the low bits of v.     *)
Holds(word, s, m, v) == \A i \in 1 .. m : word[s + i] = (v \div 2^(m - i)) % 2

(* getbit gives back the number that a stretch of the word holds.          *)
LEMMA GetBitOf ==
  ASSUME NEW word, NEW s \in Nat, NEW m \in 1 .. 20, NEW v \in Int, NEW e,
         e = s + m - 1, Holds(word, s, m, v)
  PROVE  GetBit(word, s, e) = v % 2^m
<1> DEFINE Is(g) == g = [n \in 0 .. (e - s + 1) |->
                      IF n = 0 THEN 0 ELSE 2 * g[n - 1] + word[s + n]]
           value == CHOOSE g : Is(g)
           f == [n \in 0 .. m |-> (v \div 2^(m - n)) % 2^n]
<1>1. m \in Nat /\ e - s + 1 = m
  OBVIOUS
<1>2. ASSUME NEW n \in 1 .. m PROVE f[n] = 2 * f[n - 1] + word[s + n]
  <2> DEFINE d == 2^(m - n)
             p == 2^(n - 1)
             q == v \div d
  <2>1. /\ m - n \in 0 .. 20 /\ n - 1 \in 0 .. 20 /\ n - 1 \in 0 .. m /\ n \in 0 .. m
        /\ (n - 1) + 1 = n /\ (m - n) + 1 = m - (n - 1)
    OBVIOUS
  <2>2. d \in Nat \ {0} /\ p \in Nat \ {0} /\ 2^n = 2 * p /\ 2^(m - (n - 1)) = 2 * d
    <3>1. 2^((n - 1) + 1) = 2 * 2^(n - 1) /\ 2^((m - n) + 1) = 2 * 2^(m - n)
      BY <2>1, SmallPowers
    <3>2. QED
      BY <2>1, <3>1, SmallPowers
  <2>3. word[s + n] = q % 2
    BY DEF Holds
  <2>4. f[n] = q % (2 * p) /\ f[n - 1] = (v \div (2 * d)) % p
    BY <2>1, <2>2
  <2> HIDE DEF f, d, p
  <2>5. v = d * q + (v % d) /\ q \in Int /\ v % d \in 0 .. (d - 1)
    BY <2>2, IntDivMod
  <2> HIDE DEF q
  <2>6. v \div (2 * d) = q \div 2
    <3> DEFINE a == q \div 2
               t == q % 2
               r == v % d
               x == 2 * d
               z == d * t + r
    <3>1. q = 2 * a + t /\ a \in Int /\ t \in {0, 1}
      BY <2>5
    <3>2. x \in Nat \ {0} /\ v = d * q + r /\ r \in 0 .. (d - 1)
      BY <2>2, <2>5
    <3> HIDE DEF a, t, r
    <3>3. v = x * a + z
      BY <2>2, <3>1, <3>2
    <3>4. z \in 0 .. (x - 1)
      <4>1. d * t = 0 \/ d * t = d
        BY <2>2, <3>1
      <4>2. QED
        BY <2>2, <3>2, <4>1
    <3> HIDE DEF x, z
    <3>5. v \div x = a
      BY <3>1, <3>2, <3>3, <3>4, IntDivUnique
    <3>6. QED
      BY <3>5 DEF x, a
  <2>7. q % (2 * p) = 2 * ((q \div 2) % p) + (q % 2)
    <3> DEFINE a == q \div 2
               t == q % 2
               b == a \div p
               r == a % p
               x == 2 * p
               z == 2 * r + t
    <3>1. q = 2 * a + t /\ a \in Int /\ t \in {0, 1}
      BY <2>5
    <3> HIDE DEF a, t
    <3>2. a = p * b + r /\ b \in Int /\ r \in 0 .. (p - 1) /\ x \in Nat \ {0}
      BY <2>2, <3>1, IntDivMod
    <3> HIDE DEF b, r
    <3>3. q = x * b + z /\ z \in 0 .. (x - 1)
      BY <2>2, <3>1, <3>2
    <3> HIDE DEF x, z
    <3>4. q % x = z
      BY <2>5, <3>2, <3>3, IntDivUnique
    <3>5. QED
      BY <3>4 DEF x, z, r, a, t
  <2>8. QED
    BY <2>3, <2>4, <2>6, <2>7
<1>3. f[0] = 0
  <2>1. f[0] = (v \div 2^(m - 0)) % 2^0
    BY <1>1
  <2>2. 2^0 = 1
    BY SmallPowers
  <2>3. v \div 2^(m - 0) \in Int
    <3>1. m - 0 \in 0 .. 20
      OBVIOUS
    <3>2. 2^(m - 0) \in Nat \ {0}
      BY <3>1, SmallPowers
    <3> DEFINE d == 2^(m - 0)
    <3> HIDE DEF d
    <3>3. d \in Nat \ {0} => v \div d \in Int
      BY IntDivMod
    <3>4. QED
      BY <3>2, <3>3 DEF d
  <2> DEFINE q == v \div 2^(m - 0)
  <2> HIDE DEF q
  <2>4. q \in Int => q % 1 = 0
    OBVIOUS
  <2>5. QED
    BY <2>1, <2>2, <2>3, <2>4 DEF q
<1>4. f[m] = v % 2^m
  <2>1. f[m] = (v \div 2^(m - m)) % 2^m
    BY <1>1
  <2>2. 2^(m - m) = 1
    BY SmallPowers
  <2>3. v \div 1 = v
    OBVIOUS
  <2>4. QED
    BY <2>1, <2>2, <2>3
<1>5. f = [n \in 0 .. m |-> f[n]]
  OBVIOUS
<1> HIDE DEF f
<1>6. Is(f)
  <2>1. \A n \in 0 .. m : f[n] = IF n = 0 THEN 0 ELSE 2 * f[n - 1] + word[s + n]
    BY <1>1, <1>2, <1>3
  <2>2. QED
    BY <1>1, <1>5, <2>1
<1>7. Is(value)
  BY <1>6
<1>8. GetBit(word, s, e) = value[e - s + 1]
  BY DEF GetBit
<1> HIDE DEF value
<1>9. \A n \in 0 .. m : value[n] = IF n = 0 THEN 0 ELSE 2 * value[n - 1] + word[s + n]
  BY <1>1, <1>7
<1> HIDE DEF Is
<1> DEFINE S == {n \in Nat : n <= m => value[n] = f[n]}
<1>10. 0 \in S
  BY <1>1, <1>3, <1>9
<1>11. ASSUME NEW n \in Nat, n \in S PROVE n + 1 \in S
  <2> SUFFICES ASSUME n + 1 <= m PROVE value[n + 1] = f[n + 1]
    OBVIOUS
  <2>1. n + 1 \in 1 .. m /\ n + 1 \in 0 .. m /\ n + 1 # 0 /\ (n + 1) - 1 = n
        /\ value[n] = f[n]
    BY <1>1, <1>11
  <2>2. value[n + 1] = 2 * value[n] + word[s + (n + 1)]
    BY <1>9, <2>1
  <2>3. f[n + 1] = 2 * f[n] + word[s + (n + 1)]
    BY <1>2, <2>1
  <2>4. QED
    BY <2>1, <2>2, <2>3
<1>12. value[m] = f[m]
  <2>1. Nat \subseteq S
    <3> HIDE DEF S
    <3>1. QED
      BY <1>10, <1>11, SetInduction
  <2>2. QED
    BY <1>1, <2>1
<1>13. QED
  BY <1>1, <1>4, <1>8, <1>12

(* Part of a stretch holds some of the bits of its number.                 *)
LEMMA PartOf ==
  ASSUME NEW word, NEW s \in Nat, NEW m \in 1 .. 20, NEW v \in Int,
         NEW a \in Nat, NEW l \in 1 .. 20, a + l <= m, Holds(word, s, m, v)
  PROVE  Holds(word, s + a, l, v \div 2^(m - a - l))
<1> DEFINE d == 2^(m - a - l)
<1>1. ASSUME NEW i \in 1 .. l
      PROVE  word[(s + a) + i] = ((v \div d) \div 2^(l - i)) % 2
  <2> DEFINE b == 2^(l - i)
  <2>1. a + i \in 1 .. m /\ s + (a + i) = (s + a) + i /\ m - (a + i) = (m - a - l) + (l - i)
        /\ m - a - l \in 0 .. 20 /\ l - i \in 0 .. 20 /\ (m - a - l) + (l - i) <= 20
    OBVIOUS
  <2>2. d \in Nat \ {0} /\ b \in Nat \ {0} /\ 2^(m - (a + i)) = d * b
    BY <2>1, SmallProducts
  <2>3. word[(s + a) + i] = (v \div 2^(m - (a + i))) % 2
    BY <2>1 DEF Holds
  <2> HIDE DEF d, b
  <2>4. (v \div d) \div b = v \div (d * b)
    BY <2>2, IntDivDiv
  <2>5. QED
    BY <2>2, <2>3, <2>4 DEF b
<1>2. QED
  BY <1>1 DEF Holds

(* Words are put together from stretches.                                  *)
Built(w, n) == w \in Seq(Int) /\ Len(w) = n

LEMMA Extend ==
  ASSUME NEW w, NEW t, NEW n \in Nat, NEW m \in Nat, NEW v,
         Built(w, n), Built(t, m), Holds(t, 0, m, v)
  PROVE  /\ Built(w \o t, n + m)
         /\ Holds(w \o t, n, m, v)
         /\ \A s, l \in Nat : \A u :
              s + l <= n /\ Holds(w, s, l, u) => Holds(w \o t, s, l, u)
<1> DEFINE x == w \o t
<1>1. w \in Seq(Int) /\ t \in Seq(Int) /\ Len(w) = n /\ Len(t) = m
  BY DEF Built
<1>2. /\ x \in Seq(Int) /\ Len(x) = n + m
      /\ \A i \in 1 .. (n + m) : x[i] = IF i <= n THEN w[i] ELSE t[i - n]
  BY <1>1
<1> HIDE DEF x
<1>3. ASSUME NEW i \in 1 .. m PROVE x[n + i] = (v \div 2^(m - i)) % 2
  <2>1. n + i \in 1 .. (n + m) /\ ~ (n + i <= n) /\ (n + i) - n = i
    OBVIOUS
  <2>2. x[n + i] = t[i]
    BY <1>2, <2>1
  <2>3. t[0 + i] = (v \div 2^(m - i)) % 2
    BY DEF Holds
  <2>4. QED
    BY <2>2, <2>3
<1>4. ASSUME NEW s \in Nat, NEW l \in Nat, NEW u, s + l <= n, Holds(w, s, l, u),
             NEW i \in 1 .. l
      PROVE  x[s + i] = (u \div 2^(l - i)) % 2
  <2>1. s + i \in 1 .. (n + m) /\ s + i <= n
    BY <1>4
  <2>2. x[s + i] = w[s + i]
    BY <1>2, <2>1
  <2>3. QED
    BY <1>4, <2>2 DEF Holds
<1>5. QED
  BY <1>2, <1>3, <1>4 DEF Built, Holds, x

LEMMA BitsHold ==
  ASSUME NEW v \in Int, NEW m \in 1 .. 20
  PROVE  Built(Rv!Bits(v, m), m) /\ Holds(Rv!Bits(v, m), 0, m, v)
<1> DEFINE t == Rv!Bits(v, m)
<1>1. t = [i \in 1 .. m |-> (v \div 2^(m - i)) % 2]
  BY DEF Rv!Bits
<1>2. ASSUME NEW i \in 1 .. m PROVE (v \div 2^(m - i)) % 2 \in Int
  <2> DEFINE d == 2^(m - i)
  <2>1. m - i \in 0 .. 20
    OBVIOUS
  <2>2. d \in Nat \ {0}
    BY <2>1, SmallPowers
  <2> HIDE DEF d
  <2>3. (v \div d) % 2 \in Int
    BY <2>2
  <2>4. QED
    BY <2>3 DEF d
<1> HIDE DEF t
<1>3. t \in [1 .. m -> Int]
  BY <1>1, <1>2
<1>4. t \in Seq(Int) /\ Len(t) = m
  BY <1>3
<1>5. \A i \in 1 .. m : t[0 + i] = (v \div 2^(m - i)) % 2
  BY <1>1
<1>6. QED
  BY <1>4, <1>5 DEF Built, Holds, t

LEMMA SliceHolds ==
  ASSUME NEW v \in Int, NEW n \in 1 .. 21, NEW hi \in 0 .. (n - 1), NEW lo \in 0 .. hi,
         NEW m \in 1 .. 20, m = hi - lo + 1
  PROVE  /\ Built(Rv!Slice(v, n, hi, lo), m)
         /\ Holds(Rv!Slice(v, n, hi, lo), 0, m, v \div 2^lo)
<1> DEFINE w == Rv!Bits(v, n)
           t == Rv!Slice(v, n, hi, lo)
           d == 2^lo
<1>1. w = [i \in 1 .. n |-> (v \div 2^(n - i)) % 2]
  BY DEF Rv!Bits
<1>2. \A i \in 1 .. n : (v \div 2^(n - i)) % 2 \in Int
  <2> TAKE i \in 1 .. n
  <2> DEFINE b == 2^(n - i)
  <2>1. n - i \in 0 .. 20
    OBVIOUS
  <2>2. b \in Nat \ {0}
    BY <2>1, SmallPowers
  <2> HIDE DEF b
  <2>3. (v \div b) % 2 \in Int
    BY <2>2
  <2>4. QED
    BY <2>3 DEF b
<1>3. t = SubSeq(w, n - hi, n - lo)
  BY DEF Rv!Slice
<1> HIDE DEF w, t
<1>4. w \in Seq(Int) /\ Len(w) = n /\ w \in [1 .. n -> Int]
  <2>1. w \in [1 .. n -> Int]
    BY <1>1, <1>2
  <2>2. QED
    BY <2>1
<1>5. /\ t \in Seq(Int) /\ Len(t) = m
      /\ \A i \in 1 .. m : t[i] = w[n - hi + i - 1]
  BY <1>3, <1>4
<1>6. ASSUME NEW i \in 1 .. m PROVE t[0 + i] = ((v \div d) \div 2^(m - i)) % 2
  <2> DEFINE b == 2^(m - i)
  <2>1. n - hi + i - 1 \in 1 .. n /\ n - (n - hi + i - 1) = lo + (m - i)
        /\ lo \in 0 .. 20 /\ m - i \in 0 .. 20 /\ lo + (m - i) <= 20 /\ 0 + i = i
    OBVIOUS
  <2>2. d \in Nat \ {0} /\ b \in Nat \ {0} /\ 2^(lo + (m - i)) = d * b
    BY <2>1, SmallProducts
  <2>3. t[i] = (v \div 2^(n - (n - hi + i - 1))) % 2
    BY <1>1, <1>5, <2>1
  <2>4. t[0 + i] = (v \div (d * b)) % 2
    BY <2>1, <2>2, <2>3
  <2> HIDE DEF d, b
  <2>5. (v \div d) \div b = v \div (d * b)
    BY <2>2, IntDivDiv
  <2>6. QED
    BY <2>4, <2>5 DEF b
<1>7. QED
  BY <1>5, <1>6 DEF Built, Holds, t, d

(* Where the formats put their fields.                                     *)
LEMMA RWordHolds ==
  ASSUME NEW f7 \in Int, NEW rs2 \in Int, NEW rs1 \in Int, NEW f3 \in Int, NEW rd \in Int,
         NEW opcode \in Int
  PROVE  LET w == Rv!RWord(f7, rs2, rs1, f3, rd, opcode)
         IN /\ Holds(w, 0, 7, f7) /\ Holds(w, 7, 5, rs2) /\ Holds(w, 12, 5, rs1)
            /\ Holds(w, 17, 3, f3) /\ Holds(w, 20, 5, rd) /\ Holds(w, 25, 7, opcode)
<1> DEFINE w1 == Rv!Bits(f7, 7)
           w2 == w1 \o Rv!Bits(rs2, 5)
           w3 == w2 \o Rv!Bits(rs1, 5)
           w4 == w3 \o Rv!Bits(f3, 3)
           w5 == w4 \o Rv!Bits(rd, 5)
           w6 == w5 \o Rv!Bits(opcode, 7)
<1>1. /\ Built(w1, 7) /\ Holds(w1, 0, 7, f7)
      /\ Built(Rv!Bits(rs2, 5), 5) /\ Holds(Rv!Bits(rs2, 5), 0, 5, rs2)
      /\ Built(Rv!Bits(rs1, 5), 5) /\ Holds(Rv!Bits(rs1, 5), 0, 5, rs1)
      /\ Built(Rv!Bits(f3, 3), 3) /\ Holds(Rv!Bits(f3, 3), 0, 3, f3)
      /\ Built(Rv!Bits(rd, 5), 5) /\ Holds(Rv!Bits(rd, 5), 0, 5, rd)
      /\ Built(Rv!Bits(opcode, 7), 7) /\ Holds(Rv!Bits(opcode, 7), 0, 7, opcode)
  BY BitsHold
<1> HIDE DEF w1
<1>2. Built(w2, 12) /\ Holds(w2, 7, 5, rs2) /\ Holds(w2, 0, 7, f7)
  BY <1>1, Extend
<1> HIDE DEF w2
<1>3. Built(w3, 17) /\ Holds(w3, 12, 5, rs1) /\ Holds(w3, 7, 5, rs2) /\ Holds(w3, 0, 7, f7)
  BY <1>1, <1>2, Extend
<1> HIDE DEF w3
<1>4. Built(w4, 20) /\ Holds(w4, 17, 3, f3) /\ Holds(w4, 12, 5, rs1) /\ Holds(w4, 7, 5, rs2)
      /\ Holds(w4, 0, 7, f7)
  BY <1>1, <1>3, Extend
<1> HIDE DEF w4
<1>5. Built(w5, 25) /\ Holds(w5, 20, 5, rd) /\ Holds(w5, 17, 3, f3) /\ Holds(w5, 12, 5, rs1)
      /\ Holds(w5, 7, 5, rs2) /\ Holds(w5, 0, 7, f7)
  BY <1>1, <1>4, Extend
<1> HIDE DEF w5
<1>6. Holds(w6, 25, 7, opcode) /\ Holds(w6, 20, 5, rd) /\ Holds(w6, 17, 3, f3)
      /\ Holds(w6, 12, 5, rs1) /\ Holds(w6, 7, 5, rs2) /\ Holds(w6, 0, 7, f7)
  BY <1>1, <1>5, Extend
<1>7. Rv!RWord(f7, rs2, rs1, f3, rd, opcode) = w6
  BY DEF Rv!RWord, w1, w2, w3, w4, w5
<1> HIDE DEF w6
<1>8. QED
  BY <1>6, <1>7

LEMMA IWordHolds ==
  ASSUME NEW imm \in Int, NEW rs1 \in Int, NEW f3 \in Int, NEW rd \in Int, NEW opcode \in Int
  PROVE  LET w == Rv!IWord(imm, rs1, f3, rd, opcode)
         IN /\ Holds(w, 0, 12, imm)
            /\ Holds(w, 12, 5, rs1)
            /\ Holds(w, 17, 3, f3)
            /\ Holds(w, 20, 5, rd)
            /\ Holds(w, 25, 7, opcode)
<1> DEFINE w1 == Rv!Bits(imm, 12)
           w2 == w1 \o Rv!Bits(rs1, 5)
           w3 == w2 \o Rv!Bits(f3, 3)
           w4 == w3 \o Rv!Bits(rd, 5)
           w5 == w4 \o Rv!Bits(opcode, 7)
<1>1. /\ Built(w1, 12) /\ Holds(w1, 0, 12, imm)
      /\ Built(Rv!Bits(rs1, 5), 5) /\ Holds(Rv!Bits(rs1, 5), 0, 5, rs1)
      /\ Built(Rv!Bits(f3, 3), 3) /\ Holds(Rv!Bits(f3, 3), 0, 3, f3)
      /\ Built(Rv!Bits(rd, 5), 5) /\ Holds(Rv!Bits(rd, 5), 0, 5, rd)
      /\ Built(Rv!Bits(opcode, 7), 7) /\ Holds(Rv!Bits(opcode, 7), 0, 7, opcode)
  BY BitsHold
<1> HIDE DEF w1
<1>2. /\ Built(w2, 17)
      /\ Holds(w2, 0, 12, imm)
      /\ Holds(w2, 12, 5, rs1)
  BY <1>1, Extend
<1> HIDE DEF w2
<1>3. /\ Built(w3, 20)
      /\ Holds(w3, 0, 12, imm)
      /\ Holds(w3, 12, 5, rs1)
      /\ Holds(w3, 17, 3, f3)
  BY <1>1, <1>2, Extend
<1> HIDE DEF w3
<1>4. /\ Built(w4, 25)
      /\ Holds(w4, 0, 12, imm)
      /\ Holds(w4, 12, 5, rs1)
      /\ Holds(w4, 17, 3, f3)
      /\ Holds(w4, 20, 5, rd)
  BY <1>1, <1>3, Extend
<1> HIDE DEF w4
<1>5. /\ Holds(w5, 0, 12, imm)
      /\ Holds(w5, 12, 5, rs1)
      /\ Holds(w5, 17, 3, f3)
      /\ Holds(w5, 20, 5, rd)
      /\ Holds(w5, 25, 7, opcode)
  BY <1>1, <1>4, Extend
<1>6. Rv!IWord(imm, rs1, f3, rd, opcode) = w5
  BY DEF Rv!IWord, w1, w2, w3, w4
<1> HIDE DEF w5
<1>7. QED
  BY <1>5, <1>6

LEMMA SWordHolds ==
  ASSUME NEW imm \in Int, NEW rs2 \in Int, NEW rs1 \in Int, NEW f3 \in Int
  PROVE  LET w == Rv!SWord(imm, rs2, rs1, f3)
         IN /\ Holds(w, 0, 7, imm \div 2^5)
            /\ Holds(w, 7, 5, rs2)
            /\ Holds(w, 12, 5, rs1)
            /\ Holds(w, 17, 3, f3)
            /\ Holds(w, 20, 5, imm \div 2^0)
            /\ Holds(w, 25, 7, 35)
<1> DEFINE w1 == Rv!Slice(imm, 12, 11, 5)
           w2 == w1 \o Rv!Bits(rs2, 5)
           w3 == w2 \o Rv!Bits(rs1, 5)
           w4 == w3 \o Rv!Bits(f3, 3)
           w5 == w4 \o Rv!Slice(imm, 12, 4, 0)
           w6 == w5 \o Rv!Bits(35, 7)
<1>1. /\ Built(w1, 7) /\ Holds(w1, 0, 7, imm \div 2^5)
      /\ Built(Rv!Bits(rs2, 5), 5) /\ Holds(Rv!Bits(rs2, 5), 0, 5, rs2)
      /\ Built(Rv!Bits(rs1, 5), 5) /\ Holds(Rv!Bits(rs1, 5), 0, 5, rs1)
      /\ Built(Rv!Bits(f3, 3), 3) /\ Holds(Rv!Bits(f3, 3), 0, 3, f3)
      /\ Built(Rv!Slice(imm, 12, 4, 0), 5) /\ Holds(Rv!Slice(imm, 12, 4, 0), 0, 5, imm \div 2^0)
      /\ Built(Rv!Bits(35, 7), 7) /\ Holds(Rv!Bits(35, 7), 0, 7, 35)
  <2>1. Built(Rv!Slice(imm, 12, 11, 5), 7) /\ Holds(Rv!Slice(imm, 12, 11, 5), 0, 7, imm \div 2^5)
    BY SliceHolds
  <2>2. Built(Rv!Bits(rs2, 5), 5) /\ Holds(Rv!Bits(rs2, 5), 0, 5, rs2)
    BY BitsHold
  <2>3. Built(Rv!Bits(rs1, 5), 5) /\ Holds(Rv!Bits(rs1, 5), 0, 5, rs1)
    BY BitsHold
  <2>4. Built(Rv!Bits(f3, 3), 3) /\ Holds(Rv!Bits(f3, 3), 0, 3, f3)
    BY BitsHold
  <2>5. Built(Rv!Slice(imm, 12, 4, 0), 5) /\ Holds(Rv!Slice(imm, 12, 4, 0), 0, 5, imm \div 2^0)
    BY SliceHolds
  <2>6. Built(Rv!Bits(35, 7), 7) /\ Holds(Rv!Bits(35, 7), 0, 7, 35)
    BY BitsHold
  <2>7. QED
    BY <2>1, <2>2, <2>3, <2>4, <2>5, <2>6
<1> HIDE DEF w1
<1>2. /\ Built(w2, 12)
      /\ Holds(w2, 0, 7, imm \div 2^5)
      /\ Holds(w2, 7, 5, rs2)
  BY <1>1, Extend
<1> HIDE DEF w2
<1>3. /\ Built(w3, 17)
      /\ Holds(w3, 0, 7, imm \div 2^5)
      /\ Holds(w3, 7, 5, rs2)
      /\ Holds(w3, 12, 5, rs1)
  BY <1>1, <1>2, Extend
<1> HIDE DEF w3
<1>4. /\ Built(w4, 20)
      /\ Holds(w4, 0, 7, imm \div 2^5)
      /\ Holds(w4, 7, 5, rs2)
      /\ Holds(w4, 12, 5, rs1)
      /\ Holds(w4, 17, 3, f3)
  BY <1>1, <1>3, Extend
<1> HIDE DEF w4
<1>5. /\ Built(w5, 25)
      /\ Holds(w5, 0, 7, imm \div 2^5)
      /\ Holds(w5, 7, 5, rs2)
      /\ Holds(w5, 12, 5, rs1)
      /\ Holds(w5, 17, 3, f3)
      /\ Holds(w5, 20, 5, imm \div 2^0)
  BY <1>1, <1>4, Extend
<1> HIDE DEF w5
<1>6. /\ Holds(w6, 0, 7, imm \div 2^5)
      /\ Holds(w6, 7, 5, rs2)
      /\ Holds(w6, 12, 5, rs1)
      /\ Holds(w6, 17, 3, f3)
      /\ Holds(w6, 20, 5, imm \div 2^0)
      /\ Holds(w6, 25, 7, 35)
  BY <1>1, <1>5, Extend
<1>7. Rv!SWord(imm, rs2, rs1, f3) = w6
  BY DEF Rv!SWord, w1, w2, w3, w4, w5
<1> HIDE DEF w6
<1>8. QED
  BY <1>6, <1>7

LEMMA BWordHolds ==
  ASSUME NEW imm \in Int, NEW rs2 \in Int, NEW rs1 \in Int, NEW f3 \in Int
  PROVE  LET w == Rv!BWord(imm, rs2, rs1, f3)
         IN /\ Holds(w, 0, 1, imm \div 2^12)
            /\ Holds(w, 1, 6, imm \div 2^5)
            /\ Holds(w, 7, 5, rs2)
            /\ Holds(w, 12, 5, rs1)
            /\ Holds(w, 17, 3, f3)
            /\ Holds(w, 20, 4, imm \div 2^1)
            /\ Holds(w, 24, 1, imm \div 2^11)
            /\ Holds(w, 25, 7, 99)
<1> DEFINE w1 == Rv!Slice(imm, 13, 12, 12)
           w2 == w1 \o Rv!Slice(imm, 13, 10, 5)
           w3 == w2 \o Rv!Bits(rs2, 5)
           w4 == w3 \o Rv!Bits(rs1, 5)
           w5 == w4 \o Rv!Bits(f3, 3)
           w6 == w5 \o Rv!Slice(imm, 13, 4, 1)
           w7 == w6 \o Rv!Slice(imm, 13, 11, 11)
           w8 == w7 \o Rv!Bits(99, 7)
<1>1. /\ Built(w1, 1) /\ Holds(w1, 0, 1, imm \div 2^12)
      /\ Built(Rv!Slice(imm, 13, 10, 5), 6) /\ Holds(Rv!Slice(imm, 13, 10, 5), 0, 6, imm \div 2^5)
      /\ Built(Rv!Bits(rs2, 5), 5) /\ Holds(Rv!Bits(rs2, 5), 0, 5, rs2)
      /\ Built(Rv!Bits(rs1, 5), 5) /\ Holds(Rv!Bits(rs1, 5), 0, 5, rs1)
      /\ Built(Rv!Bits(f3, 3), 3) /\ Holds(Rv!Bits(f3, 3), 0, 3, f3)
      /\ Built(Rv!Slice(imm, 13, 4, 1), 4) /\ Holds(Rv!Slice(imm, 13, 4, 1), 0, 4, imm \div 2^1)
      /\ Built(Rv!Slice(imm, 13, 11, 11), 1) /\ Holds(Rv!Slice(imm, 13, 11, 11), 0, 1, imm \div 2^11)
      /\ Built(Rv!Bits(99, 7), 7) /\ Holds(Rv!Bits(99, 7), 0, 7, 99)
  <2>1. Built(Rv!Slice(imm, 13, 12, 12), 1) /\ Holds(Rv!Slice(imm, 13, 12, 12), 0, 1, imm \div 2^12)
    BY SliceHolds
  <2>2. Built(Rv!Slice(imm, 13, 10, 5), 6) /\ Holds(Rv!Slice(imm, 13, 10, 5), 0, 6, imm \div 2^5)
    BY SliceHolds
  <2>3. Built(Rv!Bits(rs2, 5), 5) /\ Holds(Rv!Bits(rs2, 5), 0, 5, rs2)
    BY BitsHold
  <2>4. Built(Rv!Bits(rs1, 5), 5) /\ Holds(Rv!Bits(rs1, 5), 0, 5, rs1)
    BY BitsHold
  <2>5. Built(Rv!Bits(f3, 3), 3) /\ Holds(Rv!Bits(f3, 3), 0, 3, f3)
    BY BitsHold
  <2>6. Built(Rv!Slice(imm, 13, 4, 1), 4) /\ Holds(Rv!Slice(imm, 13, 4, 1), 0, 4, imm \div 2^1)
    BY SliceHolds
  <2>7. Built(Rv!Slice(imm, 13, 11, 11), 1) /\ Holds(Rv!Slice(imm, 13, 11, 11), 0, 1, imm \div 2^11)
    BY SliceHolds
  <2>8. Built(Rv!Bits(99, 7), 7) /\ Holds(Rv!Bits(99, 7), 0, 7, 99)
    BY BitsHold
  <2>9. QED
    BY <2>1, <2>2, <2>3, <2>4, <2>5, <2>6, <2>7, <2>8
<1> HIDE DEF w1
<1>2. /\ Built(w2, 7)
      /\ Holds(w2, 0, 1, imm \div 2^12)
      /\ Holds(w2, 1, 6, imm \div 2^5)
  BY <1>1, Extend
<1> HIDE DEF w2
<1>3. /\ Built(w3, 12)
      /\ Holds(w3, 0, 1, imm \div 2^12)
      /\ Holds(w3, 1, 6, imm \div 2^5)
      /\ Holds(w3, 7, 5, rs2)
  BY <1>1, <1>2, Extend
<1> HIDE DEF w3
<1>4. /\ Built(w4, 17)
      /\ Holds(w4, 0, 1, imm \div 2^12)
      /\ Holds(w4, 1, 6, imm \div 2^5)
      /\ Holds(w4, 7, 5, rs2)
      /\ Holds(w4, 12, 5, rs1)
  BY <1>1, <1>3, Extend
<1> HIDE DEF w4
<1>5. /\ Built(w5, 20)
      /\ Holds(w5, 0, 1, imm \div 2^12)
      /\ Holds(w5, 1, 6, imm \div 2^5)
      /\ Holds(w5, 7, 5, rs2)
      /\ Holds(w5, 12, 5, rs1)
      /\ Holds(w5, 17, 3, f3)
  BY <1>1, <1>4, Extend
<1> HIDE DEF w5
<1>6. /\ Built(w6, 24)
      /\ Holds(w6, 0, 1, imm \div 2^12)
      /\ Holds(w6, 1, 6, imm \div 2^5)
      /\ Holds(w6, 7, 5, rs2)
      /\ Holds(w6, 12, 5, rs1)
      /\ Holds(w6, 17, 3, f3)
      /\ Holds(w6, 20, 4, imm \div 2^1)
  BY <1>1, <1>5, Extend
<1> HIDE DEF w6
<1>7. /\ Built(w7, 25)
      /\ Holds(w7, 0, 1, imm \div 2^12)
      /\ Holds(w7, 1, 6, imm \div 2^5)
      /\ Holds(w7, 7, 5, rs2)
      /\ Holds(w7, 12, 5, rs1)
      /\ Holds(w7, 17, 3, f3)
      /\ Holds(w7, 20, 4, imm \div 2^1)
      /\ Holds(w7, 24, 1, imm \div 2^11)
  BY <1>1, <1>6, Extend
<1> HIDE DEF w7
<1>8. /\ Holds(w8, 0, 1, imm \div 2^12)
      /\ Holds(w8, 1, 6, imm \div 2^5)
      /\ Holds(w8, 7, 5, rs2)
      /\ Holds(w8, 12, 5, rs1)
      /\ Holds(w8, 17, 3, f3)
      /\ Holds(w8, 20, 4, imm \div 2^1)
      /\ Holds(w8, 24, 1, imm \div 2^11)
      /\ Holds(w8, 25, 7, 99)
  BY <1>1, <1>7, Extend
<1>9. Rv!BWord(imm, rs2, rs1, f3) = w8
  BY DEF Rv!BWord, w1, w2, w3, w4, w5, w6, w7
<1> HIDE DEF w8
<1>10. QED
  BY <1>8, <1>9

LEMMA UWordHolds ==
  ASSUME NEW imm \in Int, NEW rd \in Int, NEW opcode \in Int
  PROVE  LET w == Rv!UWord(imm, rd, opcode)
         IN /\ Holds(w, 0, 20, imm)
            /\ Holds(w, 20, 5, rd)
            /\ Holds(w, 25, 7, opcode)
<1> DEFINE w1 == Rv!Bits(imm, 20)
           w2 == w1 \o Rv!Bits(rd, 5)
           w3 == w2 \o Rv!Bits(opcode, 7)
<1>1. /\ Built(w1, 20) /\ Holds(w1, 0, 20, imm)
      /\ Built(Rv!Bits(rd, 5), 5) /\ Holds(Rv!Bits(rd, 5), 0, 5, rd)
      /\ Built(Rv!Bits(opcode, 7), 7) /\ Holds(Rv!Bits(opcode, 7), 0, 7, opcode)
  BY BitsHold
<1> HIDE DEF w1
<1>2. /\ Built(w2, 25)
      /\ Holds(w2, 0, 20, imm)
      /\ Holds(w2, 20, 5, rd)
  BY <1>1, Extend
<1> HIDE DEF w2
<1>3. /\ Holds(w3, 0, 20, imm)
      /\ Holds(w3, 20, 5, rd)
      /\ Holds(w3, 25, 7, opcode)
  BY <1>1, <1>2, Extend
<1>4. Rv!UWord(imm, rd, opcode) = w3
  BY DEF Rv!UWord, w1, w2
<1> HIDE DEF w3
<1>5. QED
  BY <1>3, <1>4

LEMMA JWordHolds ==
  ASSUME NEW imm \in Int, NEW rd \in Int
  PROVE  LET w == Rv!JWord(imm, rd)
         IN /\ Holds(w, 0, 1, imm \div 2^20)
            /\ Holds(w, 1, 10, imm \div 2^1)
            /\ Holds(w, 11, 1, imm \div 2^11)
            /\ Holds(w, 12, 8, imm \div 2^12)
            /\ Holds(w, 20, 5, rd)
            /\ Holds(w, 25, 7, 111)
<1> DEFINE w1 == Rv!Slice(imm, 21, 20, 20)
           w2 == w1 \o Rv!Slice(imm, 21, 10, 1)
           w3 == w2 \o Rv!Slice(imm, 21, 11, 11)
           w4 == w3 \o Rv!Slice(imm, 21, 19, 12)
           w5 == w4 \o Rv!Bits(rd, 5)
           w6 == w5 \o Rv!Bits(111, 7)
<1>1. /\ Built(w1, 1) /\ Holds(w1, 0, 1, imm \div 2^20)
      /\ Built(Rv!Slice(imm, 21, 10, 1), 10) /\ Holds(Rv!Slice(imm, 21, 10, 1), 0, 10, imm \div 2^1)
      /\ Built(Rv!Slice(imm, 21, 11, 11), 1) /\ Holds(Rv!Slice(imm, 21, 11, 11), 0, 1, imm \div 2^11)
      /\ Built(Rv!Slice(imm, 21, 19, 12), 8) /\ Holds(Rv!Slice(imm, 21, 19, 12), 0, 8, imm \div 2^12)
      /\ Built(Rv!Bits(rd, 5), 5) /\ Holds(Rv!Bits(rd, 5), 0, 5, rd)
      /\ Built(Rv!Bits(111, 7), 7) /\ Holds(Rv!Bits(111, 7), 0, 7, 111)
  <2>1. Built(Rv!Slice(imm, 21, 20, 20), 1) /\ Holds(Rv!Slice(imm, 21, 20, 20), 0, 1, imm \div 2^20)
    BY SliceHolds
  <2>2. Built(Rv!Slice(imm, 21, 10, 1), 10) /\ Holds(Rv!Slice(imm, 21, 10, 1), 0, 10, imm \div 2^1)
    BY SliceHolds
  <2>3. Built(Rv!Slice(imm, 21, 11, 11), 1) /\ Holds(Rv!Slice(imm, 21, 11, 11), 0, 1, imm \div 2^11)
    BY SliceHolds
  <2>4. Built(Rv!Slice(imm, 21, 19, 12), 8) /\ Holds(Rv!Slice(imm, 21, 19, 12), 0, 8, imm \div 2^12)
    BY SliceHolds
  <2>5. Built(Rv!Bits(rd, 5), 5) /\ Holds(Rv!Bits(rd, 5), 0, 5, rd)
    BY BitsHold
  <2>6. Built(Rv!Bits(111, 7), 7) /\ Holds(Rv!Bits(111, 7), 0, 7, 111)
    BY BitsHold
  <2>7. QED
    BY <2>1, <2>2, <2>3, <2>4, <2>5, <2>6
<1> HIDE DEF w1
<1>2. /\ Built(w2, 11)
      /\ Holds(w2, 0, 1, imm \div 2^20)
      /\ Holds(w2, 1, 10, imm \div 2^1)
  BY <1>1, Extend
<1> HIDE DEF w2
<1>3. /\ Built(w3, 12)
      /\ Holds(w3, 0, 1, imm \div 2^20)
      /\ Holds(w3, 1, 10, imm \div 2^1)
      /\ Holds(w3, 11, 1, imm \div 2^11)
  BY <1>1, <1>2, Extend
<1> HIDE DEF w3
<1>4. /\ Built(w4, 20)
      /\ Holds(w4, 0, 1, imm \div 2^20)
      /\ Holds(w4, 1, 10, imm \div 2^1)
      /\ Holds(w4, 11, 1, imm \div 2^11)
      /\ Holds(w4, 12, 8, imm \div 2^12)
  BY <1>1, <1>3, Extend
<1> HIDE DEF w4
<1>5. /\ Built(w5, 25)
      /\ Holds(w5, 0, 1, imm \div 2^20)
      /\ Holds(w5, 1, 10, imm \div 2^1)
      /\ Holds(w5, 11, 1, imm \div 2^11)
      /\ Holds(w5, 12, 8, imm \div 2^12)
      /\ Holds(w5, 20, 5, rd)
  BY <1>1, <1>4, Extend
<1> HIDE DEF w5
<1>6. /\ Holds(w6, 0, 1, imm \div 2^20)
      /\ Holds(w6, 1, 10, imm \div 2^1)
      /\ Holds(w6, 11, 1, imm \div 2^11)
      /\ Holds(w6, 12, 8, imm \div 2^12)
      /\ Holds(w6, 20, 5, rd)
      /\ Holds(w6, 25, 7, 111)
  BY <1>1, <1>5, Extend
<1>7. Rv!JWord(imm, rd) = w6
  BY DEF Rv!JWord, w1, w2, w3, w4, w5
<1> HIDE DEF w6
<1>8. QED
  BY <1>6, <1>7

(* Bits p to q, l of them, follow the first a of the m bits after the s    *)
(* first; they are worth d, and have b values.                             *)
Cut(s, m, a, l, p, q, d, b) ==
  /\ s \in Nat /\ m \in 1 .. 20 /\ a \in Nat /\ l \in 1 .. 20 /\ a + l <= m
  /\ p = s + a /\ q = p + l - 1
  /\ d = 2^(m - a - l) /\ b = 2^l

LEMMA CutOf ==
  ASSUME NEW word, NEW s, NEW m, NEW a, NEW l, NEW p, NEW q, NEW d, NEW b, NEW v \in Int,
         Cut(s, m, a, l, p, q, d, b), Holds(word, s, m, v)
  PROVE  GetBit(word, p, q) = (v \div d) % b
<1>1. /\ s \in Nat /\ m \in 1 .. 20 /\ a \in Nat /\ l \in 1 .. 20 /\ a + l <= m
      /\ p = s + a /\ q = p + l - 1
      /\ d = 2^(m - a - l) /\ b = 2^l
  BY DEF Cut
<1>2. Holds(word, s + a, l, v \div 2^(m - a - l))
  BY <1>1, PartOf
<1>3. p \in Nat /\ d \in Nat \ {0}
  <2>1. m - a - l \in 0 .. 20 /\ p \in Nat
    BY <1>1
  <2>2. 2^(m - a - l) \in Nat \ {0}
    BY <2>1, SmallPowers
  <2>3. QED
    BY <1>1, <2>1, <2>2
<1>4. v \div d \in Int
  BY <1>3
<1>5. Holds(word, p, l, v \div d)
  BY <1>1, <1>2
<1>6. GetBit(word, p, q) = (v \div d) % 2^l
  <2> DEFINE u == v \div d
  <2> HIDE DEF u
  <2>1. u \in Int /\ Holds(word, p, l, u)
    BY <1>4, <1>5 DEF u
  <2>2. p \in Nat /\ l \in 1 .. 20 /\ q = p + l - 1
    BY <1>1, <1>3
  <2>3. GetBit(word, p, q) = u % 2^l
    BY <2>1, <2>2, GetBitOf
  <2>4. QED
    BY <2>3 DEF u
<1>7. QED
  BY <1>1, <1>6

(* The fields that most formats have in the same place.                    *)
LEMMA OpcodeOf ==
  ASSUME NEW w, NEW opcode \in 0 .. 127, Holds(w, 25, 7, opcode)
  PROVE  Opcode(w) = opcode
<1>1. Cut(25, 7, 0, 7, 25, 31, 1, 128)
  BY DEF Cut
<1>2. opcode \in Int /\ (opcode \div 1) % 128 = opcode
  OBVIOUS
<1>3. GetBit(w, 25, 31) = (opcode \div 1) % 128
  BY <1>1, <1>2, CutOf
<1>4. QED
  BY <1>2, <1>3 DEF Opcode

LEMMA Fuc3Of ==
  ASSUME NEW w, NEW f3 \in 0 .. 7, Holds(w, 17, 3, f3)
  PROVE  Fuc3(w) = f3
<1>1. Cut(17, 3, 0, 3, 17, 19, 1, 8)
  BY DEF Cut
<1>2. f3 \in Int /\ (f3 \div 1) % 8 = f3
  OBVIOUS
<1>3. GetBit(w, 17, 19) = (f3 \div 1) % 8
  BY <1>1, <1>2, CutOf
<1>4. QED
  BY <1>2, <1>3 DEF Fuc3

LEMMA RdOf ==
  ASSUME NEW w, NEW rd \in 0 .. 31, Holds(w, 20, 5, rd)
  PROVE  Rd(w) = rd
<1>1. Cut(20, 5, 0, 5, 20, 24, 1, 32)
  BY DEF Cut
<1>2. rd \in Int /\ (rd \div 1) % 32 = rd
  OBVIOUS
<1>3. GetBit(w, 20, 24) = (rd \div 1) % 32
  BY <1>1, <1>2, CutOf
<1>4. QED
  BY <1>2, <1>3 DEF Rd

LEMMA Rs1Of ==
  ASSUME NEW w, NEW rs1 \in 0 .. 31, Holds(w, 12, 5, rs1)
  PROVE  Rs1(w) = rs1
<1>1. Cut(12, 5, 0, 5, 12, 16, 1, 32)
  BY DEF Cut
<1>2. rs1 \in Int /\ (rs1 \div 1) % 32 = rs1
  OBVIOUS
<1>3. GetBit(w, 12, 16) = (rs1 \div 1) % 32
  BY <1>1, <1>2, CutOf
<1>4. QED
  BY <1>2, <1>3 DEF Rs1

LEMMA Rs2Of ==
  ASSUME NEW w, NEW rs2 \in 0 .. 31, Holds(w, 7, 5, rs2)
  PROVE  Rs2(w) = rs2
<1>1. Cut(7, 5, 0, 5, 7, 11, 1, 32)
  BY DEF Cut
<1>2. rs2 \in Int /\ (rs2 \div 1) % 32 = rs2
  OBVIOUS
<1>3. GetBit(w, 7, 11) = (rs2 \div 1) % 32
  BY <1>1, <1>2, CutOf
<1>4. QED
  BY <1>2, <1>3 DEF Rs2

(* What the functions of module Decode take out of the words of each form. *)
HasR(w, f7, rs2, rs1, f3, rd, opcode) ==
  /\ Opcode(w) = opcode /\ Fuc3(w) = f3 /\ Fuc7(w) = f7
  /\ Rd(w) = rd /\ Rs1(w) = rs1 /\ Rs2(w) = rs2
  /\ GetBit(w, 0, 5) = f7 \div 2

HasI(w, imm, rs1, f3, rd, opcode) ==
  /\ Opcode(w) = opcode /\ Fuc3(w) = f3 /\ Rd(w) = rd /\ Rs1(w) = rs1
  /\ GetBit(w, 0, 11) = imm % 2^12
  /\ Shamt(w) = imm % 64
  /\ GetBit(w, 7, 11) = imm % 32
  /\ Fuc7(w) = (imm \div 32) % 128
  /\ GetBit(w, 0, 5) = (imm \div 64) % 64

HasS(w, imm, rs2, rs1, f3) ==
  /\ Opcode(w) = 35 /\ Fuc3(w) = f3 /\ Rs1(w) = rs1 /\ Rs2(w) = rs2
  /\ StoreImm(w) = imm

HasB(w, imm, rs2, rs1, f3) ==
  /\ Opcode(w) = 99 /\ Fuc3(w) = f3 /\ Rs1(w) = rs1 /\ Rs2(w) = rs2
  /\ BranchDistance(w) = imm

HasU(w, imm, rd, opcode) == Opcode(w) = opcode /\ Rd(w) = rd /\ Imm20(w) = imm

HasJ(w, imm, rd) == Opcode(w) = 111 /\ Rd(w) = rd /\ JumpDistance(w) = imm

LEMMA RFields ==
  ASSUME NEW f7 \in 0 .. 127, NEW rs2 \in 0 .. 31, NEW rs1 \in 0 .. 31, NEW f3 \in 0 .. 7,
         NEW rd \in 0 .. 31, NEW opcode \in 0 .. 127
  PROVE  HasR(Rv!RWord(f7, rs2, rs1, f3, rd, opcode), f7, rs2, rs1, f3, rd, opcode)
<1> DEFINE w == Rv!RWord(f7, rs2, rs1, f3, rd, opcode)
<1>1. /\ Holds(w, 0, 7, f7) /\ Holds(w, 7, 5, rs2) /\ Holds(w, 12, 5, rs1)
      /\ Holds(w, 17, 3, f3) /\ Holds(w, 20, 5, rd) /\ Holds(w, 25, 7, opcode)
  <2>1. /\ f7 \in Int /\ rs2 \in Int /\ rs1 \in Int /\ f3 \in Int /\ rd \in Int
        /\ opcode \in Int
    OBVIOUS
  <2>2. QED
    BY <2>1, RWordHolds, Zenon
<1> HIDE DEF w
<1>2. Opcode(w) = opcode /\ Fuc3(w) = f3 /\ Rd(w) = rd /\ Rs1(w) = rs1 /\ Rs2(w) = rs2
  BY <1>1, OpcodeOf, Fuc3Of, RdOf, Rs1Of, Rs2Of, Zenon
<1>3. /\ Cut(0, 7, 0, 7, 0, 6, 1, 128)
      /\ Cut(0, 7, 0, 6, 0, 5, 2, 64)
  BY DEF Cut
<1>4. f7 \in Int /\ (f7 \div 1) % 128 = f7 /\ (f7 \div 2) % 64 = f7 \div 2
  OBVIOUS
<1>5. GetBit(w, 0, 6) = (f7 \div 1) % 128
  BY <1>1, <1>3, <1>4, CutOf
<1>6. GetBit(w, 0, 5) = (f7 \div 2) % 64
  BY <1>1, <1>3, <1>4, CutOf
<1>7. QED
  BY <1>2, <1>4, <1>5, <1>6 DEF w, HasR, Fuc7

LEMMA IFields ==
  ASSUME NEW imm \in Int, NEW rs1 \in 0 .. 31, NEW f3 \in 0 .. 7, NEW rd \in 0 .. 31,
         NEW opcode \in 0 .. 127
  PROVE  HasI(Rv!IWord(imm, rs1, f3, rd, opcode), imm, rs1, f3, rd, opcode)
<1> DEFINE w == Rv!IWord(imm, rs1, f3, rd, opcode)
<1>1. /\ Holds(w, 0, 12, imm) /\ Holds(w, 12, 5, rs1)
      /\ Holds(w, 17, 3, f3) /\ Holds(w, 20, 5, rd) /\ Holds(w, 25, 7, opcode)
  <2>1. rs1 \in Int /\ f3 \in Int /\ rd \in Int /\ opcode \in Int
    OBVIOUS
  <2>2. QED
    BY <2>1, IWordHolds, Zenon
<1> HIDE DEF w
<1>2. Opcode(w) = opcode /\ Fuc3(w) = f3 /\ Rd(w) = rd /\ Rs1(w) = rs1
  BY <1>1, OpcodeOf, Fuc3Of, RdOf, Rs1Of, Zenon
<1>3. /\ Cut(0, 12, 0, 12, 0, 11, 1, 2^12)
      /\ Cut(0, 12, 6, 6, 6, 11, 1, 64)
      /\ Cut(0, 12, 7, 5, 7, 11, 1, 32)
      /\ Cut(0, 12, 0, 7, 0, 6, 32, 128)
      /\ Cut(0, 12, 0, 6, 0, 5, 64, 64)
  BY DEF Cut
<1>4. imm \div 1 = imm
  OBVIOUS
<1>5. /\ GetBit(w, 0, 11) = (imm \div 1) % 2^12
      /\ GetBit(w, 6, 11) = (imm \div 1) % 64
      /\ GetBit(w, 7, 11) = (imm \div 1) % 32
      /\ GetBit(w, 0, 6) = (imm \div 32) % 128
      /\ GetBit(w, 0, 5) = (imm \div 64) % 64
  BY <1>1, <1>3, CutOf
<1>6. QED
  BY <1>2, <1>4, <1>5, Zenon DEF w, HasI, Shamt, Fuc7

(* The sign of an immediate is extended from its highest bit.              *)
LEMMA ExtSignOf ==
  ASSUME NEW n, NEW h \in Nat \ {0}, 2^(n - 1) = h, 2^n = 2 * h,
         NEW imm \in Int, -h <= imm, imm < h
  PROVE  ExtSign(imm % (2 * h), n) = imm
<1> DEFINE d == 2 * h
<1>1. d \in Nat \ {0} /\ d = 2 * h
  OBVIOUS
<1> HIDE DEF d
<1>2. imm % d = IF imm >= 0 THEN imm ELSE imm + d
  <2>1. CASE imm >= 0
    <3>1. imm = d * 0 + imm /\ imm \in 0 .. (d - 1)
      BY <1>1, <2>1
    <3>2. QED
      BY <1>1, <2>1, <3>1, IntDivUnique
  <2>2. CASE ~ (imm >= 0)
    <3>1. imm = d * (-1) + (imm + d) /\ imm + d \in 0 .. (d - 1)
      BY <1>1, <2>2
    <3> DEFINE r == imm + d
    <3>2. imm = d * (-1) + r /\ r \in 0 .. (d - 1) /\ -1 \in Int
      BY <3>1
    <3> HIDE DEF r
    <3>3. imm % d = r
      BY <1>1, <3>2, IntDivUnique
    <3>4. imm % d = imm + d
      BY <3>3 DEF r
    <3>5. QED
      BY <2>2, <3>4
  <2>3. QED
    BY <2>1, <2>2
<1> DEFINE u == imm % d
<1>3. u \in Int /\ (u \div h = 0 <=> u < h /\ u >= 0) /\ u >= 0
  <2>1. u \in Int
    BY <1>1
  <2> HIDE DEF u
  <2>2. u = h * (u \div h) + (u % h) /\ u \div h \in Int /\ u % h \in 0 .. (h - 1)
    BY <2>1, IntDivMod
  <2> DEFINE q == u \div h
             r == u % h
  <2> HIDE DEF q, r
  <2>3. u = h * q + r /\ q \in Int /\ r \in 0 .. (h - 1)
    BY <2>2 DEF q, r
  <2>4. u \in 0 .. (h - 1) => q = 0
    <3>1. u = h * 0 + u
      BY <2>1
    <3>2. QED
      BY <2>1, <3>1, IntDivUnique DEF q
  <2>5. q = 0 => u < h /\ u >= 0
    BY <2>3
  <2>6. u >= 0
    BY <1>1, <1>2 DEF u
  <2>7. QED
    BY <2>1, <2>4, <2>5, <2>6 DEF q
<1>4. ExtSign(u, n) = IF u \div h = 0 THEN u ELSE u - d
  BY <1>1 DEF ExtSign
<1>5. u = IF imm >= 0 THEN imm ELSE imm + d
  BY <1>2
<1> HIDE DEF u
<1>6. ExtSign(u, n) = imm
  BY <1>1, <1>3, <1>4, <1>5
<1>7. QED
  BY <1>6 DEF u, d

(* The immediates that n bits can hold.                                    *)
Fits(imm, n) == imm \in Int /\ -2^(n - 1) <= imm /\ imm < 2^(n - 1)

LEMMA ImmOf ==
  ASSUME NEW n \in 2 .. 20, NEW imm, Fits(imm, n)
  PROVE  ExtSign(imm % 2^n, n) = imm
<1> DEFINE h == 2^(n - 1)
<1>1. n - 1 \in 0 .. 20 /\ (n - 1) + 1 = n
  OBVIOUS
<1>2. h \in Nat \ {0} /\ 2^n = 2 * h
  BY <1>1, SmallPowers
<1>3. imm \in Int /\ -h <= imm /\ imm < h /\ 2^(n - 1) = h
  BY DEF Fits
<1> HIDE DEF h
<1>4. ExtSign(imm % (2 * h), n) = imm
  BY <1>2, <1>3, ExtSignOf
<1>5. QED
  BY <1>2, <1>4

LEMMA UFields ==
  ASSUME NEW imm, Fits(imm, 20), NEW rd \in 0 .. 31, NEW opcode \in 0 .. 127
  PROVE  HasU(Rv!UWord(imm, rd, opcode), imm, rd, opcode)
<1> DEFINE w == Rv!UWord(imm, rd, opcode)
<1>1. imm \in Int /\ rd \in Int /\ opcode \in Int
  BY DEF Fits
<1>2. Holds(w, 0, 20, imm) /\ Holds(w, 20, 5, rd) /\ Holds(w, 25, 7, opcode)
  BY <1>1, UWordHolds, Zenon
<1> HIDE DEF w
<1>3. Opcode(w) = opcode /\ Rd(w) = rd
  BY <1>2, OpcodeOf, RdOf, Zenon
<1>4. Cut(0, 20, 0, 20, 0, 19, 1, 2^20)
  BY DEF Cut
<1>5. GetBit(w, 0, 19) = (imm \div 1) % 2^20
  BY <1>1, <1>2, <1>4, CutOf
<1>6. imm \div 1 = imm /\ 20 \in 2 .. 20
  BY <1>1
<1>7. ExtSign(imm % 2^20, 20) = imm
  BY <1>6, ImmOf, Zenon
<1>8. QED
  BY <1>3, <1>5, <1>6, <1>7, Zenon DEF w, HasU, Imm20

LEMMA SFields ==
  ASSUME NEW imm, Fits(imm, 12), NEW rs2 \in 0 .. 31, NEW rs1 \in 0 .. 31, NEW f3 \in 0 .. 7
  PROVE  HasS(Rv!SWord(imm, rs2, rs1, f3), imm, rs2, rs1, f3)
<1> DEFINE w == Rv!SWord(imm, rs2, rs1, f3)
           x == imm \div 2^5
           y == imm \div 2^0
<1>1. /\ imm \in Int /\ rs2 \in Int /\ rs1 \in Int /\ f3 \in Int
      /\ x \in Int /\ x = imm \div 32 /\ y = imm /\ 35 \in 0 .. 127
  BY DEF Fits
<1>2. /\ Holds(w, 0, 7, x) /\ Holds(w, 7, 5, rs2) /\ Holds(w, 12, 5, rs1)
      /\ Holds(w, 17, 3, f3) /\ Holds(w, 20, 5, y) /\ Holds(w, 25, 7, 35)
  BY <1>1, SWordHolds
<1> HIDE DEF w, x, y
<1>3. Opcode(w) = 35 /\ Fuc3(w) = f3 /\ Rs1(w) = rs1 /\ Rs2(w) = rs2
  BY <1>1, <1>2, OpcodeOf, Fuc3Of, Rs1Of, Rs2Of
<1>4. Cut(0, 7, 0, 7, 0, 6, 1, 128) /\ Cut(20, 5, 0, 5, 20, 24, 1, 32)
  BY DEF Cut
<1>5. /\ GetBit(w, 0, 6) = (x \div 1) % 128
      /\ GetBit(w, 20, 24) = (y \div 1) % 32
  BY <1>1, <1>2, <1>4, CutOf
<1>6. 32 * GetBit(w, 0, 6) + GetBit(w, 20, 24) = imm % 2^12
  <2>1. x \div 1 = x /\ y \div 1 = y
    BY <1>1
  <2>2. 32 * ((imm \div 32) % 128) + (imm % 32) = imm % 2^12
    BY <1>1
  <2>3. QED
    BY <1>1, <1>5, <2>1, <2>2, Zenon
<1>7. ExtSign(imm % 2^12, 12) = imm
  <2>1. 12 \in 2 .. 20
    OBVIOUS
  <2>2. QED
    BY <2>1, ImmOf, Zenon
<1>8. QED
  BY <1>3, <1>6, <1>7, Zenon DEF w, HasS, StoreImm

LEMMA BFields ==
  ASSUME NEW imm, Fits(imm, 11), NEW rs2 \in 0 .. 31, NEW rs1 \in 0 .. 31, NEW f3 \in 0 .. 7
  PROVE  HasB(Rv!BWord(4 * imm, rs2, rs1, f3), imm, rs2, rs1, f3)
<1> DEFINE w == Rv!BWord(4 * imm, rs2, rs1, f3)
           x == (4 * imm) \div 2^12
           y == (4 * imm) \div 2^5
           z == (4 * imm) \div 2^1
           t == (4 * imm) \div 2^11
<1>1. /\ imm \in Int /\ 4 * imm \in Int /\ rs2 \in Int /\ rs1 \in Int /\ f3 \in Int
      /\ 99 \in 0 .. 127
  BY DEF Fits
<1>2. /\ Holds(w, 0, 1, x) /\ Holds(w, 1, 6, y) /\ Holds(w, 7, 5, rs2)
      /\ Holds(w, 12, 5, rs1) /\ Holds(w, 17, 3, f3) /\ Holds(w, 20, 4, z)
      /\ Holds(w, 24, 1, t) /\ Holds(w, 25, 7, 99)
  BY <1>1, BWordHolds
<1>3. /\ x \in Int /\ x = imm \div 1024
      /\ y \in Int /\ y = imm \div 8
      /\ z \in Int /\ z = 2 * imm
      /\ t \in Int /\ t = imm \div 512
  BY <1>1
<1> HIDE DEF w, x, y, z, t
<1>4. Opcode(w) = 99 /\ Fuc3(w) = f3 /\ Rs1(w) = rs1 /\ Rs2(w) = rs2
  BY <1>1, <1>2, OpcodeOf, Fuc3Of, Rs1Of, Rs2Of
<1>5. /\ Cut(0, 1, 0, 1, 0, 0, 1, 2) /\ Cut(1, 6, 0, 6, 1, 6, 1, 64)
      /\ Cut(20, 4, 0, 4, 20, 23, 1, 16) /\ Cut(24, 1, 0, 1, 24, 24, 1, 2)
  BY DEF Cut
<1>6. /\ GetBit(w, 0, 0) = (x \div 1) % 2
      /\ GetBit(w, 1, 6) = (y \div 1) % 64
      /\ GetBit(w, 20, 23) = (z \div 1) % 16
      /\ GetBit(w, 24, 24) = (t \div 1) % 2
  BY <1>2, <1>3, <1>5, CutOf
<1> DEFINE sum == 2048 * GetBit(w, 0, 0) + 1024 * GetBit(w, 24, 24)
                  + 16 * GetBit(w, 1, 6) + GetBit(w, 20, 23)
<1>7. sum \div 2 = imm % 2^11
  <2>1. /\ GetBit(w, 0, 0) = (imm \div 1024) % 2
        /\ GetBit(w, 1, 6) = (imm \div 8) % 64
        /\ GetBit(w, 20, 23) = 2 * (imm % 8)
        /\ GetBit(w, 24, 24) = (imm \div 512) % 2
    BY <1>1, <1>3, <1>6
  <2>2. 8 * ((imm \div 8) % 64) + (imm % 8) = imm % 512
    BY <1>1
  <2>3. 512 * ((imm \div 512) % 2) + (imm % 512) = imm % 1024
    BY <1>1
  <2>4. 1024 * ((imm \div 1024) % 2) + (imm % 1024) = imm % 2^11
    BY <1>1
  <2>5. imm % 2^11 \in Int
    BY <1>1
  <2>6. sum = 2 * (imm % 2^11)
    BY <1>1, <2>1, <2>2, <2>3, <2>4
  <2> HIDE DEF sum
  <2>7. QED
    BY <2>5, <2>6
<1> HIDE DEF sum
<1>8. ExtSign(imm % 2^11, 11) = imm
  <2>1. 11 \in 2 .. 20
    OBVIOUS
  <2>2. QED
    BY <2>1, ImmOf, Zenon
<1>9. BranchDistance(w) = imm
  <2>1. BranchDistance(w) = ExtSign(sum \div 2, 11)
    BY DEF sum, BranchDistance
  <2>2. QED
    BY <1>7, <1>8, <2>1, Zenon
<1>10. QED
  BY <1>4, <1>9, Zenon DEF w, HasB

LEMMA JFields ==
  ASSUME NEW imm, Fits(imm, 19), NEW rd \in 0 .. 31
  PROVE  HasJ(Rv!JWord(4 * imm, rd), imm, rd)
<1> DEFINE w == Rv!JWord(4 * imm, rd)
           x == (4 * imm) \div 2^20
           y == (4 * imm) \div 2^1
           z == (4 * imm) \div 2^11
           t == (4 * imm) \div 2^12
<1>1. imm \in Int /\ 4 * imm \in Int /\ rd \in Int /\ 111 \in 0 .. 127
  BY DEF Fits
<1>2. /\ Holds(w, 0, 1, x) /\ Holds(w, 1, 10, y) /\ Holds(w, 11, 1, z)
      /\ Holds(w, 12, 8, t) /\ Holds(w, 20, 5, rd) /\ Holds(w, 25, 7, 111)
  BY <1>1, JWordHolds
<1>3. /\ x \in Int /\ x = imm \div 2^18
      /\ y \in Int /\ y = 2 * imm
      /\ z \in Int /\ z = imm \div 512
      /\ t \in Int /\ t = imm \div 1024
  BY <1>1
<1> HIDE DEF w, x, y, z, t
<1>4. Opcode(w) = 111 /\ Rd(w) = rd
  BY <1>1, <1>2, OpcodeOf, RdOf
<1>5. /\ Cut(0, 1, 0, 1, 0, 0, 1, 2) /\ Cut(1, 10, 0, 10, 1, 10, 1, 1024)
      /\ Cut(11, 1, 0, 1, 11, 11, 1, 2) /\ Cut(12, 8, 0, 8, 12, 19, 1, 256)
  BY DEF Cut
<1>6. /\ GetBit(w, 0, 0) = (x \div 1) % 2
      /\ GetBit(w, 1, 10) = (y \div 1) % 1024
      /\ GetBit(w, 11, 11) = (z \div 1) % 2
      /\ GetBit(w, 12, 19) = (t \div 1) % 256
  BY <1>2, <1>3, <1>5, CutOf
<1> DEFINE sum == 2^19 * GetBit(w, 0, 0) + 2048 * GetBit(w, 12, 19)
                  + 1024 * GetBit(w, 11, 11) + GetBit(w, 1, 10)
<1>7. sum \div 2 = imm % 2^19
  <2>1. /\ GetBit(w, 0, 0) = (imm \div 2^18) % 2
        /\ GetBit(w, 1, 10) = 2 * (imm % 512)
        /\ GetBit(w, 11, 11) = (imm \div 512) % 2
        /\ GetBit(w, 12, 19) = (imm \div 1024) % 256
    BY <1>1, <1>3, <1>6
  <2>2. 512 * ((imm \div 512) % 2) + (imm % 512) = imm % 1024
    BY <1>1
  <2>3. 1024 * ((imm \div 1024) % 256) + (imm % 1024) = imm % 2^18
    BY <1>1
  <2>4. 2^18 * ((imm \div 2^18) % 2) + (imm % 2^18) = imm % 2^19
    BY <1>1
  <2>5. imm % 2^19 \in Int
    BY <1>1
  <2>6. sum = 2 * (imm % 2^19)
    BY <1>1, <2>1, <2>2, <2>3, <2>4
  <2> HIDE DEF sum
  <2>7. QED
    BY <2>5, <2>6
<1> HIDE DEF sum
<1>8. ExtSign(imm % 2^19, 19) = imm
  <2>1. 19 \in 2 .. 20
    OBVIOUS
  <2>2. QED
    BY <2>1, ImmOf, Zenon
<1>9. JumpDistance(w) = imm
  <2>1. JumpDistance(w) = ExtSign(sum \div 2, 19)
    BY DEF sum, JumpDistance
  <2>2. QED
    BY <1>7, <1>8, <2>1, Zenon
<1>10. QED
  BY <1>4, <1>9, Zenon DEF w, HasJ

-----------------------------------------------------------------------------
(* The tables.                                                             *)

LEMMA LookupOf ==
  ASSUME NEW table, NEW entry \in table,
         \A e \in table : e[1] = entry[1] => e[2] = entry[2]
  PROVE  Lookup(table, entry[1]) = entry[2]
<1> DEFINE c == CHOOSE e \in table : e[1] = entry[1]
<1>1. \E e \in table : e[1] = entry[1]
  OBVIOUS
<1>2. c \in table /\ c[1] = entry[1]
  BY <1>1
<1>3. Lookup(table, entry[1]) = c[2]
  BY <1>1 DEF Lookup
<1> HIDE DEF c
<1>4. QED
  BY <1>2, <1>3

LEMMA LookupFinds ==
  ASSUME NEW table, NEW key, Lookup(table, key) # Illegal
  PROVE  \E e \in table : e[1] = key
BY DEF Lookup

LEMMA LookupMisses ==
  ASSUME NEW table, NEW key, \A e \in table : e[1] # key
  PROVE  Lookup(table, key) = Illegal
BY DEF Lookup

(* No table has a key twice.                                               *)
OneEach(table) == \A e, f \in table : e[1] = f[1] => e[2] = f[2]

LEMMA LookupEntry ==
  ASSUME NEW table, NEW key, NEW op, <<key, op>> \in table, OneEach(table)
  PROVE  Lookup(table, key) = op
<1> DEFINE entry == <<key, op>>
<1>1. entry \in table /\ entry[1] = key /\ entry[2] = op
  OBVIOUS
<1> HIDE DEF entry
<1>2. \A e \in table : e[1] = entry[1] => e[2] = entry[2]
  BY <1>1, Zenon DEF OneEach
<1>3. Lookup(table, entry[1]) = entry[2]
  BY <1>1, <1>2, LookupOf, Zenon
<1>4. QED
  BY <1>1, <1>3, Zenon

LEMMA TablesAreMaps ==
  /\ OneEach(RegisterTable) /\ OneEach(RegisterWordTable) /\ OneEach(ImmediateTable)
  /\ OneEach(LoadTable) /\ OneEach(StoreTable) /\ OneEach(BranchTable)
<1>1. OneEach(RegisterTable)
  BY DEF OneEach, RegisterTable
<1>2. OneEach(RegisterWordTable)
  BY DEF OneEach, RegisterWordTable
<1>3. OneEach(ImmediateTable)
  BY DEF OneEach, ImmediateTable
<1>4. OneEach(LoadTable)
  BY DEF OneEach, LoadTable
<1>5. OneEach(StoreTable)
  BY DEF OneEach, StoreTable
<1>6. OneEach(BranchTable)
  BY DEF OneEach, BranchTable
<1>7. QED
  BY <1>1, <1>2, <1>3, <1>4, <1>5, <1>6

(* The tables on registers have the instructions of the manual, but divuw. *)
LEMMA RegisterOpsFound ==
  ASSUME NEW o \in Rv!RegisterOps
  PROVE  /\ o[2] \in {51, 59} /\ o[3] \in 0 .. 7 /\ o[4] \in 0 .. 127 /\ o[1] # Illegal
         /\ o[2] = 51 => <<16 * o[4] + o[3], o[1]>> \in RegisterTable
         /\ o[2] = 59 /\ o[1] # "divuw" => <<16 * o[4] + o[3], o[1]>> \in RegisterWordTable
         /\ o[1] = "divuw" => o[2] = 59 /\ o[3] = 5 /\ o[4] = 1
<1>1. /\ o[2] \in {51, 59} /\ o[3] \in 0 .. 7 /\ o[4] \in 0 .. 127 /\ o[1] # Illegal
      /\ o[1] = "divuw" => o[2] = 59 /\ o[3] = 5 /\ o[4] = 1
  BY DEF Rv!RegisterOps, Illegal
<1>2. o[2] = 51 => <<16 * o[4] + o[3], o[1]>> \in RegisterTable
  BY DEF Rv!RegisterOps, RegisterTable
<1>3. o[2] = 59 /\ o[1] # "divuw" => <<16 * o[4] + o[3], o[1]>> \in RegisterWordTable
  BY DEF Rv!RegisterOps, RegisterWordTable
<1>4. QED
  BY <1>1, <1>2, <1>3

LEMMA RegisterEntries ==
  /\ \A e \in RegisterTable :
       <<e[2], 51, e[1] % 16, e[1] \div 16>> \in Rv!RegisterOps
  /\ \A e \in RegisterWordTable :
       <<e[2], 59, e[1] % 16, e[1] \div 16>> \in Rv!RegisterOps
<1>1. \A e \in RegisterTable :
        <<e[2], 51, e[1] % 16, e[1] \div 16>> \in Rv!RegisterOps
  BY DEF Rv!RegisterOps, RegisterTable
<1>2. \A e \in RegisterWordTable :
        <<e[2], 59, e[1] % 16, e[1] \div 16>> \in Rv!RegisterOps
  BY DEF Rv!RegisterOps, RegisterWordTable
<1>3. QED
  BY <1>1, <1>2

-----------------------------------------------------------------------------
(* What execute_Decode makes of an opcode.                                 *)

LEMMA DecodeCases ==
  ASSUME NEW w
  PROVE  /\ Opcode(w) \in {51, 59} =>
              Decode(w) = Decoded("alu", RegisterOp(w), Rd(w), Rs1(w), Rs2(w), 0)
         /\ Opcode(w) \in {19, 27} =>
              Decode(w) = Decoded("alui", ImmediateOp(w), Rd(w), Rs1(w), 0, ImmediateOf(w))
         /\ Opcode(w) = 3 =>
              Decode(w) = Decoded("load", Lookup(LoadTable, Fuc3(w)), Rd(w), Rs1(w), 0, Imm12(w))
         /\ Opcode(w) = 35 =>
              Decode(w) = Decoded("store", Lookup(StoreTable, Fuc3(w)), 0, Rs1(w), Rs2(w),
                                  StoreImm(w))
         /\ Opcode(w) = 99 =>
              Decode(w) = Decoded("branch", Lookup(BranchTable, Fuc3(w)), 0, Rs1(w), Rs2(w),
                                  BranchDistance(w))
         /\ Opcode(w) = 111 => Decode(w) = Decoded("jal", "nop", Rd(w), 0, 0, JumpDistance(w))
         /\ Opcode(w) = 103 => Decode(w) = Decoded("jalr", "nop", Rd(w), Rs1(w), 0, Imm12(w))
         /\ Opcode(w) = 23 => Decode(w) = Decoded("auipc", "nop", Rd(w), 0, 0, Imm20(w))
         /\ Opcode(w) = 55 => Decode(w) = Decoded("lui", "nop", Rd(w), 0, 0, Imm20(w))
         /\ Opcode(w) = 115 =>
              Decode(w) = Decoded(SystemKind(w),
                                  IF SystemKind(w) = Illegal THEN Illegal ELSE "nop",
                                  0, 0, 0, 0)
         /\ Opcode(w) \notin {51, 59, 19, 27, 3, 35, 99, 111, 103, 23, 55, 115} =>
              Decode(w) = Decoded(Illegal, Illegal, 0, 0, 0, 0)
<1> DEFINE opcode == Opcode(w)
<1> HIDE DEF opcode
<1>1. QED
  BY DEF Decode, opcode

LEMMA DecodedIs ==
  ASSUME NEW kind, NEW op, NEW rd, NEW rs1, NEW rs2, NEW imm
  PROVE  /\ op = Illegal => Decoded(kind, op, rd, rs1, rs2, imm).kind = Illegal
         /\ op # Illegal =>
              Decoded(kind, op, rd, rs1, rs2, imm) = Rv!Inst(kind, op, rd, rs1, rs2, imm)
BY DEF Decoded, Rv!Inst

-----------------------------------------------------------------------------
(* Words that are no instruction.                                          *)

LEMMA DefinedBy ==
  ASSUME NEW opcode, NEW f3, NEW f7
  PROVE  /\ \A o \in Rv!RegisterOps :
              o[2] = opcode /\ o[3] = f3 /\ o[4] = f7 => Rv!Defined(opcode, f3, f7)
         /\ \A o \in Rv!ImmediateOps :
              o[3] = opcode /\ o[4] = f3 => Rv!Defined(opcode, f3, f7)
         /\ \A o \in Rv!ShiftOps :
              /\ o[2] = opcode /\ o[3] = f3
              /\ o[4] = IF opcode = 19 THEN f7 - (f7 % 2) ELSE f7
              => Rv!Defined(opcode, f3, f7)
         /\ opcode = 35 => \A o \in Rv!StoreOps : o[2] = f3 => Rv!Defined(opcode, f3, f7)
         /\ opcode = 99 => \A o \in Rv!BranchOps : o[2] = f3 => Rv!Defined(opcode, f3, f7)
         /\ opcode \in {23, 55, 111} => Rv!Defined(opcode, f3, f7)
<1>1. ASSUME NEW o \in Rv!RegisterOps, o[2] = opcode, o[3] = f3, o[4] = f7
      PROVE  Rv!Defined(opcode, f3, f7)
  BY <1>1, Zenon DEF Rv!Defined
<1>2. ASSUME NEW o \in Rv!ImmediateOps, o[3] = opcode, o[4] = f3
      PROVE  Rv!Defined(opcode, f3, f7)
  BY <1>2, Zenon DEF Rv!Defined
<1>3. ASSUME NEW o \in Rv!ShiftOps, o[2] = opcode, o[3] = f3,
             o[4] = IF opcode = 19 THEN f7 - (f7 % 2) ELSE f7
      PROVE  Rv!Defined(opcode, f3, f7)
  BY <1>3, Zenon DEF Rv!Defined
<1>4. ASSUME opcode = 35, NEW o \in Rv!StoreOps, o[2] = f3
      PROVE  Rv!Defined(opcode, f3, f7)
  BY <1>4, Zenon DEF Rv!Defined
<1>5. ASSUME opcode = 99, NEW o \in Rv!BranchOps, o[2] = f3
      PROVE  Rv!Defined(opcode, f3, f7)
  BY <1>5, Zenon DEF Rv!Defined
<1>6. ASSUME opcode \in {23, 55, 111} PROVE Rv!Defined(opcode, f3, f7)
  BY <1>6, Zenon DEF Rv!Defined
<1>7. QED
  BY <1>1, <1>2, <1>3, <1>4, <1>5, <1>6

(* The operation that a table on registers has for a word is RISC-V's.     *)
LEMMA RegisterKeys ==
  ASSUME NEW w, NEW f3 \in 0 .. 7, NEW f7 \in 0 .. 127, Fuc3(w) = f3, Fuc7(w) = f7,
         Opcode(w) \in {51, 59}, RegisterOp(w) # Illegal
  PROVE  Rv!Defined(Opcode(w), f3, f7)
<1> DEFINE key == 16 * f7 + f3
           table == IF Opcode(w) = 51 THEN RegisterTable ELSE RegisterWordTable
<1>1. RegisterOp(w) = Lookup(table, key)
  BY DEF RegisterOp
<1>2. key % 16 = f3 /\ key \div 16 = f7
  OBVIOUS
<1> HIDE DEF key, table
<1>3. PICK e \in table : e[1] = key
  BY <1>1, LookupFinds
<1>4. <<e[2], Opcode(w), f3, f7>> \in Rv!RegisterOps
  <2>1. CASE Opcode(w) = 51
    BY <1>2, <1>3, <2>1, RegisterEntries DEF table
  <2>2. CASE Opcode(w) = 59
    BY <1>2, <1>3, <2>2, RegisterEntries DEF table
  <2>3. QED
    BY <2>1, <2>2
<1>5. QED
  BY <1>4, DefinedBy

LEMMA ImmediateKeys ==
  ASSUME NEW w, NEW f3 \in 0 .. 7, NEW f7 \in 0 .. 127, Fuc3(w) = f3, Fuc7(w) = f7,
         GetBit(w, 0, 5) = f7 \div 2, Opcode(w) \in {19, 27}, ImmediateOp(w) # Illegal
  PROVE  Rv!Defined(Opcode(w), f3, f7) \/ (Opcode(w) = 27 /\ f3 = 1)
<1> DEFINE opcode == Opcode(w)
<1>1. opcode \in {19, 27}
  OBVIOUS
<1>2. CASE f3 \in {1, 5} /\ opcode = 19
  <2>1. ImmediateOp(w) = ShiftOp(w)
    BY <1>2 DEF ImmediateOp, IsShift
  <2> DEFINE top == f7 - (f7 % 2)
  <2>2. \/ f3 = 1 /\ f7 \div 2 = 0
        \/ f3 = 5 /\ f7 \div 2 = 0
        \/ f3 = 5 /\ f7 \div 2 = 16
    BY <1>2, <2>1 DEF ShiftOp
  <2>3. top = 2 * (f7 \div 2)
    OBVIOUS
  <2> HIDE DEF top, opcode
  <2>4. /\ <<"sll", 19, 1, 0>> \in Rv!ShiftOps
        /\ <<"srl", 19, 5, 0>> \in Rv!ShiftOps
        /\ <<"sra", 19, 5, 32>> \in Rv!ShiftOps
    BY DEF Rv!ShiftOps
  <2>5. \E o \in Rv!ShiftOps : o[2] = opcode /\ o[3] = f3 /\ o[4] = top
    <3>1. CASE f3 = 1 /\ f7 \div 2 = 0
      BY <1>2, <2>3, <2>4, <3>1
    <3>2. CASE f3 = 5 /\ f7 \div 2 = 0
      BY <1>2, <2>3, <2>4, <3>2
    <3>3. CASE f3 = 5 /\ f7 \div 2 = 16
      BY <1>2, <2>3, <2>4, <3>3
    <3>4. QED
      BY <2>2, <3>1, <3>2, <3>3
  <2>6. Rv!Defined(opcode, f3, f7)
    BY <1>2, <2>5, DefinedBy DEF top
  <2>7. QED
    BY <2>6 DEF opcode
<1>3. CASE f3 = 5 /\ opcode = 27
  <2>1. ImmediateOp(w) = ShiftOp(w)
    BY <1>3 DEF ImmediateOp, IsShift
  <2>2. f7 = 0 \/ f7 = 32
    BY <1>3, <2>1 DEF ShiftOp
  <2> HIDE DEF opcode
  <2>3. <<"srlw", 27, 5, 0>> \in Rv!ShiftOps /\ <<"sraw", 27, 5, 32>> \in Rv!ShiftOps
    BY DEF Rv!ShiftOps
  <2>4. \E o \in Rv!ShiftOps : o[2] = opcode /\ o[3] = f3 /\ o[4] = f7
    BY <1>3, <2>2, <2>3
  <2>5. Rv!Defined(opcode, f3, f7)
    BY <1>3, <2>4, DefinedBy
  <2>6. QED
    BY <2>5 DEF opcode
<1>4. CASE ~ (f3 \in {1, 5}) /\ opcode = 19
  <2>1. ImmediateOp(w) = Lookup(ImmediateTable, f3)
    BY <1>4 DEF ImmediateOp, IsShift
  <2>2. \E e \in ImmediateTable : e[1] = f3
    BY <2>1, LookupFinds
  <2> HIDE DEF opcode
  <2>3. \A e \in ImmediateTable : <<"alui", e[2], 19, e[1]>> \in Rv!ImmediateOps
    BY DEF ImmediateTable, Rv!ImmediateOps
  <2>4. \E o \in Rv!ImmediateOps : o[3] = opcode /\ o[4] = f3
    BY <1>4, <2>2, <2>3
  <2>5. Rv!Defined(opcode, f3, f7)
    BY <2>4, DefinedBy
  <2>6. QED
    BY <2>5 DEF opcode
<1>5. CASE ~ (f3 \in {1, 5}) /\ opcode = 27
  <2>1. f3 = 0
    BY <1>5 DEF ImmediateOp, IsShift
  <2> HIDE DEF opcode
  <2>2. <<"alui", "addw", 27, 0>> \in Rv!ImmediateOps
    BY DEF Rv!ImmediateOps
  <2>3. \E o \in Rv!ImmediateOps : o[3] = opcode /\ o[4] = f3
    BY <1>5, <2>1, <2>2
  <2>4. Rv!Defined(opcode, f3, f7)
    BY <2>3, DefinedBy
  <2>5. QED
    BY <2>4 DEF opcode
<1>6. QED
  BY <1>1, <1>2, <1>3, <1>4, <1>5

LEMMA FormsRejected ==
  ASSUME NEW w, NEW opcode \in 0 .. 127 \ {115}, NEW f3 \in 0 .. 7, NEW f7 \in 0 .. 127,
         Opcode(w) = opcode, Fuc3(w) = f3, Fuc7(w) = f7, GetBit(w, 0, 5) = f7 \div 2,
         Decode(w).kind # Illegal
  PROVE  Rv!Defined(opcode, f3, f7) \/ (opcode = 27 /\ f3 = 1) \/ opcode = 103
<1>1. CASE opcode \in {51, 59}
  <2>1. RegisterOp(w) # Illegal
    BY <1>1, DecodeCases, DecodedIs
  <2>2. QED
    BY <1>1, <2>1, RegisterKeys
<1>2. CASE opcode \in {19, 27}
  <2>1. ImmediateOp(w) # Illegal
    BY <1>2, DecodeCases, DecodedIs
  <2>2. QED
    BY <1>2, <2>1, ImmediateKeys
<1>3. CASE opcode = 3
  <2>1. Lookup(LoadTable, f3) # Illegal
    BY <1>3, DecodeCases, DecodedIs
  <2>2. PICK e \in LoadTable : e[1] = f3
    BY <2>1, LookupFinds
  <2>3. \A x \in LoadTable : <<"load", x[2], 3, x[1]>> \in Rv!ImmediateOps
    BY DEF LoadTable, Rv!ImmediateOps
  <2>4. \E o \in Rv!ImmediateOps : o[3] = opcode /\ o[4] = f3
    BY <1>3, <2>2, <2>3
  <2>5. QED
    BY <2>4, DefinedBy
<1>4. CASE opcode = 35
  <2>1. Lookup(StoreTable, f3) # Illegal
    BY <1>4, DecodeCases, DecodedIs
  <2>2. PICK e \in StoreTable : e[1] = f3
    BY <2>1, LookupFinds
  <2>3. \A x \in StoreTable : <<x[2], x[1]>> \in Rv!StoreOps
    BY DEF StoreTable, Rv!StoreOps
  <2>4. \E o \in Rv!StoreOps : o[2] = f3
    BY <2>2, <2>3
  <2>5. QED
    BY <1>4, <2>4, DefinedBy
<1>5. CASE opcode = 99
  <2>1. Lookup(BranchTable, f3) # Illegal
    BY <1>5, DecodeCases, DecodedIs
  <2>2. PICK e \in BranchTable : e[1] = f3
    BY <2>1, LookupFinds
  <2>3. \A x \in BranchTable : <<x[2], x[1]>> \in Rv!BranchOps
    BY DEF BranchTable, Rv!BranchOps
  <2>4. \E o \in Rv!BranchOps : o[2] = f3
    BY <2>2, <2>3
  <2>5. QED
    BY <1>5, <2>4, DefinedBy
<1>6. CASE opcode \in {23, 55, 111}
  BY <1>6, DefinedBy
<1>7. CASE opcode \notin {51, 59, 19, 27, 3, 35, 99, 111, 103, 23, 55}
  <2>1. Decode(w) = Decoded(Illegal, Illegal, 0, 0, 0, 0)
    BY <1>7, DecodeCases
  <2>2. Decode(w).kind = Illegal
    BY <2>1, DecodedIs
  <2>3. QED
    BY <2>2
<1>8. QED
  BY <1>1, <1>2, <1>3, <1>4, <1>5, <1>6, <1>7

LEMMA FormRejected ==
  ASSUME NEW w, NEW opcode \in 0 .. 127 \ {115}, NEW f3 \in 0 .. 7, NEW f7 \in 0 .. 127,
         NEW rs2, NEW rs1, NEW rd,
         HasR(w, f7, rs2, rs1, f3, rd, opcode), Decode(w).kind # Illegal
  PROVE  Rv!Defined(opcode, f3, f7) \/ (opcode = 27 /\ f3 = 1) \/ opcode = 103
<1>1. /\ Opcode(w) = opcode /\ Fuc3(w) = f3 /\ Fuc7(w) = f7
      /\ GetBit(w, 0, 5) = f7 \div 2
  BY Zenon DEF HasR
<1>2. QED
  BY <1>1, FormsRejected, Zenon

(* Words of any opcode but OP_SCALL's that execute_Decode takes for an     *)
(* instruction are one, or are among the two forms it overlooks.           *)
THEOREM RejectionIsRight == Spec => []RejectsTheRest
<1>1. InputLegal => RejectsTheRest
  <2> SUFFICES ASSUME InputLegal, input.check = "form" PROVE RejectsTheRest
    BY DEF RejectsTheRest
  <2>1. input \in FormInputs
    BY InputKinds
  <2>2. PICK opcode \in Opcodes, f3 \in 0 .. 7, f7 \in 0 .. 127, r \in RegisterTriples :
          input = Form(opcode, f3, f7, r)
    BY <2>1 DEF FormInputs
  <2>3. /\ input.opcode = opcode /\ input.f3 = f3 /\ input.f7 = f7
        /\ input.word = Rv!RWord(f7, r[1], r[2], f3, r[3], opcode)
    BY <2>2, Zenon DEF Form
  <2>4. /\ opcode \in 0 .. 127 \ {115} /\ opcode \in 0 .. 127
        /\ r[1] \in 0 .. 31 /\ r[2] \in 0 .. 31 /\ r[3] \in 0 .. 31
    <3>1. opcode \in 0 .. 127 \ {115} /\ r \in (0 .. 31) \X (0 .. 31) \X (0 .. 31)
      BY WordsAssumption, Zenon
    <3>2. QED
      BY ONLY <3>1
  <2>5. HasR(Rv!RWord(f7, r[1], r[2], f3, r[3], opcode), f7, r[1], r[2], f3, r[3], opcode)
    BY <2>2, <2>4, RFields, Zenon
  <2>6. HasR(input.word, f7, r[1], r[2], f3, r[3], opcode)
    BY <2>3, <2>5, Zenon
  <2>7. Decode(input.word).kind # Illegal =>
          Rv!Defined(opcode, f3, f7) \/ (opcode = 27 /\ f3 = 1) \/ opcode = 103
    BY <2>2, <2>4, <2>6, FormRejected, Zenon
  <2>8. QED
    BY <2>3, <2>7, Zenon DEF RejectsTheRest
<1>2. QED
  BY <1>1, InputsLegal, PTL

-----------------------------------------------------------------------------
(* Words of RV64IM.                                                        *)

(* What DecodesRV64IM asks of a word.                                      *)
Right(inst, word) ==
  IF Unsupported(inst) THEN Decode(word).kind = Illegal ELSE Decode(word) = inst

LEMMA RightOf ==
  ASSUME NEW kind, NEW op, NEW rd, NEW rs1, NEW rs2, NEW imm, NEW word,
         op # Illegal, op # "divuw", kind # "fence",
         Decode(word) = Decoded(kind, op, rd, rs1, rs2, imm)
  PROVE  Right(Rv!Inst(kind, op, rd, rs1, rs2, imm), word)
<1>1. ~ Unsupported(Rv!Inst(kind, op, rd, rs1, rs2, imm))
  BY DEF Unsupported, Rv!Inst
<1>2. Decode(word) = Rv!Inst(kind, op, rd, rs1, rs2, imm)
  BY DecodedIs, Zenon
<1>3. QED
  BY <1>1, <1>2, Zenon DEF Right

LEMMA RWordsRight ==
  ASSUME NEW o \in Rv!RegisterOps, NEW rd \in 0 .. 31, NEW a \in 0 .. 31, NEW b \in 0 .. 31
  PROVE  Right(Rv!Inst("alu", o[1], rd, a, b, 0), Rv!RWord(o[4], b, a, o[3], rd, o[2]))
<1> DEFINE w == Rv!RWord(o[4], b, a, o[3], rd, o[2])
           key == 16 * o[4] + o[3]
<1>1. /\ o[2] \in {51, 59} /\ o[3] \in 0 .. 7 /\ o[4] \in 0 .. 127 /\ o[1] # Illegal
      /\ o[2] \in 0 .. 127
  <2>1. /\ o[2] \in {51, 59} /\ o[3] \in 0 .. 7 /\ o[4] \in 0 .. 127
        /\ o[1] # Illegal
    BY RegisterOpsFound, Zenon
  <2>2. QED
    BY <2>1
<1>2. HasR(w, o[4], b, a, o[3], rd, o[2])
  BY <1>1, RFields, Zenon
<1> HIDE DEF w
<1>3. /\ Opcode(w) = o[2] /\ Fuc3(w) = o[3] /\ Fuc7(w) = o[4]
      /\ Rd(w) = rd /\ Rs1(w) = a /\ Rs2(w) = b
  BY <1>2, Zenon DEF HasR
<1> DEFINE table == IF o[2] = 51 THEN RegisterTable ELSE RegisterWordTable
<1>4. RegisterOp(w) = Lookup(table, key)
  BY <1>3, Zenon DEF RegisterOp
<1>5. Decode(w) = Decoded("alu", RegisterOp(w), rd, a, b, 0)
  BY <1>1, <1>3, DecodeCases
<1>6. CASE o[1] = "divuw"
  <2>1. key = 21 /\ table = RegisterWordTable
    <3>1. o[2] = 59 /\ o[3] = 5 /\ o[4] = 1
      BY <1>6, RegisterOpsFound, Zenon
    <3>2. QED
      BY <3>1
  <2>2. \A e \in RegisterWordTable : e[1] # 21
    BY DEF RegisterWordTable
  <2> HIDE DEF key, table
  <2>3. RegisterOp(w) = Illegal
    BY <1>4, <2>1, <2>2, LookupMisses
  <2>4. Decode(w).kind = Illegal
    BY <1>5, <2>3, DecodedIs
  <2>5. Unsupported(Rv!Inst("alu", o[1], rd, a, b, 0))
    BY <1>6 DEF Unsupported, Rv!Inst
  <2>6. QED
    BY <2>4, <2>5, Zenon DEF Right, w
<1>7. CASE o[1] # "divuw"
  <2>1. <<key, o[1]>> \in table
    <3>1. CASE o[2] = 51
      BY <3>1, RegisterOpsFound
    <3>2. CASE o[2] = 59
      BY <1>7, <3>2, RegisterOpsFound
    <3>3. QED
      BY <1>1, <3>1, <3>2
  <2>2. OneEach(table)
    BY TablesAreMaps
  <2> HIDE DEF key, table
  <2>3. Lookup(table, key) = o[1]
    BY <2>1, <2>2, LookupEntry, Zenon
  <2>4. Decode(w) = Decoded("alu", o[1], rd, a, b, 0)
    BY <1>4, <1>5, <2>3, Zenon
  <2>5. "alu" # "fence"
    OBVIOUS
  <2>6. Right(Rv!Inst("alu", o[1], rd, a, b, 0), w)
    BY <1>1, <1>7, <2>4, <2>5, RightOf, Zenon
  <2>7. QED
    BY <2>6, Zenon DEF w
<1>8. QED
  BY <1>6, <1>7

(* The instructions with an immediate of 12 bits, and what finds them.     *)
LEMMA ImmediateOpsFound ==
  ASSUME NEW o \in Rv!ImmediateOps
  PROVE  /\ o[3] \in {19, 27, 3, 103} /\ o[4] \in 0 .. 7
         /\ o[1] # "fence" /\ o[2] # Illegal /\ o[2] # "divuw"
         /\ o[3] = 19 => /\ o[1] = "alui" /\ o[4] \notin {1, 5}
                         /\ <<o[4], o[2]>> \in ImmediateTable
         /\ o[3] = 27 => o[1] = "alui" /\ o[4] = 0 /\ o[2] = "addw"
         /\ o[3] = 3 => o[1] = "load" /\ <<o[4], o[2]>> \in LoadTable
         /\ o[3] = 103 => o[1] = "jalr" /\ o[2] = "nop"
<1>1. /\ o[3] \in {19, 27, 3, 103} /\ o[4] \in 0 .. 7
      /\ o[1] # "fence" /\ o[2] # Illegal /\ o[2] # "divuw"
  BY DEF Rv!ImmediateOps, Illegal
<1>2. o[3] = 19 => o[1] = "alui" /\ o[4] \notin {1, 5} /\ <<o[4], o[2]>> \in ImmediateTable
  BY DEF Rv!ImmediateOps, ImmediateTable
<1>3. /\ o[3] = 27 => o[1] = "alui" /\ o[4] = 0 /\ o[2] = "addw"
      /\ o[3] = 103 => o[1] = "jalr" /\ o[2] = "nop"
  BY DEF Rv!ImmediateOps
<1>4. o[3] = 3 => o[1] = "load" /\ <<o[4], o[2]>> \in LoadTable
  BY DEF Rv!ImmediateOps, LoadTable
<1>5. QED
  BY <1>1, <1>2, <1>3, <1>4

LEMMA IWordsRight ==
  ASSUME NEW o \in Rv!ImmediateOps, NEW rd \in 0 .. 31, NEW a \in 0 .. 31,
         NEW imm, Fits(imm, 12)
  PROVE  Right(Rv!Inst(o[1], o[2], rd, a, 0, imm), Rv!IWord(imm, a, o[4], rd, o[3]))
<1> DEFINE w == Rv!IWord(imm, a, o[4], rd, o[3])
<1>1. o[3] \in {19, 27, 3, 103} /\ o[4] \in 0 .. 7 /\ o[3] \in 0 .. 127 /\ imm \in Int
  <2>1. o[3] \in {19, 27, 3, 103} /\ o[4] \in 0 .. 7
    BY ImmediateOpsFound, Zenon
  <2>2. QED
    BY <2>1 DEF Fits
<1>2. HasI(w, imm, a, o[4], rd, o[3])
  <2>1. \A f3 \in 0 .. 7, opcode \in 0 .. 127 :
          HasI(Rv!IWord(imm, a, f3, rd, opcode), imm, a, f3, rd, opcode)
    BY <1>1, IFields, Zenon
  <2>2. QED
    BY <1>1, <2>1, Zenon
<1> HIDE DEF w
<1>3. /\ Opcode(w) = o[3] /\ Fuc3(w) = o[4] /\ Rd(w) = rd /\ Rs1(w) = a
      /\ GetBit(w, 0, 11) = imm % 2^12
  BY <1>2, Zenon DEF HasI
<1>4. Imm12(w) = imm
  <2>1. 12 \in 2 .. 20
    OBVIOUS
  <2>2. ExtSign(imm % 2^12, 12) = imm
    BY <2>1, ImmOf, Zenon
  <2>3. QED
    BY <1>3, <2>2, Zenon DEF Imm12
<1>5. Decode(w) = Decoded(o[1], o[2], rd, a, 0, imm)
  <2>1. CASE o[3] = 19
    <3>1. o[1] = "alui" /\ o[4] \notin {1, 5} /\ <<o[4], o[2]>> \in ImmediateTable
      BY <2>1, ImmediateOpsFound
    <3>2. Lookup(ImmediateTable, o[4]) = o[2]
      BY <3>1, LookupEntry, TablesAreMaps, Zenon
    <3>3. ~ IsShift(w)
      BY <1>3, <3>1, Zenon DEF IsShift
    <3>4. ImmediateOp(w) = o[2]
      BY <1>3, <2>1, <3>2, <3>3, Zenon DEF ImmediateOp
    <3>5. ImmediateOf(w) = imm
      BY <1>4, <3>3, Zenon DEF ImmediateOf
    <3>6. QED
      BY <1>3, <2>1, <3>1, <3>4, <3>5, DecodeCases
  <2>2. CASE o[3] = 27
    <3>1. o[1] = "alui" /\ o[4] = 0 /\ o[2] = "addw"
      BY <2>2, ImmediateOpsFound
    <3>2. ~ IsShift(w)
      BY <1>3, <3>1 DEF IsShift
    <3>3. ImmediateOp(w) = o[2]
      BY <1>3, <2>2, <3>1, <3>2 DEF ImmediateOp
    <3>4. ImmediateOf(w) = imm
      BY <1>4, <3>2, Zenon DEF ImmediateOf
    <3>5. QED
      BY <1>3, <2>2, <3>1, <3>3, <3>4, DecodeCases
  <2>3. CASE o[3] = 3
    <3>1. o[1] = "load" /\ <<o[4], o[2]>> \in LoadTable
      BY <2>3, ImmediateOpsFound
    <3>2. Lookup(LoadTable, o[4]) = o[2]
      BY <3>1, LookupEntry, TablesAreMaps, Zenon
    <3>3. QED
      BY <1>3, <1>4, <2>3, <3>1, <3>2, DecodeCases
  <2>4. CASE o[3] = 103
    <3>1. o[1] = "jalr" /\ o[2] = "nop"
      BY <2>4, ImmediateOpsFound
    <3>2. QED
      BY <1>3, <1>4, <2>4, <3>1, DecodeCases
  <2>5. QED
    BY <1>1, <2>1, <2>2, <2>3, <2>4
<1>6. o[1] # "fence" /\ o[2] # Illegal /\ o[2] # "divuw"
  BY ImmediateOpsFound
<1>7. Right(Rv!Inst(o[1], o[2], rd, a, 0, imm), w)
  BY <1>5, <1>6, RightOf, Zenon
<1>8. QED
  BY <1>7, Zenon DEF w

LEMMA ShiftWordsRight ==
  ASSUME NEW o \in Rv!ShiftOps, NEW rd \in 0 .. 31, NEW a \in 0 .. 31,
         NEW amount \in 0 .. 63, o[2] = 27 => amount < 32
  PROVE  Right(Rv!Inst("alui", o[1], rd, a, 0, amount),
               Rv!IWord(o[4] * 32 + amount, a, o[3], rd, o[2]))
<1> DEFINE imm == o[4] * 32 + amount
           w == Rv!IWord(imm, a, o[3], rd, o[2])
<1>1. /\ o[2] \in {19, 27} /\ o[3] \in {1, 5} /\ o[4] \in {0, 32}
      /\ o[2] = 19 => \/ o[1] = "sll" /\ o[3] = 1 /\ o[4] = 0
                      \/ o[1] = "srl" /\ o[3] = 5 /\ o[4] = 0
                      \/ o[1] = "sra" /\ o[3] = 5 /\ o[4] = 32
      /\ o[2] = 27 => \/ o[1] = "sllw" /\ o[3] = 1 /\ o[4] = 0
                      \/ o[1] = "srlw" /\ o[3] = 5 /\ o[4] = 0
                      \/ o[1] = "sraw" /\ o[3] = 5 /\ o[4] = 32
      /\ o[1] # Illegal /\ o[1] # "divuw"
  BY DEF Rv!ShiftOps, Illegal
<1>2. imm \in Int /\ o[3] \in 0 .. 7 /\ o[2] \in 0 .. 127
  BY <1>1
<1>3. HasI(w, imm, a, o[3], rd, o[2])
  BY <1>2, IFields, Zenon
<1>4. /\ imm % 64 = amount
      /\ (imm \div 64) % 64 = IF o[4] = 0 THEN 0 ELSE 16
      /\ o[2] = 27 => imm % 32 = amount /\ (imm \div 32) % 128 = o[4]
  <2>1. CASE o[4] = 0
    <3>1. imm = amount
      BY <2>1
    <3>2. QED
      BY <2>1, <3>1
  <2>2. CASE o[4] = 32
    <3>1. imm = 1024 + amount
      BY <2>2
    <3>2. QED
      BY <2>2, <3>1
  <2>3. QED
    BY <1>1, <2>1, <2>2
<1> HIDE DEF w, imm
<1>5. /\ Opcode(w) = o[2] /\ Fuc3(w) = o[3] /\ Rd(w) = rd /\ Rs1(w) = a
      /\ Shamt(w) = imm % 64 /\ GetBit(w, 7, 11) = imm % 32
      /\ Fuc7(w) = (imm \div 32) % 128 /\ GetBit(w, 0, 5) = (imm \div 64) % 64
  BY <1>3, Zenon DEF HasI
<1>6. IsShift(w)
  BY <1>1, <1>5 DEF IsShift
<1>7. ShiftOp(w) = o[1]
  <2>1. CASE o[2] = 19
    BY <1>1, <1>4, <1>5, <2>1 DEF ShiftOp
  <2>2. CASE o[2] = 27
    BY <1>1, <1>4, <1>5, <2>2 DEF ShiftOp
  <2>3. QED
    BY <1>1, <2>1, <2>2
<1>8. ImmediateOp(w) = o[1]
  BY <1>6, <1>7, Zenon DEF ImmediateOp
<1>9. ImmediateOf(w) = amount
  BY <1>1, <1>4, <1>5, <1>6 DEF ImmediateOf
<1>10. Decode(w) = Decoded("alui", o[1], rd, a, 0, amount)
  BY <1>1, <1>5, <1>8, <1>9, DecodeCases
<1>11. "alui" # "fence"
  OBVIOUS
<1>12. Right(Rv!Inst("alui", o[1], rd, a, 0, amount), w)
  BY <1>1, <1>10, <1>11, RightOf, Zenon
<1>13. QED
  BY <1>12, Zenon DEF w, imm

LEMMA SWordsRight ==
  ASSUME NEW o \in Rv!StoreOps, NEW a \in 0 .. 31, NEW b \in 0 .. 31, NEW imm, Fits(imm, 12)
  PROVE  Right(Rv!Inst("store", o[1], 0, a, b, imm), Rv!SWord(imm, b, a, o[2]))
<1> DEFINE w == Rv!SWord(imm, b, a, o[2])
<1>1. /\ o[2] \in 0 .. 7 /\ <<o[2], o[1]>> \in StoreTable
      /\ o[1] # Illegal /\ o[1] # "divuw" /\ "store" # "fence"
  BY DEF Rv!StoreOps, StoreTable, Illegal
<1>2. HasS(w, imm, b, a, o[2])
  BY <1>1, SFields, Zenon
<1> HIDE DEF w
<1>3. Lookup(StoreTable, o[2]) = o[1]
  BY <1>1, LookupEntry, TablesAreMaps, Zenon
<1>4. /\ Opcode(w) = 35 /\ Fuc3(w) = o[2] /\ Rs1(w) = a /\ Rs2(w) = b /\ StoreImm(w) = imm
  BY <1>2, Zenon DEF HasS
<1>5. Decode(w) = Decoded("store", o[1], 0, a, b, imm)
  BY <1>3, <1>4, DecodeCases
<1>6. Right(Rv!Inst("store", o[1], 0, a, b, imm), w)
  BY <1>1, <1>5, RightOf, Zenon
<1>7. QED
  BY <1>6, Zenon DEF w

LEMMA BWordsRight ==
  ASSUME NEW o \in Rv!BranchOps, NEW a \in 0 .. 31, NEW b \in 0 .. 31, NEW imm, Fits(imm, 11)
  PROVE  Right(Rv!Inst("branch", o[1], 0, a, b, imm), Rv!BWord(4 * imm, b, a, o[2]))
<1> DEFINE w == Rv!BWord(4 * imm, b, a, o[2])
<1>1. /\ o[2] \in 0 .. 7 /\ <<o[2], o[1]>> \in BranchTable
      /\ o[1] # Illegal /\ o[1] # "divuw" /\ "branch" # "fence"
  BY DEF Rv!BranchOps, BranchTable, Illegal
<1>2. HasB(w, imm, b, a, o[2])
  BY <1>1, BFields, Zenon
<1> HIDE DEF w
<1>3. Lookup(BranchTable, o[2]) = o[1]
  BY <1>1, LookupEntry, TablesAreMaps, Zenon
<1>4. /\ Opcode(w) = 99 /\ Fuc3(w) = o[2] /\ Rs1(w) = a /\ Rs2(w) = b
      /\ BranchDistance(w) = imm
  BY <1>2, Zenon DEF HasB
<1>5. Decode(w) = Decoded("branch", o[1], 0, a, b, imm)
  BY <1>3, <1>4, DecodeCases
<1>6. Right(Rv!Inst("branch", o[1], 0, a, b, imm), w)
  BY <1>1, <1>5, RightOf, Zenon
<1>7. QED
  BY <1>6, Zenon DEF w

LEMMA UWordsRight ==
  ASSUME NEW o \in {<<"lui", 55>>, <<"auipc", 23>>}, NEW rd \in 0 .. 31,
         NEW imm, Fits(imm, 20)
  PROVE  Right(Rv!Inst(o[1], "nop", rd, 0, 0, imm), Rv!UWord(imm, rd, o[2]))
<1> DEFINE w == Rv!UWord(imm, rd, o[2])
<1>1. /\ o[2] \in 0 .. 127 /\ ((o[1] = "lui" /\ o[2] = 55) \/ (o[1] = "auipc" /\ o[2] = 23))
      /\ "nop" # Illegal /\ "nop" # "divuw" /\ o[1] # "fence"
  BY DEF Illegal
<1>2. HasU(w, imm, rd, o[2])
  BY <1>1, UFields, Zenon
<1> HIDE DEF w
<1>3. Opcode(w) = o[2] /\ Rd(w) = rd /\ Imm20(w) = imm
  BY <1>2, Zenon DEF HasU
<1>4. Decode(w) = Decoded(o[1], "nop", rd, 0, 0, imm)
  BY <1>1, <1>3, DecodeCases
<1>5. Right(Rv!Inst(o[1], "nop", rd, 0, 0, imm), w)
  BY <1>1, <1>4, RightOf, Zenon
<1>6. QED
  BY <1>5, Zenon DEF w

LEMMA JWordsRight ==
  ASSUME NEW rd \in 0 .. 31, NEW imm, Fits(imm, 19)
  PROVE  Right(Rv!Inst("jal", "nop", rd, 0, 0, imm), Rv!JWord(4 * imm, rd))
<1> DEFINE w == Rv!JWord(4 * imm, rd)
<1>1. HasJ(w, imm, rd)
  BY JFields, Zenon
<1> HIDE DEF w
<1>2. Opcode(w) = 111 /\ Rd(w) = rd /\ JumpDistance(w) = imm
  BY <1>1, Zenon DEF HasJ
<1>3. Decode(w) = Decoded("jal", "nop", rd, 0, 0, imm)
  BY <1>2, DecodeCases
<1>4. "nop" # Illegal /\ "nop" # "divuw" /\ "jal" # "fence"
  BY DEF Illegal
<1>5. Right(Rv!Inst("jal", "nop", rd, 0, 0, imm), w)
  BY <1>3, <1>4, RightOf, Zenon
<1>6. QED
  BY <1>5, Zenon DEF w

LEMMA SystemWordsRight ==
  /\ Right(Rv!Inst("ecall", "nop", 0, 0, 0, 0), Rv!IWord(0, 0, 0, 0, 115))
  /\ Right(Rv!Inst("none", "nop", 0, 0, 0, 0), Rv!IWord(1, 0, 0, 0, 115))
  /\ Right(Rv!Inst("fence", "nop", 0, 0, 0, 0), Rv!IWord(255, 0, 0, 0, 15))
<1>1. ASSUME NEW imm \in {0, 1}
      PROVE  Right(Rv!Inst(IF imm = 0 THEN "ecall" ELSE "none", "nop", 0, 0, 0, 0),
                   Rv!IWord(imm, 0, 0, 0, 115))
  <2> DEFINE w == Rv!IWord(imm, 0, 0, 0, 115)
             kind == IF imm = 0 THEN "ecall" ELSE "none"
  <2>1. imm \in Int /\ 0 \in 0 .. 31 /\ 0 \in 0 .. 7 /\ 115 \in 0 .. 127
    OBVIOUS
  <2>2. HasI(w, imm, 0, 0, 0, 115)
    BY <2>1, IFields, Zenon
  <2> HIDE DEF w
  <2>3. Opcode(w) = 115 /\ Fuc3(w) = 0 /\ GetBit(w, 0, 11) = imm % 2^12
    BY <2>2, Zenon DEF HasI
  <2>4. imm % 2^12 = imm
    OBVIOUS
  <2>5. SystemKind(w) = kind /\ kind # Illegal /\ "nop" # Illegal /\ "nop" # "divuw"
        /\ kind # "fence"
    BY <2>3, <2>4 DEF SystemKind, Illegal
  <2> HIDE DEF kind
  <2>6. Decode(w) = Decoded(kind, "nop", 0, 0, 0, 0)
    BY <2>3, <2>5, DecodeCases
  <2>7. Right(Rv!Inst(kind, "nop", 0, 0, 0, 0), w)
    BY <2>5, <2>6, RightOf, Zenon
  <2>8. QED
    BY <2>7, Zenon DEF w, kind
<1>2. Right(Rv!Inst("fence", "nop", 0, 0, 0, 0), Rv!IWord(255, 0, 0, 0, 15))
  <2> DEFINE w == Rv!IWord(255, 0, 0, 0, 15)
  <2>1. 255 \in Int /\ 0 \in 0 .. 31 /\ 0 \in 0 .. 7 /\ 15 \in 0 .. 127
    OBVIOUS
  <2>2. HasI(w, 255, 0, 0, 0, 15)
    BY <2>1, IFields
  <2> HIDE DEF w
  <2>3. Opcode(w) = 15
    BY <2>2 DEF HasI
  <2>4. Decode(w) = Decoded(Illegal, Illegal, 0, 0, 0, 0)
    BY <2>3, DecodeCases
  <2>5. Decode(w).kind = Illegal
    BY <2>4, DecodedIs
  <2>6. Unsupported(Rv!Inst("fence", "nop", 0, 0, 0, 0))
    BY DEF Unsupported, Rv!Inst
  <2>7. QED
    BY <2>5, <2>6, Zenon DEF Right, w
<1>3. QED
  <2>1. Right(Rv!Inst("ecall", "nop", 0, 0, 0, 0), Rv!IWord(0, 0, 0, 0, 115))
    BY <1>1
  <2>2. Right(Rv!Inst("none", "nop", 0, 0, 0, 0), Rv!IWord(1, 0, 0, 0, 115))
    BY <1>1
  <2>3. QED
    BY <1>2, <2>1, <2>2

(* The operands that WordsAssumption allows.                               *)
LEMMA OperandsFit ==
  /\ \A r \in Registers : r \in 0 .. 31
  /\ \A i \in Imms12 : Fits(i, 12)
  /\ \A i \in Imms20 : Fits(i, 20)
  /\ \A i \in Shamts : i \in 0 .. 63
<1>1. ASSUME NEW i \in Imms12 PROVE Fits(i, 12)
  <2>1. Imms12 \subseteq -2^11 .. (2^11 - 1)
    BY WordsAssumption, Zenon
  <2>2. i \in -2^11 .. (2^11 - 1)
    BY <2>1, Zenon
  <2>3. 2^(12 - 1) = 2^11
    OBVIOUS
  <2>4. QED
    BY <2>2, <2>3 DEF Fits
<1>2. ASSUME NEW i \in Imms20 PROVE Fits(i, 20)
  <2>1. Imms20 \subseteq -2^19 .. (2^19 - 1)
    BY WordsAssumption, Zenon
  <2>2. i \in -2^19 .. (2^19 - 1)
    BY <2>1, Zenon
  <2>3. 2^(20 - 1) = 2^19
    OBVIOUS
  <2>4. QED
    BY <2>2, <2>3 DEF Fits
<1>3. QED
  BY <1>1, <1>2, WordsAssumption

LEMMA RCodesRight == \A e \in Rv!RCodes(Registers) : Right(e.inst, e.word)
<1>1. SUFFICES ASSUME NEW e \in Rv!RCodes(Registers) PROVE Right(e.inst, e.word)
  OBVIOUS
<1>2. PICK o \in Rv!RegisterOps, rd \in Registers, a \in Registers, b \in Registers :
        e = Rv!Coded(Rv!Inst("alu", o[1], rd, a, b, 0),
                     Rv!RWord(o[4], b, a, o[3], rd, o[2]))
  BY <1>1 DEF Rv!RCodes
<1>3. /\ e.inst = Rv!Inst("alu", o[1], rd, a, b, 0)
      /\ e.word = Rv!RWord(o[4], b, a, o[3], rd, o[2])
  BY <1>2 DEF Rv!Coded
<1>4. Right(Rv!Inst("alu", o[1], rd, a, b, 0),
            Rv!RWord(o[4], b, a, o[3], rd, o[2]))
  BY <1>2, OperandsFit, RWordsRight, Zenon
<1>5. QED
  BY <1>3, <1>4, Zenon

LEMMA ICodesRight == \A e \in Rv!ICodes(Registers, Imms12) : Right(e.inst, e.word)
<1>1. SUFFICES ASSUME NEW e \in Rv!ICodes(Registers, Imms12) PROVE Right(e.inst, e.word)
  OBVIOUS
<1>2. PICK o \in Rv!ImmediateOps, rd \in Registers, a \in Registers, imm \in Imms12 :
        e = Rv!Coded(Rv!Inst(o[1], o[2], rd, a, 0, imm),
                     Rv!IWord(imm, a, o[4], rd, o[3]))
  BY <1>1 DEF Rv!ICodes
<1>3. /\ e.inst = Rv!Inst(o[1], o[2], rd, a, 0, imm)
      /\ e.word = Rv!IWord(imm, a, o[4], rd, o[3])
  BY <1>2 DEF Rv!Coded
<1>4. Right(Rv!Inst(o[1], o[2], rd, a, 0, imm),
            Rv!IWord(imm, a, o[4], rd, o[3]))
  BY <1>2, OperandsFit, IWordsRight, Zenon
<1>5. QED
  BY <1>3, <1>4, Zenon

LEMMA ShiftCodesRight == \A e \in Rv!ShiftCodes(Registers, Shamts) : Right(e.inst, e.word)
<1>1. SUFFICES ASSUME NEW e \in Rv!ShiftCodes(Registers, Shamts) PROVE Right(e.inst, e.word)
  OBVIOUS
<1>2. PICK p \in {p \in Rv!ShiftOps \X Shamts : p[1][2] = 27 => p[2] < 32},
          rd \in Registers, a \in Registers :
        e = Rv!Coded(Rv!Inst("alui", p[1][1], rd, a, 0, p[2]),
                     Rv!IWord(p[1][4] * 32 + p[2], a, p[1][3], rd, p[1][2]))
  BY <1>1 DEF Rv!ShiftCodes
<1>3. /\ e.inst = Rv!Inst("alui", p[1][1], rd, a, 0, p[2])
      /\ e.word = Rv!IWord(p[1][4] * 32 + p[2], a, p[1][3], rd, p[1][2])
  BY <1>2 DEF Rv!Coded
<1>4. p[1] \in Rv!ShiftOps /\ p[2] \in Shamts /\ (p[1][2] = 27 => p[2] < 32)
  BY <1>2
<1>5. Right(Rv!Inst("alui", p[1][1], rd, a, 0, p[2]),
            Rv!IWord(p[1][4] * 32 + p[2], a, p[1][3], rd, p[1][2]))
  BY <1>2, <1>4, OperandsFit, ShiftWordsRight, Zenon
<1>6. QED
  BY <1>3, <1>5, Zenon

LEMMA SCodesRight == \A e \in Rv!SCodes(Registers, Imms12) : Right(e.inst, e.word)
<1>1. SUFFICES ASSUME NEW e \in Rv!SCodes(Registers, Imms12) PROVE Right(e.inst, e.word)
  OBVIOUS
<1>2. PICK o \in Rv!StoreOps, a \in Registers, b \in Registers, imm \in Imms12 :
        e = Rv!Coded(Rv!Inst("store", o[1], 0, a, b, imm),
                     Rv!SWord(imm, b, a, o[2]))
  BY <1>1 DEF Rv!SCodes
<1>3. /\ e.inst = Rv!Inst("store", o[1], 0, a, b, imm)
      /\ e.word = Rv!SWord(imm, b, a, o[2])
  BY <1>2 DEF Rv!Coded
<1>4. Right(Rv!Inst("store", o[1], 0, a, b, imm),
            Rv!SWord(imm, b, a, o[2]))
  BY <1>2, OperandsFit, SWordsRight, Zenon
<1>5. QED
  BY <1>3, <1>4, Zenon

LEMMA BCodesRight == \A e \in Rv!BCodes(Registers, Imms12) : Right(e.inst, e.word)
<1>1. SUFFICES ASSUME NEW e \in Rv!BCodes(Registers, Imms12) PROVE Right(e.inst, e.word)
  OBVIOUS
<1>2. PICK o \in Rv!BranchOps, a \in Registers, b \in Registers,
          imm \in {i \in Imms12 : i \in -2^10 .. (2^10 - 1)} :
        e = Rv!Coded(Rv!Inst("branch", o[1], 0, a, b, imm),
                     Rv!BWord(4 * imm, b, a, o[2]))
  BY <1>1 DEF Rv!BCodes
<1>3. /\ e.inst = Rv!Inst("branch", o[1], 0, a, b, imm)
      /\ e.word = Rv!BWord(4 * imm, b, a, o[2])
  BY <1>2 DEF Rv!Coded
<1>4. Fits(imm, 11)
  <2>1. 2^(11 - 1) = 2^10 /\ imm \in -2^10 .. (2^10 - 1)
    BY <1>2
  <2>2. QED
    BY <2>1 DEF Fits
<1>5. Right(Rv!Inst("branch", o[1], 0, a, b, imm),
            Rv!BWord(4 * imm, b, a, o[2]))
  BY <1>2, <1>4, OperandsFit, BWordsRight, Zenon
<1>6. QED
  BY <1>3, <1>5, Zenon

LEMMA UCodesRight == \A e \in Rv!UCodes(Registers, Imms20) : Right(e.inst, e.word)
<1>1. SUFFICES ASSUME NEW e \in Rv!UCodes(Registers, Imms20) PROVE Right(e.inst, e.word)
  OBVIOUS
<1>2. PICK o \in {<<"lui", 55>>, <<"auipc", 23>>}, rd \in Registers, imm \in Imms20 :
        e = Rv!Coded(Rv!Inst(o[1], "nop", rd, 0, 0, imm),
                     Rv!UWord(imm, rd, o[2]))
  BY <1>1 DEF Rv!UCodes
<1>3. /\ e.inst = Rv!Inst(o[1], "nop", rd, 0, 0, imm)
      /\ e.word = Rv!UWord(imm, rd, o[2])
  BY <1>2 DEF Rv!Coded
<1>4. Right(Rv!Inst(o[1], "nop", rd, 0, 0, imm),
            Rv!UWord(imm, rd, o[2]))
  BY <1>2, OperandsFit, UWordsRight, Zenon
<1>5. QED
  BY <1>3, <1>4, Zenon

LEMMA JCodesRight == \A e \in Rv!JCodes(Registers, Imms20) : Right(e.inst, e.word)
<1>1. SUFFICES ASSUME NEW e \in Rv!JCodes(Registers, Imms20) PROVE Right(e.inst, e.word)
  OBVIOUS
<1>2. PICK rd \in Registers, imm \in {i \in Imms20 : i \in -2^18 .. (2^18 - 1)} :
        e = Rv!Coded(Rv!Inst("jal", "nop", rd, 0, 0, imm),
                     Rv!JWord(4 * imm, rd))
  BY <1>1 DEF Rv!JCodes
<1>3. /\ e.inst = Rv!Inst("jal", "nop", rd, 0, 0, imm)
      /\ e.word = Rv!JWord(4 * imm, rd)
  BY <1>2 DEF Rv!Coded
<1>4. Fits(imm, 19)
  <2>1. 2^(19 - 1) = 2^18 /\ imm \in -2^18 .. (2^18 - 1)
    BY <1>2
  <2>2. QED
    BY <2>1 DEF Fits
<1>5. Right(Rv!Inst("jal", "nop", rd, 0, 0, imm),
            Rv!JWord(4 * imm, rd))
  BY <1>2, <1>4, OperandsFit, JWordsRight, Zenon
<1>6. QED
  BY <1>3, <1>5, Zenon

LEMMA SystemCodesRight == \A e \in Rv!SystemCodes : Right(e.inst, e.word)
<1>1. ASSUME NEW e, NEW inst, NEW word, e = Rv!Coded(inst, word), Right(inst, word)
      PROVE  Right(e.inst, e.word)
  <2>1. e.inst = inst /\ e.word = word
    BY <1>1 DEF Rv!Coded
  <2>2. QED
    BY <1>1, <2>1, Zenon
<1>2. QED
  BY <1>1, SystemWordsRight DEF Rv!SystemCodes

(* execute_Decode takes every word of RV64IM for the instruction it        *)
(* encodes, and calls divuw and fence illegal: with any registers, and any *)
(* immediate or distance that the format has bits for.                     *)
THEOREM DecodingIsRight == Spec => []DecodesRV64IM
<1>1. InputLegal => DecodesRV64IM
  <2> SUFFICES ASSUME InputLegal, input.check = "word" PROVE DecodesRV64IM
    BY DEF DecodesRV64IM
  <2>1. input \in WordInputs
    BY InputKinds
  <2>2. PICK e \in Rv!Encodings(Registers, Imms12, Shamts, Imms20) :
          input = [check |-> "word", inst |-> e.inst, word |-> e.word]
    BY <2>1 DEF WordInputs
  <2>3. input.inst = e.inst /\ input.word = e.word
    BY <2>2
  <2>4. Right(e.inst, e.word)
    <3>1. \/ e \in Rv!RCodes(Registers) \/ e \in Rv!ICodes(Registers, Imms12)
          \/ e \in Rv!ShiftCodes(Registers, Shamts) \/ e \in Rv!SCodes(Registers, Imms12)
          \/ e \in Rv!BCodes(Registers, Imms12) \/ e \in Rv!UCodes(Registers, Imms20)
          \/ e \in Rv!JCodes(Registers, Imms20) \/ e \in Rv!SystemCodes
      BY <2>2 DEF Rv!Encodings
    <3>2. QED
      BY <3>1, RCodesRight, ICodesRight, ShiftCodesRight, SCodesRight, BCodesRight,
         UCodesRight, JCodesRight, SystemCodesRight, Zenon
  <2>5. QED
    BY <2>3, <2>4, Zenon DEF DecodesRV64IM, Right
<1>2. QED
  BY <1>1, InputsLegal, PTL

=============================================================================
