---------------------- MODULE HierarchyCoherenceProofs ----------------------
(***************************************************************************)
(* Theorems about what module Hierarchy stores: with write back and write  *)
(* allocate at every level, for every number of levels, geometry and trace *)
(* whose lines have words of the array for themselves, the levels together *)
(* are a flat store.                                                       *)
(***************************************************************************)
EXTENDS HierarchyProofs

(* The element of the array that word k of a line of level n comes from,   *)
(* and all elements that the client's lines come from.                     *)
ElementOf(n, line, k) == Source(n + 1, LineBelow(n, line) + 8 * k)

ElementsOf(n) ==
  {ElementOf(n, line, k) : line \in Lines(n), k \in 0 .. (NWords(n) - 1)}

Elements == UNION {ElementsOf(n) : n \in Levels}

(* Word k of block b, of the blocks bs of level n, is element e.           *)
Holds(n, bs, b, k, e) ==
  /\ bs[b].valid
  /\ ElementOf(n, <<bs[b].tag, b[1]>>, k) = e

Positions(n, bs, e) ==
  {p \in BlocksOf(n) \X (0 .. (NWords(n) - 1)) : Holds(n, bs, p[1], p[2], e)}

(* Which elements the blocks of a level hold, and which of them dirty...   *)
Copies(n, bs) ==
  [held  |-> {e \in Elements : Positions(n, bs, e) # {}},
   dirty |-> {e \in Elements : \E p \in Positions(n, bs, e) : bs[p[1]].dirty},
   value |-> [e \in Elements |->
                CHOOSE v \in Values :
                  \A p \in Positions(n, bs, e) : bs[p[1]].data[p[2]] = v]]

(* ...and the memory, which has them all.                                  *)
Stored(mem) ==
  [held  |-> Elements,
   dirty |-> {},
   value |-> [e \in Elements |-> IF e \in MemWords THEN mem[e] ELSE Zero]]

ContentsOf(bl, mem) ==
  [n \in 1 .. (Depth + 1) |->
     IF n \in Levels THEN Copies(n, bl[n]) ELSE Stored(mem)]

(* What the levels hold now.                                               *)
Contents == ContentsOf(blocks, memory)

(* A clean copy is equal to the next one below.                            *)
CopiesAgree(st) ==
  \A n \in Levels, m \in 1 .. (Depth + 1), e \in Elements :
    /\ n < m
    /\ e \in st[n].held \ st[n].dirty
    /\ \A i \in (n + 1) .. (m - 1) : e \notin st[i].held
    /\ e \in st[m].held
    => st[n].value[e] = st[m].value[e]

(* The uppermost copy of each word the client uses is the current one.     *)
TopIsCurrent(st, current) ==
  \A m \in 1 .. (Depth + 1), a \in Addrs :
    /\ \A i \in 1 .. (m - 1) : Source(1, a) \notin st[i].held
    /\ Source(1, a) \in st[m].held
    => st[m].value[Source(1, a)] = current[a]

(* The blocks bs of level n hold lines of the client, each once.           *)
LinesKnown(n, bs) ==
  /\ \A b \in BlocksOf(n) : bs[b].valid => <<bs[b].tag, b[1]>> \in Lines(n)
  /\ \A b, c \in BlocksOf(n) :
       bs[b].valid /\ bs[c].valid /\ b[1] = c[1] /\ bs[b].tag = bs[c].tag => b = c

(* What an activation knows of its level: its line is one of the client's, *)
(* and not there while it is evicted for or refilled.                      *)
Waits(bl, f) ==
  /\ f.at \notin {"through", "around"}
  /\ f.level \in Levels => LineOf(f.level, f.addr) \in Lines(f.level)
  /\ f.at \in {"evict", "refill"} =>
       ~ Level(f.level)!IsHit(bl[f.level], Level(f.level)!IndexOf(f.addr),
                              Level(f.level)!TagOf(f.addr))
  /\ f.at = "evict" => bl[f.level][f.block].valid /\ bl[f.level][f.block].dirty
  /\ f.at = "refill" => ~ bl[f.level][f.block].valid

WaitInv == \A i \in 1 .. Len(stack) : Waits(blocks, stack[i])

(* The line of block b of level n.                                         *)
LineIn(bl, n, b) == <<bl[n][b].tag, b[1]>>

(* The request of an activation, the one that it waits for, and that of    *)
(* the client.                                                             *)
Asks(f) == [level |-> f.level, addr |-> f.addr, read |-> f.read, content |-> f.content]

RequestOf(bl, f) ==
  CASE f.at = "evict"  -> [level |-> f.level + 1,
                           addr |-> LineBelow(f.level, LineIn(bl, f.level, f.block)),
                           read |-> FALSE,
                           content |-> bl[f.level][f.block].data]
    [] f.at = "refill" -> [level |-> f.level + 1,
                           addr |-> LineBelow(f.level, LineOf(f.level, f.addr)),
                           read |-> TRUE, content |-> Blank(NWords(f.level))]
    [] OTHER           -> Asks(f)

ClientRequest ==
  [level |-> 1, addr |-> req.addr, read |-> req.read,
   content |-> [i \in {0} |-> content]]

(* The request that the i-th activation serves: the one before it made it. *)
Served(i) == IF i = 1 THEN ClientRequest ELSE RequestOf(blocks, stack[i - 1])

(* Each activation serves the request of the one that waits for it.        *)
LinkInv ==
  pc = "running" => \A i \in 1 .. Len(stack) : Asks(stack[i]) = Served(i)

(* An answer to a request, of these words, is what the level that was asked*)
(* holds; words that were written are dirty there.                         *)
Answers(st, r, words) ==
  \A i \in DOMAIN r.content :
    LET e == Source(r.level, r.addr + 8 * i)
    IN /\ e \in st[r.level].held
       /\ st[r.level].value[e] = words[i]
       /\ ~ r.read => /\ words[i] = r.content[i]
                      /\ r.level \in Levels => e \in st[r.level].dirty

ReturnInv ==
  pc = "running" /\ ret # Nothing =>
    Answers(Contents, Served(Len(stack) + 1), ret.content)

(* The client's write has reached level 1, and it does not know yet.       *)
Written ==
  /\ pc = "running" /\ ret # Nothing /\ ~ req.read
  /\ stack = << >> \/ (N = 1 /\ Top.at = "again")

Current ==
  [a \in Addrs |-> IF Written /\ WordOf(a) = WordOf(req.addr) THEN content
                   ELSE latest[WordOf(a)]]

(* The inductive invariant.                                                *)
StoreOK ==
  /\ \A n \in Levels : LinesKnown(n, blocks[n])
  /\ WaitInv
  /\ LinkInv
  /\ ReturnInv
  /\ CopiesAgree(Contents)
  /\ TopIsCurrent(Contents, Current)

StoreInv == WriteBackAllocate => StoreOK

-----------------------------------------------------------------------------
(* Addresses.                                                              *)

(* The number of the line of level n that address a lies in.               *)
LineNumber(n, a) == WordOf(a) \div NWords(n)

(* The fields of an address are those of its line's number.                *)
LEMMA FieldsOfLine ==
  ASSUME NEW n \in Levels, NEW a \in Nat
  PROVE  /\ LineNumber(n, a) \in Nat
         /\ Level(n)!SetNum \in Nat \ {0}
         /\ Level(n)!IndexOf(a) = LineNumber(n, a) % Level(n)!SetNum
         /\ Level(n)!TagOf(a) =
              (LineNumber(n, a) \div Level(n)!SetNum) % 2^Level(n)!TagBit
<1> DEFINE ob == Level(n)!OffsetBit
           ib == Level(n)!IndexBit
           tb == Level(n)!TagBit
           sn == Level(n)!SetNum
           nw == NWords(n)
<1>1. tb = AddrBit - ib - ob
  BY DEF Level!TagBit
<1>2. ob \in Nat /\ ib \in Nat /\ ob + ib < AddrBit /\ AddrBit \in Nat
  BY LevelGeometry
<1>3. 2^ob = 8 * nw /\ 2^ib = sn /\ nw \in Nat \ {0} /\ sn \in Nat \ {0}
  BY LevelAssumption, LevelGeometry
<1>4. Level(n)!TagOf(a) = (a \div 2^(AddrBit - 1 - (tb - 1))) % 2^(tb - 1 - 0 + 1)
  BY DEF Level!TagOf, Level!ParseAddr
<1>5. Level(n)!IndexOf(a) = Level(n)!ParseAddr(a, tb, tb + ib - 1)
  BY Zenon DEF Level!IndexOf
<1> HIDE DEF ob, ib, tb, sn, nw
<1>6. 2^(ib + ob) = 2^ib * 2^ob
  <2>1. ib \in 0 .. AddrBit /\ ob \in 0 .. AddrBit /\ ib + ob <= AddrBit
    BY <1>2
  <2>2. QED
    BY <2>1, WidthAssumption
<1>7. a \div (8 * nw) = WordOf(a) \div nw /\ WordOf(a) \in Nat
  <2>1. (a \div 8) \div nw = a \div (8 * nw)
    BY <1>3, 8 \in Nat \ {0}, DivDiv, Zenon
  <2>2. QED
    BY <2>1 DEF WordOf
<1>8. LineNumber(n, a) = WordOf(a) \div nw /\ LineNumber(n, a) \in Nat
  <2>1. LineNumber(n, a) = WordOf(a) \div nw
    BY DEF LineNumber, nw
  <2>2. QED
    BY <1>3, <1>7, <2>1, ModInRange
<1>9. Level(n)!IndexOf(a) = LineNumber(n, a) % sn
  <2>1. AddrBit - 1 - (tb + ib - 1) = ob /\ tb + ib - 1 - tb + 1 = ib
    BY <1>1, <1>2
  <2>2. Level(n)!IndexOf(a) = (a \div 2^ob) % 2^ib
    BY <1>1, <1>2, <1>5, <2>1 DEF Level!ParseAddr
  <2>3. QED
    BY <1>3, <1>7, <1>8, <2>2
<1>10. Level(n)!TagOf(a) = (LineNumber(n, a) \div sn) % 2^tb
  <2>1. AddrBit - 1 - (tb - 1) = ib + ob /\ tb - 1 - 0 + 1 = tb
    BY <1>1, <1>2
  <2>2. Level(n)!TagOf(a) = (a \div 2^(ib + ob)) % 2^tb
    BY <1>4, <2>1
  <2>3. 2^(ib + ob) = (8 * nw) * sn
    <3>1. sn * (8 * nw) = (8 * nw) * sn
      BY <1>3
    <3>2. QED
      BY <1>3, <1>6, <3>1
  <2>4. a \div ((8 * nw) * sn) = (a \div (8 * nw)) \div sn
    <3>1. 8 * nw \in Nat \ {0}
      BY <1>3
    <3>2. QED
      BY <1>3, <3>1, DivDiv
  <2>5. a \div 2^(ib + ob) = LineNumber(n, a) \div sn
    BY <1>7, <1>8, <2>3, <2>4
  <2>6. QED
    BY <2>2, <2>5
<1>11. QED
  BY <1>3, <1>8, <1>9, <1>10 DEF sn, tb

(* Addresses of one line have its tag and its index.                       *)
LEMMA SameLine ==
  ASSUME NEW n \in Levels, NEW a \in Nat, NEW b \in Nat,
         LineNumber(n, a) = LineNumber(n, b)
  PROVE  LineOf(n, a) = LineOf(n, b)
BY FieldsOfLine DEF LineOf

(* Addresses of one word have all fields in common.                        *)
LEMMA SameWord ==
  ASSUME NEW n \in Levels, NEW a \in Nat, NEW b \in Nat, WordOf(a) = WordOf(b)
  PROVE  /\ LineOf(n, a) = LineOf(n, b)
         /\ Level(n)!OffsetWord(a) = Level(n)!OffsetWord(b)
BY SameLine, FieldsInRange DEF LineNumber

(* The words of an aligned request follow each other in one line.          *)
LEMMA RequestInLine ==
  ASSUME NEW n \in Levels, NEW a \in Nat, NEW c \in Nat \ {0},
         WordOf(a) % c = 0, NWords(n) % c = 0, NEW i \in 0 .. (c - 1)
  PROVE  /\ a + 8 * i \in Nat
         /\ WordOf(a + 8 * i) = WordOf(a) + i
         /\ LineOf(n, a + 8 * i) = LineOf(n, a)
         /\ Level(n)!OffsetWord(a + 8 * i) = Level(n)!OffsetWord(a) + i
         /\ Level(n)!OffsetWord(a) + i \in 0 .. (NWords(n) - 1)
<1> DEFINE w == WordOf(a)
           nw == NWords(n)
<1>1. a + 8 * i \in Nat /\ WordOf(a + 8 * i) = w + i /\ w \in Nat
  BY DEF WordOf
<1>2. nw \in Nat \ {0}
  BY LevelWords
<1>3. (w % nw) + c <= nw
  BY <1>1, <1>2, AlignedFits
<1>4. PICK q \in Nat, r \in 0 .. (nw - 1) :
        w = nw * q + r /\ w \div nw = q /\ w % nw = r
  <2> HIDE DEF w, nw
  <2>1. QED
    BY <1>1, <1>2, DivMod, Zenon
<1> HIDE DEF w, nw
<1>5. r + i \in 0 .. (nw - 1)
  BY <1>2, <1>3, <1>4
<1>6. w + i = nw * q + (r + i) /\ w + i \in Nat
  BY <1>1, <1>2, <1>4
<1>7. (w + i) \div nw = q /\ (w + i) % nw = r + i
  BY <1>2, <1>5, <1>6, DivUnique, Zenon
<1>8. LineNumber(n, a + 8 * i) = LineNumber(n, a)
  BY <1>1, <1>4, <1>7, Zenon DEF LineNumber, w, nw
<1>9. LineOf(n, a + 8 * i) = LineOf(n, a)
  BY <1>1, <1>8, SameLine
<1>10. Level(n)!OffsetWord(a) = r /\ Level(n)!OffsetWord(a + 8 * i) = r + i
  BY <1>1, <1>4, <1>7, FieldsInRange, Zenon DEF w, nw
<1>11. QED
  BY <1>1, <1>5, <1>9, <1>10 DEF w, nw

(* Addresses that fit into their width are told apart by their fields.     *)
LEMMA FieldsTellApart ==
  ASSUME NEW n \in Levels, NEW a \in Nat, NEW b \in Nat,
         a < 2^AddrBit, b < 2^AddrBit,
         LineOf(n, a) = LineOf(n, b),
         Level(n)!OffsetWord(a) = Level(n)!OffsetWord(b)
  PROVE  WordOf(a) = WordOf(b)
<1> DEFINE sn == Level(n)!SetNum
           tb == Level(n)!TagBit
           nw == NWords(n)
<1>1. nw \in Nat \ {0} /\ sn \in Nat \ {0} /\ 2^tb \in Nat \ {0}
      /\ 2^AddrBit = ((8 * nw) * sn) * 2^tb
  <2> DEFINE ob == Level(n)!OffsetBit
             ib == Level(n)!IndexBit
  <2>1. tb = AddrBit - ib - ob
    BY DEF Level!TagBit
  <2>2. ob \in Nat /\ ib \in Nat /\ ob + ib < AddrBit /\ AddrBit \in Nat
    BY LevelGeometry
  <2>3. 2^ob = 8 * nw /\ 2^ib = sn /\ nw \in Nat \ {0} /\ sn \in Nat \ {0}
    BY LevelAssumption, LevelGeometry
  <2> HIDE DEF ob, ib, tb, sn, nw
  <2>4. ob \in 0 .. AddrBit /\ ib \in 0 .. AddrBit /\ tb \in 0 .. AddrBit
        /\ ob + ib \in 0 .. AddrBit /\ ob + ib <= AddrBit
        /\ (ob + ib) + tb = AddrBit
    BY <2>1, <2>2
  <2>5. 2^(ob + ib) = 2^ob * 2^ib /\ 2^((ob + ib) + tb) = 2^(ob + ib) * 2^tb
    BY <2>4, WidthAssumption
  <2>6. 2^tb \in Nat \ {0}
    BY <2>4, WidthAssumption
  <2>7. QED
    BY <2>3, <2>4, <2>5, <2>6
<1>2. ASSUME NEW x \in Nat, x < 2^AddrBit
      PROVE  /\ LineNumber(n, x) \in Nat
             /\ WordOf(x) = nw * LineNumber(n, x) + Level(n)!OffsetWord(x)
             /\ LineNumber(n, x) =
                  sn * Level(n)!TagOf(x) + Level(n)!IndexOf(x)
  <2> DEFINE q == LineNumber(n, x)
             w == WordOf(x)
  <2>1. q \in Nat /\ Level(n)!IndexOf(x) = q % sn
        /\ Level(n)!TagOf(x) = (q \div sn) % 2^tb
    BY FieldsOfLine
  <2>2. Level(n)!OffsetWord(x) = w % nw /\ w \in Nat /\ q = w \div nw
    BY FieldsInRange DEF LineNumber, WordOf
  <2> HIDE DEF q, sn, tb, nw
  <2>3. w = nw * q + Level(n)!OffsetWord(x)
    <3>1. PICK p \in Nat, r \in 0 .. (nw - 1) :
            w = nw * p + r /\ w \div nw = p /\ w % nw = r
      BY <1>1, <2>2, DivMod, Zenon
    <3>2. p = q /\ Level(n)!OffsetWord(x) = r
      BY <2>2, <3>1, Zenon
    <3>3. QED
      BY <3>1, <3>2, Zenon
  <2>4. PICK d \in Nat, s \in 0 .. (sn - 1) :
          q = sn * d + s /\ q \div sn = d /\ q % sn = s
    BY <1>1, <2>1, DivMod, Zenon DEF q
  <2>5. d < 2^tb
    <3>1. q = x \div (8 * nw)
      BY <1>1, <2>2, 8 \in Nat \ {0}, DivDiv, Zenon DEF WordOf, w
    <3>2. 8 * nw \in Nat \ {0}
      BY <1>1
    <3>3. d = x \div ((8 * nw) * sn)
      <4>1. (x \div (8 * nw)) \div sn = x \div ((8 * nw) * sn)
        BY <1>1, <3>2, DivDiv, Zenon
      <4>2. QED
        BY <2>4, <3>1, <4>1, Zenon
    <3> DEFINE k == (8 * nw) * sn
               m == 2^tb
    <3>4. k \in Nat \ {0} /\ m \in Nat \ {0}
      BY <1>1, <3>2
    <3>5. x < k * m
      BY <1>1, <1>2
    <3> HIDE DEF k, m
    <3>6. PICK r \in 0 .. (k - 1) : x = k * d + r
      <4>1. \E p \in Nat, r \in 0 .. (k - 1) :
              x = k * p + r /\ x \div k = p /\ x % k = r
        BY <1>2, <3>4, DivMod, Zenon
      <4>2. x \div k = d
        BY <3>3, Zenon DEF k
      <4>3. QED
        BY <4>1, <4>2, Zenon
    <3>7. ~ (d >= m)
      <4> SUFFICES ASSUME d >= m PROVE FALSE
        OBVIOUS
      <4>1. k * d >= k * m
        BY <3>4
      <4>2. k * d \in Nat /\ k * m \in Nat
        BY <3>4
      <4>3. QED
        BY <3>4, <3>5, <3>6, <4>1, <4>2
    <3>8. d < m
      BY <3>4, <3>7
    <3>9. QED
      BY <3>8 DEF m
  <2>6. d % 2^tb = d
    BY <1>1, <2>5, ModInRange
  <2>7. Level(n)!TagOf(x) = d /\ Level(n)!IndexOf(x) = s
    BY <2>1, <2>4, <2>6, Zenon
  <2>8. LineNumber(n, x) = q /\ WordOf(x) = w
    BY DEF q, w
  <2>9. q = sn * Level(n)!TagOf(x) + Level(n)!IndexOf(x)
    BY <2>4, <2>7, Zenon
  <2>10. QED
    BY <2>1, <2>3, <2>8, <2>9, Zenon
<1>3. Level(n)!TagOf(a) = Level(n)!TagOf(b) /\ Level(n)!IndexOf(a) = Level(n)!IndexOf(b)
  BY DEF LineOf
<1> HIDE DEF sn, tb, nw
<1>4. QED
  BY <1>2, <1>3

-----------------------------------------------------------------------------
(* The way down from a level to the array.                                 *)

(* A line's address below is that of a block of its level.                 *)
LEMMA LineBelowAligned ==
  ASSUME NEW n \in Levels, NEW line \in Nat \X Nat
  PROVE  /\ LineBelow(n, line) \in Nat
         /\ WordOf(LineBelow(n, line)) % NWords(n) = 0
BY BlockAddrAligned DEF LineBelow

(* An address selects a line, a word of it, and an address below.          *)
LEMMA AddressParts ==
  ASSUME NEW n \in Levels, NEW a \in Nat
  PROVE  /\ LineOf(n, a) \in Nat \X Nat
         /\ LineOf(n, a)[1] = Level(n)!TagOf(a)
         /\ LineOf(n, a)[2] = Level(n)!IndexOf(a)
         /\ Level(n)!OffsetWord(a) \in 0 .. (NWords(n) - 1)
         /\ WordBelow(n, a) \in Nat
<1>1. Level(n)!TagOf(a) \in Nat /\ Level(n)!IndexOf(a) \in Nat
  BY FieldsInRange, LevelBlocks
<1>2. LineOf(n, a) \in Nat \X Nat
  BY <1>1 DEF LineOf
<1>3. Level(n)!OffsetWord(a) \in 0 .. (NWords(n) - 1)
  <2>1. Level(n)!OffsetWord(a) = WordOf(a) % NWords(n)
    BY FieldsInRange
  <2>2. WordOf(a) \in Nat /\ NWords(n) \in Nat \ {0}
    BY LevelWords DEF WordOf
  <2>3. QED
    BY <2>1, <2>2, ModInRange
<1>4. LineBelow(n, LineOf(n, a)) \in Nat
  BY <1>2, LineBelowAligned
<1>5. WordBelow(n, a) \in Nat
  BY <1>3, <1>4, LevelWords DEF WordBelow
<1>6. QED
  BY <1>1, <1>2, <1>3, <1>5 DEF LineOf

(* The way down ends in the array, and goes one level at a time.           *)
LEMMA SourceUnfolds ==
  /\ \A a \in Nat : Source(Depth + 1, a) = WordOf(a)
  /\ \A n \in Levels, a \in Nat : Source(n, a) = Source(n + 1, WordBelow(n, a))
<1> DEFINE Is(s) == s = [m \in 0 .. Depth |->
                           [x \in Nat |-> IF m = 0 THEN WordOf(x)
                                          ELSE s[m - 1][WordBelow(Depth + 1 - m, x)]]]
           X == [Nat -> Nat]
           x0 == [x \in Nat |-> WordOf(x)]
           step == [p \in Nat \X X |->
                      IF p[1] \in 1 .. Depth
                        THEN [x \in Nat |-> p[2][WordBelow(Depth + 1 - p[1], x)]]
                        ELSE x0]
<1>1. Depth \in Nat /\ \A m \in 1 .. Depth : Depth + 1 - m \in Levels
  BY HierarchyAssumption DEF Levels
<1>2. x0 \in X
  BY DEF WordOf
<1>3. step \in [Nat \X X -> X]
  <2> SUFFICES ASSUME NEW k \in Nat, NEW g \in X, k \in 1 .. Depth
               PROVE  [x \in Nat |-> g[WordBelow(Depth + 1 - k, x)]] \in X
    BY <1>2
  <2>1. \A x \in Nat : WordBelow(Depth + 1 - k, x) \in Nat
    BY <1>1, AddressParts
  <2>2. QED
    BY <2>1
<1> HIDE DEF step, x0
<1>4. PICK f \in [0 .. Depth -> X] :
        f[0] = x0 /\ \A k \in 1 .. Depth : f[k] = step[<<k, f[k - 1]>>]
  <2> HIDE DEF X
  <2>1. PICK f : Recurs(f, X, x0, step, Depth)
    BY <1>1, <1>2, <1>3, Recursion, Zenon
  <2>2. QED
    BY <2>1 DEF Recurs
<1>5. Is(f)
  <2>1. ASSUME NEW m \in 0 .. Depth
        PROVE  f[m] = [x \in Nat |-> IF m = 0 THEN WordOf(x)
                                     ELSE f[m - 1][WordBelow(Depth + 1 - m, x)]]
    <3>1. CASE m = 0
      BY <1>4, <3>1 DEF x0
    <3>2. CASE m # 0
      <4>1. m \in 1 .. Depth /\ m - 1 \in 0 .. Depth /\ m \in Nat
        BY <1>1, <3>2
      <4> HIDE DEF X
      <4>5. f[m - 1] \in X
        BY <1>4, <4>1
      <4>2. f[m] = step[<<m, f[m - 1]>>]
        BY <1>4, <4>1
      <4>3. step[<<m, f[m - 1]>>] = [x \in Nat |-> f[m - 1][WordBelow(Depth + 1 - m, x)]]
        BY <4>1, <4>5 DEF step
      <4>4. QED
        BY <3>2, <4>2, <4>3
    <3>3. QED
      BY <3>1, <3>2
  <2>2. QED
    BY <1>4, <2>1
<1> DEFINE source == CHOOSE s : Is(s)
<1>6. Is(source)
  BY <1>5
<1>7. \A n, a : Source(n, a) = source[Depth + 1 - n][a]
  BY DEF Source
<1> HIDE DEF source
<1>8. \A m \in 0 .. Depth, x \in Nat :
        source[m][x] = IF m = 0 THEN WordOf(x)
                       ELSE source[m - 1][WordBelow(Depth + 1 - m, x)]
  <2> TAKE m \in 0 .. Depth
  <2>1. source[m] = [x \in Nat |-> IF m = 0 THEN WordOf(x)
                                   ELSE source[m - 1][WordBelow(Depth + 1 - m, x)]]
    BY <1>6, Zenon
  <2>2. QED
    BY <2>1, Zenon
<1>9. ASSUME NEW a \in Nat PROVE Source(Depth + 1, a) = WordOf(a)
  <2>1. Depth + 1 - (Depth + 1) = 0 /\ 0 \in 0 .. Depth
    BY <1>1
  <2>2. QED
    BY <1>7, <1>8, <2>1
<1>10. ASSUME NEW n \in Levels, NEW a \in Nat
       PROVE  Source(n, a) = Source(n + 1, WordBelow(n, a))
  <2> DEFINE m == Depth + 1 - n
  <2>1. m \in 0 .. Depth /\ m # 0 /\ Depth + 1 - m = n /\ Depth + 1 - (n + 1) = m - 1
    BY <1>1 DEF Levels
  <2>2. Source(n, a) = source[m][a] /\ Source(n + 1, WordBelow(n, a)) = source[m - 1][WordBelow(n, a)]
    BY <1>7, <2>1
  <2> HIDE DEF m
  <2>3. QED
    BY <1>8, <2>1, <2>2
<1>11. QED
  BY <1>9, <1>10

(* An address comes from the element of the word of the line it selects.   *)
LEMMA SourceOfWord ==
  ASSUME NEW n \in Levels, NEW a \in Nat
  PROVE  Source(n, a) = ElementOf(n, LineOf(n, a), Level(n)!OffsetWord(a))
BY SourceUnfolds DEF ElementOf, WordBelow

(* The lines of the level below that these lines of level n lead to.       *)
LinesUnder(n, lines) == {LineOf(n + 1, LineBelow(n, line)) : line \in lines}

(* The lines of level 1 are those of the client's addresses, the lines of  *)
(* another those of the level above.                                       *)
LEMMA LinesUnfold ==
  /\ Lines(1) = {LineOf(1, a) : a \in Addrs}
  /\ \A n \in Levels : n + 1 \in Levels =>
       Lines(n + 1) = LinesUnder(n, Lines(n))
  /\ \A n \in Levels : Lines(n) \subseteq Nat \X Nat
<1> DEFINE Is(s) == s = [m \in 1 .. Depth |->
                           IF m = 1 THEN {LineOf(1, a) : a \in Addrs}
                           ELSE {LineOf(m, LineBelow(m - 1, line)) : line \in s[m - 1]}]
           X == SUBSET (Nat \X Nat)
           x0 == {LineOf(1, a) : a \in Addrs}
           step == [p \in Nat \X X |->
                      IF p[1] \in 1 .. (Depth - 1)
                        THEN LinesUnder(p[1], p[2])
                        ELSE x0]
<1>1. Depth \in Nat \ {0} /\ Levels = 1 .. Depth /\ Addrs \subseteq Nat
  BY HierarchyAssumption DEF Levels
<1>2. x0 \in X
  <2>1. \A a \in Addrs : LineOf(1, a) \in Nat \X Nat
    BY <1>1, AddressParts
  <2>2. QED
    BY <2>1
<1>3. step \in [Nat \X X -> X]
  <2> SUFFICES ASSUME NEW k \in Nat, NEW g \in X, k \in 1 .. (Depth - 1)
               PROVE  LinesUnder(k, g) \in X
    BY <1>2
  <2>1. ASSUME NEW line \in g PROVE LineOf(k + 1, LineBelow(k, line)) \in Nat \X Nat
    <3>1. k \in Levels /\ k + 1 \in Levels /\ line \in Nat \X Nat
      BY <1>1
    <3>2. LineBelow(k, line) \in Nat
      BY <3>1, LineBelowAligned
    <3>3. QED
      BY <3>1, <3>2, AddressParts
  <2>2. QED
    BY <2>1 DEF LinesUnder
<1> HIDE DEF step, x0
<1>4. PICK f \in [0 .. (Depth - 1) -> X] :
        f[0] = x0 /\ \A k \in 1 .. (Depth - 1) : f[k] = step[<<k, f[k - 1]>>]
  <2>1. Depth - 1 \in Nat
    BY <1>1
  <2> HIDE DEF X
  <2>2. PICK f : Recurs(f, X, x0, step, Depth - 1)
    BY <1>2, <1>3, <2>1, Recursion, Zenon
  <2>3. QED
    BY <2>2 DEF Recurs
<1> DEFINE g == [m \in 1 .. Depth |-> f[m - 1]]
<1>5. Is(g)
  <2>1. ASSUME NEW m \in 1 .. Depth
        PROVE  g[m] = IF m = 1 THEN {LineOf(1, a) : a \in Addrs}
                      ELSE {LineOf(m, LineBelow(m - 1, line)) : line \in g[m - 1]}
    <3>1. CASE m = 1
      BY <1>4, <3>1 DEF x0
    <3>2. CASE m # 1
      <4>1. PICK k \in 1 .. (Depth - 1) : m = k + 1
        BY <1>1, <3>2
      <4>2. k - 1 \in 0 .. (Depth - 1) /\ f[k - 1] \in X /\ k \in Nat
            /\ g[m] = f[k] /\ g[m - 1] = f[k - 1] /\ m - 1 = k
        BY <1>1, <1>4, <4>1
      <4>3. f[k] = step[<<k, f[k - 1]>>]
        BY <1>4
      <4>4. step[<<k, f[k - 1]>>] = LinesUnder(k, f[k - 1])
        BY <4>2 DEF step
      <4>5. QED
        BY <3>2, <4>1, <4>2, <4>3, <4>4 DEF LinesUnder
    <3>3. QED
      BY <3>1, <3>2
  <2>2. QED
    BY <2>1
<1> DEFINE lines == CHOOSE s : Is(s)
<1>6. Is(lines)
  BY <1>5
<1>7. \A n : Lines(n) = lines[n]
  BY DEF Lines
<1> HIDE DEF lines
<1>8. Lines(1) = x0
  <2>1. lines[1] = {LineOf(1, a) : a \in Addrs}
    <3>1. 1 \in 1 .. Depth
      BY <1>1
    <3>2. QED
      BY <1>6, <3>1, Zenon
  <2>2. QED
    BY <1>7, <2>1, Zenon DEF x0
<1>9. ASSUME NEW n \in Levels, n + 1 \in Levels
      PROVE  Lines(n + 1) = LinesUnder(n, Lines(n))
  <2>1. PICK m \in 1 .. Depth : m = n + 1 /\ m # 1 /\ m - 1 = n
    BY <1>1, <1>9
  <2>2. lines[m] = IF m = 1 THEN {LineOf(1, a) : a \in Addrs}
                   ELSE {LineOf(m, LineBelow(m - 1, line)) : line \in lines[m - 1]}
    BY <1>6, Zenon
  <2>3. lines[m] = {LineOf(m, LineBelow(m - 1, line)) : line \in lines[m - 1]}
    BY <2>1, <2>2, Zenon
  <2>4. lines[n + 1] = {LineOf(n + 1, LineBelow(n, line)) : line \in lines[n]}
    BY <2>1, <2>3, Zenon
  <2>5. QED
    BY <1>7, <2>4, Zenon DEF LinesUnder
<1>10. ASSUME NEW n \in Levels PROVE Lines(n) \subseteq Nat \X Nat
  <2> DEFINE S == {k \in Nat : k + 1 \in Levels => Lines(k + 1) \subseteq Nat \X Nat}
  <2>1. 0 \in S
    BY <1>2, <1>8
  <2>2. ASSUME NEW k \in Nat, k \in S PROVE k + 1 \in S
    <3> SUFFICES ASSUME (k + 1) + 1 \in Levels
                 PROVE  Lines((k + 1) + 1) \subseteq Nat \X Nat
      OBVIOUS
    <3>1. k + 1 \in Levels
      BY <1>1
    <3>2. \A line \in Lines(k + 1) : LineOf((k + 1) + 1, LineBelow(k + 1, line)) \in Nat \X Nat
      <4> TAKE line \in Lines(k + 1)
      <4>1. LineBelow(k + 1, line) \in Nat
        BY <2>2, <3>1, LineBelowAligned
      <4>2. QED
        BY <4>1, AddressParts
    <3>3. LinesUnder(k + 1, Lines(k + 1)) \subseteq Nat \X Nat
      BY <3>2 DEF LinesUnder
    <3>4. QED
      BY <1>9, <3>1, <3>3
  <2> HIDE DEF S
  <2>3. Nat \subseteq S
    BY <2>1, <2>2, SetInduction
  <2>4. n - 1 \in Nat /\ n - 1 + 1 = n
    BY <1>1
  <2>5. QED
    BY <2>3, <2>4 DEF S
<1>11. QED
  BY <1>8, <1>9, <1>10 DEF x0

-----------------------------------------------------------------------------
(* Elements.                                                               *)

(* The client's addresses lie in lines of level 1.                         *)
LEMMA ClientLine ==
  ASSUME NEW a \in Addrs
  PROVE  a \in Nat /\ 1 \in Levels /\ LineOf(1, a) \in Lines(1)
<1>1. a \in Nat /\ 1 \in Levels
  BY HierarchyAssumption DEF Levels
<1>2. LineOf(1, a) \in Lines(1)
  BY LinesUnfold
<1>3. QED
  BY <1>1, <1>2

(* A line of the client is one, and lies in a line of the level below.     *)
LEMMA LineTypes ==
  ASSUME NEW n \in Levels, NEW line \in Lines(n)
  PROVE  /\ line \in Nat \X Nat
         /\ LineBelow(n, line) \in Nat
         /\ WordOf(LineBelow(n, line)) % NWords(n) = 0
         /\ n + 1 \in Levels => LineOf(n + 1, LineBelow(n, line)) \in Lines(n + 1)
<1>1. line \in Nat \X Nat
  BY LinesUnfold
<1>2. n + 1 \in Levels => LineOf(n + 1, LineBelow(n, line)) \in Lines(n + 1)
  <2> SUFFICES ASSUME n + 1 \in Levels
               PROVE  LineOf(n + 1, LineBelow(n, line)) \in Lines(n + 1)
    OBVIOUS
  <2>1. Lines(n + 1) = LinesUnder(n, Lines(n))
    BY LinesUnfold
  <2>2. QED
    BY <2>1 DEF LinesUnder
<1>3. QED
  BY <1>1, <1>2, LineBelowAligned

(* All words of a line lie in that line of the level below.                *)
LEMMA WordsOfLine ==
  ASSUME NEW n \in Levels, n + 1 \in Levels, NEW line \in Lines(n),
         NEW k \in 0 .. (NWords(n) - 1)
  PROVE  LineOf(n + 1, LineBelow(n, line) + 8 * k) \in Lines(n + 1)
<1>1. NWords(n) \in Nat \ {0} /\ NWords(n + 1) % NWords(n) = 0
  BY LevelWords, LevelsNest
<1>2. LineOf(n + 1, LineBelow(n, line) + 8 * k) = LineOf(n + 1, LineBelow(n, line))
  BY <1>1, LineTypes, RequestInLine
<1>3. QED
  BY <1>2, LineTypes

(* What a line's words are...                                              *)
LEMMA ElementOfLine ==
  ASSUME NEW n \in Levels, NEW line \in Lines(n), NEW k \in 0 .. (NWords(n) - 1)
  PROVE  ElementOf(n, line, k) \in Elements
<1>1. ElementOf(n, line, k) \in ElementsOf(n)
  BY DEF ElementsOf
<1>2. QED
  BY <1>1 DEF Elements

(* ...is theirs alone.                                                     *)
LEMMA ElementsApart ==
  ASSUME AddressesSound, NEW n \in Levels, NEW l \in Lines(n), NEW m \in Lines(n),
         NEW j \in 0 .. (NWords(n) - 1), NEW k \in 0 .. (NWords(n) - 1),
         ElementOf(n, l, j) = ElementOf(n, m, k)
  PROVE  l = m /\ j = k
BY DEF AddressesSound, ElementOf

(* The words of a request to a cache are elements of its line.             *)
LEMMA RequestElements ==
  ASSUME NEW n \in Levels, NEW a \in Nat, LineOf(n, a) \in Lines(n),
         NEW c \in Nat \ {0}, WordOf(a) % c = 0, NWords(n) % c = 0,
         NEW i \in 0 .. (c - 1)
  PROVE  /\ Level(n)!OffsetWord(a) + i \in 0 .. (NWords(n) - 1)
         /\ Source(n, a + 8 * i) = ElementOf(n, LineOf(n, a), Level(n)!OffsetWord(a) + i)
         /\ Source(n, a + 8 * i) \in Elements
<1>1. /\ a + 8 * i \in Nat
      /\ LineOf(n, a + 8 * i) = LineOf(n, a)
      /\ Level(n)!OffsetWord(a + 8 * i) = Level(n)!OffsetWord(a) + i
      /\ Level(n)!OffsetWord(a) + i \in 0 .. (NWords(n) - 1)
  BY RequestInLine
<1>2. Source(n, a + 8 * i) = ElementOf(n, LineOf(n, a), Level(n)!OffsetWord(a) + i)
  BY <1>1, SourceOfWord
<1>3. QED
  BY <1>1, <1>2, ElementOfLine

(* What the client's addresses come from.                                  *)
LEMMA ClientElements ==
  ASSUME NEW a \in Addrs
  PROVE  /\ Source(1, a) = ElementOf(1, LineOf(1, a), Level(1)!OffsetWord(a))
         /\ Level(1)!OffsetWord(a) \in 0 .. (NWords(1) - 1)
         /\ Source(1, a) \in Elements
BY ClientLine, AddressParts, SourceOfWord, ElementOfLine

(* Two addresses of the client come from one element if and only if they   *)
(* lie in one word.                                                        *)
LEMMA ClientWords ==
  ASSUME AddressesSound, NEW a \in Addrs, NEW b \in Addrs
  PROVE  Source(1, a) = Source(1, b) <=> WordOf(a) = WordOf(b)
<1>1. a \in Nat /\ b \in Nat /\ 1 \in Levels /\ a < 2^AddrBit /\ b < 2^AddrBit
  BY ClientLine DEF AddressesSound
<1>2. ASSUME WordOf(a) = WordOf(b) PROVE Source(1, a) = Source(1, b)
  BY <1>1, <1>2, SameWord, ClientElements
<1>3. ASSUME Source(1, a) = Source(1, b) PROVE WordOf(a) = WordOf(b)
  <2>1. LineOf(1, a) = LineOf(1, b) /\ Level(1)!OffsetWord(a) = Level(1)!OffsetWord(b)
    BY <1>1, <1>3, ClientElements, ClientLine, ElementsApart
  <2>2. QED
    BY <1>1, <2>1, FieldsTellApart
<1>4. QED
  BY <1>2, <1>3

-----------------------------------------------------------------------------
(* What a level holds.                                                     *)

(* The positions at which the blocks bs of level n hold element e.         *)
LEMMA CopiesFields ==
  ASSUME NEW n, NEW bs, NEW e \in Elements
  PROVE  /\ e \in Copies(n, bs).held <=>
              \E b \in BlocksOf(n), k \in 0 .. (NWords(n) - 1) : Holds(n, bs, b, k, e)
         /\ e \in Copies(n, bs).dirty <=>
              \E b \in BlocksOf(n), k \in 0 .. (NWords(n) - 1) :
                Holds(n, bs, b, k, e) /\ bs[b].dirty
         /\ Copies(n, bs).value[e] =
              CHOOSE v \in Values :
                \A p \in Positions(n, bs, e) : bs[p[1]].data[p[2]] = v
<1>1. /\ e \in Copies(n, bs).held <=> Positions(n, bs, e) # {}
      /\ e \in Copies(n, bs).dirty <=> \E p \in Positions(n, bs, e) : bs[p[1]].dirty
      /\ Copies(n, bs).value[e] =
           CHOOSE v \in Values : \A p \in Positions(n, bs, e) : bs[p[1]].data[p[2]] = v
  BY DEF Copies
<1>2. \A b \in BlocksOf(n), k \in 0 .. (NWords(n) - 1) :
        Holds(n, bs, b, k, e) => <<b, k>> \in Positions(n, bs, e)
  BY DEF Positions
<1>3. \A p \in Positions(n, bs, e) :
        p[1] \in BlocksOf(n) /\ p[2] \in 0 .. (NWords(n) - 1) /\ Holds(n, bs, p[1], p[2], e)
  BY DEF Positions
<1>4. \A b, k : <<b, k>>[1] = b
  OBVIOUS
<1>5. e \in Copies(n, bs).held <=>
        \E b \in BlocksOf(n), k \in 0 .. (NWords(n) - 1) : Holds(n, bs, b, k, e)
  BY ONLY <1>1, <1>2, <1>3
<1>6. e \in Copies(n, bs).dirty <=>
        \E b \in BlocksOf(n), k \in 0 .. (NWords(n) - 1) :
          Holds(n, bs, b, k, e) /\ bs[b].dirty
  BY ONLY <1>1, <1>2, <1>3, <1>4
<1>7. QED
  BY <1>1, <1>5, <1>6

(* There is one position at most.                                          *)
LEMMA OnePosition ==
  ASSUME AddressesSound, NEW n \in Levels, NEW bs, LinesKnown(n, bs), NEW e,
         NEW b \in BlocksOf(n), NEW k \in 0 .. (NWords(n) - 1), Holds(n, bs, b, k, e),
         NEW c \in BlocksOf(n), NEW j \in 0 .. (NWords(n) - 1), Holds(n, bs, c, j, e)
  PROVE  b = c /\ k = j
<1>1. /\ <<bs[b].tag, b[1]>> \in Lines(n) /\ <<bs[c].tag, c[1]>> \in Lines(n)
      /\ bs[b].valid /\ bs[c].valid
  BY DEF LinesKnown, Holds
<1>2. <<bs[b].tag, b[1]>> = <<bs[c].tag, c[1]>> /\ k = j
  BY <1>1, ElementsApart DEF Holds
<1>3. bs[b].tag = bs[c].tag /\ b[1] = c[1]
  BY <1>2
<1>4. QED
  BY <1>1, <1>2, <1>3 DEF LinesKnown

(* The word at that position, and its block, are the copy.                 *)
IsCopy(n, bs, b, k, e) ==
  /\ e \in Elements
  /\ e \in Copies(n, bs).held
  /\ e \in Copies(n, bs).dirty <=> bs[b].dirty
  /\ Copies(n, bs).value[e] = bs[b].data[k]

(* It is.                                                                  *)
LEMMA CopyAt ==
  ASSUME AddressesSound, NEW n \in Levels, NEW bs \in [BlocksOf(n) -> BlockAt(n)],
         LinesKnown(n, bs), NEW e,
         NEW b \in BlocksOf(n), NEW k \in 0 .. (NWords(n) - 1), Holds(n, bs, b, k, e)
  PROVE  IsCopy(n, bs, b, k, e)
<1>1. e \in Elements
  BY ElementOfLine DEF Holds, LinesKnown
<1>2. \A c \in BlocksOf(n), j \in 0 .. (NWords(n) - 1) :
        Holds(n, bs, c, j, e) => c = b /\ j = k
  BY OnePosition
<1>3. e \in Copies(n, bs).held
  BY <1>1, CopiesFields
<1>4. e \in Copies(n, bs).dirty <=> bs[b].dirty
  BY <1>1, <1>2, CopiesFields
<1>5. Copies(n, bs).value[e] = bs[b].data[k]
  <2> DEFINE P == Positions(n, bs, e)
  <2>1. P = {<<b, k>>}
    <3>1. <<b, k>> \in P
      BY DEF Positions
    <3>2. \A q \in P : q = <<b, k>>
      BY <1>2 DEF Positions
    <3>3. QED
      BY <3>1, <3>2
  <2>2. bs[b].data[k] \in Values
    BY DEF BlockAt, Words
  <2>3. Copies(n, bs).value[e] = CHOOSE v \in Values : \A p \in P : bs[p[1]].data[p[2]] = v
    BY <1>1, CopiesFields
  <2> HIDE DEF P
  <2>4. \A v : (\A p \in P : bs[p[1]].data[p[2]] = v) <=> bs[b].data[k] = v
    <3>1. <<b, k>>[1] = b /\ <<b, k>>[2] = k
      OBVIOUS
    <3>2. QED
      BY <2>1, <3>1
  <2>5. QED
    BY <2>2, <2>3, <2>4
<1>6. QED
  BY <1>1, <1>3, <1>4, <1>5 DEF IsCopy

(* What is not at a position is not held.                                  *)
LEMMA NoCopy ==
  ASSUME NEW n \in Levels, NEW bs, NEW e \in Elements
  PROVE  e \in Copies(n, bs).held =>
           \E b \in BlocksOf(n), k \in 0 .. (NWords(n) - 1) : Holds(n, bs, b, k, e)
BY CopiesFields

(* A lookup hits if and only if the level holds the line's words, and the  *)
(* block it finds holds them.                                              *)
LEMMA HitHolds ==
  ASSUME AddressesSound, NEW n \in Levels, NEW bs \in [BlocksOf(n) -> BlockAt(n)],
         LinesKnown(n, bs), NEW line \in Lines(n), line[2] \in Level(n)!Sets,
         NEW k \in 0 .. (NWords(n) - 1)
  PROVE  /\ Level(n)!IsHit(bs, line[2], line[1]) <=>
              ElementOf(n, line, k) \in Copies(n, bs).held
         /\ Level(n)!IsHit(bs, line[2], line[1]) =>
              LET b == Level(n)!HitID(bs, line[2], line[1])
              IN b \in BlocksOf(n) /\ Holds(n, bs, b, k, ElementOf(n, line, k))
<1> DEFINE e == ElementOf(n, line, k)
           b == Level(n)!HitID(bs, line[2], line[1])
<1>1. line = <<line[1], line[2]>> /\ e \in Elements
  BY LineTypes, ElementOfLine
<1>2. ASSUME Level(n)!IsHit(bs, line[2], line[1])
      PROVE  b \in BlocksOf(n) /\ Holds(n, bs, b, k, e)
  <2>1. b \in BlocksOf(n) /\ b[1] = line[2] /\ bs[b].valid /\ bs[b].tag = line[1]
    BY <1>2, HitInLevel
  <2>2. QED
    BY <1>1, <2>1 DEF Holds
<1>3. ASSUME e \in Copies(n, bs).held
      PROVE  Level(n)!IsHit(bs, line[2], line[1])
  <2>1. PICK c \in BlocksOf(n), j \in 0 .. (NWords(n) - 1) : Holds(n, bs, c, j, e)
    BY <1>1, <1>3, NoCopy
  <2>2. <<bs[c].tag, c[1]>> \in Lines(n) /\ bs[c].valid
    BY <2>1 DEF Holds, LinesKnown
  <2>3. <<bs[c].tag, c[1]>> = line
    BY <2>1, <2>2, ElementsApart DEF Holds
  <2>4. bs[c].tag = line[1] /\ c[1] = line[2]
    BY <2>3
  <2>5. c \in Level(n)!Sets \X Level(n)!Ways /\ c = <<line[2], c[2]>>
    BY <2>4, LevelBlocks
  <2>6. c[2] \in Level(n)!HitWays(bs, line[2], line[1])
    BY <2>2, <2>4, <2>5 DEF Level!HitWays
  <2>7. QED
    BY <2>6 DEF Level!IsHit
<1>4. Level(n)!IsHit(bs, line[2], line[1]) => IsCopy(n, bs, b, k, e)
  BY <1>2, CopyAt
<1>5. QED
  BY <1>2, <1>3, <1>4 DEF IsCopy

-----------------------------------------------------------------------------
(* How the changes of its blocks change what a level holds.                *)

(* A level has taken these words, from offset o of a line on.              *)
TakenIn(n, bs, new, x, line, D, o, words) ==
  /\ LinesKnown(n, new)
  /\ Copies(n, new).held = Copies(n, bs).held
  /\ Copies(n, bs).dirty \subseteq Copies(n, new).dirty
  /\ \A k \in 0 .. (NWords(n) - 1) :
       new[x].dirty => ElementOf(n, line, k) \in Copies(n, new).dirty
  /\ \A e \in Copies(n, bs).held :
       \/ Copies(n, new).value[e] = Copies(n, bs).value[e]
       \/ \E k \in 0 .. (NWords(n) - 1) :
            /\ k - o \in D
            /\ e = ElementOf(n, line, k)
            /\ Copies(n, new).value[e] = words[k - o]

(* A block is touched, and perhaps written to, its words from offset o on. *)
LEMMA WrittenCopies ==
  ASSUME AddressesSound, NEW n \in Levels,
         NEW bs \in [BlocksOf(n) -> BlockAt(n)], LinesKnown(n, bs),
         NEW new \in [BlocksOf(n) -> BlockAt(n)],
         NEW x \in BlocksOf(n), NEW line \in Lines(n), NEW D, NEW o, NEW words,
         bs[x].valid, line = <<bs[x].tag, x[1]>>,
         \A b \in BlocksOf(n) :
           /\ new[b].valid = bs[b].valid /\ new[b].tag = bs[b].tag
           /\ b # x => new[b].dirty = bs[b].dirty /\ new[b].data = bs[b].data,
         bs[x].dirty => new[x].dirty,
         D # {} => new[x].dirty,
         \A k \in 0 .. (NWords(n) - 1) :
           new[x].data[k] = IF k - o \in D THEN words[k - o] ELSE bs[x].data[k]
  PROVE  TakenIn(n, bs, new, x, line, D, o, words)
<1>1. \A b \in BlocksOf(n), k \in 0 .. (NWords(n) - 1) : \A e : 
        Holds(n, new, b, k, e) <=> Holds(n, bs, b, k, e)
  BY DEF Holds
<1>2. LinesKnown(n, new)
  BY DEF LinesKnown
<1>3. ASSUME NEW e, NEW b \in BlocksOf(n), NEW k \in 0 .. (NWords(n) - 1),
             Holds(n, bs, b, k, e)
      PROVE  /\ e \in Elements
             /\ e \in Copies(n, new).held /\ e \in Copies(n, bs).held
             /\ e \in Copies(n, new).dirty <=> new[b].dirty
             /\ e \in Copies(n, bs).dirty <=> bs[b].dirty
             /\ Copies(n, new).value[e] = new[b].data[k]
             /\ Copies(n, bs).value[e] = bs[b].data[k]
  <2>1. Holds(n, new, b, k, e)
    BY <1>1, <1>3
  <2>2. IsCopy(n, bs, b, k, e)
    BY <1>3, CopyAt
  <2>3. IsCopy(n, new, b, k, e)
    BY <1>2, <2>1, CopyAt
  <2>4. QED
    BY <2>2, <2>3 DEF IsCopy
<1>4. Copies(n, bs).held \subseteq Elements /\ Copies(n, new).held \subseteq Elements
      /\ Copies(n, bs).dirty \subseteq Elements
  BY DEF Copies
<1>5. \A e \in Elements :
        /\ e \in Copies(n, bs).held =>
             \E b \in BlocksOf(n), k \in 0 .. (NWords(n) - 1) : Holds(n, bs, b, k, e)
        /\ e \in Copies(n, new).held =>
             \E b \in BlocksOf(n), k \in 0 .. (NWords(n) - 1) : Holds(n, bs, b, k, e)
        /\ e \in Copies(n, bs).dirty =>
             \E b \in BlocksOf(n), k \in 0 .. (NWords(n) - 1) : Holds(n, bs, b, k, e)
  BY <1>1, CopiesFields
<1>6. Copies(n, new).held = Copies(n, bs).held
  BY <1>3, <1>4, <1>5
<1>7. Copies(n, bs).dirty \subseteq Copies(n, new).dirty
  <2> SUFFICES ASSUME NEW e \in Copies(n, bs).dirty PROVE e \in Copies(n, new).dirty
    OBVIOUS
  <2>1. PICK b \in BlocksOf(n), k \in 0 .. (NWords(n) - 1) : Holds(n, bs, b, k, e)
    BY <1>4, <1>5
  <2>2. bs[b].dirty /\ (e \in Copies(n, new).dirty <=> new[b].dirty)
    BY <1>3, <2>1
  <2>3. new[b].dirty
    BY <2>2
  <2>4. QED
    BY <2>2, <2>3
<1>8. \A k \in 0 .. (NWords(n) - 1) : Holds(n, bs, x, k, ElementOf(n, line, k))
  BY DEF Holds
<1>9. \A k \in 0 .. (NWords(n) - 1) :
        new[x].dirty => ElementOf(n, line, k) \in Copies(n, new).dirty
  BY <1>3, <1>8
<1>10. ASSUME NEW e \in Copies(n, bs).held,
              Copies(n, new).value[e] # Copies(n, bs).value[e]
       PROVE  \E k \in 0 .. (NWords(n) - 1) :
                /\ k - o \in D
                /\ e = ElementOf(n, line, k)
                /\ Copies(n, new).value[e] = words[k - o]
  <2>1. PICK b \in BlocksOf(n), k \in 0 .. (NWords(n) - 1) : Holds(n, bs, b, k, e)
    BY <1>4, <1>5
  <2>2. new[b].data[k] # bs[b].data[k] /\ Copies(n, new).value[e] = new[b].data[k]
    BY <1>3, <1>10, <2>1
  <2>3. b = x
    BY <2>2
  <2>4. e = ElementOf(n, line, k)
    BY <2>1, <2>3 DEF Holds
  <2>5. k - o \in D /\ new[b].data[k] = words[k - o]
    BY <2>2, <2>3
  <2>6. QED
    BY <2>2, <2>4, <2>5
<1>11. QED
  BY <1>2, <1>6, <1>7, <1>9, <1>10 DEF TakenIn

(* A level has lost the copies in one block.                               *)
DroppedFrom(n, bs, new, x) ==
  /\ LinesKnown(n, new)
  /\ Copies(n, new).held \subseteq Copies(n, bs).held
  /\ \A e \in Copies(n, new).held :
       /\ Copies(n, new).value[e] = Copies(n, bs).value[e]
       /\ e \in Copies(n, new).dirty <=> e \in Copies(n, bs).dirty
  /\ \A e \in Copies(n, bs).held : e \notin Copies(n, new).held =>
       /\ bs[x].valid
       /\ \E k \in 0 .. (NWords(n) - 1) :
            /\ e = ElementOf(n, <<bs[x].tag, x[1]>>, k)
            /\ Copies(n, bs).value[e] = bs[x].data[k]
            /\ e \in Copies(n, bs).dirty <=> bs[x].dirty

(* A block is dropped.                                                     *)
LEMMA DroppedCopies ==
  ASSUME AddressesSound, NEW n \in Levels,
         NEW bs \in [BlocksOf(n) -> BlockAt(n)], LinesKnown(n, bs),
         NEW new \in [BlocksOf(n) -> BlockAt(n)], NEW x \in BlocksOf(n),
         ~ new[x].valid,
         \A b \in BlocksOf(n) : b # x => new[b] = bs[b]
  PROVE  DroppedFrom(n, bs, new, x)
<1>1. \A b \in BlocksOf(n), k \in 0 .. (NWords(n) - 1) : \A e : 
        /\ Holds(n, new, b, k, e) => b # x /\ Holds(n, bs, b, k, e)
        /\ Holds(n, bs, b, k, e) /\ b # x => Holds(n, new, b, k, e)
  BY DEF Holds
<1>2. LinesKnown(n, new)
  BY DEF LinesKnown
<1>3. Copies(n, bs).held \subseteq Elements /\ Copies(n, new).held \subseteq Elements
  BY DEF Copies
<1>4. ASSUME NEW e \in Copies(n, new).held
      PROVE  /\ e \in Copies(n, bs).held
             /\ Copies(n, new).value[e] = Copies(n, bs).value[e]
             /\ e \in Copies(n, new).dirty <=> e \in Copies(n, bs).dirty
  <2>1. PICK b \in BlocksOf(n), k \in 0 .. (NWords(n) - 1) : Holds(n, new, b, k, e)
    BY <1>3, NoCopy
  <2>2. Holds(n, bs, b, k, e) /\ new[b] = bs[b]
    BY <1>1, <2>1
  <2>3. IsCopy(n, bs, b, k, e)
    BY <2>2, CopyAt
  <2>4. IsCopy(n, new, b, k, e)
    BY <1>2, <2>1, CopyAt
  <2>5. QED
    BY <2>2, <2>3, <2>4 DEF IsCopy
<1>5. ASSUME NEW e \in Copies(n, bs).held, e \notin Copies(n, new).held
      PROVE  /\ bs[x].valid
             /\ \E k \in 0 .. (NWords(n) - 1) :
                  /\ e = ElementOf(n, <<bs[x].tag, x[1]>>, k)
                  /\ Copies(n, bs).value[e] = bs[x].data[k]
                  /\ e \in Copies(n, bs).dirty <=> bs[x].dirty
  <2>1. PICK b \in BlocksOf(n), k \in 0 .. (NWords(n) - 1) : Holds(n, bs, b, k, e)
    BY <1>3, NoCopy
  <2>2. b # x => IsCopy(n, new, b, k, e)
    BY <1>1, <1>2, <2>1, CopyAt
  <2>3. b = x
    BY <1>5, <2>2 DEF IsCopy
  <2>4. IsCopy(n, bs, x, k, e)
    BY <2>1, <2>3, CopyAt
  <2>5. QED
    BY <2>1, <2>3, <2>4 DEF Holds, IsCopy
<1>6. QED
  BY <1>2, <1>4, <1>5 DEF DroppedFrom

(* A level has clean copies of a line in addition.                         *)
InstalledIn(n, bs, new, x, line) ==
  /\ LinesKnown(n, new)
  /\ Copies(n, bs).held \subseteq Copies(n, new).held
  /\ \A e \in Copies(n, bs).held :
       /\ Copies(n, new).value[e] = Copies(n, bs).value[e]
       /\ e \in Copies(n, new).dirty <=> e \in Copies(n, bs).dirty
  /\ \A e \in Copies(n, new).held : e \notin Copies(n, bs).held =>
       \E k \in 0 .. (NWords(n) - 1) :
         /\ e = ElementOf(n, line, k)
         /\ Copies(n, new).value[e] = new[x].data[k]

(* A line is installed in an invalid block.                                *)
LEMMA InstalledCopies ==
  ASSUME AddressesSound, NEW n \in Levels,
         NEW bs \in [BlocksOf(n) -> BlockAt(n)], LinesKnown(n, bs),
         NEW new \in [BlocksOf(n) -> BlockAt(n)], NEW x \in BlocksOf(n),
         NEW line \in Lines(n), line = <<new[x].tag, x[1]>>, line[2] \in Level(n)!Sets,
         ~ bs[x].valid, ~ Level(n)!IsHit(bs, line[2], line[1]),
         new[x].valid, ~ new[x].dirty,
         \A b \in BlocksOf(n) : b # x =>
           /\ new[b].valid = bs[b].valid /\ new[b].tag = bs[b].tag
           /\ new[b].dirty = bs[b].dirty /\ new[b].data = bs[b].data
  PROVE  InstalledIn(n, bs, new, x, line)
<1>1. \A b \in BlocksOf(n), k \in 0 .. (NWords(n) - 1) : \A e : 
        /\ Holds(n, bs, b, k, e) => b # x /\ Holds(n, new, b, k, e)
        /\ Holds(n, new, b, k, e) /\ b # x => Holds(n, bs, b, k, e)
  BY DEF Holds
<1>2. \A b \in BlocksOf(n) :
        bs[b].valid /\ b[1] = line[2] => bs[b].tag # line[1]
  <2> SUFFICES ASSUME NEW b \in BlocksOf(n), bs[b].valid, b[1] = line[2],
                      bs[b].tag = line[1]
               PROVE  FALSE
    OBVIOUS
  <2>1. b \in Level(n)!Sets \X Level(n)!Ways /\ b = <<line[2], b[2]>>
    BY LevelBlocks
  <2>2. b[2] \in Level(n)!HitWays(bs, line[2], line[1])
    BY <2>1 DEF Level!HitWays
  <2>3. QED
    BY <2>2 DEF Level!IsHit
<1>3. LinesKnown(n, new)
  <2>0. line[1] = new[x].tag /\ line[2] = x[1]
    OBVIOUS
  <2>1. ASSUME NEW b \in BlocksOf(n), new[b].valid
        PROVE  <<new[b].tag, b[1]>> \in Lines(n)
    BY <2>1 DEF LinesKnown
  <2>2. ASSUME NEW b \in BlocksOf(n), NEW c \in BlocksOf(n), new[b].valid, new[c].valid,
               b[1] = c[1], new[b].tag = new[c].tag
        PROVE  b = c
    <3>1. CASE b = x /\ c # x
      BY <1>2, <2>0, <2>2, <3>1
    <3>2. CASE b # x /\ c = x
      BY <1>2, <2>0, <2>2, <3>2
    <3>3. CASE b # x /\ c # x
      BY <2>2, <3>3 DEF LinesKnown
    <3>4. QED
      BY <3>1, <3>2, <3>3
  <2>3. QED
    BY <2>1, <2>2 DEF LinesKnown
<1>4. Copies(n, bs).held \subseteq Elements /\ Copies(n, new).held \subseteq Elements
  BY DEF Copies
<1>5. ASSUME NEW e \in Copies(n, bs).held
      PROVE  /\ e \in Copies(n, new).held
             /\ Copies(n, new).value[e] = Copies(n, bs).value[e]
             /\ e \in Copies(n, new).dirty <=> e \in Copies(n, bs).dirty
  <2>1. PICK b \in BlocksOf(n), k \in 0 .. (NWords(n) - 1) : Holds(n, bs, b, k, e)
    BY <1>4, NoCopy
  <2>2. Holds(n, new, b, k, e) /\ b # x
    BY <1>1, <2>1
  <2>3. new[b].dirty = bs[b].dirty /\ new[b].data = bs[b].data
    BY <2>2
  <2>4. IsCopy(n, bs, b, k, e)
    BY <2>1, CopyAt
  <2>5. IsCopy(n, new, b, k, e)
    BY <1>3, <2>2, CopyAt
  <2>6. QED
    BY <2>3, <2>4, <2>5 DEF IsCopy
<1>6. ASSUME NEW e \in Copies(n, new).held, e \notin Copies(n, bs).held
      PROVE  \E k \in 0 .. (NWords(n) - 1) :
               /\ e = ElementOf(n, line, k)
               /\ Copies(n, new).value[e] = new[x].data[k]
  <2>1. PICK b \in BlocksOf(n), k \in 0 .. (NWords(n) - 1) : Holds(n, new, b, k, e)
    BY <1>4, NoCopy
  <2>2. b # x => IsCopy(n, bs, b, k, e)
    BY <1>1, <2>1, CopyAt
  <2>3. b = x
    BY <1>6, <2>2 DEF IsCopy
  <2>4. IsCopy(n, new, x, k, e)
    BY <1>3, <2>1, <2>3, CopyAt
  <2>5. QED
    BY <2>1, <2>3, <2>4 DEF Holds, IsCopy
<1>7. QED
  BY <1>3, <1>5, <1>6 DEF InstalledIn

(* Touching a block changes no copy.                                       *)
LEMMA TouchedCopies ==
  ASSUME NEW n \in Levels, NEW bs, NEW new,
         \A b \in BlocksOf(n) :
           /\ new[b].valid = bs[b].valid /\ new[b].dirty = bs[b].dirty
           /\ new[b].tag = bs[b].tag /\ new[b].data = bs[b].data
  PROVE  /\ Copies(n, new) = Copies(n, bs)
         /\ LinesKnown(n, bs) => LinesKnown(n, new)
<1>1. \A b \in BlocksOf(n) : \A k, e : Holds(n, new, b, k, e) <=> Holds(n, bs, b, k, e)
  BY DEF Holds
<1>2. \A e : Positions(n, new, e) = Positions(n, bs, e)
  <2> TAKE e
  <2>1. \A p : p \in Positions(n, new, e) <=> p \in Positions(n, bs, e)
    BY <1>1 DEF Positions
  <2>2. QED
    BY <2>1
<1>3. \A e : \A p \in Positions(n, bs, e) : p[1] \in BlocksOf(n)
  BY DEF Positions
<1>4. Copies(n, new).held = Copies(n, bs).held
  BY <1>2 DEF Copies
<1>5. Copies(n, new).dirty = Copies(n, bs).dirty
  BY <1>2, <1>3 DEF Copies
<1>6. Copies(n, new).value = Copies(n, bs).value
  <2>1. ASSUME NEW e, NEW v
        PROVE  (\A p \in Positions(n, new, e) : new[p[1]].data[p[2]] = v)
                 <=> (\A p \in Positions(n, bs, e) : bs[p[1]].data[p[2]] = v)
    BY <1>2, <1>3
  <2>2. \A e : (CHOOSE v \in Values : \A p \in Positions(n, new, e) : new[p[1]].data[p[2]] = v)
             = (CHOOSE v \in Values : \A p \in Positions(n, bs, e) : bs[p[1]].data[p[2]] = v)
    BY <2>1
  <2>3. QED
    BY <2>2 DEF Copies
<1>7. Copies(n, new) = Copies(n, bs)
  BY <1>4, <1>5, <1>6 DEF Copies
<1>8. LinesKnown(n, bs) => LinesKnown(n, new)
  BY DEF LinesKnown
<1>9. QED
  BY <1>7, <1>8

-----------------------------------------------------------------------------
(* What a change of one level means to the levels together.                *)

(* Writing into a level what the level above holds dirty.                  *)
LEMMA WrittenBelow ==
  ASSUME NEW st, NEW new, NEW M \in 2 .. (Depth + 1),
         CopiesAgree(st), NEW current, TopIsCurrent(st, current),
         \A a \in Addrs : Source(1, a) \in Elements,
         \A n \in (1 .. (Depth + 1)) \ {M} : new[n] = st[n],
         new[M].held = st[M].held,
         st[M].dirty \subseteq new[M].dirty,
         \A e \in st[M].held :
           \/ new[M].value[e] = st[M].value[e]
           \/ /\ e \in st[M - 1].held /\ e \in st[M - 1].dirty
              /\ M \in Levels => e \in new[M].dirty
  PROVE  CopiesAgree(new) /\ TopIsCurrent(new, current)
<1>1. Depth \in Nat \ {0} /\ Levels = 1 .. Depth
  BY HierarchyAssumption DEF Levels
<1>2. CopiesAgree(new)
  <2> SUFFICES ASSUME NEW n \in Levels, NEW m \in 1 .. (Depth + 1), NEW e \in Elements,
                      n < m, e \in new[n].held, e \notin new[n].dirty,
                      \A i \in (n + 1) .. (m - 1) : e \notin new[i].held,
                      e \in new[m].held
               PROVE  new[n].value[e] = new[m].value[e]
    BY DEF CopiesAgree
  <2>1. \A i \in 1 .. (Depth + 1) : new[i].held = st[i].held
    OBVIOUS
  <2>2. e \in st[n].held /\ e \notin st[n].dirty
    BY <1>1
  <2>3. st[n].value[e] = st[m].value[e]
    BY <1>1, <2>1, <2>2 DEF CopiesAgree
  <2>4. CASE n = M
    BY <1>1, <2>3, <2>4
  <2>5. CASE m = M
    <3>1. ~ (e \in st[M - 1].held /\ e \in st[M - 1].dirty)
      BY <1>1, <2>1, <2>2, <2>5
    <3>2. QED
      BY <1>1, <2>3, <2>5, <3>1
  <2>6. CASE n # M /\ m # M
    BY <1>1, <2>3, <2>6
  <2>7. QED
    BY <2>4, <2>5, <2>6
<1>3. TopIsCurrent(new, current)
  <2> SUFFICES ASSUME NEW m \in 1 .. (Depth + 1), NEW a \in Addrs,
                      \A i \in 1 .. (m - 1) : Source(1, a) \notin new[i].held,
                      Source(1, a) \in new[m].held
               PROVE  new[m].value[Source(1, a)] = current[a]
    BY DEF TopIsCurrent
  <2>1. \A i \in 1 .. (Depth + 1) : new[i].held = st[i].held
    OBVIOUS
  <2>2. st[m].value[Source(1, a)] = current[a]
    BY <1>1, <2>1 DEF TopIsCurrent
  <2>3. m = M => Source(1, a) \notin st[M - 1].held
    BY <1>1, <2>1
  <2>4. QED
    BY <2>2, <2>3
<1>4. QED
  BY <1>2, <1>3

(* The client's word is written into level 1, and is the current one.      *)
LEMMA WrittenByClient ==
  ASSUME NEW st, NEW new, CopiesAgree(st),
         NEW current, TopIsCurrent(st, current), NEW now,
         \A n \in (1 .. (Depth + 1)) \ {1} : new[n] = st[n],
         new[1].held = st[1].held,
         st[1].dirty \subseteq new[1].dirty,
         NEW x \in Elements, x \in st[1].held, x \in new[1].dirty,
         \A e \in st[1].held : e # x => new[1].value[e] = st[1].value[e],
         \A a \in Addrs : Source(1, a) \in Elements,
         \A a \in Addrs : now[a] = IF Source(1, a) = x THEN new[1].value[x]
                                                       ELSE current[a]
  PROVE  CopiesAgree(new) /\ TopIsCurrent(new, now)
<1>1. Depth \in Nat \ {0} /\ Levels = 1 .. Depth
  BY HierarchyAssumption DEF Levels
<1>2. CopiesAgree(new)
  <2> SUFFICES ASSUME NEW n \in Levels, NEW m \in 1 .. (Depth + 1), NEW e \in Elements,
                      n < m, e \in new[n].held, e \notin new[n].dirty,
                      \A i \in (n + 1) .. (m - 1) : e \notin new[i].held,
                      e \in new[m].held
               PROVE  new[n].value[e] = new[m].value[e]
    BY DEF CopiesAgree
  <2>1. \A i \in 1 .. (Depth + 1) : new[i].held = st[i].held
    OBVIOUS
  <2>2. e \in st[n].held /\ e \notin st[n].dirty
    BY <1>1
  <2>3. st[n].value[e] = st[m].value[e]
    BY <1>1, <2>1, <2>2 DEF CopiesAgree
  <2>4. m # 1
    BY <1>1
  <2>5. n = 1 => e # x
    OBVIOUS
  <2>6. QED
    BY <1>1, <2>3, <2>4, <2>5
<1>3. TopIsCurrent(new, now)
  <2> SUFFICES ASSUME NEW m \in 1 .. (Depth + 1), NEW a \in Addrs,
                      \A i \in 1 .. (m - 1) : Source(1, a) \notin new[i].held,
                      Source(1, a) \in new[m].held
               PROVE  new[m].value[Source(1, a)] = now[a]
    BY DEF TopIsCurrent
  <2>1. \A i \in 1 .. (Depth + 1) : new[i].held = st[i].held
    OBVIOUS
  <2>2. st[m].value[Source(1, a)] = current[a]
    BY <1>1, <2>1 DEF TopIsCurrent
  <2>3. CASE Source(1, a) = x
    <3>1. m = 1
      BY <1>1, <2>1, <2>3
    <3>2. QED
      BY <2>3, <3>1
  <2>4. CASE Source(1, a) # x
    <3>1. new[m].value[Source(1, a)] = st[m].value[Source(1, a)]
      BY <2>4
    <3>2. QED
      BY <2>2, <2>4, <3>1
  <2>5. QED
    BY <2>3, <2>4
<1>4. QED
  BY <1>2, <1>3

(* A level drops copies that are clean, or whose words the next level has. *)
LEMMA Dropped ==
  ASSUME NEW st, NEW new, NEW M \in Levels,
         CopiesAgree(st), NEW current, TopIsCurrent(st, current),
         \A a \in Addrs : Source(1, a) \in Elements,
         \A n \in (1 .. (Depth + 1)) \ {M} : new[n] = st[n],
         new[M].held \subseteq st[M].held,
         \A e \in st[M].held \cap new[M].held : e \in new[M].dirty <=> e \in st[M].dirty,
         \A e \in new[M].held : new[M].value[e] = st[M].value[e],
         \A e \in Elements : e \in st[M].held /\ e \notin new[M].held =>
           \/ e \notin st[M].dirty
           \/ /\ e \in st[M + 1].held
              /\ st[M + 1].value[e] = st[M].value[e]
  PROVE  CopiesAgree(new) /\ TopIsCurrent(new, current)
<1>1. Depth \in Nat \ {0} /\ Levels = 1 .. Depth
  BY HierarchyAssumption DEF Levels
<1>2. \A e \in Elements, m \in 1 .. (Depth + 1) :
        /\ M < m
        /\ e \in st[M].held /\ e \notin new[M].held
        /\ \A i \in (M + 1) .. (m - 1) : e \notin new[i].held
        /\ e \in new[m].held
        => st[M].value[e] = new[m].value[e]
  <2> SUFFICES ASSUME NEW e \in Elements, NEW m \in 1 .. (Depth + 1), M < m,
                      e \in st[M].held, e \notin new[M].held,
                      \A i \in (M + 1) .. (m - 1) : e \notin new[i].held,
                      e \in new[m].held
               PROVE  st[M].value[e] = new[m].value[e]
    OBVIOUS
  <2>1. \A i \in (M + 1) .. m : new[i] = st[i]
    BY <1>1
  <2>2. CASE e \notin st[M].dirty
    <3>1. \A i \in (M + 1) .. (m - 1) : e \notin st[i].held
      BY <1>1, <2>1
    <3>2. e \in st[m].held
      BY <1>1, <2>1
    <3>3. QED
      BY <1>1, <2>1, <2>2, <3>1, <3>2 DEF CopiesAgree
  <2>3. CASE e \in st[M + 1].held /\ st[M + 1].value[e] = st[M].value[e]
    <3>1. new[M + 1] = st[M + 1]
      BY <1>1
    <3>2. m = M + 1
      BY <1>1, <2>3, <3>1
    <3>3. QED
      BY <2>3, <3>1, <3>2
  <2>4. QED
    BY <2>2, <2>3
<1>3. CopiesAgree(new)
  <2> SUFFICES ASSUME NEW n \in Levels, NEW m \in 1 .. (Depth + 1), NEW e \in Elements,
                      n < m, e \in new[n].held, e \notin new[n].dirty,
                      \A i \in (n + 1) .. (m - 1) : e \notin new[i].held,
                      e \in new[m].held
               PROVE  new[n].value[e] = new[m].value[e]
    BY DEF CopiesAgree
  <2>1. /\ e \in st[n].held /\ e \notin st[n].dirty /\ e \in st[m].held
        /\ new[n].value[e] = st[n].value[e] /\ new[m].value[e] = st[m].value[e]
    BY <1>1
  <2>2. CASE n < M /\ M < m /\ e \in st[M].held
    <3>1. e \notin new[M].held
      BY <1>1, <2>2
    <3>2. \A i \in (n + 1) .. (M - 1) : new[i] = st[i]
      BY <1>1
    <3>3. \A i \in (n + 1) .. (M - 1) : e \notin st[i].held
      BY <1>1, <2>2, <3>2
    <3>4. st[n].value[e] = st[M].value[e]
      BY <1>1, <2>1, <2>2, <3>3 DEF CopiesAgree
    <3>5. \A i \in (M + 1) .. (m - 1) : e \notin new[i].held
      BY <1>1, <2>2
    <3>6. st[M].value[e] = new[m].value[e]
      BY <1>2, <2>2, <3>1, <3>5
    <3>7. QED
      BY <2>1, <3>4, <3>6
  <2>3. CASE ~ (n < M /\ M < m /\ e \in st[M].held)
    <3>1. \A i \in (n + 1) .. (m - 1) : e \notin st[i].held
      BY <1>1, <2>3
    <3>2. st[n].value[e] = st[m].value[e]
      BY <2>1, <3>1 DEF CopiesAgree
    <3>3. QED
      BY <2>1, <3>2
  <2>4. QED
    BY <2>2, <2>3
<1>4. TopIsCurrent(new, current)
  <2> SUFFICES ASSUME NEW m \in 1 .. (Depth + 1), NEW a \in Addrs,
                      \A i \in 1 .. (m - 1) : Source(1, a) \notin new[i].held,
                      Source(1, a) \in new[m].held
               PROVE  new[m].value[Source(1, a)] = current[a]
    BY DEF TopIsCurrent
  <2> DEFINE e == Source(1, a)
  <2>1. e \in Elements /\ e \in st[m].held /\ new[m].value[e] = st[m].value[e]
    BY <1>1
  <2>2. CASE M < m /\ e \in st[M].held
    <3>1. e \notin new[M].held
      BY <1>1, <2>2
    <3>2. \A i \in 1 .. (M - 1) : e \notin st[i].held
      BY <1>1, <2>2
    <3>3. st[M].value[e] = current[a]
      BY <1>1, <2>2, <3>2 DEF TopIsCurrent
    <3>4. \A i \in (M + 1) .. (m - 1) : e \notin new[i].held
      BY <1>1, <2>2
    <3>5. st[M].value[e] = new[m].value[e]
      BY <1>2, <2>1, <2>2, <3>1, <3>4
    <3>6. QED
      BY <3>3, <3>5
  <2>3. CASE ~ (M < m /\ e \in st[M].held)
    <3>1. \A i \in 1 .. (m - 1) : e \notin st[i].held
      BY <1>1, <2>3
    <3>2. st[m].value[e] = current[a]
      BY <3>1, <2>1 DEF TopIsCurrent
    <3>3. QED
      BY <2>1, <3>2
  <2>4. QED
    BY <2>2, <2>3
<1>5. QED
  BY <1>3, <1>4

(* A level takes clean copies of what the next one holds.                  *)
LEMMA Fetched ==
  ASSUME NEW st, NEW new, NEW M \in Levels,
         CopiesAgree(st), NEW current, TopIsCurrent(st, current),
         \A a \in Addrs : Source(1, a) \in Elements,
         \A n \in (1 .. (Depth + 1)) \ {M} : new[n] = st[n],
         st[M].held \subseteq new[M].held,
         \A e \in st[M].held \cap new[M].held : e \in new[M].dirty <=> e \in st[M].dirty,
         \A e \in st[M].held : new[M].value[e] = st[M].value[e],
         \A e \in Elements : e \in new[M].held /\ e \notin st[M].held =>
           e \in st[M + 1].held /\ new[M].value[e] = st[M + 1].value[e]
  PROVE  CopiesAgree(new) /\ TopIsCurrent(new, current)
<1>1. Depth \in Nat \ {0} /\ Levels = 1 .. Depth
  BY HierarchyAssumption DEF Levels
<1>2. CopiesAgree(new)
  <2> SUFFICES ASSUME NEW n \in Levels, NEW m \in 1 .. (Depth + 1), NEW e \in Elements,
                      n < m, e \in new[n].held, e \notin new[n].dirty,
                      \A i \in (n + 1) .. (m - 1) : e \notin new[i].held,
                      e \in new[m].held
               PROVE  new[n].value[e] = new[m].value[e]
    BY DEF CopiesAgree
  <2>1. new[M + 1] = st[M + 1]
    BY <1>1
  <2>2. \A i \in (n + 1) .. (m - 1) : e \notin st[i].held
    BY <1>1
  <2>3. CASE m = M /\ e \notin st[M].held
    <3>1. e \in st[M + 1].held /\ new[m].value[e] = st[M + 1].value[e]
      BY <2>3
    <3>2. e \in st[n].held /\ e \notin st[n].dirty /\ new[n].value[e] = st[n].value[e]
      BY <1>1, <2>3
    <3>3. PICK k \in 1 .. (Depth + 1) : k = M + 1
      BY <1>1
    <3>4. n < k /\ \A i \in (n + 1) .. (k - 1) : e \notin st[i].held
      BY <1>1, <2>2, <2>3, <3>3
    <3>5. st[n].value[e] = st[k].value[e]
      BY <3>1, <3>2, <3>3, <3>4 DEF CopiesAgree
    <3>6. QED
      BY <3>1, <3>2, <3>3, <3>5
  <2>4. CASE n = M /\ e \notin st[M].held
    <3>1. e \in st[M + 1].held /\ new[n].value[e] = st[M + 1].value[e]
      BY <2>4
    <3>2. m = M + 1
      BY <1>1, <2>2, <2>4, <3>1
    <3>3. QED
      BY <2>1, <3>1, <3>2
  <2>5. CASE ~ (m = M /\ e \notin st[M].held) /\ ~ (n = M /\ e \notin st[M].held)
    <3>1. /\ e \in st[n].held /\ e \notin st[n].dirty /\ e \in st[m].held
          /\ new[n].value[e] = st[n].value[e] /\ new[m].value[e] = st[m].value[e]
      BY <1>1, <2>5
    <3>2. QED
      BY <2>2, <3>1 DEF CopiesAgree
  <2>6. QED
    BY <2>3, <2>4, <2>5
<1>3. TopIsCurrent(new, current)
  <2> SUFFICES ASSUME NEW m \in 1 .. (Depth + 1), NEW a \in Addrs,
                      \A i \in 1 .. (m - 1) : Source(1, a) \notin new[i].held,
                      Source(1, a) \in new[m].held
               PROVE  new[m].value[Source(1, a)] = current[a]
    BY DEF TopIsCurrent
  <2> DEFINE e == Source(1, a)
  <2>1. \A i \in 1 .. (m - 1) : e \notin st[i].held
    BY <1>1
  <2>2. CASE m = M /\ e \notin st[M].held
    <3>1. e \in st[M + 1].held /\ new[m].value[e] = st[M + 1].value[e]
      BY <2>2
    <3>2. PICK k \in 1 .. (Depth + 1) : k = M + 1
      BY <1>1
    <3>3. \A i \in 1 .. (k - 1) : e \notin st[i].held
      BY <1>1, <2>1, <2>2, <3>2
    <3>4. st[k].value[e] = current[a]
      BY <3>1, <3>2, <3>3 DEF TopIsCurrent
    <3>5. QED
      BY <3>1, <3>2, <3>4
  <2>3. CASE ~ (m = M /\ e \notin st[M].held)
    <3>1. e \in st[m].held /\ new[m].value[e] = st[m].value[e]
      BY <1>1, <2>3
    <3>2. QED
      BY <2>1, <3>1 DEF TopIsCurrent
  <2>4. QED
    BY <2>2, <2>3
<1>4. QED
  BY <1>2, <1>3

-----------------------------------------------------------------------------
(* The activations of a stack whose requests are linked.                   *)

(* One that evicts or refills is at a level above that on top.             *)
LEMMA WaitsAbove ==
  ASSUME CallInv, stack # << >>, NEW i \in 1 .. (Len(stack) - 1)
  PROVE  /\ stack[i] \in Frame /\ FrameOK(stack[i])
         /\ stack[i].at \in {"evict", "refill"} =>
              stack[i].level \in Levels /\ stack[i].level # N
<1>1. PICK L \in Nat \ {0} : L = Len(stack) /\ Top = stack[L] /\ N = stack[L].level
  BY TopOK DEF N
<1>2. FrameOK(stack[i]) /\ Calls(stack[i], stack[i + 1])
  BY <1>1 DEF CallInv, StackInv
<1>3. stack[i] \in Frame
  BY <1>2 DEF FrameOK
<1>4. ASSUME stack[i].at \in {"evict", "refill"}
      PROVE  stack[i].level \in Levels /\ stack[i].level # N
  <2>1. stack[i].level \in Levels /\ stack[i + 1].level = stack[i].level + 1
    BY <1>2, <1>4 DEF FrameOK, Calls
  <2>2. stack[i].level \in Nat /\ N \in Nat
    BY <2>1, TopOK, HierarchyAssumption DEF Levels
  <2>3. CASE i + 1 = L
    BY <1>1, <2>1, <2>2, <2>3
  <2>4. CASE i + 1 # L
    <3>1. i + 2 <= L /\ L \in 1 .. Len(stack) /\ i \in 1 .. Len(stack)
      BY <1>1, <2>4
    <3>2. stack[i].level < stack[L].level
      BY <3>1, LevelsRise
    <3>3. QED
      BY <1>1, <2>1, <2>2, <3>2
  <2>5. QED
    BY <2>1, <2>3, <2>4
<1>5. QED
  BY <1>2, <1>3, <1>4

(* What an activation knows and asks depends on the blocks of its level at *)
(* most, and only while it evicts or refills.                              *)
LEMMA WaitsSame ==
  ASSUME NEW f, NEW bl, NEW new,
         f.at \in {"evict", "refill"} => new[f.level] = bl[f.level]
  PROVE  /\ Waits(bl, f) => Waits(new, f)
         /\ RequestOf(new, f) = RequestOf(bl, f)
<1>1. CASE f.at \in {"evict", "refill"}
  BY <1>1 DEF Waits, RequestOf, LineIn
<1>2. CASE f.at \notin {"evict", "refill"}
  BY <1>2 DEF Waits, RequestOf
<1>3. QED
  BY <1>1, <1>2

(* The request of an activation that waits for the recursive call is its   *)
(* own.                                                                    *)
LEMMA RequestFields ==
  ASSUME NEW bl, NEW f
  PROVE  /\ f.at = "evict" => RequestOf(bl, f) =
              [level |-> f.level + 1,
               addr |-> LineBelow(f.level, LineIn(bl, f.level, f.block)),
               read |-> FALSE, content |-> bl[f.level][f.block].data]
         /\ f.at = "refill" => RequestOf(bl, f) =
              [level |-> f.level + 1,
               addr |-> LineBelow(f.level, LineOf(f.level, f.addr)),
               read |-> TRUE, content |-> Blank(NWords(f.level))]
         /\ f.at \notin {"evict", "refill"} => RequestOf(bl, f) = Asks(f)
BY DEF RequestOf

(* The first activation, or one that the first has called to look again,   *)
(* serves the client...                                                    *)
LEMMA ClientServed ==
  ASSUME CallInv, StoreOK, pc = "running", stack # << >>, N = 1
  PROVE  /\ Asks(Top) = ClientRequest
         /\ Len(stack) = 1 \/ (Len(stack) = 2 /\ stack[1].at = "again")
         /\ Len(stack) = 2 => stack[1].level = 1
<1>1. PICK L \in Nat \ {0} : L = Len(stack) /\ Top = stack[L] /\ N = stack[L].level
  BY TopOK DEF N
<1>2. L <= 2 * N - (IF Recursive(L) THEN 0 ELSE 1)
  BY <1>1 DEF CallInv, StackInv
<1>3. L = 1 \/ (L = 2 /\ Recursive(L))
  BY <1>1, <1>2
<1>4. L = 2 => stack[1].at = "again" /\ stack[1].level = 1
  <2> SUFFICES ASSUME L = 2 PROVE stack[1].at = "again" /\ stack[1].level = 1
    OBVIOUS
  <2>1. stack[1].at = "again"
    BY <1>1, <1>3 DEF Recursive
  <2>2. stack[1].level = 1
    BY DEF CallInv, StackInv
  <2>3. QED
    BY <2>1, <2>2
<1>5. \A i \in 1 .. L : Asks(stack[i]) = Served(i)
  BY <1>1 DEF StoreOK, LinkInv
<1>6. Asks(stack[1]) = ClientRequest
  BY <1>1, <1>5 DEF Served
<1>7. L = 2 => Asks(stack[2]) = Asks(stack[1])
  <2> SUFFICES ASSUME L = 2 PROVE Asks(stack[2]) = Asks(stack[1])
    OBVIOUS
  <2>1. Asks(stack[2]) = RequestOf(blocks, stack[1])
    BY <1>5 DEF Served
  <2>2. QED
    BY <1>4, <2>1, RequestFields
<1>8. QED
  BY <1>1, <1>3, <1>4, <1>6, <1>7

(* ...and one of another level a write-back or refill of the level above.  *)
LEMMA LevelServed ==
  ASSUME CallInv, StoreOK, pc = "running", stack # << >>, N # 1
  PROVE  \E f \in Frame :
           /\ FrameOK(f) /\ f.level \in Levels /\ N = f.level + 1
           /\ f.at \in {"evict", "refill"}
           /\ Waits(blocks, f)
           /\ Asks(Top) = RequestOf(blocks, f)
<1>1. PICK L \in Nat \ {0} : L = Len(stack) /\ Top = stack[L] /\ N = stack[L].level
  BY TopOK DEF N
<1>2. L # 1
  BY <1>1 DEF CallInv, StackInv
<1>3. \A i \in 1 .. (L - 1) :
        FrameOK(stack[i]) /\ Calls(stack[i], stack[i + 1]) /\ Waits(blocks, stack[i])
  BY <1>1 DEF CallInv, StackInv, StoreOK, WaitInv
<1>4. \A i \in 2 .. L : Asks(stack[i]) = RequestOf(blocks, stack[i - 1])
  BY <1>1 DEF StoreOK, LinkInv, Served
<1>5. \A i \in 1 .. (L - 1) : stack[i].at \in {"evict", "refill", "again"}
  <2> TAKE i \in 1 .. (L - 1)
  <2>1. stack[i] \in Frame /\ stack[i].at # "enter"
        /\ stack[i].at \notin {"through", "around"}
    BY <1>3 DEF FrameOK, Calls, Waits
  <2>2. QED
    BY <2>1 DEF Frame
<1>6. ASSUME NEW i \in 1 .. (L - 1), stack[i].at \in {"evict", "refill"}
      PROVE  /\ stack[i] \in Frame /\ FrameOK(stack[i]) /\ stack[i].level \in Levels
             /\ stack[i + 1].level = stack[i].level + 1
             /\ Waits(blocks, stack[i])
  <2>1. FrameOK(stack[i]) /\ Calls(stack[i], stack[i + 1]) /\ Waits(blocks, stack[i])
    BY <1>3
  <2>2. QED
    BY <1>6, <2>1 DEF FrameOK, Calls
<1>7. CASE stack[L - 1].at \in {"evict", "refill"}
  <2>1. L - 1 \in 1 .. (L - 1) /\ L \in 2 .. L /\ (L - 1) + 1 = L
    BY <1>2
  <2>2. QED
    BY <1>1, <1>4, <1>6, <1>7, <2>1
<1>8. CASE stack[L - 1].at = "again"
  <2>1. L - 1 \in 1 .. (L - 1) /\ L \in 2 .. L /\ (L - 1) + 1 = L
    BY <1>2
  <2>2. Calls(stack[L - 1], stack[L])
    BY <1>3, <2>1
  <2>3. stack[L - 1].level = N
    BY <1>1, <1>8, <2>2 DEF Calls
  <2>4. L - 1 # 1
    BY <2>3 DEF CallInv, StackInv
  <2>5. L - 2 \in 1 .. (L - 1) /\ L - 1 \in 2 .. L /\ (L - 2) + 1 = L - 1 /\ (L - 1) - 1 = L - 2
    BY <1>2, <2>4
  <2>6. Calls(stack[L - 2], stack[L - 1])
    BY <1>3, <2>5
  <2>7. stack[L - 2].at # "again"
    BY <1>8, <2>6 DEF Calls
  <2>8. stack[L - 2].at \in {"evict", "refill"}
    BY <1>5, <2>5, <2>7
  <2>9. Asks(stack[L - 1]) = RequestOf(blocks, stack[L - 2])
    BY <1>4, <2>5
  <2>10. Asks(stack[L]) = Asks(stack[L - 1])
    BY <1>4, <1>8, <2>1, RequestFields
  <2>11. QED
    BY <1>1, <1>6, <2>3, <2>5, <2>8, <2>9, <2>10
<1>9. QED
  BY <1>2, <1>5, <1>7, <1>8

(* The levels after a step.                                                *)
NextContents == ContentsOf(blocks', memory')

(* The frames that a step of the activation on top leaves as they are know *)
(* and ask the same.                                                       *)
LEMMA FramesStay ==
  ASSUME CallInv, StoreOK, stack # << >>, UNCHANGED <<req, content>>,
         \A m \in Levels \ {N} : blocks'[m] = blocks[m],
         \A i \in 1 .. (Len(stack) - 1) : stack'[i] = stack[i]
  PROVE  /\ \A i \in 1 .. (Len(stack) - 1) : Waits(blocks', stack'[i])
         /\ \A i \in 1 .. Len(stack) : Served(i)' = Served(i)
<1>1. PICK L \in Nat \ {0} : L = Len(stack)
  BY TopOK
<1>2. ASSUME NEW i \in 1 .. (L - 1)
      PROVE  /\ Waits(blocks', stack[i])
             /\ RequestOf(blocks', stack[i]) = RequestOf(blocks, stack[i])
  <2>1. stack[i].at \in {"evict", "refill"} => stack[i].level \in Levels \ {N}
    BY <1>1, WaitsAbove
  <2>2. stack[i].at \in {"evict", "refill"} =>
          blocks'[stack[i].level] = blocks[stack[i].level]
    BY <2>1
  <2>3. Waits(blocks, stack[i])
    BY <1>1 DEF StoreOK, WaitInv
  <2>4. QED
    BY ONLY <2>2, <2>3, WaitsSame
<1>3. \A i \in 1 .. L : Served(i)' = Served(i)
  <2> TAKE i \in 1 .. L
  <2>1. CASE i = 1
    BY <2>1 DEF Served, ClientRequest
  <2>2. CASE i # 1
    <3>1. i - 1 \in 1 .. (L - 1)
      BY <2>2
    <3>2. stack'[i - 1] = stack[i - 1]
      BY <1>1, <3>1
    <3>3. RequestOf(blocks', stack'[i - 1]) = RequestOf(blocks, stack[i - 1])
      BY <1>2, <3>1, <3>2
    <3>4. QED
      BY <2>2, <3>3 DEF Served
  <2>3. QED
    BY <2>1, <2>2
<1>4. QED
  BY <1>1, <1>2, <1>3

(* A return keeps the invariant, if the answer is what the levels hold.    *)
LEMMA ReturnStore ==
  ASSUME CallInv, StoreOK, pc = "running", stack # << >>, ClientUnchanged,
         NEW w, NEW t, Returns(w, t),
         \A m \in Levels \ {N} : blocks'[m] = blocks[m],
         \A m \in Levels : LinesKnown(m, blocks'[m]),
         CopiesAgree(NextContents), TopIsCurrent(NextContents, Current'),
         Answers(NextContents, Asks(Top), w)
  PROVE  StoreOK'
<1>1. PICK L \in Nat \ {0} : L = Len(stack) /\ Top = stack[L]
  BY TopOK
<1>2. Len(stack') = L - 1 /\ \A i \in 1 .. (L - 1) : stack'[i] = stack[i]
  BY <1>1, ReturnedBy DEF Returned
<1>3. /\ \A i \in 1 .. (L - 1) : Waits(blocks', stack'[i])
      /\ \A i \in 1 .. L : Served(i)' = Served(i)
  BY <1>1, <1>2, FramesStay DEF ClientUnchanged
<1>4. \A i \in 1 .. L : Asks(stack[i]) = Served(i)
  BY <1>1 DEF StoreOK, LinkInv
<1>5. LinkInv'
  BY <1>1, <1>2, <1>3, <1>4 DEF LinkInv
<1>6. ReturnInv'
  <2>1. ret'.content = w
    BY DEF Returns
  <2>2. Answers(Contents', Asks(Top), ret'.content)
    BY <2>1 DEF Contents, NextContents
  <2>3. Served(Len(stack) + 1)' = Asks(Top)
    BY <1>1, <1>2, <1>3, <1>4
  <2>4. QED
    BY <2>2, <2>3 DEF ReturnInv
<1>7. WaitInv'
  BY <1>1, <1>2, <1>3 DEF WaitInv
<1>8. QED
  BY <1>5, <1>6, <1>7 DEF StoreOK, Contents, NextContents

(* So does a call, if it is the one that the activation now waits for.     *)
LEMMA CallStore ==
  ASSUME CallInv, StoreOK, pc = "running", stack # << >>, ClientUnchanged,
         NEW f \in Frame, NEW g \in Frame, Called(f, g), ret' = Nothing,
         f.level = N, f.addr = Top.addr, f.read = Top.read, f.content = Top.content,
         Waits(blocks', f), Waits(blocks', g), Asks(g) = RequestOf(blocks', f),
         \A m \in Levels \ {N} : blocks'[m] = blocks[m],
         \A m \in Levels : LinesKnown(m, blocks'[m]),
         CopiesAgree(NextContents), TopIsCurrent(NextContents, Current')
  PROVE  StoreOK'
<1>1. PICK L \in Nat \ {0} : L = Len(stack) /\ Top = stack[L] /\ N = stack[L].level
  BY TopOK DEF N
<1>2. /\ Len(stack') = L + 1 /\ stack'[L] = f /\ stack'[L + 1] = g
      /\ \A i \in 1 .. (L - 1) : stack'[i] = stack[i]
  BY <1>1 DEF Called
<1>3. /\ \A i \in 1 .. (L - 1) : Waits(blocks', stack'[i])
      /\ \A i \in 1 .. L : Served(i)' = Served(i)
  BY <1>1, <1>2, FramesStay DEF ClientUnchanged
<1>4. \A i \in 1 .. L : Asks(stack[i]) = Served(i)
  BY <1>1 DEF StoreOK, LinkInv
<1>5. Asks(f) = Asks(stack[L])
  BY <1>1 DEF Asks
<1>6. Served(L + 1)' = RequestOf(blocks', f)
  BY <1>1, <1>2 DEF Served
<1>7. LinkInv'
  <2>1. \A i \in 1 .. (L + 1) : Asks(stack'[i]) = Served(i)'
    <3> TAKE i \in 1 .. (L + 1)
    <3>1. CASE i <= L - 1
      BY <1>2, <1>3, <1>4, <3>1
    <3>2. CASE i = L
      BY <1>2, <1>3, <1>4, <1>5, <3>2
    <3>3. CASE i = L + 1
      BY <1>2, <1>6, <3>3
    <3>4. QED
      BY <3>1, <3>2, <3>3
  <2>2. QED
    BY <1>2, <2>1 DEF LinkInv
<1>8. WaitInv'
  <2>1. \A i \in 1 .. (L + 1) : Waits(blocks', stack'[i])
    <3> TAKE i \in 1 .. (L + 1)
    <3>1. CASE i <= L - 1
      BY <1>3, <3>1
    <3>2. CASE i = L \/ i = L + 1
      BY <1>2, <3>2
    <3>3. QED
      BY <3>1, <3>2
  <2>2. QED
    BY <1>2, <2>1 DEF WaitInv
<1>9. ReturnInv'
  BY DEF ReturnInv
<1>10. QED
  BY <1>7, <1>8, <1>9 DEF StoreOK, Contents, NextContents

(* A call leaves the current words as they are...                          *)
LEMMA CurrentInCall ==
  ASSUME stack # << >>, ret = Nothing \/ Top.at # "again", ret' = Nothing,
         ClientUnchanged
  PROVE  Current' = Current
<1>1. ~ Written /\ ~ Written'
  BY DEF Written
<1>2. UNCHANGED <<req, content, latest>>
  BY DEF ClientUnchanged
<1>3. QED
  BY <1>1, <1>2 DEF Current

(* ...and so does a return, unless it is that of the client's write.       *)
LEMMA CurrentInReturn ==
  ASSUME CallInv, StoreOK, pc = "running", stack # << >>, ClientUnchanged,
         NEW w, NEW t \in Nat, Returns(w, t)
  PROVE  /\ N # 1 => ~ Written'
         /\ N = 1 => (Written' <=> ~ Top.read)
         /\ N = 1 => req.read = Top.read /\ req.addr = Top.addr
                     /\ Top.content = [i \in {0} |-> content]
<1>1. PICK L \in Nat \ {0} : L = Len(stack) /\ Top = stack[L] /\ N = stack[L].level
  BY TopOK DEF N
<1>2. /\ stack' \in Seq(Frame) /\ Len(stack') = L - 1
      /\ \A i \in 1 .. (L - 1) : stack'[i] = stack[i]
  BY <1>1, ReturnedBy DEF Returned
<1>3. stack' = << >> <=> L = 1
  BY <1>2, EmptySeq
<1>4. L # 1 => Top' = stack[L - 1]
  <2> SUFFICES ASSUME L # 1 PROVE Top' = stack[L - 1]
    OBVIOUS
  <2>1. Top' = stack'[L - 1] /\ L - 1 \in 1 .. (L - 1)
    BY <1>2 DEF Top, Last
  <2>2. QED
    BY <1>2, <2>1
<1>5. pc' = "running" /\ ret' # Nothing /\ req' = req
  BY DEF ClientUnchanged, Returns, Nothing
<1>6. ASSUME N # 1 PROVE ~ Written'
  <2>1. L # 1
    BY <1>1, <1>6 DEF CallInv, StackInv
  <2>2. L - 1 \in 1 .. (L - 1) /\ (L - 1) + 1 = L
    BY <2>1
  <2>3. Calls(stack[L - 1], stack[L])
    BY <1>1, <2>2 DEF CallInv, StackInv
  <2>4. stack[L - 1].at = "again" => stack[L - 1].level = N
    BY <1>1, <2>3 DEF Calls
  <2>5. QED
    BY <1>3, <1>4, <1>6, <2>1, <2>4 DEF Written, N
<1>7. ASSUME N = 1
      PROVE  /\ Written' <=> ~ Top.read
             /\ req.read = Top.read /\ req.addr = Top.addr
             /\ Top.content = [i \in {0} |-> content]
  <2>1. /\ Asks(Top) = ClientRequest
        /\ L = 1 \/ (L = 2 /\ stack[1].at = "again" /\ stack[1].level = 1)
    BY <1>1, <1>7, ClientServed
  <2>2. /\ req.read = Top.read /\ req.addr = Top.addr
        /\ Top.content = [i \in {0} |-> content]
    BY <2>1 DEF Asks, ClientRequest
  <2>3. stack' = << >> \/ (N' = 1 /\ Top'.at = "again")
    BY <1>3, <1>4, <2>1 DEF N
  <2>4. Written' <=> ~ req.read
    BY <1>5, <2>3 DEF Written
  <2>5. QED
    BY <2>2, <2>4
<1>8. QED
  BY <1>6, <1>7

(* The current words after a return of a read, or of another level.        *)
LEMMA CurrentKept ==
  ASSUME CallInv, StoreOK, pc = "running", stack # << >>, ClientUnchanged,
         NEW w, NEW t \in Nat, Returns(w, t),
         \/ ret = Nothing /\ (Top.read \/ N # 1)
         \/ ret # Nothing /\ Top.at = "again"
  PROVE  Current' = Current
<1>1. UNCHANGED <<req, content, latest>>
  BY DEF ClientUnchanged
<1>2. CASE ret = Nothing /\ (Top.read \/ N # 1)
  <2>1. ~ Written
    BY <1>2 DEF Written
  <2>2. ~ Written'
    BY <1>2, CurrentInReturn
  <2>3. QED
    BY <1>1, <2>1, <2>2 DEF Current
<1>3. CASE ret # Nothing /\ Top.at = "again"
  <2>1. Written' <=> Written
    <3>1. CASE N = 1
      BY <1>3, <3>1, CurrentInReturn DEF Written
    <3>2. CASE N # 1
      BY <3>2, CurrentInReturn DEF Written
    <3>3. QED
      BY <3>1, <3>2
  <2>2. QED
    BY <1>1, <2>1 DEF Current
<1>4. QED
  BY <1>2, <1>3

-----------------------------------------------------------------------------
(* The steps of the storage keep the invariant.                            *)

(* What the levels hold, level by level.                                   *)
LEMMA ContentsFields ==
  ASSUME NEW bl, NEW mem
  PROVE  /\ \A n \in Levels : ContentsOf(bl, mem)[n] = Copies(n, bl[n])
         /\ ContentsOf(bl, mem)[Depth + 1] = Stored(mem)
<1>1. Depth \in Nat \ {0} /\ Levels = 1 .. Depth
  BY HierarchyAssumption DEF Levels
<1>2. \A n \in Levels : n \in 1 .. (Depth + 1)
  BY <1>1
<1>3. Depth + 1 \in 1 .. (Depth + 1) /\ Depth + 1 \notin Levels
  BY <1>1
<1>4. QED
  BY <1>2, <1>3 DEF ContentsOf

(* A step that changes the blocks of one level changes what it holds...    *)
LEMMA LevelContents ==
  ASSUME memory' = memory, NEW n \in Levels,
         \A m \in Levels \ {n} : blocks'[m] = blocks[m]
  PROVE  /\ \A m \in (1 .. (Depth + 1)) \ {n} : NextContents[m] = Contents[m]
         /\ NextContents[n] = Copies(n, blocks'[n])
         /\ Contents[n] = Copies(n, blocks[n])
<1>1. \A m \in (1 .. (Depth + 1)) \ {n} : NextContents[m] = Contents[m]
  BY DEF NextContents, Contents, ContentsOf
<1>2. QED
  BY <1>1, ContentsFields DEF NextContents, Contents

(* ...and if it holds the same, no level has changed.                      *)
LEMMA SameContents ==
  ASSUME memory' = memory, NEW n \in Levels,
         \A m \in Levels \ {n} : blocks'[m] = blocks[m],
         Copies(n, blocks'[n]) = Copies(n, blocks[n])
  PROVE  NextContents = Contents
BY DEF NextContents, Contents, ContentsOf

(* The words that the activation on top is asked for, in its line.         *)
LEMMA WordsAsked ==
  ASSUME CallInv, StoreOK, stack # << >>, N \in Levels
  PROVE  /\ LineOf(N, Top.addr) = <<Tag, Index>>
         /\ <<Tag, Index>> \in Lines(N)
         /\ \A i \in DOMAIN Top.content :
              /\ Offset + i \in 0 .. (NWords(N) - 1)
              /\ Source(N, Top.addr + 8 * i) = ElementOf(N, <<Tag, Index>>, Offset + i)
<1>1. PICK L \in Nat \ {0} : L = Len(stack) /\ Top = stack[L]
  BY TopOK
<1>2. Waits(blocks, Top)
  BY <1>1 DEF StoreOK, WaitInv
<1>3. LineOf(N, Top.addr) = <<Tag, Index>>
  BY DEF LineOf, Tag, Index
<1>4. LineOf(N, Top.addr) \in Lines(N)
  BY <1>2 DEF Waits, N
<1>5. FrameOK(Top) /\ Top.addr \in Nat
  BY TopOK DEF FrameOK, Frame
<1>6. PICK c \in Amounts :
        /\ Top.content \in Words(c)
        /\ WordOf(Top.addr) % c = 0
        /\ NWords(N) % c = 0
  BY <1>5 DEF FrameOK, Fits, N
<1>7. c \in Nat \ {0} /\ DOMAIN Top.content = 0 .. (c - 1)
  BY <1>6, WordCounts DEF Words
<1>8. ASSUME NEW i \in DOMAIN Top.content
      PROVE  /\ Offset + i \in 0 .. (NWords(N) - 1)
             /\ Source(N, Top.addr + 8 * i) = ElementOf(N, <<Tag, Index>>, Offset + i)
  <2>1. /\ Level(N)!OffsetWord(Top.addr) + i \in 0 .. (NWords(N) - 1)
        /\ Source(N, Top.addr + 8 * i) =
             ElementOf(N, LineOf(N, Top.addr), Level(N)!OffsetWord(Top.addr) + i)
    BY <1>4, <1>5, <1>6, <1>7, RequestElements
  <2>2. QED
    BY <1>3, <2>1 DEF Offset
<1>9. QED
  BY <1>3, <1>4, <1>8

(* On a hit they are in the block found.                                   *)
LEMMA WordsFound ==
  ASSUME CallInv, StoreOK, stack # << >>, N \in Levels, Hit
  PROVE  /\ HitBlock \in BlocksOf(N) /\ blocks[N][HitBlock].valid
         /\ <<blocks[N][HitBlock].tag, HitBlock[1]>> = <<Tag, Index>>
         /\ \A i \in DOMAIN Top.content :
              Holds(N, blocks[N], HitBlock, Offset + i, Source(N, Top.addr + 8 * i))
<1>1. Index \in Level(N)!Sets
  BY TopAtLevel
<1>2. /\ HitBlock \in BlocksOf(N) /\ HitBlock[1] = Index
      /\ blocks[N][HitBlock].valid /\ blocks[N][HitBlock].tag = Tag
  BY <1>1, HitInLevel DEF Hit, HitBlock
<1>3. QED
  BY <1>2, WordsAsked DEF Holds

(* A read hit.                                                             *)
LEMMA HitReadStore ==
  ASSUME AddressesSound, CallInv, StoreOK, HitRead
  PROVE  StoreOK'
<1>1. /\ stack # << >> /\ N \in Levels /\ pc = "running" /\ Hit
      /\ Top.read /\ ret = Nothing /\ ClientUnchanged /\ memory' = memory
  BY EnteredTop DEF HitRead, AtCache, Entered
<1>2. /\ HitBlock \in BlocksOf(N) /\ Top.time \in Nat
      /\ blocks[N] \in [BlocksOf(N) -> BlockAt(N)]
  BY <1>1, TopAtLevel
<1> DEFINE new == Touched(blocks[N], HitBlock)
<1>3. /\ new \in [BlocksOf(N) -> BlockAt(N)]
      /\ \A b \in BlocksOf(N) :
           /\ new[b].valid = blocks[N][b].valid /\ new[b].dirty = blocks[N][b].dirty
           /\ new[b].tag = blocks[N][b].tag /\ new[b].data = blocks[N][b].data
  BY <1>1, <1>2, TouchedBlocks DEF Touched
<1>4. blocks' = [blocks EXCEPT ![N] = new] /\ Returns(WordsIn(HitBlock), Top.time)
  BY DEF HitRead
<1> HIDE DEF new
<1>5. blocks'[N] = new /\ \A m \in Levels \ {N} : blocks'[m] = blocks[m]
  BY <1>1, <1>3, <1>4, BlocksSet DEF CallInv
<1>6. Copies(N, new) = Copies(N, blocks[N]) /\ LinesKnown(N, new)
  BY <1>1, <1>3, TouchedCopies DEF StoreOK
<1>7. NextContents = Contents
  BY <1>1, <1>5, <1>6, SameContents
<1>8. \A m \in Levels : LinesKnown(m, blocks'[m])
  BY <1>5, <1>6 DEF StoreOK
<1>9. Current' = Current
  BY <1>1, <1>2, <1>4, CurrentKept
<1>10. Answers(NextContents, Asks(Top), WordsIn(HitBlock))
  <2> SUFFICES ASSUME NEW i \in DOMAIN Top.content
               PROVE  LET e == Source(N, Top.addr + 8 * i)
                      IN e \in Contents[N].held /\ Contents[N].value[e] = WordsIn(HitBlock)[i]
    BY <1>1, <1>7 DEF Answers, Asks, N
  <2>1. /\ Offset + i \in 0 .. (NWords(N) - 1)
        /\ Holds(N, blocks[N], HitBlock, Offset + i, Source(N, Top.addr + 8 * i))
    BY <1>1, WordsAsked, WordsFound
  <2>2. LinesKnown(N, blocks[N])
    BY <1>1 DEF StoreOK
  <2>3. IsCopy(N, blocks[N], HitBlock, Offset + i, Source(N, Top.addr + 8 * i))
    BY <1>1, <1>2, <2>1, <2>2, CopyAt
  <2>4. Contents[N] = Copies(N, blocks[N])
    BY <1>1, ContentsFields DEF Contents
  <2>5. WordsIn(HitBlock)[i] = blocks[N][HitBlock].data[Offset + i]
    BY DEF WordsIn
  <2>6. QED
    BY <2>3, <2>4, <2>5 DEF IsCopy
<1>11. QED
  BY <1>1, <1>4, <1>5, <1>7, <1>8, <1>9, <1>10, ReturnStore DEF StoreOK

(* The words that a level below the first is asked for are elements; those *)
(* that it is to write, the level above holds dirty.                       *)
LEMMA WordsBelow ==
  ASSUME AddressesSound, CallInv, StoreOK, pc = "running", stack # << >>, N # 1
  PROVE  /\ N - 1 \in Levels
         /\ \A i \in DOMAIN Top.content :
              /\ Source(N, Top.addr + 8 * i) \in Elements
              /\ ~ Top.read =>
                   /\ Source(N, Top.addr + 8 * i) \in Contents[N - 1].held
                   /\ Source(N, Top.addr + 8 * i) \in Contents[N - 1].dirty
<1>1. PICK f \in Frame :
        /\ FrameOK(f) /\ f.level \in Levels /\ N = f.level + 1
        /\ f.at \in {"evict", "refill"}
        /\ Waits(blocks, f)
        /\ Asks(Top) = RequestOf(blocks, f)
  BY LevelServed
<1>2. PICK n \in Levels : n = f.level
  BY <1>1
<1>3. n = N - 1 /\ n \in Nat
  BY <1>1, <1>2, HierarchyAssumption DEF Levels
<1>4. f.block \in BlocksOf(n) /\ blocks[n] \in [BlocksOf(n) -> BlockAt(n)]
      /\ LinesKnown(n, blocks[n])
  BY <1>1, <1>2 DEF FrameOK, CallInv, CachesOK, StoreOK
<1>5. CASE f.at = "evict"
  <2> DEFINE line == <<blocks[n][f.block].tag, f.block[1]>>
  <2>1. blocks[n][f.block].valid /\ blocks[n][f.block].dirty
    BY <1>1, <1>2, <1>5 DEF Waits
  <2>2. line \in Lines(n)
    BY <1>4, <2>1 DEF LinesKnown
  <2>3. /\ Top.addr = LineBelow(n, line)
        /\ Top.content = blocks[n][f.block].data
    BY <1>1, <1>2, <1>5, RequestFields DEF Asks, LineIn
  <2>4. DOMAIN Top.content = 0 .. (NWords(n) - 1)
    BY <1>4, <2>3 DEF BlockAt, Words
  <2> HIDE DEF line
  <2>5. ASSUME NEW i \in DOMAIN Top.content
        PROVE  /\ Source(N, Top.addr + 8 * i) \in Elements
               /\ Source(N, Top.addr + 8 * i) \in Contents[N - 1].held
               /\ Source(N, Top.addr + 8 * i) \in Contents[N - 1].dirty
    <3>1. Source(N, Top.addr + 8 * i) = ElementOf(n, line, i)
      BY <1>1, <1>2, <2>3 DEF ElementOf
    <3>2. Holds(n, blocks[n], f.block, i, ElementOf(n, line, i))
      BY <2>1 DEF Holds, line
    <3>3. IsCopy(n, blocks[n], f.block, i, ElementOf(n, line, i))
      BY <1>4, <2>4, <3>2, CopyAt
    <3>4. Contents[n] = Copies(n, blocks[n])
      BY ContentsFields DEF Contents
    <3>5. QED
      BY <1>3, <2>1, <3>1, <3>3, <3>4 DEF IsCopy
  <2>6. QED
    BY <1>2, <1>3, <2>5
<1>6. CASE f.at = "refill"
  <2>1. LineOf(n, f.addr) \in Lines(n)
    BY <1>1, <1>2 DEF Waits
  <2>2. /\ Top.addr = LineBelow(n, LineOf(n, f.addr)) /\ Top.read
        /\ Top.content = Blank(NWords(n))
    BY <1>1, <1>2, <1>6, RequestFields DEF Asks
  <2>3. DOMAIN Top.content = 0 .. (NWords(n) - 1)
    BY <2>2 DEF Blank
  <2>4. \A i \in DOMAIN Top.content :
          Source(N, Top.addr + 8 * i) = ElementOf(n, LineOf(n, f.addr), i)
    BY <1>1, <1>2, <2>2 DEF ElementOf
  <2>5. QED
    BY <1>3, <2>1, <2>2, <2>3, <2>4, ElementOfLine
<1>7. QED
  BY <1>1, <1>5, <1>6

(* What a write hit makes of the blocks, but for the counters.             *)
LEMMA WrittenBlocks ==
  ASSUME CallInv, stack # << >>, N \in Levels, NEW x \in BlocksOf(N)
  PROVE  LET new == MarkedDirty(Overwritten(x), x)
             bs == blocks[N]
         IN /\ new \in [BlocksOf(N) -> BlockAt(N)]
            /\ \A b \in BlocksOf(N) : b # x => new[b] = bs[b]
            /\ new[x].valid = bs[x].valid /\ new[x].tag = bs[x].tag /\ new[x].dirty = TRUE
            /\ \A k \in 0 .. (NWords(N) - 1) :
                 new[x].data[k] = IF k - Offset \in DOMAIN Top.content
                                    THEN Top.content[k - Offset] ELSE bs[x].data[k]
<1> DEFINE bs == blocks[N]
           mid == Overwritten(x)
           d == [k \in DOMAIN bs[x].data |->
                   IF k - Offset \in DOMAIN Top.content
                     THEN Top.content[k - Offset] ELSE bs[x].data[k]]
<1>1. bs \in [BlocksOf(N) -> BlockAt(N)] /\ mid \in [BlocksOf(N) -> BlockAt(N)]
  BY TopAtLevel, OverwrittenType
<1>2. mid = [bs EXCEPT ![x].data = d]
  BY DEF Overwritten
<1>3. bs[x] \in BlockAt(N) /\ DOMAIN bs[x].data = 0 .. (NWords(N) - 1)
  BY <1>1 DEF BlockAt, Words
<1> HIDE DEF mid, d
<1>4. /\ \A b \in BlocksOf(N) : b # x => mid[b] = bs[b]
      /\ mid[x] = [bs[x] EXCEPT !.data = d]
  BY <1>1, <1>2
<1>5. mid[x].valid = bs[x].valid /\ mid[x].tag = bs[x].tag /\ mid[x].data = d
  BY <1>3, <1>4 DEF BlockAt
<1> DEFINE new == MarkedDirty(mid, x)
<1>6. /\ new \in [BlocksOf(N) -> BlockAt(N)]
      /\ \A b \in BlocksOf(N) : b # x => new[b] = mid[b]
      /\ new[x].valid = mid[x].valid /\ new[x].tag = mid[x].tag
      /\ new[x].dirty = TRUE /\ new[x].data = mid[x].data
  BY <1>1 DEF MarkedDirty, BlockAt
<1> HIDE DEF new
<1>7. \A k \in 0 .. (NWords(N) - 1) :
        d[k] = IF k - Offset \in DOMAIN Top.content
                 THEN Top.content[k - Offset] ELSE bs[x].data[k]
  BY <1>3 DEF d
<1>8. QED
  BY <1>4, <1>5, <1>6, <1>7 DEF new, mid

(* A write hit.                                                            *)
LEMMA HitWriteBackStore ==
  ASSUME AddressesSound, CallInv, StoreOK, HitWriteBack
  PROVE  StoreOK'
<1>1. /\ stack # << >> /\ N \in Levels /\ pc = "running" /\ Hit
      /\ ~ Top.read /\ ret = Nothing /\ ClientUnchanged /\ memory' = memory
  BY EnteredTop DEF HitWriteBack, AtCache, Entered
<1>2. /\ HitBlock \in BlocksOf(N) /\ Top.time \in Nat
      /\ blocks[N] \in [BlocksOf(N) -> BlockAt(N)] /\ LinesKnown(N, blocks[N])
  BY <1>1, TopAtLevel DEF StoreOK
<1> DEFINE bs == blocks[N]
           x == HitBlock
           line == <<Tag, Index>>
           mid == MarkedDirty(Overwritten(x), x)
           new == Touched(mid, x)
<1>3. blocks' = [blocks EXCEPT ![N] = new] /\ Returns(Top.content, Top.time)
  BY DEF HitWriteBack
<1>4. /\ mid \in [BlocksOf(N) -> BlockAt(N)]
      /\ \A b \in BlocksOf(N) : b # x => mid[b] = bs[b]
      /\ mid[x].valid = bs[x].valid /\ mid[x].tag = bs[x].tag /\ mid[x].dirty = TRUE
      /\ \A k \in 0 .. (NWords(N) - 1) :
           mid[x].data[k] = IF k - Offset \in DOMAIN Top.content
                              THEN Top.content[k - Offset] ELSE bs[x].data[k]
  BY <1>1, <1>2, WrittenBlocks
<1> HIDE DEF mid
<1>5. /\ new \in [BlocksOf(N) -> BlockAt(N)]
      /\ \A b \in BlocksOf(N) :
           /\ new[b].valid = mid[b].valid /\ new[b].dirty = mid[b].dirty
           /\ new[b].tag = mid[b].tag /\ new[b].data = mid[b].data
  BY <1>1, <1>2, <1>4, TouchedBlocks DEF Touched
<1> HIDE DEF new
<1>6. /\ line \in Lines(N) /\ bs[x].valid /\ line = <<bs[x].tag, x[1]>>
      /\ \A i \in DOMAIN Top.content :
           /\ Offset + i \in 0 .. (NWords(N) - 1)
           /\ Source(N, Top.addr + 8 * i) = ElementOf(N, line, Offset + i)
           /\ Holds(N, bs, x, Offset + i, Source(N, Top.addr + 8 * i))
  BY <1>1, WordsAsked, WordsFound
<1> HIDE DEF line
<1>7. /\ LinesKnown(N, mid)
      /\ Copies(N, mid).held = Copies(N, bs).held
      /\ Copies(N, bs).dirty \subseteq Copies(N, mid).dirty
      /\ \A k \in 0 .. (NWords(N) - 1) : ElementOf(N, line, k) \in Copies(N, mid).dirty
      /\ \A e \in Copies(N, bs).held :
           \/ Copies(N, mid).value[e] = Copies(N, bs).value[e]
           \/ \E k \in 0 .. (NWords(N) - 1) :
                /\ k - Offset \in DOMAIN Top.content
                /\ e = ElementOf(N, line, k)
                /\ Copies(N, mid).value[e] = Top.content[k - Offset]
  <2> DEFINE D == DOMAIN Top.content
  <2> HIDE DEF D
  <2>1. \A b \in BlocksOf(N) :
          /\ mid[b].valid = bs[b].valid /\ mid[b].tag = bs[b].tag
          /\ b # x => mid[b].dirty = bs[b].dirty /\ mid[b].data = bs[b].data
    BY <1>4
  <2>2. \A k \in 0 .. (NWords(N) - 1) :
          mid[x].data[k] = IF k - Offset \in D THEN Top.content[k - Offset]
                                               ELSE bs[x].data[k]
    BY <1>4 DEF D
  <2>3. (bs[x].dirty => mid[x].dirty) /\ (D # {} => mid[x].dirty) /\ mid[x].dirty
    BY <1>4
  <2>4. TakenIn(N, bs, mid, x, line, D, Offset, Top.content)
    BY ONLY <1>1, <1>2, <1>4, <1>6, <2>1, <2>2, <2>3, AddressesSound, WrittenCopies
  <2>5. QED
    BY <2>3, <2>4 DEF D, TakenIn
<1>8. Copies(N, new) = Copies(N, mid) /\ LinesKnown(N, new)
  BY <1>1, <1>5, <1>7, TouchedCopies
<1>9. blocks'[N] = new /\ \A m \in Levels \ {N} : blocks'[m] = blocks[m]
  BY <1>1, <1>3, <1>5, BlocksSet DEF CallInv
<1>10. \A m \in Levels : LinesKnown(m, blocks'[m])
  BY <1>8, <1>9 DEF StoreOK
<1>11. /\ \A m \in (1 .. (Depth + 1)) \ {N} : NextContents[m] = Contents[m]
       /\ NextContents[N] = Copies(N, mid) /\ Contents[N] = Copies(N, bs)
  BY <1>1, <1>8, <1>9, LevelContents
<1>12. ASSUME NEW i \in DOMAIN Top.content
       PROVE  LET e == Source(N, Top.addr + 8 * i)
              IN /\ e \in Elements
                 /\ e \in NextContents[N].held /\ e \in NextContents[N].dirty
                 /\ NextContents[N].value[e] = Top.content[i]
  <2> DEFINE e == Source(N, Top.addr + 8 * i)
  <2>1. Offset + i \in 0 .. (NWords(N) - 1) /\ Holds(N, bs, x, Offset + i, e)
    BY <1>6
  <2>2. Holds(N, mid, x, Offset + i, e)
    BY <1>4, <2>1 DEF Holds
  <2>3. IsCopy(N, mid, x, Offset + i, e)
    BY <1>1, <1>2, <1>4, <1>7, <2>1, <2>2, CopyAt
  <2>4. (Offset + i) - Offset = i
    BY <1>1, AccessFits
  <2>5. mid[x].data[Offset + i] = Top.content[i]
    BY <1>4, <2>1, <2>4
  <2>6. QED
    BY <1>4, <1>11, <2>3, <2>5 DEF IsCopy
<1>13. \A e \in Contents[N].held :
         \/ NextContents[N].value[e] = Contents[N].value[e]
         \/ \E i \in DOMAIN Top.content :
              e = Source(N, Top.addr + 8 * i) /\ e \in NextContents[N].dirty
  <2> SUFFICES ASSUME NEW e \in Contents[N].held,
                      NextContents[N].value[e] # Contents[N].value[e]
               PROVE  \E i \in DOMAIN Top.content :
                        e = Source(N, Top.addr + 8 * i) /\ e \in NextContents[N].dirty
    OBVIOUS
  <2>1. PICK k \in 0 .. (NWords(N) - 1) :
          k - Offset \in DOMAIN Top.content /\ e = ElementOf(N, line, k)
    BY <1>7, <1>11
  <2>2. Offset + (k - Offset) = k
    BY <1>1, AccessFits
  <2>3. e = Source(N, Top.addr + 8 * (k - Offset))
    BY <1>6, <2>1, <2>2
  <2>4. QED
    BY <1>7, <1>11, <2>1, <2>3
<1>14. Answers(NextContents, Asks(Top), Top.content)
  BY <1>12 DEF Answers, Asks, N
<1>15. CopiesAgree(NextContents) /\ TopIsCurrent(NextContents, Current')
  <2>1. \A a \in Addrs : Source(1, a) \in Elements
    BY ClientElements
  <2>2. NextContents[N].held = Contents[N].held
        /\ Contents[N].dirty \subseteq NextContents[N].dirty
    BY <1>7, <1>11
  <2>3. CopiesAgree(Contents) /\ TopIsCurrent(Contents, Current)
    BY DEF StoreOK
  <2>4. CASE N # 1
    <3>1. N \in 2 .. (Depth + 1)
      BY <1>1, <2>4, TopOK, HierarchyAssumption
    <3>2. \A e \in Contents[N].held :
            \/ NextContents[N].value[e] = Contents[N].value[e]
            \/ /\ e \in Contents[N - 1].held /\ e \in Contents[N - 1].dirty
               /\ N \in Levels => e \in NextContents[N].dirty
      BY <1>1, <1>13, <2>4, WordsBelow
    <3>3. CopiesAgree(NextContents) /\ TopIsCurrent(NextContents, Current)
      BY <1>11, <2>1, <2>2, <2>3, <3>1, <3>2, WrittenBelow
    <3>4. Current' = Current
      BY <1>1, <1>2, <1>3, <2>4, CurrentKept
    <3>5. QED
      BY <3>3, <3>4
  <2>5. CASE N = 1
    <3>1. /\ Written' /\ req.addr = Top.addr
          /\ Top.content = [i \in {0} |-> content]
      BY <1>1, <1>2, <1>3, <2>5, CurrentInReturn
    <3>2. ~ Written
      BY <1>1 DEF Written
    <3>3. req.addr \in Addrs /\ UNCHANGED <<req, content, latest>>
      BY <1>1 DEF CallInv, AnswerInv, Request, ClientUnchanged
    <3> DEFINE z == Source(1, req.addr)
    <3>4. 0 \in DOMAIN Top.content /\ Top.content[0] = content
          /\ \A i \in DOMAIN Top.content : i = 0
      BY <3>1
    <3>5. Top.addr + 8 * 0 = Top.addr
      BY <1>1, TopAtLevel
    <3>6. /\ z \in Elements /\ z \in Contents[1].held /\ z \in NextContents[1].dirty
          /\ NextContents[1].value[z] = content
      BY <1>12, <2>2, <2>5, <3>1, <3>4, <3>5
    <3>7. \A e \in Contents[1].held : e # z => NextContents[1].value[e] = Contents[1].value[e]
      BY <1>13, <2>5, <3>1, <3>4, <3>5
    <3>8. \A a \in Addrs :
            Current'[a] = IF Source(1, a) = z THEN NextContents[1].value[z] ELSE Current[a]
      <4> TAKE a \in Addrs
      <4>1. Source(1, a) = z <=> WordOf(a) = WordOf(req.addr)
        BY <3>3, ClientWords
      <4>2. Current'[a] = IF WordOf(a) = WordOf(req.addr) THEN content
                          ELSE latest[WordOf(a)]
        BY <3>1, <3>3 DEF Current
      <4>3. Current[a] = latest[WordOf(a)]
        BY <3>2 DEF Current
      <4>4. QED
        BY <3>6, <4>1, <4>2, <4>3
    <3> HIDE DEF z
    <3>9. /\ \A n \in (1 .. (Depth + 1)) \ {1} : NextContents[n] = Contents[n]
          /\ NextContents[1].held = Contents[1].held
          /\ Contents[1].dirty \subseteq NextContents[1].dirty
      BY <1>11, <2>2, <2>5
    <3>10. QED
      BY ONLY <2>1, <2>3, <3>6, <3>7, <3>8, <3>9, WrittenByClient
  <2>6. QED
    BY <2>4, <2>5
<1>16. QED
  BY <1>1, <1>3, <1>9, <1>10, <1>14, <1>15, ReturnStore

(* The activation on top waits, and has called another with this request.  *)
WaitsFor(at, b, f, g) ==
  /\ f.level = N /\ f.at = at /\ f.block = b
  /\ f.addr = Top.addr /\ f.read = Top.read /\ f.content = Top.content
  /\ g.at = "enter"
  /\ Calls(f, g) /\ Called(f, g) /\ ret' = Nothing

CalledFor(at, b, addr, read, words) ==
  \E f, g \in Frame :
    WaitsFor(at, b, f, g) /\ g.addr = addr /\ g.read = read /\ g.content = words

(* It has.                                                                 *)
LEMMA CallFor ==
  ASSUME CallInv, stack # << >>,
         NEW at, NEW b, NEW t, NEW addr, NEW read, NEW words,
         CallsOut(at, b, t, addr, read, words)
  PROVE  CalledFor(at, b, addr, read, words)
BY CalledBy DEF CalledFor, WaitsFor

(* The request for a block that is missed is for a line of the client.     *)
LEMMA LinePassedDown ==
  ASSUME NEW n \in Levels, NEW line \in Lines(n), NEW g,
         g.level = n + 1, g.addr = LineBelow(n, line), g.at = "enter", NEW bl
  PROVE  Waits(bl, g)
BY LineTypes DEF Waits

(* A dirty victim is on its way to the level below.                        *)
LEMMA MissEvictStore ==
  ASSUME AddressesSound, CallInv, StoreOK, MissEvict
  PROVE  StoreOK'
<1>1. /\ stack # << >> /\ N \in Levels /\ pc = "running" /\ ret = Nothing
      /\ ClientUnchanged /\ memory' = memory /\ blocks' = blocks
      /\ Victim \in BlocksOf(N) /\ Victim[1] = Index /\ ~ Hit
      /\ blocks[N][Victim].valid /\ blocks[N][Victim].dirty
  BY MissedTop DEF MissEvict, Missed, AtCache, Entered, NeedsWriteBack
<1> DEFINE line == <<blocks[N][Victim].tag, Victim[1]>>
<1>2. PICK f \in Frame, g \in Frame :
        /\ WaitsFor("evict", Victim, f, g)
        /\ g.addr = Level(N)!BlockAddr(blocks[N][Victim].tag, Index)
        /\ g.read = FALSE /\ g.content = blocks[N][Victim].data
  <2> DEFINE addr == Level(N)!BlockAddr(blocks[N][Victim].tag, Index)
             data == blocks[N][Victim].data
  <2>1. CallsOut("evict", Victim, Top.time, addr, FALSE, data)
    BY MissEvictCalls
  <2> HIDE DEF addr, data
  <2>2. CalledFor("evict", Victim, addr, FALSE, data)
    BY <1>1, <2>1, CallFor, Zenon
  <2>3. QED
    BY <2>2 DEF CalledFor, addr, data
<1>3. g.level = N + 1 /\ g.addr = LineBelow(N, line)
  BY <1>1, <1>2 DEF WaitsFor, Calls, LineBelow
<1>4. LinesKnown(N, blocks[N])
  BY <1>1 DEF StoreOK
<1>5. line \in Lines(N)
  BY <1>1, <1>4 DEF LinesKnown
<1>6. Waits(blocks', g)
  BY <1>1, <1>2, <1>3, <1>5, LinePassedDown DEF WaitsFor
<1>7. LineOf(N, Top.addr) \in Lines(N)
  BY <1>1, WordsAsked
<1>8. Waits(blocks', f)
  BY <1>1, <1>2, <1>7 DEF WaitsFor, Waits, Hit, Index, Tag
<1>9. Asks(g) = RequestOf(blocks', f)
  <2>1. RequestOf(blocks', f) =
          [level |-> f.level + 1,
           addr |-> LineBelow(f.level, LineIn(blocks', f.level, f.block)),
           read |-> FALSE, content |-> blocks'[f.level][f.block].data]
    BY <1>2, RequestFields DEF WaitsFor
  <2>2. /\ g.level = f.level + 1
        /\ g.addr = LineBelow(f.level, LineIn(blocks', f.level, f.block))
        /\ g.content = blocks'[f.level][f.block].data
    BY <1>1, <1>2, <1>3 DEF WaitsFor, LineIn
  <2>3. QED
    BY <1>2, <2>1, <2>2 DEF Asks
<1>10. NextContents = Contents
  BY <1>1 DEF NextContents, Contents
<1>11. Current' = Current
  BY <1>1, <1>2, CurrentInCall DEF WaitsFor
<1>12. QED
  BY <1>1, <1>2, <1>6, <1>8, <1>9, <1>10, <1>11, CallStore DEF StoreOK, WaitsFor

(* A block is dropped, and the one that was missed is asked for.           *)
LEMMA DropStore ==
  ASSUME AddressesSound, CallInv, StoreOK, pc = "running", stack # << >>, N \in Levels,
         ClientUnchanged, memory' = memory, ret = Nothing \/ Top.at # "again", ~ Hit,
         NEW x \in BlocksOf(N), NEW t,
         blocks' = [blocks EXCEPT ![N][x].valid = FALSE],
         CallsOut("refill", x, t, Level(N)!BlockAddr(Tag, Index), TRUE, Blank(NWords(N))),
         blocks[N][x].valid /\ blocks[N][x].dirty =>
           \A k \in 0 .. (NWords(N) - 1) :
             LET e == ElementOf(N, <<blocks[N][x].tag, x[1]>>, k)
             IN /\ e \in Contents[N + 1].held
                /\ Contents[N + 1].value[e] = blocks[N][x].data[k]
  PROVE  StoreOK'
<1> DEFINE bs == blocks[N]
           new == [bs EXCEPT ![x].valid = FALSE]
<1>1. bs \in [BlocksOf(N) -> BlockAt(N)] /\ LinesKnown(N, bs)
  BY DEF CallInv, CachesOK, StoreOK
<1>2. /\ new \in [BlocksOf(N) -> BlockAt(N)] /\ ~ new[x].valid
      /\ \A b \in BlocksOf(N) : b # x => new[b] = bs[b]
  BY <1>1 DEF BlockAt
<1>3. blocks' = [blocks EXCEPT ![N] = new]
  OBVIOUS
<1> HIDE DEF new
<1>4. blocks'[N] = new /\ \A m \in Levels \ {N} : blocks'[m] = blocks[m]
  BY <1>2, <1>3, BlocksSet DEF CallInv
<1>5. DroppedFrom(N, bs, new, x)
  BY ONLY <1>1, <1>2, AddressesSound, N \in Levels, x \in BlocksOf(N), DroppedCopies
<1>6. \A m \in Levels : LinesKnown(m, blocks'[m])
  BY <1>4, <1>5 DEF StoreOK, DroppedFrom
<1>7. /\ \A m \in (1 .. (Depth + 1)) \ {N} : NextContents[m] = Contents[m]
      /\ NextContents[N] = Copies(N, new) /\ Contents[N] = Copies(N, bs)
  BY <1>4, LevelContents
<1>8. CopiesAgree(NextContents) /\ TopIsCurrent(NextContents, Current)
  <2>1. \A a \in Addrs : Source(1, a) \in Elements
    BY ClientElements
  <2>2. CopiesAgree(Contents) /\ TopIsCurrent(Contents, Current)
    BY DEF StoreOK
  <2>3. /\ NextContents[N].held \subseteq Contents[N].held
        /\ \A e \in Contents[N].held \cap NextContents[N].held :
             e \in NextContents[N].dirty <=> e \in Contents[N].dirty
        /\ \A e \in NextContents[N].held : NextContents[N].value[e] = Contents[N].value[e]
    BY <1>5, <1>7 DEF DroppedFrom
  <2>4. \A e \in Elements : e \in Contents[N].held /\ e \notin NextContents[N].held =>
          \/ e \notin Contents[N].dirty
          \/ /\ e \in Contents[N + 1].held
             /\ Contents[N + 1].value[e] = Contents[N].value[e]
    <3> SUFFICES ASSUME NEW e \in Elements, e \in Contents[N].held,
                        e \notin NextContents[N].held, e \in Contents[N].dirty
                 PROVE  /\ e \in Contents[N + 1].held
                        /\ Contents[N + 1].value[e] = Contents[N].value[e]
      OBVIOUS
    <3>1. /\ bs[x].valid
          /\ \E k \in 0 .. (NWords(N) - 1) :
               /\ e = ElementOf(N, <<bs[x].tag, x[1]>>, k)
               /\ Copies(N, bs).value[e] = bs[x].data[k]
               /\ e \in Copies(N, bs).dirty <=> bs[x].dirty
      BY <1>5, <1>7 DEF DroppedFrom
    <3>2. PICK k \in 0 .. (NWords(N) - 1) :
            /\ e = ElementOf(N, <<bs[x].tag, x[1]>>, k)
            /\ Copies(N, bs).value[e] = bs[x].data[k]
            /\ e \in Copies(N, bs).dirty <=> bs[x].dirty
      BY <3>1
    <3>3. bs[x].dirty
      BY <1>7, <3>2
    <3>4. QED
      BY <1>7, <3>1, <3>2, <3>3
  <2>5. \A m \in (1 .. (Depth + 1)) \ {N} : NextContents[m] = Contents[m]
    BY <1>7
  <2>6. QED
    BY ONLY <2>1, <2>2, <2>3, <2>4, <2>5, N \in Levels, Dropped
<1>9. PICK f \in Frame, g \in Frame :
        /\ WaitsFor("refill", x, f, g)
        /\ g.addr = Level(N)!BlockAddr(Tag, Index)
        /\ g.read = TRUE /\ g.content = Blank(NWords(N))
  <2> DEFINE addr == Level(N)!BlockAddr(Tag, Index)
             data == Blank(NWords(N))
  <2>1. CallsOut("refill", x, t, addr, TRUE, data)
    OBVIOUS
  <2> HIDE DEF addr, data
  <2>2. CalledFor("refill", x, addr, TRUE, data)
    BY <2>1, CallFor, Zenon
  <2>3. QED
    BY <2>2 DEF CalledFor, addr, data
<1>10. LineOf(N, Top.addr) = <<Tag, Index>> /\ <<Tag, Index>> \in Lines(N)
  BY WordsAsked
<1>11. g.level = N + 1 /\ g.addr = LineBelow(N, <<Tag, Index>>)
  BY <1>9 DEF WaitsFor, Calls, LineBelow
<1>12. Waits(blocks', g)
  BY <1>9, <1>10, <1>11, LinePassedDown DEF WaitsFor
<1>13. Waits(blocks', f)
  <2>1. ~ Level(N)!IsHit(new, Index, Tag)
    <3>1. Level(N)!HitWays(new, Index, Tag) \subseteq Level(N)!HitWays(bs, Index, Tag)
      <4> SUFFICES ASSUME NEW i \in Level(N)!Ways,
                          new[<<Index, i>>].valid, new[<<Index, i>>].tag = Tag
                   PROVE  bs[<<Index, i>>].valid /\ bs[<<Index, i>>].tag = Tag
        BY DEF Level!HitWays
      <4>1. <<Index, i>> \in BlocksOf(N)
        BY TopAtLevel, LevelBlocks
      <4>2. QED
        BY <1>2, <4>1
    <3>2. QED
      BY <3>1 DEF Level!IsHit, Hit
  <2>2. QED
    BY <1>2, <1>4, <1>9, <1>10, <2>1 DEF WaitsFor, Waits, Tag, Index
<1>14. Asks(g) = RequestOf(blocks', f)
  <2>1. RequestOf(blocks', f) =
          [level |-> f.level + 1,
           addr |-> LineBelow(f.level, LineOf(f.level, f.addr)),
           read |-> TRUE, content |-> Blank(NWords(f.level))]
    <3>1. f.at = "refill"
      BY <1>9 DEF WaitsFor
    <3>2. QED
      BY ONLY <3>1, RequestFields, Zenon
  <2>2. /\ g.level = f.level + 1
        /\ g.addr = LineBelow(f.level, LineOf(f.level, f.addr))
        /\ g.content = Blank(NWords(f.level))
    BY <1>9, <1>10, <1>11 DEF WaitsFor
  <2>3. QED
    BY <1>9, <2>1, <2>2 DEF Asks
<1>15. Current' = Current
  BY <1>9, CurrentInCall DEF WaitsFor
<1>16. QED
  BY <1>4, <1>6, <1>8, <1>9, <1>12, <1>13, <1>14, <1>15, CallStore DEF WaitsFor

(* A victim that is clean or invalid is dropped.                           *)
LEMMA MissRefillStore ==
  ASSUME AddressesSound, CallInv, StoreOK, MissRefill
  PROVE  StoreOK'
<1>1. /\ stack # << >> /\ N \in Levels /\ pc = "running" /\ ret = Nothing
      /\ ClientUnchanged /\ memory' = memory
      /\ Victim \in BlocksOf(N) /\ ~ Hit
      /\ blocks' = [blocks EXCEPT ![N][Victim].valid = FALSE]
      /\ ~ (blocks[N][Victim].valid /\ blocks[N][Victim].dirty)
  BY MissedTop DEF MissRefill, Missed, AtCache, Entered, NeedsWriteBack
<1>2. CallsOut("refill", Victim, Top.time,
               Level(N)!BlockAddr(Tag, Index), TRUE, Blank(NWords(N)))
  BY MissRefillCalls
<1>3. QED
  BY <1>1, <1>2, DropStore

(* The level below has answered a write-back.                              *)
LEMMA EvictDoneStore ==
  ASSUME AddressesSound, CallInv, StoreOK, EvictDone
  PROVE  StoreOK'
<1>1. /\ stack # << >> /\ N \in Levels /\ pc = "running" /\ ret # Nothing
      /\ Top.at = "evict" /\ FrameOK(Top)
      /\ ClientUnchanged /\ memory' = memory
      /\ blocks' = [blocks EXCEPT ![N][Top.block].valid = FALSE]
  BY ResumedTop DEF EvictDone, Resumed
<1>2. PICK L \in Nat \ {0} : L = Len(stack) /\ Top = stack[L]
  BY <1>1, TopOK
<1>3. Waits(blocks, Top)
  BY <1>2 DEF StoreOK, WaitInv
<1>4. Top.block \in BlocksOf(N) /\ ~ Hit
  BY <1>1, <1>3 DEF FrameOK, N, Waits, Hit, Tag, Index
<1>5. CallsOut("refill", Top.block, Top.time + ret.time,
               Level(N)!BlockAddr(Tag, Index), TRUE, Blank(NWords(N)))
  BY EvictDoneCalls
<1> DEFINE line == <<blocks[N][Top.block].tag, Top.block[1]>>
<1>6. Served(Len(stack) + 1) = RequestOf(blocks, Top)
  BY <1>2 DEF Served
<1>7. Served(Len(stack) + 1) =
        [level |-> N + 1, addr |-> LineBelow(N, line), read |-> FALSE,
         content |-> blocks[N][Top.block].data]
  BY <1>1, <1>6, RequestFields DEF N, LineIn
<1>8. Answers(Contents, Served(Len(stack) + 1), ret.content)
  BY <1>1 DEF StoreOK, ReturnInv
<1> HIDE DEF line
<1>9. DOMAIN blocks[N][Top.block].data = 0 .. (NWords(N) - 1)
  BY <1>1, <1>4 DEF CallInv, CachesOK, BlockAt, Words
<1>10. \A k \in 0 .. (NWords(N) - 1) :
         /\ ElementOf(N, line, k) \in Contents[N + 1].held
         /\ Contents[N + 1].value[ElementOf(N, line, k)] = blocks[N][Top.block].data[k]
  <2> DEFINE r == Served(Len(stack) + 1)
  <2>1. r.level = N + 1 /\ r.addr = LineBelow(N, line) /\ ~ r.read
        /\ r.content = blocks[N][Top.block].data
    BY <1>7
  <2> HIDE DEF r
  <2>2. Answers(Contents, r, ret.content)
    BY <1>8 DEF r
  <2>3. QED
    BY <1>9, <2>1, <2>2 DEF Answers, ElementOf
<1>11. QED
  BY <1>1, <1>4, <1>5, <1>10, DropStore DEF line

(* The line is there, as the level below has it.                           *)
LEMMA RefillDoneStore ==
  ASSUME AddressesSound, CallInv, StoreOK, RefillDone
  PROVE  StoreOK'
<1>1. /\ stack # << >> /\ N \in Levels /\ pc = "running" /\ ret # Nothing
      /\ Top.at = "refill" /\ FrameOK(Top)
      /\ ClientUnchanged /\ memory' = memory
      /\ ret.content \in [Shape(Top) -> Values]
  BY ResumedTop DEF RefillDone, Resumed
<1>2. PICK L \in Nat \ {0} : L = Len(stack) /\ Top = stack[L]
  BY <1>1, TopOK
<1>3. Waits(blocks, Top)
  BY <1>2 DEF StoreOK, WaitInv
<1> DEFINE bs == blocks[N]
           x == Top.block
           line == <<Tag, Index>>
           d == ret.content
           mid == Level(N)!Install(bs, x, Tag, d)
           new == Touched(mid, x)
<1>4. /\ x \in BlocksOf(N) /\ x[1] = Index /\ ~ bs[x].valid
      /\ ~ Level(N)!IsHit(bs, Index, Tag)
      /\ d \in Words(NWords(N)) /\ DOMAIN d = 0 .. (NWords(N) - 1)
  BY <1>1, <1>3 DEF FrameOK, N, Waits, Tag, Index, Shape, Words
<1>5. /\ bs \in [BlocksOf(N) -> BlockAt(N)] /\ LinesKnown(N, bs)
      /\ Tag \in Nat /\ Index \in Level(N)!Sets
  BY <1>1, TopAtLevel DEF StoreOK
<1>6. line \in Lines(N) /\ LineOf(N, Top.addr) = line
  BY <1>1, WordsAsked
<1>7. blocks' = [blocks EXCEPT ![N] = new]
  BY DEF RefillDone
<1>8. /\ mid \in [BlocksOf(N) -> BlockAt(N)]
      /\ mid[x].valid /\ ~ mid[x].dirty /\ mid[x].tag = Tag /\ mid[x].data = d
      /\ \A b \in BlocksOf(N) : b # x => mid[b] = bs[b]
  BY <1>1, <1>4, <1>5, InstalledBlocks
<1> HIDE DEF mid
<1>9. /\ new \in [BlocksOf(N) -> BlockAt(N)]
      /\ \A b \in BlocksOf(N) :
           /\ new[b].valid = mid[b].valid /\ new[b].dirty = mid[b].dirty
           /\ new[b].tag = mid[b].tag /\ new[b].data = mid[b].data
  BY <1>1, <1>4, <1>8, TouchedBlocks DEF Touched
<1> HIDE DEF new
<1>10. InstalledIn(N, bs, mid, x, line)
  <2>1. line[1] = Tag /\ line[2] = Index /\ line = <<mid[x].tag, x[1]>>
    BY <1>4, <1>8
  <2> HIDE DEF line, bs, x
  <2>2. \A b \in BlocksOf(N) : b # x =>
          /\ mid[b].valid = bs[b].valid /\ mid[b].tag = bs[b].tag
          /\ mid[b].dirty = bs[b].dirty /\ mid[b].data = bs[b].data
    BY <1>8
  <2>3. line[2] \in Level(N)!Sets /\ ~ Level(N)!IsHit(bs, line[2], line[1])
    BY <1>4, <1>5, <2>1
  <2>4. QED
    BY ONLY <1>1, <1>4, <1>5, <1>6, <1>8, <2>1, <2>2, <2>3, AddressesSound, InstalledCopies
<1>11. Copies(N, new) = Copies(N, mid) /\ LinesKnown(N, new)
  BY <1>1, <1>9, <1>10, TouchedCopies DEF InstalledIn
<1>12. blocks'[N] = new /\ \A m \in Levels \ {N} : blocks'[m] = blocks[m]
  BY <1>1, <1>7, <1>9, BlocksSet DEF CallInv
<1>13. \A m \in Levels : LinesKnown(m, blocks'[m])
  BY <1>11, <1>12 DEF StoreOK
<1>14. /\ \A m \in (1 .. (Depth + 1)) \ {N} : NextContents[m] = Contents[m]
       /\ NextContents[N] = Copies(N, mid) /\ Contents[N] = Copies(N, bs)
  BY <1>1, <1>11, <1>12, LevelContents
<1>15. \A k \in 0 .. (NWords(N) - 1) :
         /\ ElementOf(N, line, k) \in Contents[N + 1].held
         /\ Contents[N + 1].value[ElementOf(N, line, k)] = d[k]
  <2> DEFINE r == Served(Len(stack) + 1)
  <2>1. r = RequestOf(blocks, Top)
    BY <1>2 DEF Served
  <2>2. RequestOf(blocks, Top) =
          [level |-> Top.level + 1,
           addr |-> LineBelow(Top.level, LineOf(Top.level, Top.addr)),
           read |-> TRUE, content |-> Blank(NWords(Top.level))]
    <3>1. Top.at = "refill"
      BY <1>1
    <3>2. QED
      BY ONLY <3>1, RequestFields, Zenon
  <2> HIDE DEF line
  <2>3. r.level = N + 1 /\ r.addr = LineBelow(N, line) /\ r.content = Blank(NWords(N))
    BY <1>6, <2>1, <2>2 DEF N
  <2>4. DOMAIN r.content = 0 .. (NWords(N) - 1)
    BY <2>3 DEF Blank
  <2> HIDE DEF r
  <2>5. Answers(Contents, r, d)
    BY <1>1 DEF StoreOK, ReturnInv, r
  <2>6. QED
    BY <2>3, <2>4, <2>5 DEF Answers, ElementOf
<1> HIDE DEF line
<1>16. CopiesAgree(NextContents) /\ TopIsCurrent(NextContents, Current)
  <2>1. \A a \in Addrs : Source(1, a) \in Elements
    BY ClientElements
  <2>2. CopiesAgree(Contents) /\ TopIsCurrent(Contents, Current)
    BY DEF StoreOK
  <2>3. /\ Contents[N].held \subseteq NextContents[N].held
        /\ \A e \in Contents[N].held \cap NextContents[N].held :
             e \in NextContents[N].dirty <=> e \in Contents[N].dirty
        /\ \A e \in Contents[N].held : NextContents[N].value[e] = Contents[N].value[e]
    BY <1>10, <1>14 DEF InstalledIn
  <2>4. \A e \in Elements : e \in NextContents[N].held /\ e \notin Contents[N].held =>
          e \in Contents[N + 1].held /\ NextContents[N].value[e] = Contents[N + 1].value[e]
    BY <1>8, <1>10, <1>14, <1>15 DEF InstalledIn
  <2>5. \A m \in (1 .. (Depth + 1)) \ {N} : NextContents[m] = Contents[m]
    BY <1>14
  <2>6. QED
    BY ONLY <2>1, <2>2, <2>3, <2>4, <2>5, <1>1, Fetched
<1>17. PICK f \in Frame, g \in Frame :
         /\ WaitsFor("again", x, f, g)
         /\ g.addr = Top.addr /\ g.read = Top.read /\ g.content = Top.content
  <2> DEFINE t == Top.time + ret.time
  <2>1. CallsOut("again", x, t, Top.addr, Top.read, Top.content)
    BY RefillDoneCalls
  <2> HIDE DEF t, x
  <2>2. CalledFor("again", x, Top.addr, Top.read, Top.content)
    BY <1>1, <2>1, CallFor, Zenon
  <2>3. QED
    BY <2>2 DEF CalledFor
<1>18. g.level = N
  BY <1>17 DEF WaitsFor, Calls
<1>19. Waits(blocks', f) /\ Waits(blocks', g)
  BY <1>6, <1>17, <1>18 DEF WaitsFor, Waits, line
<1>20. Asks(g) = RequestOf(blocks', f)
  <2>1. RequestOf(blocks', f) = Asks(f)
    BY <1>17, RequestFields DEF WaitsFor
  <2>2. QED
    BY <1>17, <1>18, <2>1 DEF Asks, WaitsFor
<1>21. Current' = Current
  BY <1>1, <1>17, CurrentInCall DEF WaitsFor
<1>22. QED
  BY <1>1, <1>12, <1>13, <1>16, <1>17, <1>19, <1>20, <1>21, CallStore DEF WaitsFor

(* The recursive call has answered for the activation.                     *)
LEMMA AgainDoneStore ==
  ASSUME AddressesSound, CallInv, StoreOK, AgainDone
  PROVE  StoreOK'
<1>1. /\ stack # << >> /\ N \in Levels /\ pc = "running" /\ ret # Nothing
      /\ Top.at = "again" /\ ClientUnchanged /\ UNCHANGED <<blocks, memory>>
      /\ Returns(ret.content, Top.time)
  BY ResumedTop DEF AgainDone, Resumed, TimeOfOuter
<1>2. PICK L \in Nat \ {0} : L = Len(stack) /\ Top = stack[L]
  BY <1>1, TopOK
<1>3. Top.time \in Nat
  BY <1>1, TopAtLevel
<1>4. NextContents = Contents
  BY <1>1 DEF NextContents, Contents
<1>5. Served(Len(stack) + 1) = Asks(Top)
  BY <1>1, <1>2, RequestFields DEF Served
<1>6. Answers(NextContents, Asks(Top), ret.content)
  BY <1>1, <1>4, <1>5 DEF StoreOK, ReturnInv
<1>7. Current' = Current
  BY <1>1, <1>3, CurrentKept
<1>8. \A m \in Levels : blocks'[m] = blocks[m] /\ LinesKnown(m, blocks'[m])
  BY <1>1 DEF StoreOK
<1>9. QED
  BY <1>1, <1>4, <1>6, <1>7, <1>8, ReturnStore DEF StoreOK

(* The memory reads and writes the elements it is asked for.               *)
LEMMA MemoryServeStore ==
  ASSUME AddressesSound, CallInv, StoreOK, MemoryServe
  PROVE  StoreOK'
<1>1. /\ stack # << >> /\ pc = "running" /\ ret = Nothing /\ N = Depth + 1
      /\ ClientUnchanged /\ blocks' = blocks
  BY EnteredTop DEF MemoryServe, Entered
<1>2. Top.addr \in Nat /\ Top.time \in Nat /\ FrameOK(Top)
  BY <1>1, TopOK DEF Frame
<1>3. PICK c \in Amounts : Top.content \in Words(c)
  BY <1>2 DEF FrameOK, Fits
<1>4. c \in Nat \ {0} /\ DOMAIN Top.content = 0 .. (c - 1)
  BY <1>3, WordCounts DEF Words
<1>5. Cardinality(DOMAIN Top.content) = c
  <2>1. Cardinality(0 .. (c - 1)) = IF 0 > c - 1 THEN 0 ELSE c - 1 - 0 + 1
    BY <1>4, FS_Interval
  <2>2. QED
    BY <1>4, <2>1
<1> DEFINE w == IF Top.read THEN ReadWords(memory, Top.addr, c) ELSE Top.content
           W == WordOf(Top.addr)
<1>6. /\ InArray(memory, Top.addr, c)
      /\ memory' = IF Top.read THEN memory ELSE WriteWords(memory, Top.addr, Top.content)
      /\ Returns(w, Top.time)
  BY <1>5 DEF MemoryServe
<1>7. /\ memory \in [MemWords -> Values] /\ MemWords \subseteq Int
      /\ Depth \in Nat \ {0} /\ N # 1 /\ Levels = 1 .. Depth /\ N - 1 = Depth
  BY <1>1, HierarchyAssumption DEF CallInv, DataOK, MemWords, ArrayWords, Levels
<1>8. W \in Nat
  BY <1>2 DEF WordOf
<1>9. ASSUME NEW i \in DOMAIN Top.content
      PROVE  /\ i \in Nat /\ W + i \in MemWords
             /\ Source(N, Top.addr + 8 * i) = W + i
             /\ W + i \in Elements
             /\ ~ Top.read => W + i \in Contents[N - 1].held /\ W + i \in Contents[N - 1].dirty
  <2>1. i \in Nat /\ i \in 0 .. (c - 1)
    BY <1>4
  <2>2. W + i \in MemWords
    BY <1>6, <1>7, <2>1 DEF InArray
  <2>3. Top.addr + 8 * i \in Nat /\ WordOf(Top.addr + 8 * i) = W + i
    <3>1. \A a, k \in Nat : a + 8 * k \in Nat /\ (a + 8 * k) \div 8 = a \div 8 + k
      OBVIOUS
    <3>2. QED
      BY <1>2, <2>1, <3>1 DEF WordOf
  <2>4. Source(N, Top.addr + 8 * i) = W + i
    BY <1>1, <2>3, SourceUnfolds
  <2>5. QED
    BY <1>1, <1>7, <2>1, <2>2, <2>4, WordsBelow
<1>10. /\ Contents[N] = Stored(memory) /\ NextContents[N] = Stored(memory')
       /\ \A m \in (1 .. (Depth + 1)) \ {N} : NextContents[m] = Contents[m]
  <2>1. Contents[N] = Stored(memory) /\ NextContents[N] = Stored(memory')
    BY <1>1, ContentsFields DEF Contents, NextContents
  <2>2. \A m \in (1 .. (Depth + 1)) \ {N} : m \in Levels
    BY <1>1, <1>7
  <2>3. \A m \in Levels : NextContents[m] = Contents[m]
    BY <1>1, ContentsFields DEF Contents, NextContents
  <2>4. QED
    BY <2>1, <2>2, <2>3
<1>11. /\ \A mem : Stored(mem).held = Elements /\ Stored(mem).dirty = {}
       /\ \A mem : \A e \in Elements :
            Stored(mem).value[e] = IF e \in MemWords THEN mem[e] ELSE Zero
  BY DEF Stored
<1>12. ~ Top.read => \A e \in MemWords :
         memory'[e] = IF e - W \in DOMAIN Top.content THEN Top.content[e - W] ELSE memory[e]
  BY <1>6, <1>7 DEF WriteWords
<1> HIDE DEF W
<1>13. CopiesAgree(NextContents) /\ TopIsCurrent(NextContents, Current)
  <2>1. \A a \in Addrs : Source(1, a) \in Elements
    BY ClientElements
  <2>2. CopiesAgree(Contents) /\ TopIsCurrent(Contents, Current)
    BY DEF StoreOK
  <2>3. CASE Top.read
    <3>1. NextContents = Contents
      BY <1>1, <1>6, <2>3 DEF NextContents, Contents
    <3>2. QED
      BY <2>2, <3>1
  <2>4. CASE ~ Top.read
    <3>1. NextContents[N].held = Contents[N].held
          /\ Contents[N].dirty \subseteq NextContents[N].dirty
      BY <1>10, <1>11
    <3>2. ASSUME NEW e \in Contents[N].held,
                 NextContents[N].value[e] # Contents[N].value[e]
          PROVE  e \in Contents[N - 1].held /\ e \in Contents[N - 1].dirty
      <4>1. e \in Elements /\ e \in MemWords /\ memory'[e] # memory[e]
        BY <1>10, <1>11, <3>2
      <4>2. e - W \in DOMAIN Top.content
        BY <1>12, <2>4, <4>1
      <4>3. W + (e - W) = e
        BY <1>7, <1>8, <4>1
      <4>4. QED
        BY <1>9, <2>4, <4>2, <4>3
    <3>3. N \in 2 .. (Depth + 1) /\ N \notin Levels
      BY <1>1, <1>7
    <3>4. \A e \in Contents[N].held :
            \/ NextContents[N].value[e] = Contents[N].value[e]
            \/ /\ e \in Contents[N - 1].held /\ e \in Contents[N - 1].dirty
               /\ N \in Levels => e \in NextContents[N].dirty
      BY <3>2, <3>3
    <3>5. \A m \in (1 .. (Depth + 1)) \ {N} : NextContents[m] = Contents[m]
      BY <1>10
    <3>6. QED
      BY ONLY <2>1, <2>2, <3>1, <3>3, <3>4, <3>5, WrittenBelow
  <2>5. QED
    BY <2>3, <2>4
<1>14. Answers(NextContents, Asks(Top), w)
  <2> SUFFICES ASSUME NEW i \in DOMAIN Top.content
               PROVE  LET e == Source(N, Top.addr + 8 * i)
                      IN /\ e \in NextContents[N].held
                         /\ NextContents[N].value[e] = w[i]
                         /\ ~ Top.read => w[i] = Top.content[i]
    BY <1>1, <1>7 DEF Answers, Asks, N
  <2>1. NextContents[N].value[W + i] = memory'[W + i]
    BY <1>9, <1>10, <1>11
  <2>2. CASE Top.read
    <3>1. w[i] = memory[W + i]
      BY <1>4, <2>2 DEF ReadWords, W
    <3>2. QED
      BY <1>6, <1>9, <1>10, <1>11, <2>1, <2>2, <3>1
  <2>3. CASE ~ Top.read
    <3>1. (W + i) - W = i
      BY <1>8, <1>9
    <3>2. memory'[W + i] = Top.content[i]
      BY <1>9, <1>12, <2>3, <3>1
    <3>3. QED
      BY <1>9, <1>10, <1>11, <2>1, <2>3, <3>2
  <2>4. QED
    BY <2>2, <2>3
<1> HIDE DEF w
<1>15. Current' = Current
  BY <1>1, <1>2, <1>6, <1>7, CurrentKept
<1>16. \A m \in Levels : blocks'[m] = blocks[m] /\ LinesKnown(m, blocks'[m])
  BY <1>1 DEF StoreOK
<1>17. QED
  BY <1>1, <1>6, <1>13, <1>14, <1>15, <1>16, ReturnStore

-----------------------------------------------------------------------------
(* The client, and the invariant.                                          *)

(* A request of the client goes to its line.                               *)
LEMMA CallStoreStep ==
  ASSUME CallInv, StoreOK, NEW r \in Request, NEW v \in Values, Call(r, v)
  PROVE  StoreOK'
<1> DEFINE g(read) == Activation(1, r.addr, read, [i \in {0} |-> v])
           top == g(r.read)
<1>1. /\ stack' = <<top>> /\ pc = "idle" /\ pc' = "running" /\ ret' = ret /\ ret = Nothing
      /\ req' = r /\ content' = v /\ UNCHANGED <<blocks, memory, latest>>
  BY DEF Call, storeVars, CallInv, AnswerInv
<1>2. r.addr \in Addrs /\ r.read \in BOOLEAN
  BY DEF Request
<1>3. /\ top.at = "enter" /\ top.level = 1 /\ top.addr = r.addr /\ top.read = r.read
      /\ top.content = [i \in {0} |-> v]
  BY ActivationFields
<1> HIDE DEF top, g
<1>4. Len(stack') = 1 /\ stack'[1] = top
  BY <1>1
<1>5. Waits(blocks', top)
  BY <1>2, <1>3, ClientLine DEF Waits
<1>6. Asks(top) = ClientRequest'
  BY <1>1, <1>3 DEF Asks, ClientRequest
<1>7. WaitInv' /\ LinkInv' /\ ReturnInv'
  BY <1>1, <1>4, <1>5, <1>6 DEF WaitInv, LinkInv, Served, ReturnInv
<1>8. Contents' = Contents
  BY <1>1 DEF Contents
<1>9. Current' = Current
  BY <1>1 DEF Current, Written
<1>10. QED
  BY <1>1, <1>7, <1>8, <1>9 DEF StoreOK

(* The client learns that its request is done: what was current is latest. *)
LEMMA DeliverStore ==
  ASSUME AddressesSound, CallInv, StoreOK, Deliver
  PROVE  /\ StoreOK'
         /\ ~ req.read => ret.content[0] = content
         /\ req.read => ret.content[0] = latest[WordOf(req.addr)]
<1>1. /\ stack = << >> /\ pc = "running" /\ pc' = "served" /\ ret # Nothing
      /\ UNCHANGED <<blocks, memory, stack, ret, req>>
      /\ content' = ret.content[0]
      /\ latest' = IF req.read THEN latest
                   ELSE [latest EXCEPT ![WordOf(req.addr)] = content]
      /\ req \in Request
  BY DEF Deliver, storeVars, CallInv, AnswerInv
<1>2. req.addr \in Addrs /\ latest \in [Cells -> Values]
      /\ \A a \in Addrs : WordOf(a) \in Cells
  BY <1>1 DEF Request, CallInv, DataOK, Cells
<1>3. Len(stack) = 0
  BY <1>1
<1>4. Contents' = Contents
  BY <1>1 DEF Contents
<1>5. WaitInv' /\ LinkInv' /\ ReturnInv'
  BY <1>1, <1>3 DEF WaitInv, LinkInv, ReturnInv
<1>6. Current' = Current
  <2>1. ~ Written'
    BY <1>1 DEF Written
  <2>2. Written <=> ~ req.read
    BY <1>1 DEF Written
  <2>3. \A a \in Addrs : Current'[a] = latest'[WordOf(a)]
    BY <2>1 DEF Current
  <2>4. \A a \in Addrs : Current[a] = latest'[WordOf(a)]
    BY <1>1, <1>2, <2>2 DEF Current
  <2>5. Current = [a \in Addrs |-> Current[a]] /\ Current' = [a \in Addrs |-> Current'[a]]
    BY DEF Current
  <2>6. QED
    BY <2>3, <2>4, <2>5
<1>7. StoreOK'
  BY <1>1, <1>4, <1>5, <1>6 DEF StoreOK
<1> DEFINE e == Source(1, req.addr)
<1>8. /\ e \in Contents[1].held /\ Contents[1].value[e] = ret.content[0]
      /\ ~ req.read => ret.content[0] = content
  <2>1. Answers(Contents, ClientRequest, ret.content)
    BY <1>1, <1>3 DEF StoreOK, ReturnInv, Served
  <2>2. 0 \in DOMAIN ClientRequest.content /\ ClientRequest.content[0] = content
        /\ ClientRequest.level = 1 /\ ClientRequest.addr = req.addr
        /\ ClientRequest.read = req.read
    BY DEF ClientRequest
  <2>3. req.addr + 8 * 0 = req.addr
    <3>1. req.addr \in Nat
      BY <1>2, ClientLine
    <3>2. QED
      BY <3>1
  <2>4. QED
    BY <2>1, <2>2, <2>3 DEF Answers
<1>9. ASSUME req.read PROVE ret.content[0] = latest[WordOf(req.addr)]
  <2>1. ~ Written
    BY <1>9 DEF Written
  <2>2. Current[req.addr] = latest[WordOf(req.addr)]
    BY <1>2, <2>1 DEF Current
  <2>3. 1 \in 1 .. (Depth + 1) /\ \A i \in 1 .. (1 - 1) : FALSE
    BY HierarchyAssumption
  <2>4. Contents[1].value[e] = Current[req.addr]
    BY <1>2, <1>8, <2>3 DEF StoreOK, TopIsCurrent
  <2>5. QED
    BY <1>8, <2>2, <2>4
<1>10. QED
  BY <1>7, <1>8, <1>9

(* The other steps that leave the storage alone.                           *)
LEMMA ClientStore ==
  ASSUME CallInv, StoreOK, WildAccess \/ Return \/ UNCHANGED vars
  PROVE  StoreOK'
<1>1. CASE WildAccess
  <2>1. /\ UNCHANGED <<blocks, memory, stack, ret, req, content, latest>>
        /\ pc' = "wild" /\ ret = Nothing
    BY <1>1 DEF WildAccess, storeVars, Entered
  <2>2. Contents' = Contents
    BY <2>1 DEF Contents
  <2>3. Current' = Current
    BY <2>1 DEF Current, Written
  <2>4. WaitInv' /\ LinkInv' /\ ReturnInv'
    BY <2>1 DEF StoreOK, WaitInv, LinkInv, ReturnInv
  <2>5. QED
    BY <2>1, <2>2, <2>3, <2>4 DEF StoreOK
<1>2. CASE Return
  <2>1. /\ UNCHANGED <<blocks, memory, stack, content, latest>>
        /\ pc = "served" /\ pc' = "idle"
    BY <1>2 DEF Return, storeVars
  <2>2. Contents' = Contents
    BY <2>1 DEF Contents
  <2>3. Current' = Current
    BY <2>1 DEF Current, Written
  <2>4. WaitInv' /\ LinkInv' /\ ReturnInv'
    BY <2>1 DEF StoreOK, WaitInv, LinkInv, ReturnInv
  <2>5. QED
    BY <2>1, <2>2, <2>3, <2>4 DEF StoreOK
<1>3. CASE UNCHANGED vars
  <2>1. UNCHANGED <<blocks, memory, stack, ret, pc, req, content, latest>>
    BY <1>3 DEF vars, storeVars, callVars
  <2>2. Contents' = Contents
    BY <2>1 DEF Contents
  <2>3. Current' = Current
    BY <2>1 DEF Current, Written, N, Top
  <2>4. WaitInv'
    BY <2>1 DEF StoreOK, WaitInv
  <2>5. \A i : Served(i)' = Served(i)
    BY <2>1 DEF Served, ClientRequest
  <2>6. LinkInv' /\ ReturnInv'
    BY <2>1, <2>2, <2>5 DEF StoreOK, LinkInv, ReturnInv
  <2>7. QED
    BY <2>1, <2>2, <2>3, <2>4, <2>6 DEF StoreOK
<1>4. QED
  BY <1>1, <1>2, <1>3

(* Write back and allocate: no level writes through or around.             *)
LEMMA NoneThrough ==
  ASSUME CallInv, StoreOK, WriteBackAllocate
  PROVE  ~ HitWriteThrough /\ ~ ThroughDone /\ ~ MissWriteAround /\ ~ AroundDone
<1>1. ~ HitWriteThrough /\ ~ MissWriteAround
  BY DEF WriteBackAllocate, HitWriteThrough, MissWriteAround, AtCache
<1>2. ASSUME stack # << >> PROVE Top.at \notin {"through", "around"}
  <2>1. PICK L \in Nat \ {0} : L = Len(stack) /\ Top = stack[L]
    BY <1>2, TopOK
  <2>2. Waits(blocks, Top)
    BY <2>1 DEF StoreOK, WaitInv
  <2>3. QED
    BY <2>2 DEF Waits
<1>3. QED
  BY <1>1, <1>2 DEF ThroughDone, AroundDone, Resumed

(* The constructors establish the invariant.                               *)
LEMMA StoreInvInit ==
  ASSUME Init
  PROVE  StoreInv
<1>1. /\ stack = << >> /\ ret = Nothing /\ pc = "idle" /\ Len(stack) = 0
      /\ \A n \in Levels : \A b \in BlocksOf(n) : ~ blocks[n][b].valid
      /\ memory = [w \in MemWords |-> Zero] /\ latest = [c \in Cells |-> Zero]
  BY DEF Init
<1>2. \A n \in Levels : LinesKnown(n, blocks[n])
  BY <1>1 DEF LinesKnown
<1>3. WaitInv /\ LinkInv /\ ReturnInv
  BY <1>1 DEF WaitInv, LinkInv, ReturnInv
<1>4. \A n \in Levels : Contents[n].held = {}
  <2> SUFFICES ASSUME NEW n \in Levels PROVE Copies(n, blocks[n]).held = {}
    BY ContentsFields DEF Contents
  <2>1. Copies(n, blocks[n]).held \subseteq Elements
    BY DEF Copies
  <2>2. \A b \in BlocksOf(n), k \in 0 .. (NWords(n) - 1) : \A e : ~ Holds(n, blocks[n], b, k, e)
    BY <1>1 DEF Holds
  <2>3. QED
    BY <2>1, <2>2, NoCopy
<1>5. CopiesAgree(Contents)
  BY <1>4 DEF CopiesAgree
<1>6. TopIsCurrent(Contents, Current)
  <2> SUFFICES ASSUME NEW m \in 1 .. (Depth + 1), NEW a \in Addrs,
                      Source(1, a) \in Contents[m].held
               PROVE  Contents[m].value[Source(1, a)] = Current[a]
    BY DEF TopIsCurrent
  <2>1. m = Depth + 1
    BY <1>4, HierarchyAssumption DEF Levels
  <2>2. Contents[m] = Stored(memory)
    BY <2>1, ContentsFields DEF Contents
  <2>3. Source(1, a) \in Elements
    BY ClientElements
  <2>4. Contents[m].value[Source(1, a)] = Zero
    BY <1>1, <2>2, <2>3 DEF Stored
  <2>5. ~ Written
    BY <1>1 DEF Written
  <2>6. WordOf(a) \in Cells
    BY DEF Cells
  <2>7. Current[a] = Zero
    BY <1>1, <2>5, <2>6 DEF Current
  <2>8. QED
    BY <2>4, <2>7
<1>7. QED
  BY <1>2, <1>3, <1>5, <1>6 DEF StoreInv, StoreOK

(* Every step keeps it.                                                    *)
LEMMA StoreInvNext ==
  ASSUME AddressesSound, CallInv, StoreInv, [Next]_vars
  PROVE  StoreInv'
<1> SUFFICES ASSUME WriteBackAllocate' PROVE StoreOK'
  BY DEF StoreInv
<1>1. config' = config
  BY DEF Next, vars, storeVars, ClientUnchanged, Call, MemoryServe, WildAccess, HitRead,
         HitWriteBack, HitWriteThrough, ThroughDone, MissWriteAround, AroundDone,
         MissEvict, EvictDone, MissRefill, RefillDone, AgainDone, Deliver, Return, Stopped
<1>2. WriteBackAllocate /\ StoreOK
  BY <1>1 DEF WriteBackAllocate, StoreInv
<1>3. ASSUME NEW r \in Request, NEW v \in Values, Call(r, v) PROVE StoreOK'
  BY <1>2, <1>3, CallStoreStep
<1>4. CASE MemoryServe BY <1>2, <1>4, MemoryServeStore
<1>5. CASE HitRead BY <1>2, <1>5, HitReadStore
<1>6. CASE HitWriteBack BY <1>2, <1>6, HitWriteBackStore
<1>7. CASE HitWriteThrough \/ ThroughDone \/ MissWriteAround \/ AroundDone
  BY <1>2, <1>7, NoneThrough
<1>8. CASE MissEvict BY <1>2, <1>8, MissEvictStore
<1>9. CASE EvictDone BY <1>2, <1>9, EvictDoneStore
<1>10. CASE MissRefill BY <1>2, <1>10, MissRefillStore
<1>11. CASE RefillDone BY <1>2, <1>11, RefillDoneStore
<1>12. CASE AgainDone BY <1>2, <1>12, AgainDoneStore
<1>13. CASE Deliver BY <1>2, <1>13, DeliverStore
<1>14. CASE WildAccess \/ Return \/ Stopped \/ UNCHANGED vars
  BY <1>2, <1>14, ClientStore DEF Stopped
<1>15. QED
  BY <1>3, <1>4, <1>5, <1>6, <1>7, <1>8, <1>9, <1>10, <1>11, <1>12, <1>13, <1>14 DEF Next

(* However misses, write-backs and refills nest, a clean copy of a word is *)
(* equal to the next one below it, and the uppermost one is current.       *)
THEOREM StoreSound ==
  ASSUME AddressesSound
  PROVE  Spec => []StoreInv
<1>1. Init => StoreInv
  BY StoreInvInit
<1>2. CallInv /\ StoreInv /\ [Next]_vars => StoreInv'
  BY StoreInvNext
<1>3. QED
  BY <1>1, <1>2, CallStackSound, PTL DEF Spec

-----------------------------------------------------------------------------
(* What a level would serve.                                               *)

(* The view of a level is its own copy, or else the view of the one below. *)
LEMMA ViewUnfolds ==
  ASSUME CallInv
  PROVE  /\ \A a \in Nat : View(Depth + 1, a) =
              IF WordOf(a) \in MemWords THEN memory[WordOf(a)] ELSE Zero
         /\ \A n \in Levels, a \in Nat : View(n, a) =
              LET line == LineOf(n, a)
              IN IF Level(n)!IsHit(blocks[n], line[2], line[1])
                   THEN blocks[n][Level(n)!HitID(blocks[n], line[2], line[1])]
                          .data[Level(n)!OffsetWord(a)]
                   ELSE View(n + 1, WordBelow(n, a))
<1> DEFINE bottom(x) == IF WordOf(x) \in MemWords THEN memory[WordOf(x)] ELSE Zero
           hit(k, x) == Level(k)!IsHit(blocks[k], LineOf(k, x)[2], LineOf(k, x)[1])
           word(k, x) == blocks[k][Level(k)!HitID(blocks[k], LineOf(k, x)[2], LineOf(k, x)[1])]
                           .data[Level(k)!OffsetWord(x)]
           Is(s) == s = [m \in 0 .. Depth |->
                           [x \in Nat |->
                              IF m = 0 THEN bottom(x)
                              ELSE IF hit(Depth + 1 - m, x) THEN word(Depth + 1 - m, x)
                                   ELSE s[m - 1][WordBelow(Depth + 1 - m, x)]]]
           X == [Nat -> Values]
           x0 == [x \in Nat |-> bottom(x)]
           step == [p \in Nat \X X |->
                      IF p[1] \in 1 .. Depth
                        THEN [x \in Nat |->
                                IF hit(Depth + 1 - p[1], x) THEN word(Depth + 1 - p[1], x)
                                ELSE p[2][WordBelow(Depth + 1 - p[1], x)]]
                        ELSE x0]
           view == CHOOSE s : Is(s)
<1>0. \A n, a : View(n, a) = view[Depth + 1 - n][a]
  BY DEF View
<1>1. Depth \in Nat /\ \A m \in 1 .. Depth : Depth + 1 - m \in Levels
  BY HierarchyAssumption DEF Levels
<1>2. x0 \in X
  <2>1. memory \in [MemWords -> Values] /\ Zero \in Values
    BY HierarchyAssumption DEF CallInv, DataOK
  <2>2. QED
    BY <2>1
<1>3. ASSUME NEW k \in Levels, NEW x \in Nat, hit(k, x)
      PROVE  word(k, x) \in Values
  <2>1. LineOf(k, x)[2] \in Level(k)!Sets /\ Level(k)!OffsetWord(x) \in 0 .. (NWords(k) - 1)
    BY AddressParts, FieldsInRange
  <2>2. Level(k)!HitID(blocks[k], LineOf(k, x)[2], LineOf(k, x)[1]) \in BlocksOf(k)
    BY <1>3, <2>1, HitInLevel
  <2>3. blocks[k] \in [BlocksOf(k) -> BlockAt(k)]
    BY DEF CallInv, CachesOK
  <2>4. QED
    BY <2>1, <2>2, <2>3 DEF BlockAt, Words
<1> HIDE DEF bottom, hit, word
<1>4. step \in [Nat \X X -> X]
  <2> SUFFICES ASSUME NEW k \in Nat, NEW g \in X, k \in 1 .. Depth
               PROVE  [x \in Nat |->
                         IF hit(Depth + 1 - k, x) THEN word(Depth + 1 - k, x)
                         ELSE g[WordBelow(Depth + 1 - k, x)]] \in X
    BY <1>2
  <2>1. \A x \in Nat : WordBelow(Depth + 1 - k, x) \in Nat
    BY <1>1, AddressParts
  <2>2. QED
    BY <1>1, <1>3, <2>1
<1> HIDE DEF step, x0
<1>5. PICK f \in [0 .. Depth -> X] :
        f[0] = x0 /\ \A k \in 1 .. Depth : f[k] = step[<<k, f[k - 1]>>]
  <2> HIDE DEF X
  <2>1. PICK f : Recurs(f, X, x0, step, Depth)
    BY <1>1, <1>2, <1>4, Recursion, Zenon
  <2>2. QED
    BY <2>1 DEF Recurs
<1>6. Is(f)
  <2>1. ASSUME NEW m \in 0 .. Depth
        PROVE  f[m] = [x \in Nat |->
                         IF m = 0 THEN bottom(x)
                         ELSE IF hit(Depth + 1 - m, x) THEN word(Depth + 1 - m, x)
                              ELSE f[m - 1][WordBelow(Depth + 1 - m, x)]]
    <3>1. CASE m = 0
      BY <1>5, <3>1 DEF x0
    <3>2. CASE m # 0
      <4>1. m \in 1 .. Depth /\ m - 1 \in 0 .. Depth /\ m \in Nat
        BY <1>1, <3>2
      <4> HIDE DEF X
      <4>2. f[m - 1] \in X
        BY <1>5, <4>1
      <4>3. f[m] = step[<<m, f[m - 1]>>]
        BY <1>5, <4>1
      <4>4. step[<<m, f[m - 1]>>] =
              [x \in Nat |-> IF hit(Depth + 1 - m, x) THEN word(Depth + 1 - m, x)
                             ELSE f[m - 1][WordBelow(Depth + 1 - m, x)]]
        BY <4>1, <4>2 DEF step
      <4>5. QED
        BY <3>2, <4>3, <4>4
    <3>3. QED
      BY <3>1, <3>2
  <2>2. QED
    BY <1>5, <2>1
<1>7. Is(view)
  BY <1>6
<1> HIDE DEF view
<1>8. \A m \in 0 .. Depth, x \in Nat :
        view[m][x] = IF m = 0 THEN bottom(x)
                     ELSE IF hit(Depth + 1 - m, x) THEN word(Depth + 1 - m, x)
                          ELSE view[m - 1][WordBelow(Depth + 1 - m, x)]
  <2> TAKE m \in 0 .. Depth
  <2>1. view[m] = [x \in Nat |->
                     IF m = 0 THEN bottom(x)
                     ELSE IF hit(Depth + 1 - m, x) THEN word(Depth + 1 - m, x)
                          ELSE view[m - 1][WordBelow(Depth + 1 - m, x)]]
    BY <1>7, Zenon
  <2>2. QED
    BY <2>1, Zenon
<1>9. ASSUME NEW a \in Nat PROVE View(Depth + 1, a) = bottom(a)
  <2>1. Depth + 1 - (Depth + 1) = 0 /\ 0 \in 0 .. Depth
    BY <1>1
  <2>2. QED
    BY <1>0, <1>8, <2>1
<1>10. ASSUME NEW n \in Levels, NEW a \in Nat
       PROVE  View(n, a) = IF hit(n, a) THEN word(n, a) ELSE View(n + 1, WordBelow(n, a))
  <2> DEFINE m == Depth + 1 - n
  <2>1. m \in 0 .. Depth /\ m # 0 /\ Depth + 1 - m = n /\ Depth + 1 - (n + 1) = m - 1
    BY <1>1 DEF Levels
  <2>2. View(n, a) = view[m][a] /\ View(n + 1, WordBelow(n, a)) = view[m - 1][WordBelow(n, a)]
    BY <1>0, <2>1
  <2> HIDE DEF m
  <2>3. QED
    BY <1>8, <2>1, <2>2
<1>11. QED
  BY <1>9, <1>10 DEF bottom, hit, word

(* An address of a level that leads to a word of the client's lines.       *)
Known(n, a) ==
  /\ Source(n, a) \in Elements
  /\ n \in Levels => LineOf(n, a) \in Lines(n)

(* Element e has value v in the uppermost copy of it, from level n down.   *)
Uppermost(n, e, v) ==
  \E m \in n .. (Depth + 1) :
    /\ e \in Contents[m].held
    /\ \A i \in n .. (m - 1) : e \notin Contents[i].held
    /\ Contents[m].value[e] = v

(* A level would serve the uppermost copy.                                 *)
LEMMA ViewIsUppermost ==
  ASSUME AddressesSound, CallInv, StoreOK,
         NEW n \in 1 .. (Depth + 1), NEW a \in Nat, Known(n, a)
  PROVE  Uppermost(n, Source(n, a), View(n, a))
<1>1. Depth \in Nat \ {0} /\ Levels = 1 .. Depth
  BY HierarchyAssumption DEF Levels
<1> DEFINE P(k) == \A x \in Nat : Known(k, x) => Uppermost(k, Source(k, x), View(k, x))
           S == {k \in Nat : k <= Depth => P(Depth + 1 - k)}
<1>2. P(Depth + 1)
  <2> SUFFICES ASSUME NEW x \in Nat, Known(Depth + 1, x)
               PROVE  Uppermost(Depth + 1, Source(Depth + 1, x), View(Depth + 1, x))
    OBVIOUS
  <2>1. Source(Depth + 1, x) = WordOf(x) /\ WordOf(x) \in Elements
    BY SourceUnfolds DEF Known
  <2>2. Contents[Depth + 1] = Stored(memory)
    BY ContentsFields DEF Contents
  <2>3. /\ WordOf(x) \in Contents[Depth + 1].held
        /\ Contents[Depth + 1].value[WordOf(x)] = View(Depth + 1, x)
    BY <2>1, <2>2, ViewUnfolds DEF Stored
  <2>4. Depth + 1 \in (Depth + 1) .. (Depth + 1)
        /\ \A i \in (Depth + 1) .. ((Depth + 1) - 1) : FALSE
    BY <1>1
  <2>5. QED
    BY <2>1, <2>3, <2>4 DEF Uppermost
<1>3. ASSUME NEW k \in Levels, P(k + 1) PROVE P(k)
  <2> SUFFICES ASSUME NEW x \in Nat, Known(k, x)
               PROVE  Uppermost(k, Source(k, x), View(k, x))
    OBVIOUS
  <2> DEFINE line == LineOf(k, x)
             o == Level(k)!OffsetWord(x)
             e == Source(k, x)
             bs == blocks[k]
             b == Level(k)!HitID(bs, line[2], line[1])
  <2>1. /\ line \in Lines(k) /\ line[2] \in Level(k)!Sets
        /\ o \in 0 .. (NWords(k) - 1) /\ WordBelow(k, x) \in Nat
        /\ e = ElementOf(k, line, o) /\ e \in Elements
    BY AddressParts, FieldsInRange, SourceOfWord DEF Known
  <2>2. bs \in [BlocksOf(k) -> BlockAt(k)] /\ LinesKnown(k, bs)
        /\ Contents[k] = Copies(k, bs)
    BY ContentsFields DEF CallInv, CachesOK, StoreOK, Contents
  <2>3. View(k, x) = IF Level(k)!IsHit(bs, line[2], line[1]) THEN bs[b].data[o]
                     ELSE View(k + 1, WordBelow(k, x))
    BY ViewUnfolds
  <2> HIDE DEF line, o
  <2>4. /\ Level(k)!IsHit(bs, line[2], line[1]) <=> e \in Copies(k, bs).held
        /\ Level(k)!IsHit(bs, line[2], line[1]) => b \in BlocksOf(k) /\ Holds(k, bs, b, o, e)
    BY <2>1, <2>2, HitHolds
  <2>5. k \in 1 .. Depth /\ k \in k .. (Depth + 1) /\ \A i \in k .. (k - 1) : FALSE
    BY <1>1
  <2>6. CASE Level(k)!IsHit(bs, line[2], line[1])
    <3>1. IsCopy(k, bs, b, o, e)
      BY <2>1, <2>2, <2>4, <2>6, CopyAt
    <3>2. e \in Contents[k].held /\ Contents[k].value[e] = View(k, x)
      BY <2>2, <2>3, <2>6, <3>1 DEF IsCopy
    <3>3. QED
      BY <2>5, <3>2 DEF Uppermost
  <2>7. CASE ~ Level(k)!IsHit(bs, line[2], line[1])
    <3> DEFINE y == WordBelow(k, x)
    <3>1. View(k, x) = View(k + 1, y) /\ Source(k + 1, y) = e /\ y \in Nat
      BY <2>1, <2>3, <2>7, SourceUnfolds
    <3>2. k + 1 \in Levels => LineOf(k + 1, y) \in Lines(k + 1)
      BY <2>1, WordsOfLine DEF WordBelow, line, o
    <3>3. Known(k + 1, y)
      BY <2>1, <3>1, <3>2 DEF Known
    <3>4. Uppermost(k + 1, e, View(k, x))
      BY <1>3, <3>1, <3>3
    <3>5. PICK m \in (k + 1) .. (Depth + 1) :
            /\ e \in Contents[m].held
            /\ \A i \in (k + 1) .. (m - 1) : e \notin Contents[i].held
            /\ Contents[m].value[e] = View(k, x)
      BY <3>4 DEF Uppermost
    <3>6. e \notin Contents[k].held
      BY <2>2, <2>4, <2>7
    <3>7. m \in k .. (Depth + 1)
      BY <2>5
    <3>8. \A i \in k .. (m - 1) : i = k \/ i \in (k + 1) .. (m - 1)
      BY <2>5
    <3>9. \A i \in k .. (m - 1) : e \notin Contents[i].held
      BY <3>5, <3>6, <3>8
    <3>10. QED
      BY <3>5, <3>7, <3>9 DEF Uppermost
  <2>8. QED
    BY <2>6, <2>7
<1> HIDE DEF P
<1>4. 0 \in S
  <2>1. Depth + 1 - 0 = Depth + 1
    BY <1>1
  <2>2. QED
    BY <1>2, <2>1
<1>5. ASSUME NEW k \in Nat, k \in S PROVE k + 1 \in S
  <2> SUFFICES ASSUME k + 1 <= Depth PROVE P(Depth + 1 - (k + 1))
    OBVIOUS
  <2>1. PICK j \in Levels : j = Depth - k
    BY <1>1
  <2>2. j + 1 = Depth + 1 - k /\ j = Depth + 1 - (k + 1) /\ k <= Depth
    BY <1>1, <2>1
  <2>3. P(j + 1)
    BY <1>5, <2>2
  <2>4. QED
    BY <1>3, <2>2, <2>3
<1> HIDE DEF S
<1>6. Nat \subseteq S
  BY <1>4, <1>5, SetInduction
<1>7. P(n)
  <2>1. PICK k \in Nat : k = Depth + 1 - n
    BY <1>1
  <2>2. k <= Depth /\ Depth + 1 - k = n
    BY <1>1, <2>1
  <2>3. QED
    BY <1>6, <2>2 DEF S
<1>8. QED
  BY <1>7 DEF P

-----------------------------------------------------------------------------
(* The theorems.                                                           *)

(* Between requests the view of level 1 is what was written last.          *)
LEMMA IdleCoherent ==
  ASSUME AddressesSound, CallInv, StoreInv
  PROVE  Coherent
<1> SUFFICES ASSUME pc = "idle", StoreOK, NEW a \in Addrs
             PROVE  View(1, a) = latest[WordOf(a)]
  BY DEF Coherent, StoreInv
<1>1. a \in Nat /\ 1 \in 1 .. (Depth + 1) /\ Known(1, a)
  BY ClientLine, ClientElements, HierarchyAssumption DEF Known
<1>2. Uppermost(1, Source(1, a), View(1, a))
  BY <1>1, ViewIsUppermost
<1>3. View(1, a) = Current[a]
  BY <1>2 DEF Uppermost, StoreOK, TopIsCurrent
<1>4. ~ Written
  BY DEF Written
<1>5. QED
  BY <1>3, <1>4 DEF Current

(* A clean block is the view of the level below.                           *)
LEMMA IdleClean ==
  ASSUME AddressesSound, CallInv, StoreInv
  PROVE  CleanMatchesBelow
<1> SUFFICES ASSUME StoreOK, NEW n \in Levels, NEW b \in BlocksOf(n),
                    blocks[n][b].valid, ~ blocks[n][b].dirty,
                    NEW k \in DOMAIN blocks[n][b].data
             PROVE  blocks[n][b].data[k] = View(n + 1, AddrBelow(n, b) + 8 * k)
  BY DEF CleanMatchesBelow, StoreInv
<1> DEFINE bs == blocks[n]
           line == <<bs[b].tag, b[1]>>
           a == LineBelow(n, line) + 8 * k
           e == ElementOf(n, line, k)
<1>1. bs \in [BlocksOf(n) -> BlockAt(n)] /\ LinesKnown(n, bs)
      /\ Contents[n] = Copies(n, bs)
  BY ContentsFields DEF CallInv, CachesOK, StoreOK, Contents
<1>2. k \in 0 .. (NWords(n) - 1) /\ line \in Lines(n)
  BY <1>1 DEF BlockAt, Words, LinesKnown
<1>3. AddrBelow(n, b) + 8 * k = a /\ Source(n + 1, a) = e
  BY DEF AddrBelow, ElementOf
<1>4. Holds(n, bs, b, k, e)
  BY DEF Holds
<1>5. IsCopy(n, bs, b, k, e)
  BY <1>1, <1>2, <1>4, CopyAt
<1> HIDE DEF line
<1>6. a \in Nat
  <2>1. LineBelow(n, line) \in Nat /\ k \in Nat
    BY <1>2, LineTypes
  <2>2. QED
    BY <2>1
<1>7. Known(n + 1, a)
  BY <1>2, <1>3, ElementOfLine, WordsOfLine DEF Known
<1> HIDE DEF a, e
<1>8. n + 1 \in 1 .. (Depth + 1) /\ n \in Nat /\ Depth \in Nat
  BY HierarchyAssumption DEF Levels
<1>9. Uppermost(n + 1, e, View(n + 1, a))
  BY <1>3, <1>6, <1>7, <1>8, ViewIsUppermost
<1>10. PICK m \in (n + 1) .. (Depth + 1) :
         /\ e \in Contents[m].held
         /\ \A i \in (n + 1) .. (m - 1) : e \notin Contents[i].held
         /\ Contents[m].value[e] = View(n + 1, a)
  BY <1>9 DEF Uppermost
<1>11. m \in 1 .. (Depth + 1) /\ n < m
  BY <1>8
<1>12. e \in Elements /\ e \in Contents[n].held \ Contents[n].dirty
       /\ Contents[n].value[e] = bs[b].data[k]
  BY <1>1, <1>5 DEF IsCopy
<1>13. Contents[n].value[e] = Contents[m].value[e]
  BY <1>10, <1>11, <1>12 DEF StoreOK, CopiesAgree
<1>14. QED
  BY <1>3, <1>10, <1>12, <1>13

(* Between requests the hierarchy holds what was last written to each      *)
(* word, whichever levels have copies of it.                               *)
THEOREM HierarchyIsCoherent ==
  ASSUME AddressesSound
  PROVE  Spec => []Coherent
<1>1. CallInv /\ StoreInv => Coherent
  BY IdleCoherent
<1>2. QED
  BY <1>1, CallStackSound, StoreSound, PTL

(* Dropping a clean block of any level loses nothing: the levels below     *)
(* would serve the same words.                                             *)
THEOREM CleanBlocksBelow ==
  ASSUME AddressesSound
  PROVE  Spec => []CleanMatchesBelow
<1>1. CallInv /\ StoreInv => CleanMatchesBelow
  BY IdleClean
<1>2. QED
  BY <1>1, CallStackSound, StoreSound, PTL

(* The hierarchy starts as a flat store...                                 *)
LEMMA FlatInit == Init => Flat!Init
BY DEF Init, Flat!Init, FlatPhase, FlatRequest

(* ...and each of its steps is one that the client sees of a flat store, or*)
(* one that it does not see.                                               *)
LEMMA FlatNext ==
  ASSUME AddressesSound, CallInv, StoreInv, WriteBackAllocate, [Next]_vars
  PROVE  [Flat!Next]_(Flat!vars)
<1>1. ASSUME NEW r \in Request, NEW v \in Values, Call(r, v)
      PROVE  Flat!Next
  <2>1. /\ FlatPhase = "idle" /\ FlatPhase' = "pending"
        /\ UNCHANGED latest /\ content' = v
    BY <1>1 DEF Call, FlatPhase
  <2>2. r # NoRequest
    BY HierarchyAssumption
  <2>3. FlatRequest' = [cell |-> WordOf(r.addr), read |-> r.read, words |-> 1]
    BY <1>1, <2>2 DEF Call, FlatRequest
  <2>4. FlatRequest' \in Flat!Requests
    BY <2>3 DEF Flat!Requests, Request, Cells
  <2>5. Flat!Issue(FlatRequest', v)
    BY <2>1 DEF Flat!Issue
  <2>6. QED
    BY <2>4, <2>5 DEF Flat!Next
<1>2. CASE Deliver
  <2>1. /\ FlatPhase = "pending" /\ FlatPhase' = "served"
        /\ req \in Request /\ UNCHANGED FlatRequest
    BY <1>2 DEF Deliver, FlatPhase, FlatRequest, CallInv, AnswerInv
  <2>2. FlatRequest = [cell |-> WordOf(req.addr), read |-> req.read, words |-> 1]
    BY <2>1, HierarchyAssumption DEF FlatRequest
  <2>3. /\ content' = ret.content[0]
        /\ latest' = IF req.read THEN latest
                     ELSE [latest EXCEPT ![WordOf(req.addr)] = content]
    BY <1>2 DEF Deliver
  <2>4. /\ ~ req.read => ret.content[0] = content
        /\ req.read => ret.content[0] = latest[WordOf(req.addr)]
    BY <1>2, DeliverStore DEF StoreInv
  <2>5. /\ FlatRequest.cell = WordOf(req.addr) /\ FlatRequest.read = req.read
        /\ FlatRequest.words = 1
    BY <2>2
  <2>6. CASE req.read
    <3>1. Flat!ServeRead
      BY <2>1, <2>3, <2>4, <2>5, <2>6 DEF Flat!ServeRead
    <3>2. QED
      BY <3>1 DEF Flat!Next
  <2>7. CASE ~ req.read
    <3>1. Flat!ServeWrite
      BY <2>1, <2>3, <2>4, <2>5, <2>7 DEF Flat!ServeWrite
    <3>2. QED
      BY <3>1 DEF Flat!Next
  <2>8. QED
    BY <2>6, <2>7
<1>3. CASE Return
  <2>1. Flat!Return
    BY <1>3 DEF Return, Flat!Return, FlatPhase, FlatRequest
  <2>2. QED
    BY <2>1 DEF Flat!Next
<1>4. CASE WildAccess
  <2>1. UNCHANGED <<latest, FlatPhase, FlatRequest, content>>
    BY <1>4 DEF WildAccess, Entered, FlatPhase, FlatRequest
  <2>2. QED
    BY <2>1 DEF Flat!vars
<1>5. ASSUME ClientUnchanged \/ UNCHANGED vars
      PROVE  UNCHANGED Flat!vars
  BY <1>5 DEF ClientUnchanged, vars, callVars, FlatPhase, FlatRequest, Flat!vars
<1>6. QED
  BY <1>1, <1>2, <1>3, <1>4, <1>5
     DEF Next, MemoryServe, HitRead, HitWriteBack, HitWriteThrough, ThroughDone,
         MissWriteAround, AroundDone, MissEvict, EvictDone, MissRefill, RefillDone,
         AgainDone, Stopped

(* The stack of caches is a flat store: a read returns what the latest     *)
(* write stored, whatever the levels have evicted in between.              *)
THEOREM HierarchyIsFlatStore ==
  ASSUME AddressesSound
  PROVE  Spec => ImplementsFlatStore
<1>1. CallInv /\ StoreInv /\ [Next]_vars =>
        (WriteBackAllocate => [Flat!Next]_(Flat!vars))
  BY FlatNext
<1>2. QED
  BY <1>1, FlatInit, CallStackSound, StoreSound, PTL DEF Spec, ImplementsFlatStore

=============================================================================
