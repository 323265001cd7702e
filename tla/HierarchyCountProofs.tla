----------------------- MODULE HierarchyCountProofs -------------------------
(***************************************************************************)
(* Theorems about the statistics of module Hierarchy: what the levels count*)
(* while misses, write-backs and refills nest, and the latency of it.      *)
(***************************************************************************)
EXTENDS HierarchyProofs

(* An access that a level has counted twice, and one not yet counted.      *)
Overcounted(n) ==
  \E i \in 1 .. Len(stack) :
    /\ stack[i].level = n
    /\ stack[i].at = "again"
    /\ i < Len(stack) => stack[i + 1].at # "enter"

(* The latest activation is a request of level n that has not looked it up.*)
Uncounted(n) ==
  /\ stack # << >>
  /\ Top.level = n
  /\ Top.at = "enter"
  /\ ~ Recursive(Len(stack))

(* The requests that level n has got.                                      *)
Asks(n) ==
  stats[n].access_counter + (IF Uncounted(n) THEN 1 ELSE 0)
                          - (IF Overcounted(n) THEN 1 ELSE 0)

(* Every request has been counted once, up to the two exceptions.          *)
TrafficInv ==
  /\ \A n \in Levels : Asks(n) >= IF Uncounted(n) THEN 1 ELSE 0
  /\ Asks(1) = requests
  /\ \A n \in 1 .. (Depth - 1) : ~ config[n].write_through =>
       Asks(n + 1) = stats[n].miss_num + stats[n].replace_num

(* The time that the latest activation returned and nobody has added yet.  *)
Pending ==
  IF ret = Nothing \/ (stack # << >> /\ Top.at = "again") THEN 0 ELSE ret.time

(* The inductive invariant of the statistics.                              *)
CountInv == CallInv /\ TrafficInv

-----------------------------------------------------------------------------
(* The levels on the call stack.                                           *)

(* Level n waits for its recursive call below the frame on top.            *)
Again(n) ==
  \E i \in 1 .. (Len(stack) - 1) : stack[i].level = n /\ stack[i].at = "again"

(* Of the activations below the one on top only its caller can be at its   *)
(* level.                                                                  *)
LEMMA AgainAtTop ==
  ASSUME CallInv, stack # << >>
  PROVE  Again(N) <=> Recursive(Len(stack))
<1>1. PICK L \in Nat \ {0} : L = Len(stack) /\ Top = stack[L] /\ N = stack[L].level
  BY TopOK DEF N
<1>2. ASSUME NEW i \in 1 .. (L - 1), stack[i].level = N PROVE i = L - 1
  <2>1. CASE i + 2 <= L
    <3>1. stack[i].level < stack[L].level
      BY <1>1, <2>1, LevelsRise
    <3>2. N \in Nat
      BY <1>1 DEF CallInv, StackInv, FrameOK, Frame
    <3>3. QED
      BY <1>1, <1>2, <3>1, <3>2
  <2>2. QED
    BY <2>1
<1>3. ASSUME Recursive(L) PROVE L - 1 \in 1 .. (L - 1) /\ stack[L - 1].level = N
                                /\ stack[L - 1].at = "again"
  <2>1. L > 1 /\ stack[L - 1].at = "again"
    BY <1>3 DEF Recursive
  <2>2. Calls(stack[L - 1], stack[L])
    BY <1>1, <2>1 DEF CallInv, StackInv
  <2>3. QED
    BY <1>1, <2>1, <2>2 DEF Calls
<1>4. Again(N) => Recursive(L)
  BY <1>1, <1>2 DEF Again, Recursive
<1>5. Recursive(L) => Again(N)
  BY <1>1, <1>3 DEF Again
<1>6. QED
  BY <1>1, <1>4, <1>5

(* Which levels have counted an access twice, by the frame on top.         *)
LEMMA OvercountedNow ==
  ASSUME CallInv, stack # << >>, NEW n
  PROVE  Overcounted(n) <=>
           IF n # N THEN Again(n)
           ELSE (Again(n) /\ Top.at # "enter") \/ Top.at = "again"
<1>1. PICK L \in Nat \ {0} : L = Len(stack) /\ Top = stack[L] /\ N = stack[L].level
  BY TopOK DEF N
<1>2. \A i \in 1 .. (L - 1) :
        /\ stack[i].at # "enter"
        /\ stack[i + 1].level = IF stack[i].at = "again" THEN stack[i].level
                                                         ELSE stack[i].level + 1
  BY <1>1 DEF CallInv, StackInv, Calls
<1>3. \A i \in 1 .. (L - 2) : stack[i + 1].at # "enter"
  <2> TAKE i \in 1 .. (L - 2)
  <2>1. i + 1 \in 1 .. (L - 1)
    BY <1>1
  <2>2. QED
    BY <1>2, <2>1
<1>4. ASSUME Overcounted(n), n # N PROVE Again(n)
  <2>1. PICK i \in 1 .. L : stack[i].level = n /\ stack[i].at = "again"
    BY <1>1, <1>4 DEF Overcounted
  <2>2. i # L
    BY <1>1, <1>4, <2>1
  <2>3. i \in 1 .. (L - 1)
    BY <1>1, <2>2
  <2>4. QED
    BY <1>1, <2>1, <2>3 DEF Again
<1>5. ASSUME Again(n), n # N PROVE Overcounted(n)
  <2>1. PICK i \in 1 .. (L - 1) : stack[i].level = n /\ stack[i].at = "again"
    BY <1>1, <1>5 DEF Again
  <2>2. stack[i + 1].level = n
    BY <1>2, <2>1
  <2>3. i # L - 1
    BY <1>1, <1>5, <2>2
  <2>4. i \in 1 .. (L - 2) /\ i \in 1 .. L
    BY <1>1, <2>3
  <2>5. QED
    BY <1>1, <1>3, <2>1, <2>4 DEF Overcounted
<1>6. ASSUME Overcounted(n), n = N, Top.at # "again" PROVE Again(n) /\ Top.at # "enter"
  <2>1. PICK i \in 1 .. L : /\ stack[i].level = n /\ stack[i].at = "again"
                            /\ i < L => stack[i + 1].at # "enter"
    BY <1>1, <1>6 DEF Overcounted
  <2>2. i # L
    BY <1>1, <1>6, <2>1
  <2>3. i \in 1 .. (L - 1)
    BY <1>1, <2>2
  <2>4. Again(n)
    BY <1>1, <2>1, <2>3 DEF Again
  <2>5. i = L - 1
    <3>1. CASE i + 2 <= L
      <4>1. stack[i].level < stack[L].level /\ N \in Nat
        BY <1>1, <3>1, LevelsRise, TopOK
      <4>2. QED
        BY <1>1, <1>6, <2>1, <4>1
    <3>2. QED
      BY <2>3, <3>1
  <2>6. QED
    BY <1>1, <2>1, <2>4, <2>5
<1>7. ASSUME n = N, Again(n), Top.at # "enter" PROVE Overcounted(n)
  <2>1. PICK i \in 1 .. (L - 1) : stack[i].level = n /\ stack[i].at = "again"
    BY <1>1, <1>7 DEF Again
  <2>2. i < L - 1 => stack[i + 1].at # "enter"
    BY <1>1, <1>3
  <2>3. i = L - 1 => stack[i + 1].at # "enter"
    BY <1>1, <1>7
  <2>4. QED
    BY <1>1, <2>1, <2>2, <2>3 DEF Overcounted
<1>8. ASSUME n = N, Top.at = "again" PROVE Overcounted(n)
  BY <1>1, <1>8 DEF Overcounted
<1>9. QED
  BY <1>4, <1>5, <1>6, <1>7, <1>8

(* What a step makes of it.                                                *)
LEMMA OvercountedNext ==
  ASSUME CallInv, stack # << >>, NEW n,
         Returned \/ \E f, g \in Frame : Called(f, g) /\ Calls(f, g) /\ g.at = "enter"
  PROVE  Overcounted(n)' <=> Again(n)
<1>1. PICK L \in Nat \ {0} : L = Len(stack) /\ Top = stack[L] /\ N = stack[L].level
  BY TopOK DEF N
<1>2. \A i \in 1 .. (L - 2) : stack[i + 1].at # "enter"
  <2> TAKE i \in 1 .. (L - 2)
  <2>1. i + 1 \in 1 .. (L - 1)
    BY <1>1
  <2>2. QED
    BY <1>1, <2>1 DEF CallInv, StackInv, Calls
<1>3. CASE Returned
  <2>1. /\ Len(stack') = L - 1
        /\ \A i \in 1 .. (L - 1) : stack'[i] = stack[i]
    BY <1>1, <1>3 DEF Returned
  <2>2. \A i \in 1 .. (L - 1) : i < L - 1 => stack'[i + 1].at # "enter"
    BY <1>1, <1>2, <2>1
  <2>3. QED
    BY <1>1, <2>1, <2>2 DEF Overcounted, Again
<1>4. ASSUME NEW f \in Frame, NEW g \in Frame, Called(f, g), Calls(f, g),
             g.at = "enter"
      PROVE  Overcounted(n)' <=> Again(n)
  <2>0. f.at # "enter"
    BY <1>4 DEF Calls
  <2>1. /\ Len(stack') = L + 1 /\ stack'[L] = f /\ stack'[L + 1] = g
        /\ \A i \in 1 .. (L - 1) : stack'[i] = stack[i]
    BY <1>1, <1>4 DEF Called
  <2>2. \A i \in 1 .. (L - 1) : stack'[i + 1].at # "enter"
    <3> TAKE i \in 1 .. (L - 1)
    <3>1. CASE i = L - 1
      BY <1>1, <2>0, <2>1, <3>1
    <3>2. CASE i # L - 1
      <4>1. i \in 1 .. (L - 2) /\ i + 1 \in 1 .. (L - 1)
        BY <1>1, <3>2
      <4>2. QED
        BY <1>2, <2>1, <4>1
    <3>3. QED
      BY <3>1, <3>2
  <2>3. ASSUME NEW i \in 1 .. (L + 1), stack'[i].at = "again",
               i < L + 1 => stack'[i + 1].at # "enter"
        PROVE  i \in 1 .. (L - 1)
    <3>1. i # L + 1
      BY <1>4, <2>1, <2>3
    <3>2. i # L
      BY <1>1, <1>4, <2>1, <2>3
    <3>3. QED
      BY <1>1, <3>1, <3>2
  <2>4. ASSUME Overcounted(n)' PROVE Again(n)
    BY <1>1, <2>1, <2>3, <2>4 DEF Overcounted, Again
  <2>5. ASSUME Again(n) PROVE Overcounted(n)'
    BY <1>1, <2>1, <2>2, <2>5 DEF Overcounted, Again
  <2>6. QED
    BY <2>4, <2>5
<1>5. QED
  BY <1>3, <1>4

-----------------------------------------------------------------------------
(* The requests of a level, step by step.                                  *)

(* What handle_request does to access_counter at a step, per level.        *)
Recounted(n) ==
  stats'[n].access_counter =
    stats[n].access_counter + (IF n # N THEN 0
                               ELSE IF Top.at = "enter" THEN 1
                               ELSE IF Top.at = "again" THEN -1 ELSE 0)

(* The counters are integers.                                              *)
LEMMA AsksTypes ==
  ASSUME CallInv, NEW n \in Levels
  PROVE  stats[n].access_counter \in Int /\ Asks(n) \in Int
<1>1. stats[n].access_counter \in Int
  BY DEF CallInv, DataOK
<1>2. QED
  BY <1>1 DEF Asks

(* The recursive call and its correction leave what a level was asked.     *)
LEMMA AsksOfLevel ==
  ASSUME CallInv, stack # << >>, NEW n \in Levels, Recounted(n),
         Returned \/ \E f, g \in Frame : Called(f, g) /\ Calls(f, g) /\ g.at = "enter"
  PROVE  Asks(n)' = Asks(n) + (IF Uncounted(n)' THEN 1 ELSE 0)
<1>1. stats[n].access_counter \in Int
  BY AsksTypes
<1>2. Overcounted(n)' <=> Again(n)
  BY OvercountedNext
<1>3. Overcounted(n) <=> IF n # N THEN Again(n)
                         ELSE (Again(n) /\ Top.at # "enter") \/ Top.at = "again"
  BY OvercountedNow
<1>4. Again(N) <=> Recursive(Len(stack))
  BY AgainAtTop
<1>5. Uncounted(n) <=> n = N /\ Top.at = "enter" /\ ~ Recursive(Len(stack))
  BY DEF Uncounted, N
<1>6. Top.at = "again" => ~ Recursive(Len(stack))
  <2>1. PICK L \in Nat \ {0} : L = Len(stack) /\ Top = stack[L]
    BY TopOK
  <2>2. Recursive(L) => Calls(stack[L - 1], stack[L])
    BY <2>1 DEF CallInv, StackInv, Recursive
  <2>3. QED
    BY <2>1, <2>2 DEF Calls, Recursive
<1> DEFINE u == stats[n].access_counter
           v == stats'[n].access_counter
           over == Overcounted(n)
           over2 == Overcounted(n)'
           un == Uncounted(n)
           un2 == Uncounted(n)'
<1>7. /\ Asks(n) = u + (IF un THEN 1 ELSE 0) - (IF over THEN 1 ELSE 0)
      /\ Asks(n)' = v + (IF un2 THEN 1 ELSE 0) - (IF over2 THEN 1 ELSE 0)
  BY DEF Asks
<1>8. v = u + (IF n # N THEN 0 ELSE IF Top.at = "enter" THEN 1
               ELSE IF Top.at = "again" THEN -1 ELSE 0)
  BY DEF Recounted
<1> DEFINE e == Top.at = "enter"
           w == Top.at = "again"
           r == Recursive(Len(stack))
           same == n = N
<1>9. /\ over2 <=> Again(n)
      /\ same => (Again(n) <=> r)
      /\ over <=> IF ~ same THEN Again(n) ELSE (Again(n) /\ ~ e) \/ w
      /\ un <=> (same /\ e /\ ~ r)
      /\ w => ~ r
      /\ ~ (e /\ w)
  BY <1>2, <1>3, <1>4, <1>5, <1>6
<1>10. v = u + (IF ~ same THEN 0 ELSE IF e THEN 1 ELSE IF w THEN -1 ELSE 0)
  BY <1>8
<1> HIDE DEF u, v, over, over2, un, un2, e, w, r, same
<1>11. v = u + (IF un THEN 1 ELSE 0) - (IF over THEN 1 ELSE 0)
             + (IF over2 THEN 1 ELSE 0)
  BY <1>9, <1>10, <1>1 DEF u
<1>12. QED
  BY <1>1, <1>7, <1>11 DEF u, un2

(* After a return no access waits to be counted; after a call, that of the *)
(* activation called.                                                      *)
LEMMA UncountedNext ==
  ASSUME CallInv, stack # << >>, NEW n
  PROVE  /\ Returned => ~ Uncounted(n)'
         /\ \A f, g \in Frame :
              Called(f, g) /\ Calls(f, g) /\ g.at = "enter" =>
                (Uncounted(n)' <=> n = g.level /\ f.at # "again")
<1>1. PICK L \in Nat \ {0} : L = Len(stack) /\ Top = stack[L] /\ N = stack[L].level
  BY TopOK DEF N
<1>2. ASSUME Returned, Uncounted(n)' PROVE FALSE
  <2>1. /\ Len(stack') = L - 1 /\ stack' \in Seq(Frame) /\ stack' # << >>
        /\ \A i \in 1 .. (L - 1) : stack'[i] = stack[i]
    BY <1>1, <1>2 DEF Returned, Uncounted
  <2>2. L - 1 \in 1 .. (L - 1) /\ Top' = stack'[L - 1]
    <3>1. Len(stack') # 0
      BY <2>1, EmptySeq
    <3>2. QED
      BY <1>1, <2>1, <3>1 DEF Top, Last
  <2>3. stack[L - 1].at # "enter"
    BY <1>1, <2>2 DEF CallInv, StackInv, Calls
  <2>4. QED
    BY <1>2, <2>1, <2>2, <2>3 DEF Uncounted
<1>3. ASSUME NEW f \in Frame, NEW g \in Frame, Called(f, g), Calls(f, g), g.at = "enter"
      PROVE  Uncounted(n)' <=> n = g.level /\ f.at # "again"
  <2>1. /\ Len(stack') = L + 1 /\ stack'[L] = f /\ stack'[L + 1] = g
        /\ stack' \in Seq(Frame)
    BY <1>1, <1>3 DEF Called
  <2>2. stack' # << >> /\ Top' = g
    BY <1>1, <2>1, EmptySeq DEF Top, Last
  <2>3. Recursive(L + 1)' <=> f.at = "again"
    BY <1>1, <2>1 DEF Recursive
  <2>4. QED
    BY <1>1, <1>3, <2>1, <2>2, <2>3 DEF Uncounted
<1>4. QED
  BY <1>2, <1>3

(* The misses and replacements of a level, those of the request it sends   *)
(* included.                                                               *)
Sent(n) == stats[n].miss_num + stats[n].replace_num

(* A step of the storage in which the activation on top returns...         *)
LEMMA ReturnCounts ==
  ASSUME CountInv, stack # << >>, Returned, UNCHANGED <<config, requests>>,
         \A n \in Levels : Recounted(n) /\ Sent(n)' = Sent(n)
  PROVE  TrafficInv'
<1>1. \A n \in Levels : ~ Uncounted(n)' /\ Asks(n)' = Asks(n)
  <2> TAKE n \in Levels
  <2>1. ~ Uncounted(n)'
    BY UncountedNext DEF CountInv
  <2>2. Asks(n)' = Asks(n) + (IF Uncounted(n)' THEN 1 ELSE 0)
    BY AsksOfLevel DEF CountInv
  <2>3. Asks(n) \in Int
    BY AsksTypes DEF CountInv
  <2>4. QED
    BY <2>1, <2>2, <2>3
<1>2. \A n \in Levels : Asks(n) \in Int /\ Asks(n) >= IF Uncounted(n) THEN 1 ELSE 0
  BY AsksTypes DEF CountInv, TrafficInv
<1>3. 1 \in Levels /\ \A n \in 1 .. (Depth - 1) : n \in Levels /\ n + 1 \in Levels
  BY HierarchyAssumption DEF Levels
<1>4. QED
  BY <1>1, <1>2, <1>3 DEF CountInv, TrafficInv, Sent

(* ...and one in which it calls another.                                   *)
LEMMA CallCounts ==
  ASSUME CountInv, stack # << >>, UNCHANGED <<config, requests>>,
         NEW f \in Frame, NEW g \in Frame, Called(f, g), Calls(f, g), g.at = "enter",
         f.level = N, N \in Levels,
         \A n \in Levels : Recounted(n),
         \A n \in Levels :
           ~ config[n].write_through =>
             Sent(n)' = Sent(n) + (IF n = N /\ f.at # "again" THEN 1 ELSE 0)
  PROVE  TrafficInv'
<1>1. \A n \in Levels : /\ Uncounted(n)' <=> n = g.level /\ f.at # "again"
                        /\ Asks(n)' = Asks(n) + (IF Uncounted(n)' THEN 1 ELSE 0)
  BY UncountedNext, AsksOfLevel DEF CountInv
<1>2. g.level = IF f.at = "again" THEN N ELSE N + 1
  BY DEF Calls
<1>3. \A n \in Levels : Asks(n) \in Int /\ Asks(n) >= IF Uncounted(n) THEN 1 ELSE 0
  BY AsksTypes DEF CountInv, TrafficInv
<1>4. 1 \in Levels /\ Levels \subseteq Nat \ {0}
      /\ \A n \in 1 .. (Depth - 1) : n \in Levels /\ n + 1 \in Levels
  BY HierarchyAssumption DEF Levels
<1>5. \A n \in Levels : Asks(n)' >= IF Uncounted(n)' THEN 1 ELSE 0
  BY <1>1, <1>3
<1>6. Asks(1)' = requests'
  <2>1. ~ Uncounted(1)'
    BY <1>1, <1>2, <1>4
  <2>2. Asks(1)' = Asks(1)
    BY <1>1, <1>3, <1>4, <2>1
  <2>3. QED
    BY <2>2 DEF CountInv, TrafficInv
<1>7. ASSUME NEW n \in 1 .. (Depth - 1), ~ config'[n].write_through
      PROVE  Asks(n + 1)' = stats'[n].miss_num + stats'[n].replace_num
  <2>1. n \in Levels /\ n + 1 \in Levels /\ n \in Nat /\ N \in Nat
    BY <1>4
  <2>2. Asks(n + 1) = Sent(n)
    BY <1>7 DEF CountInv, TrafficInv, Sent
  <2>3. Uncounted(n + 1)' <=> n = N /\ f.at # "again"
    BY <1>1, <1>2, <2>1
  <2>4. Asks(n + 1)' = Sent(n) + (IF n = N /\ f.at # "again" THEN 1 ELSE 0)
    BY <1>1, <2>1, <2>2, <2>3
  <2>5. Sent(n)' = Sent(n) + (IF n = N /\ f.at # "again" THEN 1 ELSE 0)
    BY <1>7, <2>1
  <2>6. QED
    BY <2>4, <2>5 DEF Sent
<1>8. QED
  BY <1>5, <1>6, <1>7 DEF TrafficInv

-----------------------------------------------------------------------------
(* The statistics of a step.                                               *)

(* An access counted by the activation on top.                             *)
LEMMA CountedAccess ==
  ASSUME CallInv, stack # << >>, N \in Levels, Top.at = "enter",
         NEW miss \in {0, 1}, CountAccess(miss)
  PROVE  \A n \in Levels : /\ Recounted(n)
                           /\ Sent(n)' = Sent(n) + (IF n = N THEN miss ELSE 0)
<1> DEFINE S == [access_counter : Int, miss_num : Nat, replace_num : Nat]
<1>1. PICK m \in Levels : m = N
  OBVIOUS
<1>2. stats \in [Levels -> S]
  BY DEF CallInv, DataOK
<1>3. stats' = [stats EXCEPT ![m].access_counter = @ + 1, ![m].miss_num = @ + miss]
  BY <1>1 DEF CountAccess
<1>4. \A n \in Levels :
        /\ stats'[n].access_counter = stats[n].access_counter + (IF n = m THEN 1 ELSE 0)
        /\ stats'[n].miss_num = stats[n].miss_num + (IF n = m THEN miss ELSE 0)
        /\ stats'[n].replace_num = stats[n].replace_num
        /\ stats[n].access_counter \in Int
        /\ stats[n].miss_num \in Nat /\ stats[n].replace_num \in Nat
  <2> TAKE n \in Levels
  <2>1. stats[n] \in S
    BY <1>2
  <2>2. CASE n = m
    BY <1>2, <1>3, <2>1, <2>2
  <2>3. CASE n # m
    BY <1>2, <1>3, <2>1, <2>3
  <2>4. QED
    BY <2>2, <2>3
<1>5. QED
  BY <1>1, <1>4 DEF Recounted, Sent

(* A step that counts nothing.                                             *)
LEMMA CountedNothing ==
  ASSUME CallInv, stack # << >>, Top.at \notin {"enter", "again"} \/ N \notin Levels,
         UNCHANGED stats
  PROVE  \A n \in Levels : Recounted(n) /\ Sent(n)' = Sent(n)
<1>1. \A n \in Levels : stats[n].access_counter \in Int
  BY DEF CallInv, DataOK
<1>2. QED
  BY <1>1 DEF Recounted, Sent

(* Counting the replacement of a victim.                                   *)
LEMMA CountedReplacement ==
  ASSUME CallInv, stack # << >>, N \in Levels, Top.at = "evict",
         stats' = [stats EXCEPT ![N].replace_num = @ + 1]
  PROVE  \A n \in Levels : /\ Recounted(n)
                           /\ Sent(n)' = Sent(n) + (IF n = N THEN 1 ELSE 0)
<1> DEFINE S == [access_counter : Int, miss_num : Nat, replace_num : Nat]
<1>1. PICK m \in Levels : m = N
  OBVIOUS
<1>2. stats \in [Levels -> S]
  BY DEF CallInv, DataOK
<1>3. stats' = [stats EXCEPT ![m].replace_num = @ + 1]
  BY <1>1
<1>4. \A n \in Levels :
        /\ stats'[n].access_counter = stats[n].access_counter
        /\ stats'[n].miss_num = stats[n].miss_num
        /\ stats'[n].replace_num = stats[n].replace_num + (IF n = m THEN 1 ELSE 0)
        /\ stats[n].access_counter \in Int
        /\ stats[n].miss_num \in Nat /\ stats[n].replace_num \in Nat
  <2> TAKE n \in Levels
  <2>1. stats[n] \in S
    BY <1>2
  <2>2. CASE n = m
    BY <1>2, <1>3, <2>1, <2>2
  <2>3. CASE n # m
    BY <1>2, <1>3, <2>1, <2>3
  <2>4. QED
    BY <2>2, <2>3
<1>5. QED
  BY <1>1, <1>4 DEF Recounted, Sent

(* Uncounting the access of the recursive call.                            *)
LEMMA CountedCorrection ==
  ASSUME CallInv, stack # << >>, N \in Levels, Top.at = "again",
         stats' = [stats EXCEPT ![N].access_counter = @ - 1]
  PROVE  \A n \in Levels : Recounted(n) /\ Sent(n)' = Sent(n)
<1> DEFINE S == [access_counter : Int, miss_num : Nat, replace_num : Nat]
<1>1. PICK m \in Levels : m = N
  OBVIOUS
<1>2. stats \in [Levels -> S]
  BY DEF CallInv, DataOK
<1>3. stats' = [stats EXCEPT ![m].access_counter = @ - 1]
  BY <1>1
<1>4. \A n \in Levels :
        /\ stats'[n].access_counter = stats[n].access_counter - (IF n = m THEN 1 ELSE 0)
        /\ stats'[n].miss_num = stats[n].miss_num
        /\ stats'[n].replace_num = stats[n].replace_num
        /\ stats[n].access_counter \in Int
  <2> TAKE n \in Levels
  <2>1. stats[n] \in S
    BY <1>2
  <2>2. CASE n = m
    BY <1>2, <1>3, <2>1, <2>2
  <2>3. CASE n # m
    BY <1>2, <1>3, <2>1, <2>3
  <2>4. QED
    BY <2>2, <2>3
<1>5. QED
  BY <1>1, <1>4 DEF Recounted, Sent

(* A step in which the activation on top calls, with its statistics.       *)
LEMMA OutCounts ==
  ASSUME CountInv, stack # << >>, N \in Levels, UNCHANGED <<config, requests>>,
         NEW at, NEW b, NEW t, NEW addr, NEW read, NEW words,
         CallsOut(at, b, t, addr, read, words),
         \A n \in Levels : Recounted(n),
         \A n \in Levels :
           ~ config[n].write_through =>
             Sent(n)' = Sent(n) + (IF n = N /\ at # "again" THEN 1 ELSE 0)
  PROVE  TrafficInv'
<1>1. CallInv
  BY DEF CountInv
<1>2. PICK f, g \in Frame :
        /\ f.level = N /\ f.at = at /\ g.at = "enter" /\ Calls(f, g) /\ Called(f, g)
  BY <1>1, CalledBy
<1>3. QED
  BY <1>2, CallCounts

(* The steps in which the activation on top returns: it has added the time *)
(* of those it called, but for a recursive call and a write passed down.   *)
LEMMA ReturningFacts ==
  ASSUME CallInv,
         MemoryServe \/ HitRead \/ HitWriteBack
         \/ ThroughDone \/ AroundDone \/ AgainDone
  PROVE  /\ stack # << >> /\ Returned /\ UNCHANGED <<config, requests, total_time>>
         /\ \E words : Returns(words, Top.time)
         /\ ret = Nothing \/ Top.at \in {"through", "around", "again"}
         /\ \A n \in Levels : Recounted(n) /\ Sent(n)' = Sent(n)
<1>1. CASE MemoryServe
  <2>1. /\ stack # << >> /\ UNCHANGED <<config, requests, total_time>>
        /\ N \notin Levels /\ ret = Nothing
    BY <1>1, EnteredTop, HierarchyAssumption DEF MemoryServe, ClientUnchanged, Levels, Entered
  <2>2. PICK words : Returns(words, Top.time)
    BY <1>1 DEF MemoryServe
  <2>3. Returned
    BY <2>1, <2>2, ReturnedBy
  <2>4. \A n \in Levels : Recounted(n) /\ Sent(n)' = Sent(n)
    BY <1>1, <2>1, CountedNothing DEF MemoryServe
  <2>5. QED
    BY <2>1, <2>2, <2>3, <2>4
<1>2. CASE HitRead
  <2>1. /\ stack # << >> /\ UNCHANGED <<config, requests, total_time>>
        /\ N \in Levels /\ Top.at = "enter" /\ ret = Nothing
    BY <1>2, EnteredTop DEF HitRead, ClientUnchanged, AtCache, Entered
  <2>2. PICK words : Returns(words, Top.time)
    BY <1>2 DEF HitRead
  <2>3. Returned
    BY <2>1, <2>2, ReturnedBy
  <2>4. \A n \in Levels : Recounted(n) /\ Sent(n)' = Sent(n)
    <3>1. \A n \in Levels : Recounted(n) /\ Sent(n)' = Sent(n) + (IF n = N THEN 0 ELSE 0)
      BY <1>2, <2>1, CountedAccess DEF HitRead
    <3>2. \A n \in Levels : Sent(n) \in Int
      BY DEF CallInv, DataOK, Sent
    <3>3. QED
      BY <3>1, <3>2
  <2>5. QED
    BY <2>1, <2>2, <2>3, <2>4
<1>3. CASE HitWriteBack
  <2>1. /\ stack # << >> /\ UNCHANGED <<config, requests, total_time>>
        /\ N \in Levels /\ Top.at = "enter" /\ ret = Nothing
    BY <1>3, EnteredTop DEF HitWriteBack, ClientUnchanged, AtCache, Entered
  <2>2. PICK words : Returns(words, Top.time)
    BY <1>3 DEF HitWriteBack
  <2>3. Returned
    BY <2>1, <2>2, ReturnedBy
  <2>4. \A n \in Levels : Recounted(n) /\ Sent(n)' = Sent(n)
    <3>1. \A n \in Levels : Recounted(n) /\ Sent(n)' = Sent(n) + (IF n = N THEN 0 ELSE 0)
      BY <1>3, <2>1, CountedAccess DEF HitWriteBack
    <3>2. \A n \in Levels : Sent(n) \in Int
      BY DEF CallInv, DataOK, Sent
    <3>3. QED
      BY <3>1, <3>2
  <2>5. QED
    BY <2>1, <2>2, <2>3, <2>4
<1>4. CASE ThroughDone
  <2>1. /\ stack # << >> /\ UNCHANGED <<config, requests, total_time>>
        /\ Top.at = "through"
    BY <1>4, ResumedTop DEF ThroughDone, ClientUnchanged
  <2>2. PICK words : Returns(words, Top.time)
    BY <1>4 DEF ThroughDone
  <2>3. Returned
    BY <2>1, <2>2, ReturnedBy
  <2>4. \A n \in Levels : Recounted(n) /\ Sent(n)' = Sent(n)
    BY <1>4, <2>1, CountedNothing DEF ThroughDone
  <2>5. QED
    BY <2>1, <2>2, <2>3, <2>4
<1>5. CASE AroundDone
  <2>1. /\ stack # << >> /\ UNCHANGED <<config, requests, total_time>>
        /\ Top.at = "around"
    BY <1>5, ResumedTop DEF AroundDone, ClientUnchanged
  <2>2. PICK words : Returns(words, Top.time)
    BY <1>5 DEF AroundDone
  <2>3. Returned
    BY <2>1, <2>2, ReturnedBy
  <2>4. \A n \in Levels : Recounted(n) /\ Sent(n)' = Sent(n)
    BY <1>5, <2>1, CountedNothing DEF AroundDone
  <2>5. QED
    BY <2>1, <2>2, <2>3, <2>4
<1>6. CASE AgainDone
  <2>1. /\ stack # << >> /\ UNCHANGED <<config, requests, total_time>>
        /\ N \in Levels /\ Top.at = "again"
    BY <1>6, ResumedTop DEF AgainDone, ClientUnchanged
  <2>2. PICK words : Returns(words, Top.time)
    BY <1>6 DEF AgainDone, TimeOfOuter
  <2>3. Returned
    BY <2>1, <2>2, ReturnedBy
  <2>4. \A n \in Levels : Recounted(n) /\ Sent(n)' = Sent(n)
    BY <1>6, <2>1, CountedCorrection DEF AgainDone, UncountAccess
  <2>5. QED
    BY <2>1, <2>2, <2>3, <2>4
<1>7. QED
  BY <1>1, <1>2, <1>3, <1>4, <1>5, <1>6

(* Steps that return keep the counts.                                      *)
LEMMA ReturningCounts ==
  ASSUME CountInv,
         MemoryServe \/ HitRead \/ HitWriteBack
         \/ ThroughDone \/ AroundDone \/ AgainDone
  PROVE  TrafficInv'
<1>1. CallInv
  BY DEF CountInv
<1>2. QED
  BY <1>1, ReturningFacts, ReturnCounts

(* The steps in which it calls, at a point and with a time: in caches that *)
(* write back and allocate, all that was spent so far.                     *)
Calling(at, t) ==
  /\ at \in {"through", "around", "evict", "refill", "again"}
  /\ \E b, addr, read, words : CallsOut(at, b, t, addr, read, words)
  /\ WriteBackAllocate =>
       /\ at \in {"evict", "refill", "again"}
       /\ ~ Recursive(Len(stack))
       /\ t = Top.time + Pending
  /\ \A n \in Levels : ~ config[n].write_through =>
       Sent(n)' = Sent(n) + (IF n = N /\ at # "again" THEN 1 ELSE 0)

(* The steps that call, for the lemma below: each counts what it sends.    *)
LEMMA CallingFacts ==
  ASSUME CallInv,
         HitWriteThrough \/ MissWriteAround \/ MissEvict
         \/ EvictDone \/ MissRefill \/ RefillDone
  PROVE  /\ stack # << >> /\ N \in Levels /\ UNCHANGED <<config, requests, total_time>>
         /\ \A n \in Levels : Recounted(n)
         /\ \E at, t : Calling(at, t)
<1>1. CASE HitWriteThrough
  <2>1. /\ stack # << >> /\ N \in Levels /\ UNCHANGED <<config, requests, total_time>>
        /\ Top.at = "enter" /\ config[N].write_through
    BY <1>1, EnteredTop DEF HitWriteThrough, ClientUnchanged, AtCache
  <2>2. CallsOut("through", HitBlock, Top.time,
                 Top.addr, FALSE, Top.content)
    BY <1>1, HitWriteThroughCalls
  <2>3. \A n \in Levels :
          Recounted(n) /\ Sent(n)' = Sent(n) + (IF n = N THEN 0 ELSE 0)
    BY <1>1, <2>1, CountedAccess DEF HitWriteThrough
  <2>4. \A n \in Levels : ~ config[n].write_through =>
          Sent(n)' = Sent(n) + (IF n = N /\ "through" # "again" THEN 1 ELSE 0)
    BY <2>1, <2>3
  <2>5. ~ WriteBackAllocate
    BY <2>1 DEF WriteBackAllocate
  <2>6. Calling("through", Top.time)
    BY <2>2, <2>4, <2>5 DEF Calling
  <2>7. QED
    BY <2>1, <2>3, <2>6
<1>2. CASE MissWriteAround
  <2>1. /\ stack # << >> /\ N \in Levels /\ UNCHANGED <<config, requests, total_time>>
        /\ Top.at = "enter" /\ ~ config[N].write_allocate
    BY <1>2, EnteredTop DEF MissWriteAround, ClientUnchanged, AtCache
  <2>2. CallsOut("around", Top.block, Top.time,
                 Top.addr, FALSE, Top.content)
    BY <1>2, MissWriteAroundCalls
  <2>3. \A n \in Levels :
          Recounted(n) /\ Sent(n)' = Sent(n) + (IF n = N THEN 1 ELSE 0)
    BY <1>2, <2>1, CountedAccess DEF MissWriteAround
  <2>4. \A n \in Levels :
          Sent(n)' = Sent(n) + (IF n = N /\ "around" # "again" THEN 1 ELSE 0)
    BY <2>3
  <2>5. ~ WriteBackAllocate
    BY <2>1 DEF WriteBackAllocate
  <2>6. Calling("around", Top.time)
    BY <2>2, <2>4, <2>5 DEF Calling
  <2>7. QED
    BY <2>1, <2>3, <2>6
<1>3. CASE MissEvict
  <2>1. /\ stack # << >> /\ N \in Levels /\ UNCHANGED <<config, requests, total_time>>
        /\ Top.at = "enter" /\ ret = Nothing /\ ~ Recursive(Len(stack)) /\ Top.time \in Nat
    BY <1>3, MissedTop, TopAtLevel DEF MissEvict, ClientUnchanged, Missed, AtCache, Entered
  <2>2. CallsOut("evict", Victim, Top.time,
                 Level(N)!BlockAddr(blocks[N][Victim].tag, Index), FALSE,
                 blocks[N][Victim].data)
    BY <1>3, MissEvictCalls
  <2>3. \A n \in Levels :
          Recounted(n) /\ Sent(n)' = Sent(n) + (IF n = N THEN 1 ELSE 0)
    BY <1>3, <2>1, CountedAccess DEF MissEvict
  <2>4. \A n \in Levels :
          Sent(n)' = Sent(n) + (IF n = N /\ "evict" # "again" THEN 1 ELSE 0)
    BY <2>3
  <2>5. ~ Recursive(Len(stack)) /\ Top.time = Top.time + Pending
    BY <2>1 DEF Pending
  <2>6. Calling("evict", Top.time)
    BY <2>2, <2>4, <2>5 DEF Calling
  <2>7. QED
    BY <2>1, <2>3, <2>6
<1>4. CASE EvictDone
  <2>1. /\ stack # << >> /\ N \in Levels /\ UNCHANGED <<config, requests, total_time>>
        /\ Top.at = "evict" /\ ret # Nothing /\ ~ Recursive(Len(stack))
    BY <1>4, ResumedTop DEF EvictDone, ClientUnchanged, Resumed
  <2>2. CallsOut("refill", Top.block, Top.time + ret.time,
                 Level(N)!BlockAddr(Tag, Index), TRUE, Blank(NWords(N)))
    BY <1>4, EvictDoneCalls
  <2>3. \A n \in Levels :
          Recounted(n) /\ Sent(n)' = Sent(n) + (IF n = N THEN 1 ELSE 0)
    BY <1>4, <2>1, CountedReplacement DEF EvictDone
  <2>4. \A n \in Levels :
          Sent(n)' = Sent(n) + (IF n = N /\ "refill" # "again" THEN 1 ELSE 0)
    BY <2>3
  <2>5. ~ Recursive(Len(stack)) /\ Top.time + ret.time = Top.time + Pending
    BY <2>1 DEF Pending
  <2>6. Calling("refill", Top.time + ret.time)
    BY <2>2, <2>4, <2>5 DEF Calling
  <2>7. QED
    BY <2>1, <2>3, <2>6
<1>5. CASE MissRefill
  <2>1. /\ stack # << >> /\ N \in Levels /\ UNCHANGED <<config, requests, total_time>>
        /\ Top.at = "enter" /\ ret = Nothing /\ ~ Recursive(Len(stack)) /\ Top.time \in Nat
    BY <1>5, MissedTop, TopAtLevel DEF MissRefill, ClientUnchanged, Missed, AtCache, Entered
  <2>2. CallsOut("refill", Victim, Top.time,
                 Level(N)!BlockAddr(Tag, Index), TRUE, Blank(NWords(N)))
    BY <1>5, MissRefillCalls
  <2>3. \A n \in Levels :
          Recounted(n) /\ Sent(n)' = Sent(n) + (IF n = N THEN 1 ELSE 0)
    BY <1>5, <2>1, CountedAccess DEF MissRefill
  <2>4. \A n \in Levels :
          Sent(n)' = Sent(n) + (IF n = N /\ "refill" # "again" THEN 1 ELSE 0)
    BY <2>3
  <2>5. ~ Recursive(Len(stack)) /\ Top.time = Top.time + Pending
    BY <2>1 DEF Pending
  <2>6. Calling("refill", Top.time)
    BY <2>2, <2>4, <2>5 DEF Calling
  <2>7. QED
    BY <2>1, <2>3, <2>6
<1>6. CASE RefillDone
  <2>1. /\ stack # << >> /\ N \in Levels /\ UNCHANGED <<config, requests, total_time>>
        /\ Top.at = "refill" /\ ret # Nothing /\ ~ Recursive(Len(stack))
    BY <1>6, ResumedTop DEF RefillDone, ClientUnchanged, Resumed
  <2>2. CallsOut("again", Top.block, Top.time + ret.time,
                 Top.addr, Top.read, Top.content)
    BY <1>6, RefillDoneCalls
  <2>3. \A n \in Levels :
          Recounted(n) /\ Sent(n)' = Sent(n) + (IF n = N THEN 0 ELSE 0)
    <3>1. \A n \in Levels : Recounted(n) /\ Sent(n)' = Sent(n)
      BY <1>6, <2>1, CountedNothing DEF RefillDone
    <3>2. \A n \in Levels : Sent(n) \in Int
      BY DEF CallInv, DataOK, Sent
    <3>3. QED
      BY <3>1, <3>2
  <2>4. \A n \in Levels :
          Sent(n)' = Sent(n) + (IF n = N /\ "again" # "again" THEN 1 ELSE 0)
    BY <2>3
  <2>5. ~ Recursive(Len(stack)) /\ Top.time + ret.time = Top.time + Pending
    BY <2>1 DEF Pending
  <2>6. Calling("again", Top.time + ret.time)
    BY <2>2, <2>4, <2>5 DEF Calling
  <2>7. QED
    BY <2>1, <2>3, <2>6
<1>7. QED
  BY <1>1, <1>2, <1>3, <1>4, <1>5, <1>6

(* Steps that call keep the counts.                                        *)
LEMMA CallingCounts ==
  ASSUME CountInv,
         HitWriteThrough \/ MissWriteAround \/ MissEvict
         \/ EvictDone \/ MissRefill \/ RefillDone
  PROVE  TrafficInv'
<1>1. /\ stack # << >> /\ N \in Levels /\ UNCHANGED <<config, requests>>
      /\ \A n \in Levels : Recounted(n)
      /\ \E at, t : Calling(at, t)
  BY CallingFacts DEF CountInv
<1>2. PICK at, t, b, addr, read, words :
        /\ CallsOut(at, b, t, addr, read, words)
        /\ \A n \in Levels : ~ config[n].write_through =>
             Sent(n)' = Sent(n) + (IF n = N /\ at # "again" THEN 1 ELSE 0)
  BY <1>1 DEF Calling
<1>3. QED
  BY <1>1, <1>2, OutCounts

(* The steps of the client keep the counts.                                *)
LEMMA ClientCounts ==
  ASSUME CountInv,
         WildAccess \/ Deliver \/ Return \/ UNCHANGED vars
         \/ \E r \in Request, v \in Values : Call(r, v)
  PROVE  TrafficInv'
<1>1. CASE WildAccess \/ Deliver \/ Return \/ UNCHANGED vars
  <2>1. UNCHANGED <<stack, stats, config, requests>>
    BY <1>1 DEF WildAccess, Deliver, Return, vars, storeVars, callVars
  <2>2. QED
    BY <2>1 DEF CountInv, TrafficInv, Asks, Uncounted, Overcounted, Recursive, Top
<1>2. ASSUME NEW r \in Request, NEW v \in Values, Call(r, v) PROVE TrafficInv'
  <2>1. stack = << >> /\ UNCHANGED <<stats, config>> /\ requests' = requests + 1
    BY <1>2 DEF Call, storeVars, CountInv, CallInv, AnswerInv
  <2>2. PICK g : stack' = <<g>> /\ g.level = 1 /\ g.at = "enter"
    BY <1>2 DEF Call, Activation
  <2>3. \A n \in Levels : Asks(n) = stats[n].access_counter /\ Asks(n) \in Int /\ Asks(n) >= 0
    <3> TAKE n \in Levels
    <3>1. ~ Uncounted(n) /\ ~ Overcounted(n)
      BY <2>1 DEF Uncounted, Overcounted
    <3>2. stats[n].access_counter \in Int /\ Asks(n) \in Int
      BY AsksTypes DEF CountInv
    <3>3. QED
      BY <3>1, <3>2 DEF Asks, CountInv, TrafficInv
  <2>4. \A n \in Levels : /\ Uncounted(n)' <=> n = 1
                          /\ ~ Overcounted(n)'
    <3> TAKE n \in Levels
    <3>1. stack' # << >> /\ Len(stack') = 1 /\ Top' = g /\ stack'[1] = g
      BY <2>2 DEF Top, Last
    <3>2. ~ Recursive(1)'
      BY DEF Recursive
    <3>3. QED
      BY <2>2, <3>1, <3>2 DEF Uncounted, Overcounted
  <2>5. \A n \in Levels : Asks(n)' = Asks(n) + (IF n = 1 THEN 1 ELSE 0)
    BY <2>1, <2>3, <2>4 DEF Asks, CountInv, CallInv, DataOK
  <2>6. /\ 1 \in Levels
        /\ \A n \in 1 .. (Depth - 1) : n \in Levels /\ n + 1 \in Levels /\ n + 1 # 1
    BY HierarchyAssumption DEF Levels
  <2>7. Asks(1)' = requests'
    BY <2>1, <2>5, <2>6 DEF CountInv, TrafficInv
  <2>8. \A n \in Levels : Asks(n)' >= IF Uncounted(n)' THEN 1 ELSE 0
    BY <2>3, <2>4, <2>5
  <2>9. \A n \in 1 .. (Depth - 1) : ~ config'[n].write_through =>
          Asks(n + 1)' = stats'[n].miss_num + stats'[n].replace_num
    BY <2>1, <2>3, <2>5, <2>6 DEF CountInv, TrafficInv
  <2>10. QED
    BY <2>7, <2>8, <2>9 DEF TrafficInv
<1>3. QED
  BY <1>1, <1>2

(* The constructors start all counters at zero.                            *)
LEMMA CountInvInit ==
  ASSUME Init
  PROVE  CountInv
<1>1. CallInv
  BY CallInvInit
<1>2. \A n \in Levels : Asks(n) = 0 /\ ~ Uncounted(n)
  BY DEF Init, Asks, Uncounted, Overcounted
<1>3. 1 \in Levels /\ \A n \in 1 .. (Depth - 1) : n \in Levels /\ n + 1 \in Levels
  BY HierarchyAssumption DEF Levels
<1>4. \A n \in 1 .. (Depth - 1) : stats[n].miss_num + stats[n].replace_num = 0
  BY <1>3 DEF Init
<1>5. TrafficInv
  BY <1>2, <1>3, <1>4 DEF TrafficInv, Init
<1>6. QED
  BY <1>1, <1>5 DEF CountInv

(* Every step keeps the counts.                                            *)
LEMMA CountInvNext ==
  ASSUME CountInv, [Next]_vars
  PROVE  CountInv'
<1>1. CallInv'
  BY CallInvNext DEF CountInv
<1>2. TrafficInv'
  BY ReturningCounts, CallingCounts, ClientCounts DEF Next, Stopped
<1>3. QED
  BY <1>1, <1>2 DEF CountInv

(* The call stack is sound, every level counts what it is asked, and the   *)
(* one below a level that does not write through is asked what that missed *)
(* and replaced.                                                           *)
THEOREM CountsSound == Spec => []CountInv
<1>1. Init => CountInv
  BY CountInvInit
<1>2. CountInv /\ [Next]_vars => CountInv'
  BY CountInvNext
<1>3. QED
  BY <1>1, <1>2, PTL DEF Spec

(* What a level that does not write through writes back or misses is what  *)
(* the next one is asked.                                                  *)
THEOREM ExactTraffic == Spec => []TrafficExact
<1>1. CountInv => TrafficExact
  <2> SUFFICES ASSUME CountInv, pc = "idle"
               PROVE  /\ stats[1].access_counter = requests
                      /\ \A n \in 1 .. (Depth - 1) : ~ config[n].write_through =>
                           stats[n + 1].access_counter = Sent(n)
    BY DEF TrafficExact, Sent
  <2>1. stack = << >>
    BY DEF CountInv, CallInv, AnswerInv
  <2>2. \A n \in Levels : Asks(n) = stats[n].access_counter
    <3> TAKE n \in Levels
    <3>1. ~ Uncounted(n) /\ ~ Overcounted(n)
      BY <2>1 DEF Uncounted, Overcounted
    <3>2. stats[n].access_counter \in Int
      BY AsksTypes DEF CountInv
    <3>3. QED
      BY <3>1, <3>2 DEF Asks
  <2>3. 1 \in Levels /\ \A n \in 1 .. (Depth - 1) : n + 1 \in Levels
    BY HierarchyAssumption DEF Levels
  <2>4. QED
    BY <2>2, <2>3 DEF CountInv, TrafficInv, Sent
<1>2. QED
  BY <1>1, CountsSound, PTL

(* Every state of the hierarchy is well typed: no counter is negative.     *)
THEOREM TypeCorrect == Spec => []TypeOK
<1>1. CountInv => TypeOK
  <2> SUFFICES ASSUME CountInv PROVE TypeOK
    OBVIOUS
  <2>1. CallInv
    BY DEF CountInv
  <2>2. ASSUME NEW n \in Levels, NEW b \in BlocksOf(n)
        PROVE  LET block == blocks[n][b]
               IN /\ block.valid \in BOOLEAN /\ block.dirty \in BOOLEAN
                  /\ block.tag \in Nat /\ block.cnt \in Nat
                  /\ block.data \in [0 .. (NWords(n) - 1) -> Values]
    <3>1. blocks[n][b] \in BlockAt(n)
      BY <2>1 DEF CallInv, CachesOK
    <3>2. 0 .. (Geometry[n].associativity - 1) \subseteq Nat
      BY LevelBlocks
    <3>3. QED
      BY <3>1, <3>2 DEF BlockAt, Words
  <2>3. ASSUME NEW n \in Levels
        PROVE  stats[n] \in [access_counter : Nat, miss_num : Nat, replace_num : Nat]
    <3>1. stats[n] \in [access_counter : Int, miss_num : Nat, replace_num : Nat]
      BY <2>1 DEF CallInv, DataOK
    <3>2. Asks(n) >= IF Uncounted(n) THEN 1 ELSE 0
      BY DEF CountInv, TrafficInv
    <3>3. stats[n].access_counter \in Nat
      BY <3>1, <3>2 DEF Asks
    <3>4. QED
      BY <3>1, <3>3
  <2>4. QED
    BY <2>1, <2>2, <2>3 DEF TypeOK, CallInv, DataOK
<1>2. QED
  BY <1>1, CountsSound, PTL

-----------------------------------------------------------------------------
(* Sums of a function's first values.                                      *)

(* The sums that SumTo is the last of.                                     *)
LEMMA SumToUnfolds ==
  ASSUME NEW n \in Nat, NEW w \in [1 .. n -> Int]
  PROVE  \E sum \in [0 .. n -> Int] :
           /\ sum[0] = 0
           /\ \A k \in 1 .. n : sum[k] = sum[k - 1] + w[k]
           /\ SumTo(w, n) = sum[n]
<1> DEFINE Is(f, m) == f = [k \in 0 .. m |-> IF k = 0 THEN 0 ELSE f[k - 1] + w[k]]
           S == {m \in Nat : m <= n => \E f \in [0 .. m -> Int] : Is(f, m)}
<1>1. 0 \in S
  <2> DEFINE f == [k \in 0 .. 0 |-> 0]
  <2>1. f \in [0 .. 0 -> Int] /\ Is(f, 0)
    OBVIOUS
  <2>2. QED
    BY <2>1
<1>2. ASSUME NEW m \in Nat, m \in S PROVE m + 1 \in S
  <2>0. m + 1 \in Nat
    OBVIOUS
  <2> SUFFICES ASSUME m + 1 <= n PROVE \E f \in [0 .. (m + 1) -> Int] : Is(f, m + 1)
    BY <2>0, Zenon
  <2>1. PICK g \in [0 .. m -> Int] : Is(g, m)
    BY <1>2
  <2>2. w[m + 1] \in Int
    OBVIOUS
  <2> DEFINE f == [k \in 0 .. (m + 1) |-> IF k = m + 1 THEN g[m] + w[m + 1] ELSE g[k]]
  <2>3. f \in [0 .. (m + 1) -> Int]
    BY <2>2
  <2>4. \A k \in 0 .. m : g[k] = IF k = 0 THEN 0 ELSE g[k - 1] + w[k]
    BY <2>1
  <2>5. \A k \in 0 .. (m + 1) : f[k] = IF k = 0 THEN 0 ELSE f[k - 1] + w[k]
    <3> TAKE k \in 0 .. (m + 1)
    <3>1. CASE k = m + 1
      BY <3>1
    <3>2. CASE k \in 0 .. m
      <4>1. f[k] = g[k]
        BY <3>2
      <4>2. k # 0 => f[k - 1] = g[k - 1]
        BY <3>2
      <4>3. QED
        BY <2>4, <3>2, <4>1, <4>2
    <3>3. QED
      BY <3>1, <3>2
  <2>6. Is(f, m + 1)
    BY <2>3, <2>5
  <2>7. QED
    BY <2>3, <2>6
<1>3. n \in S
  <2> HIDE DEF S
  <2>1. Nat \subseteq S
    BY <1>1, <1>2, SetInduction
  <2>2. QED
    BY <2>1
<1>4. PICK f \in [0 .. n -> Int] : Is(f, n)
  BY <1>3
<1> DEFINE sum == CHOOSE g : Is(g, n)
<1>5. Is(sum, n)
  BY <1>4
<1>6. SumTo(w, n) = sum[n]
  BY DEF SumTo
<1> HIDE DEF sum
<1>7. sum = f
  <2>1. DOMAIN sum = 0 .. n /\ sum = [k \in 0 .. n |-> sum[k]]
    BY <1>5
  <2>2. \A k \in 0 .. n : sum[k] = IF k = 0 THEN 0 ELSE sum[k - 1] + w[k]
    BY <1>5
  <2>3. \A k \in 0 .. n : f[k] = IF k = 0 THEN 0 ELSE f[k - 1] + w[k]
    BY <1>4
  <2> DEFINE E == {k \in Nat : k <= n => sum[k] = f[k]}
  <2>4. 0 \in E
    BY <2>2, <2>3
  <2>5. ASSUME NEW k \in Nat, k \in E PROVE k + 1 \in E
    BY <2>2, <2>3, <2>5
  <2>6. Nat \subseteq E
    <3> HIDE DEF E
    <3>1. QED
      BY <2>4, <2>5, SetInduction
  <2>7. QED
    BY <2>1, <2>6
<1>8. \A k \in 0 .. n : f[k] = IF k = 0 THEN 0 ELSE f[k - 1] + w[k]
  BY <1>4
<1>9. f[0] = 0 /\ \A k \in 1 .. n : f[k] = f[k - 1] + w[k]
  BY <1>8
<1>10. SumTo(w, n) = f[n]
  BY <1>6, <1>7
<1>11. QED
  BY <1>9, <1>10

(* A sum of integers is an integer.                                        *)
LEMMA SumToInt ==
  ASSUME NEW n \in Nat, NEW w \in [1 .. n -> Int]
  PROVE  SumTo(w, n) \in Int
BY SumToUnfolds

(* Two sums agree up to the difference of one term.                        *)
LEMMA SumToDiffers ==
  ASSUME NEW n \in Nat, NEW w \in [1 .. n -> Int], NEW v \in [1 .. n -> Int],
         NEW j \in 1 .. n, NEW d \in Int,
         \A k \in 1 .. n : v[k] = w[k] + (IF k = j THEN d ELSE 0)
  PROVE  SumTo(v, n) = SumTo(w, n) + d
<1>1. PICK f \in [0 .. n -> Int] :
        /\ f[0] = 0
        /\ \A k \in 1 .. n : f[k] = f[k - 1] + w[k]
        /\ SumTo(w, n) = f[n]
  BY SumToUnfolds
<1>2. PICK g \in [0 .. n -> Int] :
        /\ g[0] = 0
        /\ \A k \in 1 .. n : g[k] = g[k - 1] + v[k]
        /\ SumTo(v, n) = g[n]
  BY SumToUnfolds
<1> DEFINE S == {m \in Nat : m <= n => g[m] = f[m] + (IF j \in 1 .. m THEN d ELSE 0)}
<1>3. 0 \in S
  BY <1>1, <1>2
<1>4. ASSUME NEW m \in Nat, m \in S PROVE m + 1 \in S
  <2> SUFFICES ASSUME m + 1 <= n
               PROVE  g[m + 1] = f[m + 1] + (IF j \in 1 .. (m + 1) THEN d ELSE 0)
    OBVIOUS
  <2>1. g[m] = f[m] + (IF j \in 1 .. m THEN d ELSE 0)
    BY <1>4
  <2>2. m + 1 \in 1 .. n /\ m \in 0 .. n /\ m + 1 - 1 = m
    OBVIOUS
  <2>3. /\ g[m + 1] = g[m] + v[m + 1] /\ f[m + 1] = f[m] + w[m + 1]
        /\ v[m + 1] = w[m + 1] + (IF m + 1 = j THEN d ELSE 0)
    <3>1. g[m + 1] = g[m] + v[m + 1]
      BY <1>2, <2>2
    <3>2. f[m + 1] = f[m] + w[m + 1]
      BY <1>1, <2>2
    <3>3. QED
      BY <2>2, <3>1, <3>2
  <2>4. f[m] \in Int /\ w[m + 1] \in Int
    BY <2>2
  <2>5. j \in 1 .. (m + 1) <=> j \in 1 .. m \/ m + 1 = j
    OBVIOUS
  <2>6. ~ (j \in 1 .. m /\ m + 1 = j)
    OBVIOUS
  <2>7. PICK a \in Int, b \in Int : a = f[m] /\ b = w[m + 1]
    BY <2>4
  <2>8. PICK e \in Int : /\ e = IF m + 1 = j THEN d ELSE 0
                         /\ v[m + 1] = b + e
    <3>1. (IF m + 1 = j THEN d ELSE 0) \in Int
      OBVIOUS
    <3>2. QED
      BY ONLY <2>3, <2>7, <3>1
  <2>9. PICK c \in Int : /\ c = IF j \in 1 .. m THEN d ELSE 0
                         /\ g[m] = a + c
    <3>1. (IF j \in 1 .. m THEN d ELSE 0) \in Int
      OBVIOUS
    <3>2. QED
      BY ONLY <2>1, <2>7, <3>1
  <2>10. f[m + 1] = a + b /\ g[m + 1] = (a + c) + (b + e)
    BY ONLY <2>3, <2>7, <2>8, <2>9
  <2>11. (a + c) + (b + e) = (a + b) + (c + e)
    BY ONLY a \in Int, b \in Int, c \in Int, e \in Int
  <2>12. c + e = IF j \in 1 .. (m + 1) THEN d ELSE 0
    <3>1. d + 0 = d /\ 0 + d = d /\ 0 + 0 = 0
      OBVIOUS
    <3>2. QED
      BY ONLY <2>5, <2>6, <2>8, <2>9, <3>1
  <2>13. QED
    BY ONLY <2>10, <2>11, <2>12
<1>5. n \in S
  <2> HIDE DEF S
  <2>1. Nat \subseteq S
    BY <1>3, <1>4, SetInduction
  <2>2. QED
    BY <2>1
<1>6. QED
  BY <1>1, <1>2, <1>5

(* Equal summands give equal sums.                                         *)
LEMMA SumToSame ==
  ASSUME NEW n \in Nat, NEW w \in [1 .. n -> Int], NEW v \in [1 .. n -> Int],
         \A k \in 1 .. n : v[k] = w[k]
  PROVE  SumTo(v, n) = SumTo(w, n)
<1>1. v = w
  OBVIOUS
<1>2. QED
  BY <1>1

(* A sum with one more summand.                                            *)
LEMMA SumToNext ==
  ASSUME NEW n \in Nat, NEW w \in [1 .. n -> Int], NEW v \in [1 .. (n + 1) -> Int],
         \A k \in 1 .. n : v[k] = w[k]
  PROVE  SumTo(v, n + 1) = SumTo(w, n) + v[n + 1]
<1>1. PICK f \in [0 .. n -> Int] :
        /\ f[0] = 0
        /\ \A k \in 1 .. n : f[k] = f[k - 1] + w[k]
        /\ SumTo(w, n) = f[n]
  BY SumToUnfolds
<1>2. n + 1 \in Nat
  OBVIOUS
<1>3. PICK g \in [0 .. (n + 1) -> Int] :
        /\ g[0] = 0
        /\ \A k \in 1 .. (n + 1) : g[k] = g[k - 1] + v[k]
        /\ SumTo(v, n + 1) = g[n + 1]
  BY ONLY <1>2, v \in [1 .. (n + 1) -> Int], SumToUnfolds
<1> DEFINE S == {m \in Nat : m <= n => g[m] = f[m]}
<1>4. 0 \in S
  BY <1>1, <1>3
<1>5. ASSUME NEW m \in Nat, m \in S PROVE m + 1 \in S
  <2> SUFFICES ASSUME m + 1 <= n PROVE g[m + 1] = f[m + 1]
    OBVIOUS
  <2>1. g[m] = f[m]
    BY <1>5
  <2>2. m + 1 \in 1 .. n /\ m + 1 \in 1 .. (n + 1) /\ m + 1 - 1 = m
    OBVIOUS
  <2>3. g[m + 1] = g[m] + v[m + 1] /\ f[m + 1] = f[m] + w[m + 1] /\ v[m + 1] = w[m + 1]
    BY <1>1, <1>3, <2>2
  <2>4. QED
    BY <2>1, <2>3
<1>6. n \in S
  <2> HIDE DEF S
  <2>1. Nat \subseteq S
    BY <1>4, <1>5, SetInduction
  <2>2. QED
    BY <2>1
<1>7. g[n + 1] = g[n] + v[n + 1]
  <2>1. n + 1 \in 1 .. (n + 1) /\ n + 1 - 1 = n
    OBVIOUS
  <2>2. QED
    BY <1>3, <2>1
<1>8. QED
  BY <1>1, <1>3, <1>6, <1>7

(* The empty sum.                                                          *)
LEMMA SumToZero ==
  ASSUME NEW w \in [1 .. 0 -> Int]
  PROVE  SumTo(w, 0) = 0
BY SumToUnfolds

(* A sum of zeros.                                                         *)
LEMMA SumOfZeros ==
  ASSUME NEW n \in Nat, NEW w \in [1 .. n -> Int], \A k \in 1 .. n : w[k] = 0
  PROVE  SumTo(w, n) = 0
<1>1. PICK f \in [0 .. n -> Int] :
        /\ f[0] = 0
        /\ \A k \in 1 .. n : f[k] = f[k - 1] + w[k]
        /\ SumTo(w, n) = f[n]
  BY SumToUnfolds
<1> DEFINE S == {m \in Nat : m <= n => f[m] = 0}
<1>2. 0 \in S
  BY <1>1
<1>3. ASSUME NEW m \in Nat, m \in S PROVE m + 1 \in S
  <2> SUFFICES ASSUME m + 1 <= n PROVE f[m + 1] = 0
    OBVIOUS
  <2>1. m + 1 \in 1 .. n /\ m + 1 - 1 = m /\ f[m] = 0
    BY <1>3
  <2>2. QED
    BY <1>1, <2>1
<1>4. n \in S
  <2> HIDE DEF S
  <2>1. Nat \subseteq S
    BY <1>2, <1>3, SetInduction
  <2>2. QED
    BY <2>1
<1>5. QED
  BY <1>1, <1>4

-----------------------------------------------------------------------------
(* The latency of a request.                                               *)

(* The time of each activation, the recursive ones' excepted: it is        *)
(* dropped.                                                                *)
Spent == [i \in 1 .. Len(stack) |-> IF Recursive(i) THEN 0 ELSE stack[i].time]

(* A latency for each request a level has got, the memory included.        *)
Latencies == [n \in Levels |-> Asks(n) * HitTime[n]]

(* What has been added up, what the activations hold and what has just been*)
(* returned are the latencies of all that was counted.                     *)
TimeInv ==
  WriteBackAllocate =>
    /\ \A i \in 1 .. Len(stack) : stack[i].at \notin {"through", "around"}
    /\ total_time + SumTo(Spent, Len(stack)) + Pending =
         SumTo(Latencies, Depth) + Sent(Depth) * HitTime[Depth + 1]

(* The inductive invariant of the time.                                    *)
LatencyInv == CountInv /\ TimeInv

(* The times are integers.                                                 *)
LEMMA TimeTypes ==
  ASSUME CountInv
  PROVE  /\ Spent \in [1 .. Len(stack) -> Int] /\ Len(stack) \in Nat
         /\ Pending \in Int
         /\ Latencies \in [1 .. Depth -> Int] /\ Depth \in Nat \ {0}
         /\ \A n \in 1 .. (Depth + 1) : HitTime[n] \in Int
         /\ Sent(Depth) \in Int /\ total_time \in Int
<1>1. CallInv
  BY DEF CountInv
<1>2. PICK L \in Nat : L = Len(stack)
  BY <1>1, LenProperties DEF CallInv, DataOK
<1>3. \A i \in 1 .. L : stack[i].time \in Int
  <2> TAKE i \in 1 .. L
  <2>1. stack[i] \in Frame
    BY <1>1, <1>2 DEF CallInv, StackInv, FrameOK
  <2>2. QED
    BY <2>1 DEF Frame
<1>4. Spent \in [1 .. L -> Int]
  BY <1>2, <1>3 DEF Spent
<1>5. \A n \in 1 .. (Depth + 1) : HitTime[n] \in Int
  BY HierarchyAssumption
<1>6. \A n \in Levels : Asks(n) * HitTime[n] \in Int
  <2> TAKE n \in Levels
  <2>1. Asks(n) \in Int
    BY <1>1, AsksTypes
  <2>2. n \in 1 .. (Depth + 1)
    BY HierarchyAssumption DEF Levels
  <2>3. QED
    BY <1>5, <2>1, <2>2
<1>7. Latencies \in [1 .. Depth -> Int]
  BY <1>6 DEF Latencies, Levels
<1>8. Sent(Depth) \in Int
  BY <1>1, HierarchyAssumption DEF Sent, Levels, CallInv, DataOK
<1>9. Pending \in Int
  BY <1>1 DEF Pending, CallInv, AnswerInv
<1>10. QED
  BY <1>1, <1>2, <1>4, <1>5, <1>7, <1>8, <1>9, HierarchyAssumption DEF CallInv, DataOK

(* What is spent below the activation on top.                              *)
SpentBelow == SumTo([i \in 1 .. (Len(stack) - 1) |-> Spent[i]], Len(stack) - 1)

(* The time in the stack, split at its top.                                *)
LEMMA SpentAtTop ==
  ASSUME CountInv, stack # << >>
  PROVE  /\ SpentBelow \in Int
         /\ SumTo(Spent, Len(stack)) =
              SpentBelow + (IF Recursive(Len(stack)) THEN 0 ELSE Top.time)
<1>1. PICK L \in Nat \ {0} : L = Len(stack) /\ Top = stack[L]
  BY TopOK DEF CountInv
<1> DEFINE w == [i \in 1 .. (L - 1) |-> Spent[i]]
<1>2. Spent \in [1 .. L -> Int]
  BY <1>1, TimeTypes
<1>3. w \in [1 .. (L - 1) -> Int] /\ \A k \in 1 .. (L - 1) : Spent[k] = w[k]
  BY <1>2
<1>4. L - 1 \in Nat /\ (L - 1) + 1 = L
  OBVIOUS
<1>5. SpentBelow = SumTo(w, L - 1)
  BY <1>1 DEF SpentBelow
<1> HIDE DEF w
<1>6. SumTo(w, L - 1) \in Int
  BY <1>3, <1>4, SumToInt
<1>7. SumTo(Spent, L) = SumTo(w, L - 1) + Spent[L]
  BY <1>2, <1>3, <1>4, SumToNext
<1>8. Spent[L] = IF Recursive(L) THEN 0 ELSE Top.time
  BY <1>1 DEF Spent
<1>9. QED
  BY <1>1, <1>5, <1>6, <1>7, <1>8

(* The time left in the stack by a return.                                 *)
LEMMA SpentReturned ==
  ASSUME CountInv, stack # << >>, Returned
  PROVE  SumTo(Spent', Len(stack')) = SpentBelow
<1>1. PICK L \in Nat \ {0} : L = Len(stack) /\ Top = stack[L]
  BY TopOK DEF CountInv
<1>2. /\ Len(stack') = L - 1
      /\ \A i \in 1 .. (L - 1) : stack'[i] = stack[i]
  BY <1>1 DEF Returned
<1>3. \A i \in 1 .. (L - 1) : Recursive(i)' <=> Recursive(i)
  BY <1>1, <1>2 DEF Recursive
<1>4. Spent' = [i \in 1 .. (L - 1) |-> Spent[i]]
  BY <1>1, <1>2, <1>3 DEF Spent
<1>5. QED
  BY <1>1, <1>2, <1>4 DEF SpentBelow

(* The time in the stack after a call.                                     *)
LEMMA SpentCalled ==
  ASSUME CountInv, stack # << >>, ~ Recursive(Len(stack)),
         NEW f \in Frame, NEW g \in Frame, Called(f, g)
  PROVE  SumTo(Spent', Len(stack')) =
           SpentBelow + f.time + (IF f.at = "again" THEN 0 ELSE g.time)
<1>1. PICK L \in Nat \ {0} : L = Len(stack) /\ Top = stack[L]
  BY TopOK DEF CountInv
<1>2. /\ Len(stack') = L + 1 /\ stack'[L] = f /\ stack'[L + 1] = g
      /\ \A i \in 1 .. (L - 1) : stack'[i] = stack[i]
  BY <1>1 DEF Called
<1>3. /\ \A i \in 1 .. L : Recursive(i)' <=> Recursive(i)
      /\ Recursive(L + 1)' <=> f.at = "again"
  BY <1>1, <1>2 DEF Recursive
<1>4. f.time \in Int /\ g.time \in Int
  BY DEF Frame
<1>5. Spent \in [1 .. L -> Int]
  BY <1>1, TimeTypes
<1> DEFINE u == [i \in 1 .. (L - 1) |-> Spent[i]]
           v == [i \in 1 .. L |-> IF i = L THEN f.time ELSE Spent[i]]
           w == [i \in 1 .. (L + 1) |->
                   IF i = L + 1 THEN (IF f.at = "again" THEN 0 ELSE g.time)
                   ELSE IF i = L THEN f.time ELSE Spent[i]]
<1>6. Spent' = w
  <2>1. ~ Recursive(L)
    BY <1>1
  <2>2. QED
    BY <1>1, <1>2, <1>3, <2>1 DEF Spent
<1>7. u \in [1 .. (L - 1) -> Int] /\ v \in [1 .. L -> Int] /\ w \in [1 .. (L + 1) -> Int]
  BY <1>4, <1>5
<1>8. /\ \A k \in 1 .. (L - 1) : v[k] = u[k]
      /\ \A k \in 1 .. L : w[k] = v[k]
      /\ v[L] = f.time /\ w[L + 1] = IF f.at = "again" THEN 0 ELSE g.time
  OBVIOUS
<1>9. SpentBelow = SumTo(u, L - 1)
  BY <1>1 DEF SpentBelow
<1> HIDE DEF u, v, w
<1>10. L - 1 \in Nat /\ (L - 1) + 1 = L
  OBVIOUS
<1>11. SumTo(v, L) = SumTo(u, L - 1) + f.time
  BY <1>7, <1>8, <1>10, SumToNext
<1>12. SumTo(w, L + 1) = SumTo(v, L) + (IF f.at = "again" THEN 0 ELSE g.time)
  BY <1>7, <1>8, SumToNext
<1>13. QED
  BY <1>2, <1>6, <1>9, <1>11, <1>12

(* A level is asked once more, or none is.                                 *)
LEMMA LatencyOfAsks ==
  ASSUME CountInv, NEW m \in Int, NEW d \in Int,
         \A n \in Levels : Asks(n)' = Asks(n) + (IF n = m THEN 1 ELSE 0),
         m \in Levels => d = HitTime[m], m \notin Levels => d = 0
  PROVE  SumTo(Latencies', Depth) = SumTo(Latencies, Depth) + d
<1>1. Latencies \in [1 .. Depth -> Int] /\ Depth \in Nat
  BY TimeTypes
<1>2. \A n \in Levels : Asks(n) \in Int /\ HitTime[n] \in Int
  <2>1. Levels \subseteq 1 .. (Depth + 1)
    BY HierarchyAssumption DEF Levels
  <2>2. QED
    BY <2>1, TimeTypes, AsksTypes DEF CountInv
<1>3. \A n \in Levels : Asks(n)' * HitTime[n] =
        Asks(n) * HitTime[n] + (IF n = m THEN d ELSE 0)
  <2> TAKE n \in Levels
  <2>1. CASE n = m
    <3>1. (Asks(n) + 1) * HitTime[n] = Asks(n) * HitTime[n] + HitTime[n]
      BY <1>2
    <3>2. QED
      BY <2>1, <3>1
  <2>2. CASE n # m
    <3>1. Asks(n)' = Asks(n) /\ Asks(n) * HitTime[n] \in Int
      BY <1>2, <2>2
    <3>2. QED
      BY <2>2, <3>1
  <2>3. QED
    BY <2>1, <2>2
<1>4. \A n \in 1 .. Depth : Latencies'[n] = Latencies[n] + (IF n = m THEN d ELSE 0)
  BY <1>3 DEF Latencies, Levels
<1>5. Latencies' = [n \in 1 .. Depth |-> Latencies'[n]]
  BY DEF Latencies, Levels
<1>6. Latencies' \in [1 .. Depth -> Int]
  BY <1>1, <1>4, <1>5
<1>7. SumTo(Latencies', Depth) =
        SumTo(Latencies, Depth) + (IF m \in Levels THEN d ELSE 0)
  <2>1. SumTo(Latencies, Depth) \in Int
    BY <1>1, SumToInt
  <2>2. CASE m \in Levels
    <3>1. m \in 1 .. Depth
      BY <2>2 DEF Levels
    <3>2. SumTo(Latencies', Depth) = SumTo(Latencies, Depth) + d
      BY ONLY <1>1, <1>4, <1>6, <3>1, d \in Int, SumToDiffers
    <3>3. QED
      BY <2>2, <3>2
  <2>3. CASE m \notin Levels
    <3>1. \A n \in 1 .. Depth : Latencies'[n] = Latencies[n]
      BY <1>1, <1>4, <2>3 DEF Levels
    <3>2. SumTo(Latencies', Depth) = SumTo(Latencies, Depth)
      BY ONLY <1>1, <1>6, <3>1, SumToSame
    <3>3. QED
      BY <2>1, <2>3, <3>2
  <2>4. QED
    BY <2>2, <2>3
<1>8. SumTo(Latencies, Depth) \in Int
  BY <1>1, SumToInt
<1>9. QED
  BY <1>7, <1>8

(* The activation on top returns the time it has spent.                    *)
LEMMA ReturnTime ==
  ASSUME LatencyInv, stack # << >>, NEW words, Returns(words, Top.time),
         UNCHANGED <<config, total_time>>,
         Pending = 0,
         \A n \in Levels : Asks(n)' = Asks(n) /\ Sent(n)' = Sent(n)
  PROVE  TimeInv'
<1> SUFFICES ASSUME WriteBackAllocate'
             PROVE  /\ \A i \in 1 .. Len(stack') : stack'[i].at \notin {"through", "around"}
                    /\ total_time' + SumTo(Spent', Len(stack')) + Pending' =
                         SumTo(Latencies', Depth) + Sent(Depth)' * HitTime[Depth + 1]
  BY DEF TimeInv
<1>1. CountInv /\ CallInv
  BY DEF LatencyInv, CountInv
<1>2. WriteBackAllocate
  BY DEF WriteBackAllocate
<1>3. PICK L \in Nat \ {0} : L = Len(stack) /\ Top = stack[L]
  BY <1>1, TopOK
<1>4. Returned
  BY <1>1, ReturnedBy
<1>5. /\ Len(stack') = L - 1 /\ stack' \in Seq(Frame)
      /\ \A i \in 1 .. (L - 1) : stack'[i] = stack[i]
  BY <1>3, <1>4 DEF Returned
<1>6. \A i \in 1 .. (L - 1) : stack'[i].at \notin {"through", "around"}
  BY <1>2, <1>3, <1>5 DEF LatencyInv, TimeInv
<1>7. Top.time \in Int
  <2>1. Top \in Frame
    BY <1>1, TopOK
  <2>2. QED
    BY <2>1 DEF Frame
<1>8. Pending' = IF Recursive(L) THEN 0 ELSE Top.time
  <2>1. ret' # Nothing /\ ret'.time = Top.time
    <3>1. ret' = [content |-> words, time |-> Top.time]
      BY DEF Returns
    <3>2. Nothing.time = -1 /\ Top.time >= 0
      <4>1. Top \in Frame
        BY <1>1, TopOK
      <4>2. QED
        BY <4>1 DEF Nothing, Frame
    <3>3. QED
      BY <3>1, <3>2
  <2>2. stack' # << >> /\ Top'.at = "again" <=> Recursive(L)
    <3>1. stack' # << >> <=> L > 1
      BY <1>3, <1>5, EmptySeq
    <3>2. L > 1 => Top' = stack[L - 1]
      BY <1>3, <1>5 DEF Top, Last
    <3>3. QED
      BY <3>1, <3>2 DEF Recursive
  <2>3. QED
    BY <2>1, <2>2 DEF Pending
<1>9. /\ SpentBelow \in Int
      /\ SumTo(Spent, Len(stack)) = SpentBelow + (IF Recursive(L) THEN 0 ELSE Top.time)
      /\ SumTo(Spent', Len(stack')) = SpentBelow
  BY <1>1, <1>3, <1>4, SpentAtTop, SpentReturned
<1>10. SumTo(Latencies', Depth) = SumTo(Latencies, Depth)
  <2>1. Latencies' = Latencies
    BY DEF Latencies
  <2>2. QED
    BY <2>1
<1>11. Sent(Depth)' = Sent(Depth)
  BY HierarchyAssumption DEF Levels
<1>12. /\ total_time \in Int /\ total_time' = total_time
  BY <1>1, TimeTypes
<1>13. total_time + SumTo(Spent, Len(stack)) + Pending =
         SumTo(Latencies, Depth) + Sent(Depth) * HitTime[Depth + 1]
  BY <1>2 DEF LatencyInv, TimeInv
<1> DEFINE rhs == SumTo(Latencies, Depth) + Sent(Depth) * HitTime[Depth + 1]
<1>14. total_time' + SumTo(Spent', Len(stack')) + Pending' = rhs
  <2>1. total_time + (SpentBelow + (IF Recursive(L) THEN 0 ELSE Top.time)) + 0 = rhs
    BY <1>9, <1>13
  <2> HIDE DEF rhs
  <2>2. QED
    BY <1>7, <1>8, <1>9, <1>12, <2>1
<1>15. QED
  BY <1>5, <1>6, <1>10, <1>11, <1>14

(* The activation on top adds the time that was returned to its own, and   *)
(* calls another, which starts with its own latency.                       *)
LEMMA CallTime ==
  ASSUME LatencyInv, stack # << >>, N \in Levels, ~ Recursive(Len(stack)),
         UNCHANGED <<config, total_time>>,
         NEW at \in {"evict", "refill", "again"},
         NEW b, NEW t \in Nat, t = Top.time + Pending,
         NEW addr, NEW read, NEW words,
         CallsOut(at, b, t, addr, read, words),
         \A n \in Levels :
           /\ Recounted(n)
           /\ Sent(n)' = Sent(n) + (IF n = N /\ at # "again" THEN 1 ELSE 0)
  PROVE  TimeInv'
<1> SUFFICES ASSUME WriteBackAllocate'
             PROVE  /\ \A i \in 1 .. Len(stack') : stack'[i].at \notin {"through", "around"}
                    /\ total_time' + SumTo(Spent', Len(stack')) + Pending' =
                         SumTo(Latencies', Depth) + Sent(Depth)' * HitTime[Depth + 1]
  BY DEF TimeInv
<1>1. CountInv /\ CallInv
  BY DEF LatencyInv, CountInv
<1>2. WriteBackAllocate
  BY DEF WriteBackAllocate
<1>3. PICK L \in Nat \ {0} : L = Len(stack) /\ Top = stack[L]
  BY <1>1, TopOK
<1>4. PICK f, g \in Frame :
        /\ f.level = N /\ f.at = at /\ f.time = t
        /\ g.at = "enter" /\ g.time = HitTime[g.level]
        /\ Calls(f, g) /\ Called(f, g) /\ ret' = Nothing
  BY <1>1, CalledBy
<1>5. /\ Len(stack') = L + 1 /\ stack'[L] = f /\ stack'[L + 1] = g
      /\ \A i \in 1 .. (L - 1) : stack'[i] = stack[i]
  BY <1>3, <1>4 DEF Called
<1>6. \A i \in 1 .. (L + 1) : stack'[i].at \notin {"through", "around"}
  <2> TAKE i \in 1 .. (L + 1)
  <2>1. \A j \in 1 .. (L - 1) : stack[j].at \notin {"through", "around"}
    BY <1>2, <1>3 DEF LatencyInv, TimeInv
  <2>2. CASE i \in 1 .. (L - 1)
    BY <1>5, <2>1, <2>2
  <2>3. CASE i \in {L, L + 1}
    BY <1>4, <1>5, <2>3
  <2>4. QED
    BY <2>2, <2>3
<1>7. /\ SpentBelow \in Int
      /\ SumTo(Spent, Len(stack)) = SpentBelow + Top.time
      /\ SumTo(Spent', Len(stack')) =
           SpentBelow + t + (IF at = "again" THEN 0 ELSE g.time)
  BY <1>1, <1>4, SpentAtTop, SpentCalled
<1>8. Pending' = 0 /\ Pending \in Int
  BY <1>1, <1>4, TimeTypes DEF Pending
<1>9. \A n \in Levels : /\ Uncounted(n)' <=> n = g.level /\ at # "again"
                        /\ Asks(n)' = Asks(n) + (IF Uncounted(n)' THEN 1 ELSE 0)
  BY <1>1, <1>4, UncountedNext, AsksOfLevel
<1>10. /\ N \in 1 .. Depth /\ N \in Int /\ Depth \in Nat \ {0}
       /\ \A n \in 1 .. (Depth + 1) : HitTime[n] \in Int
  BY <1>1, TimeTypes, HierarchyAssumption DEF Levels
<1>11. /\ total_time \in Int /\ Top.time \in Int /\ Sent(Depth) \in Int
       /\ SumTo(Latencies, Depth) \in Int
  <2>1. Top \in Frame
    BY <1>1, TopOK
  <2>2. SumTo(Latencies, Depth) \in Int
    BY <1>1, TimeTypes, SumToInt
  <2>3. QED
    BY <1>1, <2>1, <2>2, TimeTypes DEF Frame
<1>12. total_time + (SpentBelow + Top.time) + Pending =
         SumTo(Latencies, Depth) + Sent(Depth) * HitTime[Depth + 1]
  BY <1>2, <1>7 DEF LatencyInv, TimeInv
<1>13. CASE at = "again"
  <2>1. \A n \in Levels : Asks(n)' = Asks(n)
    BY <1>1, <1>9, <1>13, AsksTypes
  <2>2. Latencies' = Latencies
    BY <2>1 DEF Latencies
  <2>3. Sent(Depth)' = Sent(Depth)
    BY <1>10, <1>11, <1>13 DEF Levels
  <2> DEFINE rhs == SumTo(Latencies, Depth) + Sent(Depth) * HitTime[Depth + 1]
  <2>4. total_time + (SpentBelow + t) = rhs
    <3> HIDE DEF rhs
    <3>1. total_time + (SpentBelow + Top.time) + Pending = rhs
      BY <1>12 DEF rhs
    <3>2. QED
      BY <1>7, <1>8, <1>11, <3>1
  <2>5. total_time' + SumTo(Spent', Len(stack')) + Pending' = rhs
    <3> HIDE DEF rhs
    <3>1. QED
      BY <1>7, <1>8, <1>11, <1>13, <2>4
  <2>6. QED
    BY <1>5, <1>6, <2>2, <2>3, <2>5
<1>14. CASE at # "again"
  <2>1. g.level = N + 1 /\ N + 1 \in Int
    BY <1>4, <1>10, <1>14 DEF Calls
  <2>2. \A n \in Levels : Asks(n)' = Asks(n) + (IF n = N + 1 THEN 1 ELSE 0)
    BY <1>9, <1>14, <2>1
  <2>3. HitTime[N + 1] \in Int /\ g.time = HitTime[N + 1]
    BY <1>4, <1>10, <2>1
  <2>4. SumTo(Latencies', Depth) =
          SumTo(Latencies, Depth) + (IF N + 1 \in Levels THEN HitTime[N + 1] ELSE 0)
    <3>1. CASE N + 1 \in Levels
      BY <1>1, <2>1, <2>2, <2>3, <3>1, LatencyOfAsks
    <3>2. CASE N + 1 \notin Levels
      <4>1. PICK d \in Int : d = 0
        OBVIOUS
      <4>2. SumTo(Latencies', Depth) = SumTo(Latencies, Depth) + d
        BY <1>1, <2>1, <2>2, <3>2, <4>1, LatencyOfAsks
      <4>3. QED
        BY <3>2, <4>1, <4>2
    <3>3. QED
      BY <3>1, <3>2
  <2>5. Sent(Depth)' = Sent(Depth) + (IF N = Depth THEN 1 ELSE 0)
    BY <1>10, <1>14 DEF Levels
  <2>6. N + 1 \in Levels <=> N # Depth
    BY <1>10 DEF Levels
  <2>7. Sent(Depth)' * HitTime[Depth + 1] =
          Sent(Depth) * HitTime[Depth + 1]
          + (IF N = Depth THEN HitTime[Depth + 1] ELSE 0)
    <3>1. HitTime[Depth + 1] \in Int
      BY <1>10
    <3>2. (Sent(Depth) + 1) * HitTime[Depth + 1] =
            Sent(Depth) * HitTime[Depth + 1] + HitTime[Depth + 1]
      <4>1. \A x, y \in Int : (x + 1) * y = x * y + y
        OBVIOUS
      <4>2. QED
        BY <1>11, <3>1, <4>1
    <3>3. Sent(Depth) * HitTime[Depth + 1] \in Int /\ Sent(Depth) + 0 = Sent(Depth)
      BY <1>11, <3>1
    <3>4. QED
      BY <2>5, <3>2, <3>3
  <2> DEFINE p == Sent(Depth) * HitTime[Depth + 1]
             q == SumTo(Latencies, Depth)
             h == HitTime[N + 1]
  <2>8. p \in Int
    BY <1>10, <1>11
  <2>9. SumTo(Latencies', Depth) + Sent(Depth)' * HitTime[Depth + 1] = q + p + h
    <3>1. CASE N = Depth
      <4>1. SumTo(Latencies', Depth) = q + 0
        BY <2>4, <2>6, <3>1
      <4>2. Sent(Depth)' * HitTime[Depth + 1] = p + h
        BY <2>7, <3>1
      <4> HIDE DEF p, q, h
      <4>3. QED
        BY <1>11, <2>3, <2>8, <4>1, <4>2 DEF q, h
    <3>2. CASE N # Depth
      <4>1. SumTo(Latencies', Depth) = q + h
        BY <2>4, <2>6, <3>2
      <4>2. Sent(Depth)' * HitTime[Depth + 1] = p + 0
        BY <2>7, <3>2
      <4> HIDE DEF p, q, h
      <4>3. QED
        BY <1>11, <2>3, <2>8, <4>1, <4>2 DEF q, h
    <3>3. QED
      BY <3>1, <3>2
  <2>10. q \in Int /\ h \in Int /\ g.time = h
    BY <1>11, <2>3
  <2>11. total_time + (SpentBelow + Top.time) + Pending = q + p
    BY <1>12
  <2> HIDE DEF p, q, h
  <2>12. total_time + (SpentBelow + t + h) + 0 = q + p + h
    <3>1. PICK x, y, z, e \in Int :
            x = total_time /\ y = SpentBelow /\ z = Top.time /\ e = Pending
      BY <1>7, <1>8, <1>11
    <3>2. x + (y + z) + e = q + p /\ t = z + e
      BY ONLY <2>11, <3>1, t = Top.time + Pending
    <3>3. x + (y + t + h) + 0 = q + p + h
      BY ONLY <2>8, <2>10, <3>2, x \in Int, y \in Int, z \in Int, e \in Int
    <3>4. QED
      BY ONLY <3>1, <3>3
  <2>13. total_time' + SumTo(Spent', Len(stack')) + Pending' = q + p + h
    BY <1>7, <1>8, <1>14, <2>10, <2>12
  <2>14. QED
    BY <1>5, <1>6, <2>9, <2>13
<1>15. QED
  BY <1>13, <1>14

(* Steps that return keep the time.                                        *)
LEMMA ReturningTime ==
  ASSUME LatencyInv,
         MemoryServe \/ HitRead \/ HitWriteBack
         \/ ThroughDone \/ AroundDone \/ AgainDone
  PROVE  TimeInv'
<1>1. CountInv /\ CallInv
  BY DEF LatencyInv, CountInv
<1>2. /\ stack # << >> /\ Returned /\ UNCHANGED <<config, requests, total_time>>
      /\ \E words : Returns(words, Top.time)
      /\ ret = Nothing \/ Top.at \in {"through", "around", "again"}
      /\ \A n \in Levels : Recounted(n) /\ Sent(n)' = Sent(n)
  BY <1>1, ReturningFacts
<1>3. CASE ~ WriteBackAllocate
  BY <1>2, <1>3 DEF TimeInv, WriteBackAllocate
<1>4. CASE WriteBackAllocate
  <2>1. PICK L \in Nat \ {0} : L = Len(stack) /\ Top = stack[L]
    BY <1>1, <1>2, TopOK
  <2>2. Top.at \notin {"through", "around"}
    BY <1>4, <2>1 DEF LatencyInv, TimeInv
  <2>3. Pending = 0
    BY <1>2, <2>2 DEF Pending
  <2>4. \A n \in Levels : Asks(n)' = Asks(n)
    <3> TAKE n \in Levels
    <3>1. ~ Uncounted(n)' /\ Asks(n)' = Asks(n) + (IF Uncounted(n)' THEN 1 ELSE 0)
      BY <1>1, <1>2, UncountedNext, AsksOfLevel
    <3>2. QED
      BY <1>1, <3>1, AsksTypes
  <2>5. QED
    BY <1>2, <2>3, <2>4, ReturnTime
<1>5. QED
  BY <1>3, <1>4

(* Steps that call keep the time.                                          *)
LEMMA CallingTime ==
  ASSUME LatencyInv,
         HitWriteThrough \/ MissWriteAround \/ MissEvict
         \/ EvictDone \/ MissRefill \/ RefillDone
  PROVE  TimeInv'
<1>1. CountInv /\ CallInv
  BY DEF LatencyInv, CountInv
<1>2. /\ stack # << >> /\ N \in Levels /\ UNCHANGED <<config, requests, total_time>>
      /\ \A n \in Levels : Recounted(n)
      /\ \E at, t : Calling(at, t)
  BY <1>1, CallingFacts
<1>3. CASE ~ WriteBackAllocate
  BY <1>2, <1>3 DEF TimeInv, WriteBackAllocate
<1>4. CASE WriteBackAllocate
  <2>1. PICK at, t, b, addr, read, words :
          /\ CallsOut(at, b, t, addr, read, words)
          /\ at \in {"evict", "refill", "again"}
          /\ ~ Recursive(Len(stack))
          /\ t = Top.time + Pending
          /\ \A n \in Levels :
               Sent(n)' = Sent(n) + (IF n = N /\ at # "again" THEN 1 ELSE 0)
    BY <1>2, <1>4 DEF Calling, WriteBackAllocate
  <2>2. t \in Nat
    <3>1. Top.time \in Nat
      BY <1>1, <1>2, TopAtLevel
    <3>2. Pending \in Nat
      BY <1>1 DEF Pending, CallInv, AnswerInv
    <3>3. QED
      BY <2>1, <3>1, <3>2
  <2>3. QED
    BY <1>2, <2>1, <2>2, CallTime
<1>5. QED
  BY <1>3, <1>4

(* The steps of the client keep the time.                                  *)
LEMMA ClientTime ==
  ASSUME LatencyInv,
         WildAccess \/ Deliver \/ Return \/ UNCHANGED vars
         \/ \E r \in Request, v \in Values : Call(r, v)
  PROVE  TimeInv'
<1>1. CountInv /\ CallInv
  BY DEF LatencyInv, CountInv
<1>2. CASE WildAccess \/ Deliver \/ UNCHANGED vars
  <2>1. UNCHANGED <<stack, stats, config, ret, total_time>>
    BY <1>2 DEF WildAccess, Deliver, vars, storeVars, callVars
  <2>2. /\ Spent' = Spent /\ Pending' = Pending /\ Latencies' = Latencies
        /\ Sent(Depth)' = Sent(Depth)
    BY <2>1 DEF Spent, Pending, Latencies, Sent, Asks, Uncounted, Overcounted, Recursive, Top
  <2>3. QED
    BY <2>1, <2>2 DEF LatencyInv, TimeInv, WriteBackAllocate
<1>3. CASE Return
  <2>1. /\ UNCHANGED <<stack, stats, config>> /\ stack = << >> /\ ret # Nothing
        /\ ret' = Nothing /\ total_time' = total_time + ret.time
    BY <1>1, <1>3 DEF Return, storeVars, CallInv, AnswerInv
  <2>2. Spent' = Spent /\ Latencies' = Latencies /\ Sent(Depth)' = Sent(Depth)
    BY <2>1 DEF Spent, Latencies, Sent, Asks, Uncounted, Overcounted, Recursive, Top
  <2>3. Pending' = 0 /\ Pending = ret.time /\ Pending \in Int /\ total_time \in Int
    BY <1>1, <2>1, TimeTypes DEF Pending
  <2>4. SumTo(Spent, Len(stack)) \in Int
    BY <1>1, TimeTypes, SumToInt
  <2>5. total_time' + SumTo(Spent', Len(stack')) + Pending' =
          total_time + SumTo(Spent, Len(stack)) + Pending
    <3>1. PICK x, y, z \in Int : x = total_time /\ y = SumTo(Spent, Len(stack)) /\ z = Pending
      BY <2>3, <2>4
    <3>2. (x + z) + y + 0 = x + y + z
      OBVIOUS
    <3>3. total_time' = x + z /\ SumTo(Spent', Len(stack')) = y /\ Pending' = 0
      BY <2>1, <2>2, <2>3, <3>1
    <3>4. QED
      BY <3>1, <3>2, <3>3
  <2>6. QED
    BY <2>1, <2>2, <2>5 DEF LatencyInv, TimeInv, WriteBackAllocate
<1>4. ASSUME NEW r \in Request, NEW v \in Values, Call(r, v) PROVE TimeInv'
  <2>1. /\ stack = << >> /\ ret = Nothing /\ UNCHANGED <<stats, config, ret, total_time>>
    BY <1>1, <1>4 DEF Call, storeVars, CallInv, AnswerInv
  <2>2. PICK g : stack' = <<g>> /\ g.level = 1 /\ g.at = "enter" /\ g.time = HitTime[1]
    BY <1>4 DEF Call, Activation
  <2>3. 1 \in Levels /\ HitTime[1] \in Int
    BY HierarchyAssumption DEF Levels
  <2>4. \A n \in Levels : Asks(n)' = Asks(n) + (IF n = 1 THEN 1 ELSE 0)
    <3> TAKE n \in Levels
    <3>1. ~ Uncounted(n) /\ ~ Overcounted(n)
      BY <2>1 DEF Uncounted, Overcounted
    <3>2. stack' # << >> /\ Len(stack') = 1 /\ Top' = g /\ stack'[1] = g
      BY <2>2 DEF Top, Last
    <3>3. ~ Recursive(1)'
      BY DEF Recursive
    <3>4. (Uncounted(n)' <=> n = 1) /\ ~ Overcounted(n)'
      BY <2>2, <3>2, <3>3 DEF Uncounted, Overcounted
    <3>5. stats[n].access_counter \in Int
      BY <1>1, AsksTypes
    <3>6. QED
      BY <2>1, <3>1, <3>4, <3>5 DEF Asks
  <2>5. SumTo(Latencies', Depth) = SumTo(Latencies, Depth) + HitTime[1]
    BY <1>1, <2>3, <2>4, LatencyOfAsks
  <2>6. SumTo(Spent, Len(stack)) = 0 /\ Pending = 0 /\ Pending' = 0
    <3>1. Len(stack) = 0
      BY <2>1
    <3>2. Spent \in [1 .. 0 -> Int]
      BY <1>1, <3>1, TimeTypes
    <3>3. QED
      BY <2>1, <3>1, <3>2, SumToZero DEF Pending
  <2>7. SumTo(Spent', Len(stack')) = HitTime[1]
    <3>1. Len(stack') = 1 /\ stack'[1] = g
      BY <2>2
    <3>2. ~ Recursive(1)'
      BY DEF Recursive
    <3>3. Spent' = [i \in 1 .. 1 |-> HitTime[1]]
      BY <2>2, <3>1, <3>2 DEF Spent
    <3> DEFINE w == [i \in 1 .. 0 |-> 0]
               u == [i \in 1 .. 1 |-> HitTime[1]]
    <3>4. w \in [1 .. 0 -> Int] /\ u \in [1 .. (0 + 1) -> Int] /\ u[0 + 1] = HitTime[1]
          /\ \A k \in 1 .. 0 : u[k] = w[k]
      BY <2>3
    <3>5. Spent' = u
      BY <3>3
    <3> HIDE DEF w, u
    <3>6. SumTo(u, 0 + 1) = SumTo(w, 0) + HitTime[1] /\ SumTo(w, 0) = 0
      BY <3>4, SumToNext, SumToZero
    <3>7. QED
      BY <2>3, <3>1, <3>5, <3>6
  <2>8. \A i \in 1 .. Len(stack') : stack'[i].at \notin {"through", "around"}
    BY <2>2
  <2>9. Sent(Depth)' = Sent(Depth)
    BY <2>1 DEF Sent
  <2>10. WriteBackAllocate =>
           total_time' + SumTo(Spent', Len(stack')) + Pending' =
             SumTo(Latencies', Depth) + Sent(Depth)' * HitTime[Depth + 1]
    <3> SUFFICES ASSUME WriteBackAllocate
                 PROVE  total_time' + SumTo(Spent', Len(stack')) + Pending' =
                          SumTo(Latencies', Depth) + Sent(Depth)' * HitTime[Depth + 1]
      OBVIOUS
    <3>1. PICK x, y, p, h \in Int :
            /\ x = total_time /\ y = SumTo(Latencies, Depth)
            /\ p = Sent(Depth) * HitTime[Depth + 1] /\ h = HitTime[1]
      <4>1. HitTime[Depth + 1] \in Int /\ Sent(Depth) \in Int
        BY <1>1, TimeTypes
      <4>2. Sent(Depth) * HitTime[Depth + 1] \in Int
        BY <4>1
      <4>3. QED
        BY <1>1, <2>3, <4>2, TimeTypes, SumToInt
    <3>2. x + 0 + 0 = y + p
      BY <2>6, <3>1 DEF LatencyInv, TimeInv
    <3>3. x + h + 0 = (y + h) + p
      BY <3>2
    <3>4. QED
      BY <2>1, <2>5, <2>6, <2>7, <2>9, <3>1, <3>3
  <2>11. QED
    BY <2>1, <2>8, <2>10 DEF TimeInv, WriteBackAllocate
<1>5. QED
  BY <1>2, <1>3, <1>4

(* Nothing has been spent at the start.                                    *)
LEMMA LatencyInvInit ==
  ASSUME Init
  PROVE  LatencyInv
<1>1. CountInv
  BY CountInvInit
<1>2. stack = << >> /\ ret = Nothing /\ total_time = 0 /\ Len(stack) = 0
  BY DEF Init
<1>3. \A n \in Levels : Asks(n) = 0
  BY DEF Init, Asks, Uncounted, Overcounted
<1>4. Sent(Depth) = 0
  BY HierarchyAssumption DEF Init, Sent, Levels
<1>5. SumTo(Spent, Len(stack)) = 0
  <2>1. Spent \in [1 .. 0 -> Int]
    BY <1>1, <1>2, TimeTypes
  <2>2. QED
    BY <1>2, <2>1, SumToZero
<1>6. SumTo(Latencies, Depth) = 0
  <2>1. \A n \in 1 .. Depth : Latencies[n] = 0
    <3>1. \A n \in 1 .. Depth : HitTime[n] \in Nat
      BY HierarchyAssumption
    <3>2. QED
      BY <1>3, <3>1 DEF Latencies, Levels
  <2>2. QED
    BY <1>1, <2>1, TimeTypes, SumOfZeros
<1>7. Sent(Depth) * HitTime[Depth + 1] = 0
  BY <1>1, <1>4, TimeTypes
<1>8. QED
  BY <1>1, <1>2, <1>5, <1>6, <1>7 DEF LatencyInv, TimeInv, Pending

(* Every step keeps the time.                                              *)
LEMMA LatencyInvNext ==
  ASSUME LatencyInv, [Next]_vars
  PROVE  LatencyInv'
<1>1. CountInv'
  BY CountInvNext DEF LatencyInv
<1>2. TimeInv'
  BY ReturningTime, CallingTime, ClientTime DEF Next, Stopped
<1>3. QED
  BY <1>1, <1>2 DEF LatencyInv

(* With write back and allocate at every level, the client's total is a    *)
(* latency per access of each level and a memory latency per refill and    *)
(* write-back of the last cache.                                           *)
THEOREM ExactTime == Spec => []TimeExact
<1>1. Init => LatencyInv
  BY LatencyInvInit
<1>2. LatencyInv /\ [Next]_vars => LatencyInv'
  BY LatencyInvNext
<1>3. LatencyInv => TimeExact
  <2> SUFFICES ASSUME LatencyInv, pc = "idle", WriteBackAllocate
               PROVE  total_time =
                        SumTo([n \in Levels |-> stats[n].access_counter * HitTime[n]], Depth)
                        + (stats[Depth].miss_num + stats[Depth].replace_num) * HitTime[Depth + 1]
    BY DEF TimeExact, WriteBackAllocate
  <2>1. CountInv /\ CallInv
    BY DEF LatencyInv, CountInv
  <2>2. stack = << >> /\ ret = Nothing /\ Len(stack) = 0
    BY <2>1 DEF CallInv, AnswerInv
  <2>3. \A n \in Levels : Asks(n) = stats[n].access_counter
    <3> TAKE n \in Levels
    <3>1. ~ Uncounted(n) /\ ~ Overcounted(n)
      BY <2>2 DEF Uncounted, Overcounted
    <3>2. stats[n].access_counter \in Int
      BY <2>1, AsksTypes
    <3>3. QED
      BY <3>1, <3>2 DEF Asks
  <2>4. Latencies = [n \in Levels |-> stats[n].access_counter * HitTime[n]]
    BY <2>3 DEF Latencies
  <2>5. SumTo(Spent, Len(stack)) = 0 /\ Pending = 0
    <3>1. Spent \in [1 .. 0 -> Int]
      BY <2>1, <2>2, TimeTypes
    <3>2. QED
      BY <2>2, <3>1, SumToZero DEF Pending
  <2>6. total_time + 0 + 0 = SumTo(Latencies, Depth) + Sent(Depth) * HitTime[Depth + 1]
    BY <2>5 DEF LatencyInv, TimeInv
  <2>7. total_time \in Int
    BY <2>1, TimeTypes
  <2>8. QED
    BY <2>4, <2>6, <2>7 DEF Sent
<1>4. QED
  BY <1>1, <1>2, <1>3, PTL DEF Spec
=============================================================================
