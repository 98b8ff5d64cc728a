--------------------------- MODULE TimeWheelProofs ---------------------------
(***************************************************************************)
(* The time wheel for any number of slots, any interval, any delays and    *)
(* any number of timers: its table is exact, its jobs run on time, and it  *)
(* implements Timers. Everything about time rests on one number, Left(i),  *)
(* the ticks that slot, turns and position of the wheel leave to a timer:  *)
(* Add sets it to the delay in ticks, a tick lowers it by one, and a timer *)
(* is due when it is zero.                                                 *)
(***************************************************************************)
EXTENDS TimeWheel, TLAPS

(* Arithmetic that the provers do not find within a larger step.           *)
LEMMA Division ==
  ASSUME NEW x \in Nat, NEW n \in Nat \ {0}
  PROVE  /\ x \div n \in Nat /\ x % n \in 0 .. (n - 1)
         /\ x = (x \div n) * n + (x % n)
OBVIOUS

(* Turns times slots: one turn less is SlotNum ticks less.                 *)
LEMMA ProductPositive ==
  ASSUME NEW a \in Nat, NEW n \in Nat \ {0}
  PROVE  a * n \in Nat /\ (a # 0 => a * n >= n) /\ (a - 1) * n = a * n - n
OBVIOUS

(* One tick more, at a remainder lower by a tick, is the same time.        *)
LEMMA OneMore ==
  ASSUME NEW a \in Int, NEW n \in Int, NEW x \in Int
  PROVE  (a + 1) * n + (x - n) = a * n + x
OBVIOUS

(* Quotient and remainder are the only ones there are.                     *)
LEMMA RemainderUnique ==
  ASSUME NEW n \in Nat \ {0}, NEW a \in Int, NEW b \in Int,
         NEW r \in 0 .. (n - 1), NEW s \in 0 .. (n - 1), a * n + r = b * n + s
  PROVE  r = s
<1>1. (a - b) * n = s - r
  OBVIOUS
<1>2. CASE a - b >= 1
  <2>1. (a - b) * n >= n
    BY <1>2
  <2> QED
    BY <1>1, <2>1
<1>3. CASE b - a >= 1
  <2>1. (b - a) * n >= n
    BY <1>3
  <2> QED
    BY <1>1, <2>1
<1> QED
  BY <1>1, <1>2, <1>3

(* The clock of the next tick.                                             *)
LEMMA NextPhase ==
  ASSUME NEW n \in Nat \ {0}, NEW p \in 0 .. (n - 1)
  PROVE  (p + 1) % n = IF p = n - 1 THEN 0 ELSE p + 1
<1>1. CASE p = n - 1
  <2>1. n % n = 0
    OBVIOUS
  <2> QED
    BY <1>1, <2>1
<1>2. CASE p + 1 < n
  BY <1>2
<1> QED
  BY <1>1, <1>2

(* Going b slots on from slot c, with q ticks of which b remain after      *)
(* whole turns.                                                            *)
LEMMA Wrap ==
  ASSUME NEW n \in Nat \ {0}, NEW c \in 0 .. (n - 1), NEW q \in Nat
  PROVE  (c + q) % n = IF c + (q % n) < n THEN c + (q % n) ELSE c + (q % n) - n
<1> DEFINE b == q % n
           a == q \div n
           f == (c + q) \div n
           r == (c + q) % n
<1>1. b \in 0 .. (n - 1) /\ a \in Nat /\ q = a * n + b
  BY Division
<1>2. c + q \in Nat
  OBVIOUS
<1>3. r \in 0 .. (n - 1) /\ f \in Nat /\ c + q = f * n + r
  BY <1>2, Division, Zenon
<1> HIDE DEF a, b, f, r
<1>4. CASE c + b < n
  <2>1. a * n + (c + b) = f * n + r
    BY <1>1, <1>3
  <2>2. c + b = r
    BY <1>1, <1>3, <1>4, <2>1, RemainderUnique
  <2> QED
    BY <1>4, <2>2 DEF b, r
<1>5. CASE c + b >= n
  <2>1. a * n + (c + b) = f * n + r
    BY <1>1, <1>3
  <2>2. (a + 1) * n + (c + b - n) = a * n + (c + b)
    BY <1>1, OneMore
  <2>3. a + 1 \in Int /\ f \in Int /\ c + b - n \in 0 .. (n - 1)
    BY <1>1, <1>3, <1>5
  <2>4. (a + 1) * n + (c + b - n) = f * n + r
    BY <2>1, <2>2, Zenon
  <2>5. c + b - n = r
    BY <1>3, <2>3, <2>4, RemainderUnique, Zenon
  <2> QED
    BY <1>1, <1>5, <2>5 DEF b, r
<1> QED
  BY <1>1, <1>4, <1>5
-----------------------------------------------------------------------------
(* Exactly the pending timers are in a list. An identifier is the caller's *)
(* or the timer's own, and two pending timers share one only if it was     *)
(* given away while in use.                                                *)
Lists ==
    /\ \A i \in Ids : status[i] = "pending" <=> slot[i] # NoSlot
    /\ \A i \in Ids : key[i] \in Keys \cup {i}
    /\ \A i, j \in Pending : i # j /\ key[i] = key[j] => key[i] \in reused

(* How late a pending timer will be when it runs: the time until the next  *)
(* tick and the ticks left to it after that one are still to come.         *)
Lateness(i) == late[i] + (Interval - phase) + Left[i] * Interval
WillFireOnTime == \A i \in Pending : Lateness(i) \in (1 - Interval) .. Interval

IndInv == TypeOK /\ Lists /\ TableExact /\ WillFireOnTime /\ FiresOnTime
-----------------------------------------------------------------------------
(* What Left is, and what the operations do to it.                         *)

(* The slot and the turns of getPositionAndCircle.                         *)
LEMMA PositionType ==
  ASSUME TypeOK, NEW d \in Delays
  PROVE  /\ d \div Interval \in Nat /\ Circle(d) \in Nat
         /\ Position(d) \in 0 .. (SlotNum - 1) /\ Position(d) # NoSlot
<1>1. d \in Nat /\ Interval \in Nat \ {0} /\ SlotNum \in Nat \ {0} /\ currentPos \in Nat
  BY WheelAssumption DEF TypeOK
<1>2. d \div Interval \in Nat
  BY <1>1, Division, Zenon
<1>3. currentPos + d \div Interval \in Nat
  BY <1>1, <1>2
<1>4. (currentPos + d \div Interval) % SlotNum \in 0 .. (SlotNum - 1)
  BY <1>1, <1>3, Division, Zenon
<1>5. (d \div Interval) \div SlotNum \in Nat
  BY <1>1, <1>2, Division, Zenon
<1> QED
  BY <1>2, <1>4, <1>5, WheelAssumption, Zenon DEF Position, Circle

(* The distance of the slot is the remainder of the ticks: with the turns  *)
(* it makes up the delay.                                                  *)
LEMMA PositionDistance ==
  ASSUME TypeOK, NEW d \in Delays
  PROVE  Circle(d) * SlotNum + (IF Position(d) >= currentPos
                                THEN Position(d) - currentPos
                                ELSE Position(d) - currentPos + SlotNum)
         = d \div Interval
<1> DEFINE q == d \div Interval
<1>1. q \in Nat /\ SlotNum \in Nat \ {0} /\ currentPos \in 0 .. (SlotNum - 1)
  BY PositionType, WheelAssumption DEF TypeOK
<1> HIDE DEF q
<1>2. /\ q \div SlotNum \in Nat /\ q % SlotNum \in 0 .. (SlotNum - 1)
      /\ q = (q \div SlotNum) * SlotNum + (q % SlotNum)
  BY <1>1, Division
<1>3. (currentPos + q) % SlotNum = IF currentPos + (q % SlotNum) < SlotNum
                                   THEN currentPos + (q % SlotNum)
                                   ELSE currentPos + (q % SlotNum) - SlotNum
  BY <1>1, Wrap, Zenon
<1> DEFINE p == (currentPos + q) % SlotNum
<1>4. (IF p >= currentPos THEN p - currentPos ELSE p - currentPos + SlotNum)
      = q % SlotNum
  BY <1>1, <1>2, <1>3
<1> QED
  BY <1>2, <1>4 DEF Position, Circle, q

(* Left is a number of ticks.                                              *)
LEMMA LeftType ==
  ASSUME TypeOK, Lists, NEW i \in Ids
  PROVE  /\ Left[i] \in Nat /\ Left \in [Ids -> Nat]
         /\ i \in Pending => Distance(i) \in 0 .. (SlotNum - 1)
<1>1. ASSUME NEW j \in Ids, j \in Pending
      PROVE  Distance(j) \in 0 .. (SlotNum - 1) /\ circle[j] * SlotNum \in Nat
  <2>1. slot[j] \in 0 .. (SlotNum - 1) /\ circle[j] \in Nat
    BY <1>1 DEF TypeOK, Lists, Pending
  <2>2. circle[j] * SlotNum \in Nat
    BY <2>1, ProductPositive, WheelAssumption
  <2> QED
    BY <2>1, <2>2, WheelAssumption DEF TypeOK, Distance
<1>2. \A j \in Ids : Left[j] \in Nat
  BY <1>1, WheelAssumption DEF Left, Pending
<1> QED
  BY <1>1, <1>2 DEF Left

(* Add gives the timer its delay in ticks, and leaves the others alone.    *)
LEMMA LeftAdd ==
  ASSUME TypeOK, Lists, NEW i \in Ids, NEW k \in Keys \cup {i}, NEW d \in Delays,
         Add(i, k, d)
  PROVE  Left' = [Left EXCEPT ![i] = d \div Interval]
<1>1. /\ status' = [status EXCEPT ![i] = "pending"]
      /\ slot' = [slot EXCEPT ![i] = Position(d)]
      /\ circle' = [circle EXCEPT ![i] = Circle(d)] /\ currentPos' = currentPos
  BY DEF Add, AddTask
<1>2. Left'[i] = d \div Interval
  <2>1. status'[i] = "pending" /\ slot'[i] = Position(d) /\ circle'[i] = Circle(d)
    BY <1>1 DEF TypeOK
  <2>2. Left'[i] = circle'[i] * SlotNum + (IF slot'[i] >= currentPos
                                           THEN slot'[i] - currentPos
                                           ELSE slot'[i] - currentPos + SlotNum)
    BY <1>1, <2>1 DEF Left, Distance
  <2> QED
    BY <2>1, <2>2, PositionDistance
<1>3. ASSUME NEW j \in Ids, j # i PROVE Left'[j] = Left[j]
  BY <1>1, <1>3 DEF TypeOK, Left, Distance
<1> QED
  BY <1>2, <1>3 DEF Left

(* A timer that is taken out has nothing left; the others do not move.     *)
LEMMA LeftRemove ==
  ASSUME TypeOK, Lists, NEW k \in Keys, Remove(k),
         NEW gone \in SUBSET Pending, TakeOut(gone, "removed")
  PROVE  Left' = [i \in Ids |-> IF i \in gone THEN 0 ELSE Left[i]]
<1>1. /\ status' = [i \in Ids |-> IF i \in gone THEN "removed" ELSE status[i]]
      /\ slot' = [i \in Ids |-> IF i \in gone THEN NoSlot ELSE slot[i]]
      /\ circle' = circle /\ currentPos' = currentPos
  BY DEF Remove, TakeOut
<1>2. ASSUME NEW i \in Ids
      PROVE  Left'[i] = IF i \in gone THEN 0 ELSE Left[i]
  BY <1>1, <1>2 DEF TypeOK, Left, Distance
<1> QED
  BY <1>2 DEF Left

(* The timers of scanAndRunTask.                                           *)
Here == {i \in Pending : slot[i] = currentPos}
Due == {i \in Here : circle[i] = 0}

(* A timer is due exactly when nothing is left to it.                      *)
LEMMA DueIsZero ==
  ASSUME TypeOK, Lists, NEW i \in Pending
  PROVE  i \in Due <=> Left[i] = 0
<1>1. /\ i \in Ids /\ slot[i] \in 0 .. (SlotNum - 1) /\ circle[i] \in Nat
      /\ currentPos \in 0 .. (SlotNum - 1) /\ SlotNum \in Nat \ {0}
  BY WheelAssumption DEF TypeOK, Lists, Pending
<1>2. Left[i] = circle[i] * SlotNum + Distance(i)
  BY <1>1 DEF Left, Pending
<1>3. Distance(i) \in 0 .. (SlotNum - 1) /\ (Distance(i) = 0 <=> slot[i] = currentPos)
  BY <1>1 DEF Distance
<1>4. circle[i] * SlotNum \in Nat /\ (circle[i] # 0 => circle[i] * SlotNum >= SlotNum)
  BY <1>1, ProductPositive
<1>5. CASE circle[i] = 0
  BY <1>1, <1>2, <1>3, <1>5 DEF Due, Here
<1>6. CASE circle[i] # 0
  BY <1>1, <1>2, <1>3, <1>4, <1>6 DEF Due, Here
<1> QED
  BY <1>5, <1>6

(* A tick takes one from every timer that goes on.                         *)
LEMMA LeftTick ==
  ASSUME TypeOK, Lists, TickHandler
  PROVE  /\ status' = [i \in Ids |-> IF i \in Due THEN "fired" ELSE status[i]]
         /\ Left' = [i \in Ids |-> IF status'[i] = "pending" THEN Left[i] - 1 ELSE 0]
<1>1. /\ status' = [i \in Ids |-> IF i \in Due THEN "fired" ELSE status[i]]
      /\ slot' = [i \in Ids |-> IF i \in Due THEN NoSlot ELSE slot[i]]
      /\ circle' = [i \in Ids |-> IF i \in Here \ Due THEN circle[i] - 1 ELSE circle[i]]
      /\ currentPos' = IF currentPos = SlotNum - 1 THEN 0 ELSE currentPos + 1
  BY DEF TickHandler, Scan, TakeOut, Here, Due
<1>2. ASSUME NEW i \in Ids, status'[i] = "pending" PROVE Left'[i] = Left[i] - 1
  <2>1. i \in Pending /\ i \notin Due /\ slot'[i] = slot[i]
    BY <1>1, <1>2 DEF Pending
  <2>2. /\ slot[i] \in 0 .. (SlotNum - 1) /\ circle[i] \in Nat
        /\ currentPos \in 0 .. (SlotNum - 1) /\ SlotNum \in Nat \ {0}
    BY <2>1, WheelAssumption DEF TypeOK, Lists, Pending
  <2>3. /\ Left[i] = circle[i] * SlotNum + Distance(i)
        /\ Left'[i] = circle'[i] * SlotNum + Distance(i)'
    BY <1>2, <2>1 DEF Left, Pending
  <2>4. circle[i] * SlotNum \in Nat /\ (circle[i] - 1) * SlotNum = circle[i] * SlotNum - SlotNum
    BY <2>2, ProductPositive
  <2>5. CASE i \in Here
    <3>1. Distance(i) = 0 /\ circle'[i] = circle[i] - 1
      BY <1>1, <2>1, <2>2, <2>5 DEF Here, Distance
    <3>2. Distance(i)' = SlotNum - 1
      BY <1>1, <2>1, <2>2, <2>5 DEF Here, Distance
    <3> QED
      BY <2>2, <2>3, <2>4, <3>1, <3>2
  <2>6. CASE i \notin Here
    <3>1. circle'[i] = circle[i] /\ slot[i] # currentPos
      BY <1>1, <2>1, <2>6 DEF Here
    <3>2. Distance(i)' = Distance(i) - 1 /\ Distance(i) \in Nat
      BY <1>1, <2>1, <2>2, <3>1 DEF Distance
    <3> QED
      BY <2>3, <2>4, <3>1, <3>2
  <2> QED
    BY <2>5, <2>6
<1>3. ASSUME NEW i \in Ids, status'[i] # "pending" PROVE Left'[i] = 0
  BY <1>3 DEF Left
<1> QED
  BY <1>1, <1>2, <1>3 DEF Left

-----------------------------------------------------------------------------
(* removeTask takes out timers of its identifier, or none.                 *)
LEMMA RemoveTakesOut ==
  ASSUME NEW k \in Keys, Remove(k)
  PROVE  \E gone \in SUBSET Pending :
            /\ TakeOut(gone, "removed")
            /\ gone = {i \in Found(k) : \A j \in Found(k) : i <= j}
            /\ \A i \in gone : key[i] = k
BY DEF Remove, RemoveTask, Found

(* The types, one step per action.                                         *)
LEMMA TypeStep == TypeOK /\ Lists /\ [Next]_vars => TypeOK'
<1> SUFFICES ASSUME TypeOK, Lists, [Next]_vars PROVE TypeOK'
  OBVIOUS
<1> USE WheelAssumption DEF TypeOK
<1>1. ASSUME NEW i \in Ids, NEW d \in Delays, NEW k \in Keys \cup {i}, Add(i, k, d)
      PROVE  TypeOK'
  <2>1. Position(d) \in 0 .. (SlotNum - 1) /\ Circle(d) \in Nat /\ 0 - d \in Int
    BY PositionType
  <2> QED
    BY <1>1, <2>1 DEF Add, AddTask
<1>2. ASSUME NEW gone \in SUBSET Pending, NEW result \in {"fired", "removed"},
             TakeOut(gone, result)
      PROVE  /\ status' \in [Ids -> {"new", "pending", "fired", "removed"}]
             /\ slot' \in [Ids -> 0..(SlotNum - 1) \cup {NoSlot}]
             /\ timer' \in [Keys \cup Ids -> 0..(SlotNum - 1) \cup {NoSlot}]
             /\ key' \in [Ids -> Keys \cup Ids]
  BY <1>2 DEF TakeOut
<1>3. ASSUME NEW k \in Keys, Remove(k) PROVE TypeOK'
  <2>1. PICK gone \in SUBSET Pending : TakeOut(gone, "removed")
    BY <1>3, RemoveTakesOut
  <2> QED
    BY <1>2, <1>3, <2>1 DEF Remove
<1>4. CASE Elapse
  <2>1. phase' \in 0 .. (Interval - 1)
    <3>1. phase + 1 \in Nat /\ Interval \in Nat \ {0}
      OBVIOUS
    <3> QED
      BY <1>4, <3>1, Division DEF Elapse
  <2>2. late' \in [Ids -> Int]
    BY <1>4 DEF Elapse
  <2>3. CASE phase' = 0
    <3>1. TickHandler
      BY <1>4, <2>3 DEF Elapse
    <3>2. Due \in SUBSET Pending /\ TakeOut(Due, "fired")
      BY <3>1 DEF TickHandler, Scan, Due, Here
    <3>3. circle' \in [Ids -> Nat]
      BY <3>1 DEF TickHandler
    <3>4. currentPos' \in 0 .. (SlotNum - 1)
      BY <3>1 DEF TickHandler
    <3> QED
      BY <1>2, <1>4, <2>1, <2>2, <3>2, <3>3, <3>4 DEF Elapse
  <2>4. CASE phase' # 0
    BY <1>4, <2>1, <2>2, <2>4 DEF Elapse, wheelVars
  <2> QED
    BY <2>3, <2>4
<1>5. CASE Stop
  BY <1>5 DEF Stop, wheelVars
<1>6. CASE UNCHANGED vars
  BY <1>6 DEF vars, wheelVars
<1> QED
  BY <1>1, <1>3, <1>4, <1>5, <1>6 DEF Next

(* The table when timers are taken out: what else has their identifier is  *)
(* among the ones given away while in use.                                 *)
LEMMA TakeOutKeepsTable ==
  ASSUME TypeOK, Lists, TableExact, NEW gone \in SUBSET Pending,
         NEW result \in {"fired", "removed"}, TakeOut(gone, result), reused' = reused
  PROVE  Lists' /\ TableExact'
<1>1. /\ \A i \in Ids : /\ status'[i] = IF i \in gone THEN result ELSE status[i]
                        /\ slot'[i] = IF i \in gone THEN NoSlot ELSE slot[i]
      /\ \A k \in Keys \cup Ids :
            timer'[k] = IF \E i \in gone : key[i] = k THEN NoSlot ELSE timer[k]
      /\ key' = key
  BY DEF TypeOK, TakeOut
<1>2. Pending' = Pending \ gone
  BY <1>1 DEF Pending
<1>3. Lists'
  BY <1>1, <1>2 DEF Lists, Pending
<1>4. ASSUME NEW k \in Keys \cup Ids, timer'[k] # NoSlot PROVE Found(k)' # {}
  <2>1. timer[k] # NoSlot /\ timer'[k] = timer[k] /\ \A i \in gone : key[i] # k
    BY <1>1, <1>4
  <2>2. PICK i \in Found(k) : TRUE
    BY <2>1 DEF TableExact
  <2>3. i \in Found(k)'
    BY <1>1, <1>2, <2>1, <2>2 DEF Found, Pending
  <2> QED
    BY <2>3
<1>5. ASSUME NEW i \in Pending', key'[i] \notin reused' PROVE (i \in Found(key[i]))'
  <2>1. i \in Pending /\ i \notin gone /\ key[i] \notin reused /\ key[i] \in Keys \cup Ids
    BY <1>1, <1>2, <1>5 DEF TypeOK, Pending
  <2>2. slot[i] = timer[key[i]]
    BY <2>1 DEF TableExact, Found
  <2>3. \A j \in gone : key[j] # key[i]
    BY <2>1 DEF Lists
  <2>4. timer'[key[i]] = timer[key[i]] /\ slot'[i] = slot[i]
    BY <1>1, <2>1, <2>3 DEF Pending
  <2> QED
    BY <1>1, <1>2, <2>1, <2>2, <2>4 DEF Found
<1>6. TableExact'
  BY <1>1, <1>4, <1>5 DEF TableExact
<1> QED
  BY <1>3, <1>6

(* The lists and the table under every action.                             *)
LEMMA TableStep == TypeOK /\ Lists /\ TableExact /\ [Next]_vars => Lists' /\ TableExact'
<1> SUFFICES ASSUME TypeOK, Lists, TableExact, [Next]_vars PROVE Lists' /\ TableExact'
  OBVIOUS
<1>1. ASSUME NEW i \in Ids, NEW d \in Delays, NEW k \in Keys \cup {i}, Add(i, k, d)
      PROVE  Lists' /\ TableExact'
  <2>1. Position(d) # NoSlot /\ i \notin Pending /\ k \in Keys \cup Ids
    BY <1>1, PositionType DEF Add, Pending
  <2>2. /\ status'[i] = "pending" /\ slot'[i] = Position(d) /\ key'[i] = k
        /\ timer'[k] = Position(d)
        /\ \A j \in Ids \ {i} : /\ status'[j] = status[j] /\ slot'[j] = slot[j]
                                /\ key'[j] = key[j]
        /\ \A l \in (Keys \cup Ids) \ {k} : timer'[l] = timer[l]
        /\ Pending' = Pending \cup {i}
    BY <1>1 DEF Add, AddTask, TypeOK, Pending
  <2>3. /\ \A j \in Pending : key[j] = k => k \in reused'
        /\ \A l \in Keys \cup Ids : l # k => (l \in reused' <=> l \in reused)
    BY <1>1 DEF Add, AddTask, InUse
  <2>4. \A j \in Ids : key[j] \in Keys \cup Ids
    BY DEF TypeOK
  <2>5. Lists'
    <3>1. \A j \in Ids : status'[j] = "pending" <=> slot'[j] # NoSlot
      BY <2>1, <2>2 DEF Lists
    <3>2. \A j \in Ids : key'[j] \in Keys \cup {j}
      BY <2>2 DEF Lists
    <3>3. ASSUME NEW j \in Pending', NEW l \in Pending', j # l, key'[j] = key'[l]
          PROVE  key'[j] \in reused'
      BY <2>1, <2>2, <2>3, <2>4, <3>3 DEF Lists, Pending
    <3> QED
      BY <3>1, <3>2, <3>3 DEF Lists
  <2>6. ASSUME NEW l \in Keys \cup Ids, timer'[l] # NoSlot PROVE Found(l)' # {}
    <3>1. CASE l = k
      <4>1. i \in Found(l)'
        BY <2>2, <3>1 DEF Found
      <4> QED
        BY <4>1
    <3>2. CASE l # k
      <4>1. PICK j \in Found(l) : TRUE
        BY <2>2, <2>6, <3>2 DEF TableExact
      <4>2. j \in Found(l)'
        BY <2>1, <2>2, <3>2, <4>1 DEF Found, Pending
      <4> QED
        BY <4>2
    <3> QED
      BY <3>1, <3>2
  <2>7. ASSUME NEW j \in Pending', key'[j] \notin reused' PROVE (j \in Found(key[j]))'
    <3>1. CASE j = i
      BY <2>2, <3>1 DEF Found
    <3>2. CASE j # i
      <4>1. j \in Pending /\ key'[j] = key[j] /\ key[j] # k /\ key[j] \notin reused
        BY <2>2, <2>3, <2>4, <2>7, <3>2 DEF Pending
      <4>2. slot[j] = timer[key[j]]
        BY <4>1 DEF TableExact, Found
      <4> QED
        BY <2>2, <2>4, <3>2, <4>1, <4>2 DEF Found, Pending
    <3> QED
      BY <3>1, <3>2
  <2> QED
    BY <2>5, <2>6, <2>7 DEF TableExact
<1>2. ASSUME NEW k \in Keys, Remove(k) PROVE Lists' /\ TableExact'
  <2>1. PICK gone \in SUBSET Pending : TakeOut(gone, "removed")
    BY <1>2, RemoveTakesOut
  <2> QED
    BY <1>2, <2>1, TakeOutKeepsTable DEF Remove
<1>3. ASSUME Elapse, phase' = 0 PROVE Lists' /\ TableExact'
  <2>1. Due \in SUBSET Pending /\ TakeOut(Due, "fired") /\ reused' = reused
    BY <1>3 DEF Elapse, TickHandler, Scan, Due, Here
  <2> QED
    BY <2>1, TakeOutKeepsTable
<1>4. ASSUME UNCHANGED <<wheelVars, reused>> PROVE Lists' /\ TableExact'
  BY <1>4 DEF wheelVars, Lists, TableExact, Found, Pending
<1> QED
  BY <1>1, <1>2, <1>3, <1>4 DEF Next, Elapse, Stop, vars

-----------------------------------------------------------------------------
(* Lateness is right when a timer is added, and a millisecond leaves it as *)
(* it is: it brings the next tick nearer by what it adds to late.          *)
LEMMA TimeStep == IndInv /\ [Next]_vars => WillFireOnTime' /\ FiresOnTime'
<1> SUFFICES ASSUME IndInv, [Next]_vars PROVE WillFireOnTime' /\ FiresOnTime'
  OBVIOUS
<1>0. /\ TypeOK /\ Lists /\ Interval \in Nat \ {0} /\ phase \in 0 .. (Interval - 1)
      /\ \A i \in Ids : late[i] \in Int /\ Left[i] \in Nat
      /\ \A i \in Ids : Left[i] * Interval \in Nat
  <2>1. TypeOK /\ Lists /\ Interval \in Nat \ {0} /\ phase \in 0 .. (Interval - 1)
    BY WheelAssumption DEF IndInv, TypeOK
  <2>2. \A i \in Ids : late[i] \in Int /\ Left[i] \in Nat
    BY <2>1, LeftType DEF TypeOK
  <2> QED
    BY <2>1, <2>2, ProductPositive
<1>1. ASSUME NEW i \in Ids, NEW d \in Delays, NEW k \in Keys \cup {i}, Add(i, k, d)
      PROVE  WillFireOnTime' /\ FiresOnTime'
  <2>1. /\ Left' = [Left EXCEPT ![i] = d \div Interval] /\ phase' = phase
        /\ late' = [late EXCEPT ![i] = 0 - d]
        /\ status' = [status EXCEPT ![i] = "pending"]
    BY <1>0, <1>1, LeftAdd DEF Add, AddTask
  <2>2. /\ late'[i] = 0 - d /\ Left'[i] = d \div Interval /\ status'[i] = "pending"
        /\ \A j \in Ids \ {i} : /\ late'[j] = late[j] /\ Left'[j] = Left[j]
                                /\ status'[j] = status[j]
    BY <1>0, <2>1 DEF TypeOK, Left
  <2>3. Lateness(i)' \in (1 - Interval) .. Interval
    <3>1. /\ d \in Nat /\ d \div Interval \in Nat /\ d % Interval \in 0 .. (Interval - 1)
          /\ d = (d \div Interval) * Interval + (d % Interval)
      BY <1>0, WheelAssumption, Division
    <3>2. Lateness(i)' = (0 - d) + (Interval - phase) + (d \div Interval) * Interval
      BY <2>1, <2>2 DEF Lateness
    <3>3. Lateness(i)' = Interval - phase - (d % Interval)
      BY <1>0, <3>1, <3>2
    <3> QED
      BY <1>0, <3>1, <3>3
  <2>4. ASSUME NEW j \in Pending', j # i
        PROVE  Lateness(j)' \in (1 - Interval) .. Interval
    <3>1. j \in Pending /\ Lateness(j)' = Lateness(j)
      BY <2>1, <2>2, <2>4 DEF Pending, Lateness
    <3> QED
      BY <3>1 DEF IndInv, WillFireOnTime
  <2>5. FiresOnTime'
    BY <2>2 DEF IndInv, FiresOnTime
  <2> QED
    BY <2>3, <2>4, <2>5 DEF WillFireOnTime
<1>2. ASSUME NEW k \in Keys, Remove(k) PROVE WillFireOnTime' /\ FiresOnTime'
  <2>1. PICK gone \in SUBSET Pending : TakeOut(gone, "removed")
    BY <1>2, RemoveTakesOut
  <2>2. /\ Left' = [i \in Ids |-> IF i \in gone THEN 0 ELSE Left[i]]
        /\ late' = late /\ phase' = phase
        /\ \A i \in Ids : status'[i] = IF i \in gone THEN "removed" ELSE status[i]
    BY <1>0, <1>2, <2>1, LeftRemove DEF Remove, TakeOut
  <2>3. ASSUME NEW j \in Pending' PROVE j \in Pending /\ Lateness(j)' = Lateness(j)
    BY <2>2, <2>3 DEF Pending, Lateness
  <2> QED
    BY <2>2, <2>3 DEF IndInv, WillFireOnTime, FiresOnTime
<1>3. ASSUME Elapse PROVE WillFireOnTime' /\ FiresOnTime'
  <2>1. ASSUME NEW i \in Pending PROVE late'[i] = late[i] + 1
    <3>1. late[i] \in Int /\ Lateness(i) \in (1 - Interval) .. Interval /\ i \in Ids
      BY <1>0, <2>1 DEF IndInv, WillFireOnTime, Pending
    <3>2. late[i] <= Interval
      BY <1>0, <3>1 DEF Lateness
    <3> QED
      BY <1>3, <3>1, <3>2 DEF Elapse
  <2>2. \A i \in Ids \ Pending : late'[i] = late[i]
    BY <1>3 DEF Elapse
  <2>3. CASE phase' = 0
    <3>1. phase = Interval - 1
      BY <1>0, <1>3, <2>3, NextPhase DEF Elapse
    <3>2. /\ status' = [i \in Ids |-> IF i \in Due THEN "fired" ELSE status[i]]
          /\ Left' = [i \in Ids |-> IF status'[i] = "pending" THEN Left[i] - 1 ELSE 0]
      BY <1>0, <1>3, <2>3, LeftTick DEF Elapse
    <3>3. ASSUME NEW i \in Pending'
          PROVE  i \in Pending /\ Lateness(i)' = Lateness(i)
      <4>1. i \in Pending /\ i \in Ids /\ Left'[i] = Left[i] - 1
        BY <3>2, <3>3 DEF Pending
      <4>2. (Left[i] - 1) * Interval = Left[i] * Interval - Interval
        BY <1>0, <4>1, ProductPositive
      <4> QED
        BY <1>0, <2>1, <2>3, <3>1, <4>1, <4>2 DEF Lateness
    <3>4. ASSUME NEW i \in Due PROVE late'[i] \in (1 - Interval) .. Interval
      <4>1. i \in Pending /\ i \in Ids
        BY <3>4 DEF Due, Here, Pending
      <4>2. Left[i] = 0
        BY <1>0, <3>4, <4>1, DueIsZero
      <4>3. Lateness(i) = late[i] + 1 /\ Lateness(i) \in (1 - Interval) .. Interval
        BY <1>0, <3>1, <4>1, <4>2 DEF IndInv, WillFireOnTime, Lateness
      <4> QED
        BY <2>1, <4>1, <4>3
    <3>5. FiresOnTime'
      BY <2>2, <3>2, <3>4 DEF IndInv, FiresOnTime, Pending
    <3> QED
      BY <3>3, <3>5 DEF IndInv, WillFireOnTime
  <2>4. CASE phase' # 0
    <3>1. phase' = phase + 1
      BY <1>0, <1>3, <2>4, NextPhase DEF Elapse
    <3>2. UNCHANGED <<wheelVars, currentPos>>
      BY <1>3, <2>4 DEF Elapse
    <3>3. Left' = Left /\ status' = status /\ Pending' = Pending
      BY <3>2 DEF wheelVars, Left, Distance, Pending
    <3>4. ASSUME NEW i \in Pending PROVE Lateness(i)' = Lateness(i)
      <4>1. i \in Ids
        BY DEF Pending
      <4> QED
        BY <1>0, <2>1, <3>1, <3>3, <4>1 DEF Lateness
    <3> QED
      BY <2>2, <3>3, <3>4 DEF IndInv, WillFireOnTime, FiresOnTime, Pending
  <2> QED
    BY <2>3, <2>4
<1>4. ASSUME Stop \/ UNCHANGED vars PROVE WillFireOnTime' /\ FiresOnTime'
  <2>1. UNCHANGED <<wheelVars, currentPos, phase, late>>
    BY <1>4 DEF Stop, vars
  <2> QED
    BY <2>1 DEF wheelVars, IndInv, WillFireOnTime, FiresOnTime, Lateness, Left,
                Distance, Pending
<1> QED
  BY <1>1, <1>2, <1>3, <1>4 DEF Next

-----------------------------------------------------------------------------
(* The three facts about IndInv.                                           *)
LEMMA Start == Init => IndInv
<1> SUFFICES ASSUME Init PROVE IndInv
  OBVIOUS
<1> USE WheelAssumption DEF Init
<1>1. TypeOK
  <2>1. currentPos \in 0 .. (SlotNum - 1) /\ phase \in 0 .. (Interval - 1) /\ 0 \in Nat
    OBVIOUS
  <2>2. reused \subseteq Keys \cup Ids /\ stopped \in BOOLEAN
    OBVIOUS
  <2>3. key \in [Ids -> Keys \cup Ids] /\ late \in [Ids -> Int] /\ circle \in [Ids -> Nat]
    OBVIOUS
  <2> QED
    BY <2>1, <2>2, <2>3 DEF TypeOK
<1>2. Pending = {} /\ Lists
  BY DEF Pending, Lists
<1>3. TableExact /\ WillFireOnTime /\ FiresOnTime
  BY <1>2 DEF TableExact, WillFireOnTime, FiresOnTime
<1> QED
  BY <1>1, <1>2, <1>3 DEF IndInv

(* Every step of the wheel keeps IndInv.                                   *)
LEMMA Step == IndInv /\ [Next]_vars => IndInv'
BY TypeStep, TableStep, TimeStep DEF IndInv

(* IndInv always holds.                                                    *)
LEMMA Invariance == Spec => []IndInv
BY Start, Step, PTL DEF Spec

(* The wheel keeps its types: in particular currentPos and every slot that *)
(* getPositionAndCircle computes are slots of the wheel.                   *)
THEOREM TypeCorrect == Spec => []TypeOK
<1>1. IndInv => TypeOK
  BY DEF IndInv
<1> QED
  BY Invariance, <1>1, PTL

(* The map timer leads to pending timers only, and to each of them unless  *)
(* its identifier was given away while in use.                             *)
THEOREM Table == Spec => []TableExact
<1>1. IndInv => TableExact
  BY DEF IndInv
<1> QED
  BY Invariance, <1>1, PTL

(* A job runs less than an interval before its delay is over and at most   *)
(* an interval after it.                                                   *)
THEOREM OnTime == Spec => []FiresOnTime
<1>1. IndInv => FiresOnTime
  BY DEF IndInv
<1> QED
  BY Invariance, <1>1, PTL

-----------------------------------------------------------------------------
(* The wheel implements Timers, one step per action.                       *)
LEMMA RefinesInit == Init => T!TInit
BY DEF Init, T!TInit, Left

(* AddTimerCustom starts a countdown of as many ticks as the delay has.    *)
LEMMA RefinesAdd ==
  ASSUME IndInv, NEW i \in Ids, NEW d \in Delays, NEW k \in Keys \cup {i}, Add(i, k, d)
  PROVE  T!TNext
<1>1. Left' = [Left EXCEPT ![i] = d \div Interval]
  BY LeftAdd DEF IndInv
<1>2. T!Named(k) # {} <=> InUse(k)
  BY DEF T!Named, InUse, Pending
<1>3. T!TAdd(i, k, d \div Interval)
  BY <1>1, <1>2 DEF T!TAdd, Add, AddTask
<1> QED
  BY <1>3 DEF T!TNext

(* A removed identifier that was never given away while in use names one   *)
(* timer, which is the one the search finds.                               *)
LEMMA RefinesRemove ==
  ASSUME IndInv, NEW k \in Keys, Remove(k)
  PROVE  T!TNext
<1>1. PICK gone \in SUBSET Pending :
         /\ TakeOut(gone, "removed")
         /\ gone = {i \in Found(k) : \A j \in Found(k) : i <= j}
         /\ \A i \in gone : key[i] = k
  BY RemoveTakesOut
<1>2. gone \in SUBSET T!Named(k)
  BY <1>1 DEF T!Named, Pending
<1>3. ASSUME k \notin reused PROVE gone = T!Named(k)
  <2>1. ASSUME NEW i \in T!Named(k) PROVE i \in gone
    <3>1. i \in Pending /\ key[i] = k /\ i \in Int
      BY <2>1 DEF T!Named, Pending, Ids
    <3>2. i \in Found(k)
      BY <1>3, <3>1 DEF IndInv, TableExact
    <3>3. \A j \in Found(k) : j = i
      BY <1>3, <3>1 DEF IndInv, Lists, Found
    <3> QED
      BY <1>1, <3>1, <3>2, <3>3
  <2> QED
    BY <1>2, <2>1
<1>4. Left' = [i \in Ids |-> IF i \in gone THEN 0 ELSE Left[i]]
  BY <1>1, LeftRemove DEF IndInv
<1>5. T!TRemove(k)
  BY <1>1, <1>2, <1>3, <1>4 DEF T!TRemove, Remove, TakeOut
<1> QED
  BY <1>5 DEF T!TNext

(* A millisecond in which no tick is due is a step of the clock; the tick  *)
(* lowers every countdown, and runs those that are at their end.           *)
LEMMA RefinesElapse ==
  ASSUME IndInv, Elapse
  PROVE  T!TNext \/ UNCHANGED T!tvars
<1>1. CASE phase' = 0
  <2>1. TickHandler
    BY <1>1 DEF Elapse
  <2>2. /\ status' = [i \in Ids |-> IF i \in Due THEN "fired" ELSE status[i]]
        /\ Left' = [i \in Ids |-> IF status'[i] = "pending" THEN Left[i] - 1 ELSE 0]
    BY <2>1, LeftTick DEF IndInv
  <2>3. \A i \in Ids : i \in Due <=> status[i] = "pending" /\ Left[i] = 0
    BY DueIsZero DEF IndInv, Due, Here, Pending
  <2>4. status' = [i \in Ids |-> IF status[i] = "pending" /\ Left[i] = 0
                                 THEN "fired" ELSE status[i]]
    BY <2>2, <2>3
  <2>5. T!TTick
    BY <2>1, <2>2, <2>4 DEF T!TTick, Elapse, TickHandler, Scan, TakeOut
  <2> QED
    BY <2>5 DEF T!TNext
<1>2. CASE phase' # 0
  BY <1>2 DEF Elapse, wheelVars, T!tvars, Left, Distance
<1> QED
  BY <1>1, <1>2

(* The time wheel implements Timers: with Left for the ticks a timer still *)
(* waits, every step of the wheel is a step of Timers or changes nothing   *)
(* there.                                                                  *)
THEOREM Refinement == Spec => ImplementsTimers
<1>1. IndInv /\ [Next]_vars => [T!TNext]_(T!tvars)
  <2> SUFFICES ASSUME IndInv, [Next]_vars PROVE T!TNext \/ UNCHANGED T!tvars
    OBVIOUS
  <2>1. CASE Stop
    BY <2>1 DEF Stop, wheelVars, T!TNext, T!TStop, Left, Distance
  <2>2. CASE UNCHANGED vars
    BY <2>2 DEF vars, wheelVars, T!tvars, Left, Distance
  <2> QED
    BY <2>1, <2>2, RefinesAdd, RefinesRemove, RefinesElapse DEF Next
<1> QED
  BY RefinesInit, Invariance, <1>1, PTL DEF Spec, ImplementsTimers, T!TSpec
=============================================================================
