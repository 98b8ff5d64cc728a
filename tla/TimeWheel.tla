----------------------------- MODULE TimeWheel -----------------------------
(***************************************************************************)
(* module/modules/timer/timingwheel.go: a wheel of slotNum slots, each a   *)
(* list of timers with the number of turns they still wait, turned one     *)
(* slot per interval. All state belongs to the goroutine of Start; callers *)
(* hand it tasks and keys over unbuffered channels, so a call is one step. *)
(*                                                                         *)
(* Time is counted in milliseconds, as getPositionAndCircle does; a tick   *)
(* is handled when it is due. Timers are named in the order in which they  *)
(* are added, which is also their order in the list of a slot.             *)
(***************************************************************************)
EXTENDS Integers

CONSTANTS
    MaxTimers,    \* bound: the timers that are ever added
    Keys,         \* identifiers passed to AddTimerCustom
    Delays,       \* delays in milliseconds
    SlotNum,
    Interval,     \* of the wheel, in milliseconds
    NoSlot

ASSUME WheelAssumption ==
    /\ MaxTimers \in Nat /\ SlotNum \in Nat \ {0} /\ Interval \in Nat \ {0}
    /\ Delays \subseteq Nat \ {0}
    /\ NoSlot \notin 0..(SlotNum - 1)
    /\ Keys \cap (1..MaxTimers) = {}

Ids == 1..MaxTimers

VARIABLES
    status,      \* of every timer: "new", "pending", "fired" or "removed"
    slot,        \* the slot whose list holds it
    circle,      \* the turns it still waits
    key,         \* its identifier; its own name stands for accumulator
    timer,       \* the map timer: the slot of every identifier
    currentPos,
    stopped,     \* Start has returned
    phase,       \* milliseconds since the last tick
    reused,      \* history: identifiers given away while in use
    late         \* history: the time since a timer was added, less its delay,
                 \* counted until it is over by more than an interval

wheelVars == <<status, slot, circle, key, timer>>
vars == <<wheelVars, currentPos, stopped, phase, reused, late>>

Pending == {i \in Ids : status[i] = "pending"}
InUse(k) == \E i \in Pending : key[i] = k

Init ==
    /\ status = [i \in Ids |-> "new"]
    /\ slot = [i \in Ids |-> NoSlot] /\ circle = [i \in Ids |-> 0]
    /\ key = [i \in Ids |-> i]
    /\ timer = [k \in Keys \cup Ids |-> NoSlot]
    /\ currentPos = 0 /\ stopped = FALSE /\ phase = 0 /\ reused = {}
    /\ late = [i \in Ids |-> 0]

-----------------------------------------------------------------------------
(* Mutants: the slot is counted from the start of the wheel; a tick may    *)
(* leave the wheel; the slot is the one after.                             *)
PositionAbsolute(d) == (d \div Interval) % SlotNum
PositionUnwrapped(d) == currentPos + d \div Interval
PositionNext(d) == (currentPos + d \div Interval + 1) % SlotNum

(* getPositionAndCircle.                                                   *)
Position(d) == (currentPos + d \div Interval) % SlotNum
Circle(d) == (d \div Interval) \div SlotNum

(* Nothing keeps a caller from using an identifier twice.                  *)
AddTask(i, k, d) ==
    /\ status' = [status EXCEPT ![i] = "pending"]
    /\ slot' = [slot EXCEPT ![i] = Position(d)]
    /\ circle' = [circle EXCEPT ![i] = Circle(d)]
    /\ key' = [key EXCEPT ![i] = k]
    /\ timer' = [timer EXCEPT ![k] = Position(d)]
    /\ reused' = IF InUse(k) THEN reused \cup {k} ELSE reused \ {k}
    /\ late' = [late EXCEPT ![i] = 0 - d]

(* AddTimer and AddTimerCustom; both refuse a delay that is not positive.  *)
Add(i, k, d) ==
    /\ ~stopped /\ status[i] = "new"
    /\ \A j \in 1..(i - 1) : status[j] # "new"
    /\ AddTask(i, k, d)
    /\ UNCHANGED <<currentPos, stopped, phase>>

(* The timers taken out of their lists.                                    *)
TakeOut(gone, result) ==
    /\ status' = [i \in Ids |-> IF i \in gone THEN result ELSE status[i]]
    /\ slot' = [i \in Ids |-> IF i \in gone THEN NoSlot ELSE slot[i]]
    /\ timer' = [k \in DOMAIN timer |->
                   IF \E i \in gone : key[i] = k THEN NoSlot ELSE timer[k]]
    /\ UNCHANGED key

(* The elements of the list of the slot that the loop of removeTask meets. *)
Found(k) == {i \in Pending : key[i] = k /\ slot[i] = timer[k]}
(* removeTask: the map gives the slot to search. The search ends with the  *)
(* first timer found, since an element that has left its list has no next  *)
(* one.                                                                    *)
RemoveTask(k) == TakeOut({i \in Found(k) : \A j \in Found(k) : i <= j}, "removed")

(* RemoveTimer. An identifier AddTimer has made is not known to callers.   *)
Remove(k) ==
    /\ ~stopped /\ RemoveTask(k)
    /\ UNCHANGED <<circle, currentPos, stopped, phase, reused, late>>

(* Mutant: the map keeps the identifier of a timer that fired.             *)
ScanKeepsKey(due) ==
    /\ status' = [i \in Ids |-> IF i \in due THEN "fired" ELSE status[i]]
    /\ slot' = [i \in Ids |-> IF i \in due THEN NoSlot ELSE slot[i]]
    /\ UNCHANGED <<key, timer>>

(* Of scanAndRunTask: what is due leaves the list and the map; its job     *)
(* runs in a goroutine of its own.                                         *)
Scan(due) == TakeOut(due, "fired")

(* Mutant: a timer of a later turn loses none of its turns.                *)
TickForgetsTurn ==
    /\ currentPos' = IF currentPos = SlotNum - 1 THEN 0 ELSE currentPos + 1
    /\ UNCHANGED circle
    /\ Scan({i \in Pending : slot[i] = currentPos /\ circle[i] = 0})

(* tickHandler and scanAndRunTask.                                         *)
TickHandler ==
    LET here == {i \in Pending : slot[i] = currentPos}
        due == {i \in here : circle[i] = 0} IN
    /\ currentPos' = IF currentPos = SlotNum - 1 THEN 0 ELSE currentPos + 1
    /\ circle' = [i \in Ids |-> IF i \in here \ due THEN circle[i] - 1 ELSE circle[i]]
    /\ Scan(due)

Elapse ==
    /\ ~stopped
    /\ phase' = (phase + 1) % Interval
    /\ late' = [i \in Ids |-> IF i \in Pending /\ late[i] <= Interval
                              THEN late[i] + 1 ELSE late[i]]
    /\ IF phase' = 0 THEN TickHandler ELSE UNCHANGED <<wheelVars, currentPos>>
    /\ UNCHANGED <<stopped, reused>>

(* Stop, or closeSig.                                                      *)
Stop ==
    /\ ~stopped /\ stopped' = TRUE
    /\ UNCHANGED <<wheelVars, currentPos, phase, reused, late>>

Next == \/ \E i \in Ids, d \in Delays : \E k \in Keys \cup {i} : Add(i, k, d)
        \/ \E k \in Keys : Remove(k)
        \/ Elapse \/ Stop

(* The ticker keeps ticking.                                               *)
Spec == Init /\ [][Next]_vars
FairSpec == Spec /\ WF_vars(Elapse)

-----------------------------------------------------------------------------
TypeOK ==
    /\ status \in [Ids -> {"new", "pending", "fired", "removed"}]
    /\ slot \in [Ids -> 0..(SlotNum - 1) \cup {NoSlot}]
    /\ circle \in [Ids -> Nat]
    /\ key \in [Ids -> Keys \cup Ids]
    /\ timer \in [Keys \cup Ids -> 0..(SlotNum - 1) \cup {NoSlot}]
    /\ currentPos \in 0..(SlotNum - 1)
    /\ stopped \in BOOLEAN /\ phase \in 0..(Interval - 1)
    /\ reused \subseteq Keys \cup Ids /\ late \in [Ids -> Int]

(* An identifier in the map timer leads to a pending timer in the list of  *)
(* that slot, and every pending timer whose identifier was not given away  *)
(* while it was in use is found that way.                                  *)
TableExact ==
    /\ \A k \in Keys \cup Ids : timer[k] # NoSlot => Found(k) # {}
    /\ \A i \in Pending : key[i] \in reused \/ i \in Found(key[i])

(* A job runs less than an interval before its delay is over, and at most  *)
(* one after it: the delay is rounded down to ticks, and counts from the   *)
(* next tick.                                                              *)
FiresOnTime ==
    \A i \in Ids : status[i] = "fired" => late[i] \in (1 - Interval)..Interval

(* Every timer fires, unless it is removed or the wheel stopped.           *)
AllFire == \A i \in Ids : status[i] = "pending" ~> status[i] # "pending" \/ stopped

(* The wheel implements Timers: what is left to wait follows from slot,    *)
(* turns and the position of the wheel.                                    *)
Distance(i) == IF slot[i] >= currentPos THEN slot[i] - currentPos
               ELSE slot[i] - currentPos + SlotNum
Left == [i \in Ids |-> IF status[i] = "pending"
                       THEN circle[i] * SlotNum + Distance(i) ELSE 0]
T == INSTANCE Timers WITH left <- Left, Ticks <- {d \div Interval : d \in Delays}
ImplementsTimers == T!TSpec
=============================================================================
