------------------------------- MODULE Timers -------------------------------
(***************************************************************************)
(* What the time wheel of module/modules/timer promises, without a wheel:  *)
(* a timer counts down with every tick, runs its job when nothing is left, *)
(* and does not run it once it was removed. Removing an identifier that    *)
(* was never given away while in use finds every timer it names.           *)
(***************************************************************************)
EXTENDS Integers

CONSTANTS
    Ids,      \* the timers that are ever added
    Keys,     \* the identifiers callers pass to AddTimerCustom
    Ticks     \* the delays, in ticks

VARIABLES
    status,   \* "new", "pending", "fired" or "removed"
    left,     \* the ticks a pending timer still has to wait
    key,      \* its identifier; its own name if the caller gave none
    reused,   \* the identifiers given away while they were in use
    stopped

tvars == <<status, left, key, reused, stopped>>

Named(k) == {i \in Ids : status[i] = "pending" /\ key[i] = k}

TInit ==
    /\ status = [i \in Ids |-> "new"] /\ left = [i \in Ids |-> 0]
    /\ key = [i \in Ids |-> i] /\ reused = {} /\ stopped = FALSE

TAdd(i, k, n) ==
    /\ ~stopped /\ status[i] = "new"
    /\ status' = [status EXCEPT ![i] = "pending"]
    /\ left' = [left EXCEPT ![i] = n] /\ key' = [key EXCEPT ![i] = k]
    /\ reused' = IF Named(k) # {} THEN reused \cup {k} ELSE reused \ {k}
    /\ UNCHANGED stopped

TRemove(k) ==
    \E gone \in SUBSET Named(k) :
       /\ ~stopped /\ (k \notin reused => gone = Named(k))
       /\ status' = [i \in Ids |-> IF i \in gone THEN "removed" ELSE status[i]]
       /\ left' = [i \in Ids |-> IF i \in gone THEN 0 ELSE left[i]]
       /\ UNCHANGED <<key, reused, stopped>>

TTick ==
    /\ ~stopped
    /\ status' = [i \in Ids |-> IF status[i] = "pending" /\ left[i] = 0
                                THEN "fired" ELSE status[i]]
    /\ left' = [i \in Ids |-> IF status'[i] = "pending" THEN left[i] - 1 ELSE 0]
    /\ UNCHANGED <<key, reused, stopped>>

TStop == /\ ~stopped /\ stopped' = TRUE
         /\ UNCHANGED <<status, left, key, reused>>

TNext == \/ \E i \in Ids, n \in Ticks : \E k \in Keys \cup {i} : TAdd(i, k, n)
         \/ \E k \in Keys : TRemove(k)
         \/ TTick \/ TStop

TSpec == TInit /\ [][TNext]_tvars
=============================================================================
