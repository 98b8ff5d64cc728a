--------------------------- MODULE RpcServerProofs ---------------------------
(***************************************************************************)
(* The safety properties of the RPC server for any number of requests,     *)
(* any profiles and any limit. The inductive invariant says, for every     *)
(* label of runFunc and _runFunc, what has been done for the request by    *)
(* then (Answers, Unwinding, Slots), who runs it (Owner): a request that   *)
(* was not handed to a goroutine belongs to the receive loop, which runs   *)
(* one at a time; and what can happen to the WaitGroup (Waiting).          *)
(***************************************************************************)
EXTENDS RpcServer, FiniteSetTheorems, TLAPS

(* Before the reply; and between the deferred function being in place and  *)
(* its end.                                                                *)
EarlyPc == {"idle", "queued", "lost", "wait", "lookup", "args", "body"}
GuardedPc == {"body", "defer", "release", "finish", "rescue"}
Unguarded == {"nofunc", "nilfunc", "badargs"}

(* What has been published and run at each label.                          *)
Answers ==
    \A r \in Reqs :
        /\ ~prof[r].reply => Replies(r) = 0
        /\ pc[r] \in EarlyPc => Replies(r) = 0 /\ ran[r] = 0
        /\ ran[r] <= 1
        /\ pc[r] \in {"defer", "release", "finish", "rescue"} =>
              IF prof[r].kind = "panic" THEN Replies(r) = 0 ELSE Replies(r) <= 1
        /\ /\ pc[r] \in {"defer", "release", "finish"}
           /\ prof[r].reply /\ prof[r].kind # "panic"
           => Replies(r) = 1
        /\ pc[r] = "recover" => prof[r].hook \/ Replies(r) = 0
        /\ pc[r] = "done" /\ prof[r].reply =>
              Replies(r) >= 1 \/ (crashed /\ prof[r].go)
        /\ ~prof[r].hook /\ prof[r].kind # "okpanic" => Replies(r) <= 1

(* Which requests unwind a panic, and which kinds get as far as a label.   *)
Unwinding ==
    \A r \in Reqs :
        /\ pc[r] \in EarlyPc => r \notin panicking
        /\ pc[r] \in {"defer", "release", "finish", "rescue"} =>
              (r \in panicking <=> prof[r].kind \in {"panic", "okpanic"} \/ prof[r].hook)
        /\ pc[r] = "rescue" => r \in panicking
        /\ pc[r] = "args" => prof[r].kind \notin {"nofunc", "nilfunc"}
        /\ pc[r] \in GuardedPc => prof[r].kind \notin Unguarded

(* Which requests hold a goroutine slot and count in the WaitGroup.        *)
Slots ==
    \A r \in Reqs :
        /\ pc[r] \in {"idle", "queued", "lost", "wait", "rescue"} => r \notin slots
        /\ pc[r] \in {"lookup", "args", "body", "defer", "release", "finish"} =>
              r \in slots
        /\ pc[r] \in {"recover", "done"} /\ r \in slots =>
              prof[r].kind \in Unguarded \/ r \in wg \/ crashed
        /\ pc[r] \in RunningPc => r \in wg
        /\ r \in wg => pc[r] \in RunningPc \/ Misused(r)

(* One request at a time is about to release Done. If the count has moved  *)
(* since, the request that moved it has panicked, and is not in the loop   *)
(* beside one that is.                                                     *)
Waiting ==
    /\ \A r \in Reqs : pc[r] = "release" =>
           /\ dpc = "wgwait"
           /\ wg = {} \/ \E q \in Reqs : Misused(q)
           /\ wg = {} \/ prof[r].go \/ crashed
    /\ \A r, q \in Reqs : pc[r] = "release" /\ pc[q] = "release" => r = q

(* The receive loop is inside runFunc exactly when it has a request, and   *)
(* has every request that is not in a goroutine of its own.                *)
Owner ==
    /\ lpc = "call" <=> cur # NoReq
    /\ \A r \in Reqs : /\ pc[r] \in {"wait", "lookup", "recover"} => cur = r
                       /\ ~prof[r].go /\ pc[r] \in GuardedPc \union {"args"} => cur = r

(* Done has returned only after the receive loop has.                      *)
Returned == dpc = "returned" => Stopped

(* The limit of the GoroutineControl holds.                                *)
Bounded == IsFiniteSet(slots) /\ Cardinality(slots) <= limit

IndInv == /\ TypeOK /\ Answers /\ Unwinding /\ Slots /\ Waiting /\ Owner /\ Returned
          /\ Bounded /\ DeathCause

(* The types, one step per action or group of actions.                     *)
LEMMA TypeOKStep == IndInv /\ Next => TypeOK'
<1> SUFFICES ASSUME IndInv, Next PROVE TypeOK'
  OBVIOUS
<1> USE ServerAssumption DEF IndInv, TypeOK, Replies, Misused, RunningPc, config,
    replies, workVars, loopVars, stopVars
<1>1. ASSUME NEW r \in Reqs, Arrive(r) \/ LoopNext(r) \/ RunWait(r) PROVE TypeOK'
  BY <1>1 DEF Arrive, LoopNext, RunWait, Goto
<1>2. ASSUME NEW r \in Reqs, RunLookup(r) PROVE TypeOK'
  BY <1>2 DEF RunLookup, Callback, Goto, End
<1>3. ASSUME NEW r \in Reqs, RunArgs(r) PROVE TypeOK'
  <2>1. crashed' \in BOOLEAN
    BY <1>3, Zenon DEF RunArgs, Callback, Goto, End, Escape
  <2> QED
    BY <1>3, <2>1 DEF RunArgs, Callback, Goto, End, Escape
<1>4. ASSUME NEW r \in Reqs, RunBody(r) PROVE TypeOK'
  BY <1>4 DEF RunBody, Callback, Goto
<1>5. ASSUME NEW r \in Reqs, DeferWg(r) \/ DeferFinish(r) PROVE TypeOK'
  BY <1>5 DEF DeferWg, DeferFinish, Goto, End
<1>6. ASSUME NEW r \in Reqs, Rescue(r) PROVE TypeOK'
  <2>1. crashed' \in BOOLEAN
    BY <1>6, Zenon DEF Rescue, Callback, Goto, End, Escape
  <2> QED
    BY <1>6, <2>1 DEF Rescue, Callback, Goto, End, Escape
<1>7. ASSUME NEW r \in Reqs, Recover(r) PROVE TypeOK'
  BY <1>7 DEF Recover, Callback, End
<1>11. ASSUME NEW r \in Reqs, DeferRelease(r) PROVE TypeOK'
  BY <1>11 DEF DeferRelease, Goto, End, Escape, Waiting, Misused
<1>8. CASE ConnLost \/ HelperUnsubscribe
  BY <1>8 DEF ConnLost, HelperUnsubscribe, DropQueue
<1>9. CASE LoopSubscribe \/ LoopCheck \/ LoopNoMsg \/ LoopResubscribe
  BY <1>9 DEF LoopSubscribe, LoopCheck, LoopNoMsg, LoopResubscribe
<1>10. CASE DoneStart \/ DoneWait \/ ShutdownClose \/ ShutdownSetClose
            \/ ShutdownAwait
  <2>1. done' \in BOOLEAN /\ isClose' \in BOOLEAN /\ crashed' \in BOOLEAN
    BY <1>10, Zenon DEF DoneStart, DoneWait, ShutdownClose, ShutdownSetClose,
      ShutdownAwait
  <2> QED
    BY <1>10, <2>1 DEF DoneStart, DoneWait, ShutdownClose, ShutdownSetClose,
      ShutdownAwait, Stopped
<1> QED
  BY <1>1, <1>2, <1>3, <1>4, <1>5, <1>6, <1>7, <1>8, <1>9, <1>11, <1>10
  DEF Next, Loop, Request, Shutdown

(* Callback is reached once on every path, and a second time only in a     *)
(* recovery.                                                               *)
LEMMA AnswersStep == IndInv /\ Next => Answers'
<1> SUFFICES ASSUME IndInv, Next PROVE Answers'
  OBVIOUS
<1> USE ServerAssumption DEF IndInv, TypeOK, Replies, Misused, Answers, Unwinding,
    EarlyPc, GuardedPc, Unguarded, RunningPc, config, replies, workVars, loopVars,
    stopVars
<1>1. ASSUME NEW r \in Reqs, Arrive(r) \/ LoopNext(r) \/ RunWait(r) PROVE Answers'
  BY <1>1 DEF Arrive, LoopNext, RunWait, Goto
<1>2. ASSUME NEW r \in Reqs, RunLookup(r) PROVE Answers'
  BY <1>2 DEF RunLookup, Callback, Goto, End
<1>3. ASSUME NEW r \in Reqs, RunArgs(r) PROVE Answers'
  BY <1>3 DEF RunArgs, Callback, Goto, End, Escape
<1>4. ASSUME NEW r \in Reqs, RunBody(r) PROVE Answers'
  BY <1>4 DEF RunBody, Callback, Goto
<1>5. ASSUME NEW r \in Reqs, DeferWg(r) \/ DeferFinish(r) PROVE Answers'
  BY <1>5 DEF DeferWg, DeferFinish, Goto, End
<1>6. ASSUME NEW r \in Reqs, Rescue(r) PROVE Answers'
  BY <1>6 DEF Rescue, Callback, Goto, End, Escape
<1>7. ASSUME NEW r \in Reqs, Recover(r) PROVE Answers'
  BY <1>7 DEF Recover, Callback, End
<1>11. ASSUME NEW r \in Reqs, DeferRelease(r) PROVE Answers'
  <2>1. ~crashed
    BY DEF Next
  <2>2. wg = {} \/ prof[r].go
    BY <1>11, <2>1 DEF DeferRelease, Waiting
  <2> QED
    BY <1>11, <2>1, <2>2 DEF DeferRelease, Goto, End, Escape
<1>8. CASE ConnLost \/ HelperUnsubscribe
  BY <1>8 DEF ConnLost, HelperUnsubscribe, DropQueue
<1>9. CASE LoopSubscribe \/ LoopCheck \/ LoopNoMsg \/ LoopResubscribe
            \/ DoneStart \/ ShutdownClose \/ ShutdownSetClose \/ ShutdownAwait
  BY <1>9 DEF LoopSubscribe, LoopCheck, LoopNoMsg, LoopResubscribe,
     DoneStart, ShutdownClose, ShutdownSetClose, ShutdownAwait
<1>10. CASE DoneWait
  <2>1. ~crashed
    BY DEF Next
  <2> QED
    BY <1>10, <2>1 DEF DoneWait
<1> QED
  BY <1>1, <1>2, <1>3, <1>4, <1>5, <1>6, <1>7, <1>8, <1>9, <1>10, <1>11
  DEF Next, Loop, Request, Shutdown

(* Only the body starts a panic, and only kinds that pass the checks before*)
(* it get there.                                                           *)
LEMMA UnwindingStep == IndInv /\ Next => Unwinding'
<1> SUFFICES ASSUME IndInv, Next PROVE Unwinding'
  OBVIOUS
<1> USE ServerAssumption DEF IndInv, TypeOK, Replies, Misused, Unwinding, EarlyPc,
    GuardedPc, Unguarded, RunningPc, config, replies, workVars, loopVars, stopVars
<1>1. ASSUME NEW r \in Reqs, Arrive(r) \/ LoopNext(r) \/ RunWait(r) PROVE Unwinding'
  BY <1>1 DEF Arrive, LoopNext, RunWait, Goto
<1>2. ASSUME NEW r \in Reqs, RunLookup(r) PROVE Unwinding'
  BY <1>2 DEF RunLookup, Callback, Goto, End
<1>3. ASSUME NEW r \in Reqs, RunArgs(r) PROVE Unwinding'
  BY <1>3 DEF RunArgs, Callback, Goto, End, Escape
<1>4. ASSUME NEW r \in Reqs, RunBody(r) PROVE Unwinding'
  BY <1>4 DEF RunBody, Callback, Goto
<1>5. ASSUME NEW r \in Reqs, DeferWg(r) \/ DeferFinish(r) PROVE Unwinding'
  BY <1>5 DEF DeferWg, DeferFinish, Goto, End
<1>6. ASSUME NEW r \in Reqs, Rescue(r) PROVE Unwinding'
  BY <1>6 DEF Rescue, Callback, Goto, End, Escape
<1>7. ASSUME NEW r \in Reqs, Recover(r) PROVE Unwinding'
  BY <1>7 DEF Recover, Callback, End
<1>11. ASSUME NEW r \in Reqs, DeferRelease(r) PROVE Unwinding'
  BY <1>11 DEF DeferRelease, Goto, End, Escape, Waiting, Misused
<1>8. CASE ConnLost \/ HelperUnsubscribe
  BY <1>8 DEF ConnLost, HelperUnsubscribe, DropQueue
<1>9. CASE LoopSubscribe \/ LoopCheck \/ LoopNoMsg \/ LoopResubscribe
            \/ DoneStart \/ DoneWait \/ ShutdownClose \/ ShutdownSetClose
            \/ ShutdownAwait
  BY <1>9 DEF LoopSubscribe, LoopCheck, LoopNoMsg, LoopResubscribe,
     DoneStart, DoneWait, ShutdownClose, ShutdownSetClose, ShutdownAwait
<1> QED
  BY <1>1, <1>2, <1>3, <1>4, <1>5, <1>6, <1>7, <1>8, <1>9, <1>11
  DEF Next, Loop, Request, Shutdown

(* The slot and the WaitGroup follow the labels.                           *)
LEMMA SlotsStep == IndInv /\ Next => Slots'
<1> SUFFICES ASSUME IndInv, Next PROVE Slots'
  OBVIOUS
<1> USE ServerAssumption DEF IndInv, TypeOK, Replies, Misused, Slots, Unwinding,
    GuardedPc, Unguarded, RunningPc, config, replies, workVars, loopVars, stopVars
<1>1. ASSUME NEW r \in Reqs, Arrive(r) \/ LoopNext(r) \/ RunWait(r) PROVE Slots'
  BY <1>1 DEF Arrive, LoopNext, RunWait, Goto
<1>2. ASSUME NEW r \in Reqs, RunLookup(r) PROVE Slots'
  BY <1>2 DEF RunLookup, Callback, Goto, End
<1>3. ASSUME NEW r \in Reqs, RunArgs(r) PROVE Slots'
  BY <1>3 DEF RunArgs, Callback, Goto, End, Escape
<1>4. ASSUME NEW r \in Reqs, RunBody(r) PROVE Slots'
  BY <1>4 DEF RunBody, Callback, Goto
<1>5. ASSUME NEW r \in Reqs, DeferWg(r) \/ DeferFinish(r) PROVE Slots'
  BY <1>5 DEF DeferWg, DeferFinish, Goto, End
<1>6. ASSUME NEW r \in Reqs, Rescue(r) PROVE Slots'
  BY <1>6 DEF Rescue, Callback, Goto, End, Escape
<1>7. ASSUME NEW r \in Reqs, Recover(r) PROVE Slots'
  BY <1>7 DEF Recover, Callback, End
<1>11. ASSUME NEW r \in Reqs, DeferRelease(r) PROVE Slots'
  BY <1>11 DEF DeferRelease, Goto, End, Escape, Waiting, Misused
<1>8. CASE ConnLost \/ HelperUnsubscribe
  BY <1>8 DEF ConnLost, HelperUnsubscribe, DropQueue
<1>9. CASE LoopSubscribe \/ LoopCheck \/ LoopNoMsg \/ LoopResubscribe
            \/ DoneStart \/ ShutdownClose \/ ShutdownSetClose \/ ShutdownAwait
  BY <1>9 DEF LoopSubscribe, LoopCheck, LoopNoMsg, LoopResubscribe,
     DoneStart, ShutdownClose, ShutdownSetClose, ShutdownAwait
<1>10. CASE DoneWait
  <2>1. ~crashed
    BY DEF Next
  <2> QED
    BY <1>10, <2>1 DEF DoneWait
<1> QED
  BY <1>1, <1>2, <1>3, <1>4, <1>5, <1>6, <1>7, <1>8, <1>9, <1>10, <1>11
  DEF Next, Loop, Request, Shutdown

(* Add(1) that finds Done about to be released panics, and its request is  *)
(* never taken out of the count again.                                     *)
LEMMA WaitingStep == IndInv /\ Next => Waiting'
<1> SUFFICES ASSUME IndInv, Next PROVE Waiting'
  OBVIOUS
<1> USE ServerAssumption DEF IndInv, TypeOK, Replies, Misused, Slots, Waiting,
    Owner, Unwinding, GuardedPc, Unguarded, RunningPc, config, replies, workVars,
    loopVars, stopVars
<1>1. ASSUME NEW r \in Reqs, Arrive(r) \/ LoopNext(r) \/ RunWait(r) PROVE Waiting'
  BY <1>1 DEF Arrive, LoopNext, RunWait, Goto
<1>2. ASSUME NEW r \in Reqs, RunLookup(r) PROVE Waiting'
  BY <1>2 DEF RunLookup, Callback, Goto, End
<1>3. ASSUME NEW r \in Reqs, RunArgs(r) PROVE Waiting'
  BY <1>3 DEF RunArgs, Callback, Goto, End, Escape
<1>4. ASSUME NEW r \in Reqs, RunBody(r) PROVE Waiting'
  BY <1>4 DEF RunBody, Callback, Goto
<1>5. ASSUME NEW r \in Reqs, DeferWg(r) \/ DeferFinish(r) PROVE Waiting'
  BY <1>5 DEF DeferWg, DeferFinish, Goto, End
<1>6. ASSUME NEW r \in Reqs, Rescue(r) PROVE Waiting'
  BY <1>6 DEF Rescue, Callback, Goto, End, Escape
<1>7. ASSUME NEW r \in Reqs, Recover(r) PROVE Waiting'
  BY <1>7 DEF Recover, Callback, End
<1>11. ASSUME NEW r \in Reqs, DeferRelease(r) PROVE Waiting'
  BY <1>11 DEF DeferRelease, Goto, End, Escape
<1>8. CASE ConnLost \/ HelperUnsubscribe
  BY <1>8 DEF ConnLost, HelperUnsubscribe, DropQueue
<1>9. CASE LoopSubscribe \/ LoopCheck \/ LoopNoMsg \/ LoopResubscribe
            \/ DoneStart \/ DoneWait \/ ShutdownClose \/ ShutdownSetClose
            \/ ShutdownAwait
  BY <1>9 DEF LoopSubscribe, LoopCheck, LoopNoMsg, LoopResubscribe,
     DoneStart, DoneWait, ShutdownClose, ShutdownSetClose, ShutdownAwait
<1> QED
  BY <1>1, <1>2, <1>3, <1>4, <1>5, <1>6, <1>7, <1>8, <1>9, <1>11
  DEF Next, Loop, Request, Shutdown

(* The receive loop has one request at a time and gives it away only with  *)
(* `go', or at its end.                                                    *)
LEMMA OwnerStep == IndInv /\ Next => Owner'
<1> SUFFICES ASSUME IndInv, Next PROVE Owner'
  OBVIOUS
<1> USE ServerAssumption DEF IndInv, TypeOK, Replies, Misused, Owner, GuardedPc,
    RunningPc, config, replies, workVars, loopVars, stopVars
<1>1. ASSUME NEW r \in Reqs, Arrive(r) \/ LoopNext(r) \/ RunWait(r) PROVE Owner'
  BY <1>1 DEF Arrive, LoopNext, RunWait, Goto
<1>2. ASSUME NEW r \in Reqs, RunLookup(r) PROVE Owner'
  BY <1>2 DEF RunLookup, Callback, Goto, End
<1>3. ASSUME NEW r \in Reqs, RunArgs(r) PROVE Owner'
  BY <1>3 DEF RunArgs, Callback, Goto, End, Escape
<1>4. ASSUME NEW r \in Reqs, RunBody(r) PROVE Owner'
  BY <1>4 DEF RunBody, Callback, Goto
<1>5. ASSUME NEW r \in Reqs, DeferWg(r) \/ DeferFinish(r) PROVE Owner'
  BY <1>5 DEF DeferWg, DeferFinish, Goto, End
<1>6. ASSUME NEW r \in Reqs, Rescue(r) PROVE Owner'
  BY <1>6 DEF Rescue, Callback, Goto, End, Escape
<1>7. ASSUME NEW r \in Reqs, Recover(r) PROVE Owner'
  BY <1>7 DEF Recover, Callback, End
<1>11. ASSUME NEW r \in Reqs, DeferRelease(r) PROVE Owner'
  BY <1>11 DEF DeferRelease, Goto, End, Escape, Waiting, Misused
<1>8. CASE ConnLost \/ HelperUnsubscribe
  BY <1>8 DEF ConnLost, HelperUnsubscribe, DropQueue
<1>9. CASE LoopSubscribe \/ LoopCheck \/ LoopNoMsg \/ LoopResubscribe
            \/ DoneStart \/ DoneWait \/ ShutdownClose \/ ShutdownSetClose
            \/ ShutdownAwait
  BY <1>9 DEF LoopSubscribe, LoopCheck, LoopNoMsg, LoopResubscribe,
     DoneStart, DoneWait, ShutdownClose, ShutdownSetClose, ShutdownAwait
<1> QED
  BY <1>1, <1>2, <1>3, <1>4, <1>5, <1>6, <1>7, <1>8, <1>9, <1>11
  DEF Next, Loop, Request, Shutdown

(* A receive loop that ended has no request and takes none.                *)
LEMMA ReturnedStep == IndInv /\ Next => Returned'
<1> SUFFICES ASSUME IndInv, Next PROVE Returned'
  OBVIOUS
<1> USE ServerAssumption DEF IndInv, TypeOK, Replies, Misused, Returned, Owner,
    Stopped, GuardedPc, RunningPc, config, replies, workVars, loopVars, stopVars
<1>1. ASSUME NEW r \in Reqs, Arrive(r) \/ LoopNext(r) \/ RunWait(r) PROVE Returned'
  BY <1>1 DEF Arrive, LoopNext, RunWait, Goto
<1>2. ASSUME NEW r \in Reqs, RunLookup(r) PROVE Returned'
  BY <1>2 DEF RunLookup, Callback, Goto, End
<1>3. ASSUME NEW r \in Reqs, RunArgs(r) PROVE Returned'
  BY <1>3 DEF RunArgs, Callback, Goto, End, Escape
<1>4. ASSUME NEW r \in Reqs, RunBody(r) PROVE Returned'
  BY <1>4 DEF RunBody, Callback, Goto
<1>5. ASSUME NEW r \in Reqs, DeferWg(r) \/ DeferFinish(r) PROVE Returned'
  BY <1>5 DEF DeferWg, DeferFinish, Goto, End
<1>6. ASSUME NEW r \in Reqs, Rescue(r) PROVE Returned'
  BY <1>6 DEF Rescue, Callback, Goto, End, Escape
<1>7. ASSUME NEW r \in Reqs, Recover(r) PROVE Returned'
  BY <1>7 DEF Recover, Callback, End
<1>11. ASSUME NEW r \in Reqs, DeferRelease(r) PROVE Returned'
  BY <1>11 DEF DeferRelease, Goto, End, Escape, Waiting, Misused
<1>8. CASE ConnLost \/ HelperUnsubscribe
  BY <1>8 DEF ConnLost, HelperUnsubscribe, DropQueue
<1>9. CASE LoopSubscribe \/ LoopCheck \/ LoopNoMsg \/ LoopResubscribe
            \/ DoneStart \/ DoneWait \/ ShutdownClose \/ ShutdownSetClose
            \/ ShutdownAwait
  BY <1>9 DEF LoopSubscribe, LoopCheck, LoopNoMsg, LoopResubscribe,
     DoneStart, DoneWait, ShutdownClose, ShutdownSetClose, ShutdownAwait
<1> QED
  BY <1>1, <1>2, <1>3, <1>4, <1>5, <1>6, <1>7, <1>8, <1>9, <1>11
  DEF Next, Loop, Request, Shutdown

(* The request whose recovery panicked stays the cause.                    *)
LEMMA DeathCauseStep == IndInv /\ Next => DeathCause'
<1> SUFFICES ASSUME IndInv, Next PROVE DeathCause'
  OBVIOUS
<1> USE ServerAssumption DEF IndInv, TypeOK, Replies, Misused, DeathCause,
    Unwinding, Answers, RunningPc, config, replies, workVars, loopVars, stopVars
<1>1. ASSUME NEW r \in Reqs, Arrive(r) \/ LoopNext(r) \/ RunWait(r) PROVE DeathCause'
  BY <1>1 DEF Arrive, LoopNext, RunWait, Goto
<1>2. ASSUME NEW r \in Reqs, RunLookup(r) PROVE DeathCause'
  BY <1>2 DEF RunLookup, Callback, Goto, End
<1>3. ASSUME NEW r \in Reqs, RunArgs(r) PROVE DeathCause'
  BY <1>3 DEF RunArgs, Callback, Goto, End, Escape
<1>4. ASSUME NEW r \in Reqs, RunBody(r) PROVE DeathCause'
  BY <1>4 DEF RunBody, Callback, Goto
<1>5. ASSUME NEW r \in Reqs, DeferWg(r) \/ DeferFinish(r) PROVE DeathCause'
  BY <1>5 DEF DeferWg, DeferFinish, Goto, End
<1>6. ASSUME NEW r \in Reqs, Rescue(r) PROVE DeathCause'
  BY <1>6 DEF Rescue, Callback, Goto, End, Escape
<1>7. ASSUME NEW r \in Reqs, Recover(r) PROVE DeathCause'
  BY <1>7 DEF Recover, Callback, End
<1>11. ASSUME NEW r \in Reqs, DeferRelease(r) PROVE DeathCause'
  BY <1>11 DEF DeferRelease, Goto, End, Escape, Waiting, Misused
<1>8. CASE ConnLost \/ HelperUnsubscribe
  BY <1>8 DEF ConnLost, HelperUnsubscribe, DropQueue
<1>9. CASE LoopSubscribe \/ LoopCheck \/ LoopNoMsg \/ LoopResubscribe
            \/ DoneStart \/ DoneWait \/ ShutdownClose \/ ShutdownSetClose
            \/ ShutdownAwait
  BY <1>9 DEF LoopSubscribe, LoopCheck, LoopNoMsg, LoopResubscribe,
     DoneStart, DoneWait, ShutdownClose, ShutdownSetClose, ShutdownAwait
<1> QED
  BY <1>1, <1>2, <1>3, <1>4, <1>5, <1>6, <1>7, <1>8, <1>9, <1>11
  DEF Next, Loop, Request, Shutdown

(* A slot is taken only while one is free.                                 *)
LEMMA BoundedStep == IndInv /\ Next => Bounded'
<1> SUFFICES ASSUME IndInv, Next PROVE Bounded'
  OBVIOUS
<1>0. limit' = limit /\ limit \in Nat
  BY DEF IndInv, TypeOK, Next, Loop, Request, Shutdown, Arrive, RunWait, RunLookup,
      RunArgs, RunBody, DeferWg,
         DeferRelease, DeferFinish, Rescue, Recover, LoopSubscribe, LoopCheck, LoopNext,
         LoopNoMsg, LoopResubscribe, HelperUnsubscribe, ConnLost, DoneStart, DoneWait,
         ShutdownClose, ShutdownSetClose, ShutdownAwait, config
<1>1. ASSUME NEW r \in Reqs, RunWait(r) PROVE Bounded'
  <2>1. IsFiniteSet(slots) /\ Cardinality(slots) \in Nat
    BY FS_CardinalityType DEF IndInv, Bounded
  <2>2. /\ IsFiniteSet(slots \union {r})
        /\ Cardinality(slots \union {r}) =
              IF r \in slots THEN Cardinality(slots) ELSE Cardinality(slots) + 1
    BY <2>1, FS_AddElement, Zenon
  <2> QED
    BY <1>1, <2>1, <2>2, <1>0, FS_CardinalityType DEF IndInv, Bounded, RunWait
<1>2. ASSUME slots' \subseteq slots PROVE Bounded'
  <2>1. IsFiniteSet(slots') /\ Cardinality(slots') <= Cardinality(slots)
    BY <1>2, FS_Subset DEF IndInv, Bounded
  <2> QED
    BY <1>0, <2>1, FS_CardinalityType DEF IndInv, Bounded
<1>3. (\E r \in Reqs : RunWait(r)) \/ slots' \subseteq slots
  BY DEF Next, Loop, Request, Shutdown, Arrive, RunLookup, RunArgs, RunBody, DeferWg,
         DeferRelease, DeferFinish, Rescue, Recover, LoopSubscribe, LoopCheck, LoopNext,
         LoopNoMsg,
         LoopResubscribe, HelperUnsubscribe, ConnLost, DoneStart, DoneWait,
         ShutdownClose, ShutdownSetClose, ShutdownAwait, config, replies, workVars
<1> QED
  BY <1>1, <1>2, <1>3

(* The three facts about IndInv.                                           *)
LEMMA Start == Init => IndInv
<1> SUFFICES ASSUME Init PROVE IndInv
  OBVIOUS
<1> USE ServerAssumption DEF Init
<1>1. TypeOK
  BY DEF TypeOK
<1>2. Bounded
  BY FS_EmptySet DEF Bounded
<1>3. Answers /\ Unwinding /\ Slots /\ Waiting
  BY DEF Answers, Unwinding, Slots, Waiting, Replies, EarlyPc, GuardedPc, RunningPc
<1>4. Owner /\ Returned /\ DeathCause
  BY DEF Owner, Returned, DeathCause, GuardedPc
<1> QED
  BY <1>1, <1>2, <1>3, <1>4 DEF IndInv

(* Every step of the server, and a stuttering step, keeps IndInv.          *)
LEMMA Step == IndInv /\ [Next]_vars => IndInv'
<1>1. IndInv /\ Next => IndInv'
  BY TypeOKStep, AnswersStep, UnwindingStep, SlotsStep, WaitingStep, OwnerStep,
     ReturnedStep, BoundedStep, DeathCauseStep DEF IndInv
<1>2. IndInv /\ UNCHANGED vars => IndInv'
  BY DEF vars, config, replies, workVars, loopVars, stopVars, IndInv, TypeOK, Answers,
      Unwinding, Slots,
         Waiting, Replies, Misused, Owner, Returned, Bounded, DeathCause, EarlyPc,
         GuardedPc, Unguarded, RunningPc,
         Stopped
<1> QED
  BY <1>1, <1>2

(* IndInv always holds.                                                    *)
LEMMA Invariance == Spec => []IndInv
BY Start, Step, PTL DEF Spec

(* The server keeps its types: the labels of runFunc, of the receive loop  *)
(* and of Done are the ones of the model, and no count is negative.        *)
THEOREM TypeCorrect == Spec => []TypeOK
<1>1. IndInv => TypeOK
  BY DEF IndInv
<1> QED
  BY Invariance, <1>1, PTL

(* For every request that wants an answer doCallback tries to send one,    *)
(* and just one unless a hook panicked after the reply; only a crash of    *)
(* the process leaves a request without. No handler runs twice.            *)
THEOREM Answered == Spec => []AnsweredOnce
<1>1. IndInv => AnsweredOnce
  BY DEF IndInv, Answers, AnsweredOnce
<1> QED
  BY Invariance, <1>1, PTL

(* The only requests that keep their goroutine slot are those that fail    *)
(* before the deferred Finish of _runFunc.                                 *)
THEOREM LeakCause == Spec => []SlotLeakCause
<1>1. IndInv => SlotLeakCause
  BY DEF IndInv, TypeOK, Slots, SlotLeakCause, Unguarded, Misused
<1> QED
  BY Invariance, <1>1, PTL

(* Only a hook that panics in a recovery or a failed resubscription ends   *)
(* the receive loop; only such a hook in a goroutine, or wg.Add that meets *)
(* the release of wg.Wait, ends the process.                               *)
THEOREM Deaths == Spec => []DeathCause
<1>1. IndInv => DeathCause
  BY DEF IndInv
<1> QED
  BY Invariance, <1>1, PTL

(* Never more than `limit' requests are between wg.Add(1) and wg.Add(-1),    *)
(* where the handlers run.                                                 *)
HandlersBounded == Cardinality({r \in Reqs : pc[r] \in RunningPc}) <= limit

(* HandlersBounded always holds: runFunc takes its slot before it raises   *)
(* the WaitGroup, and gives it back only after it has lowered it.          *)
THEOREM Limited == Spec => []HandlersBounded
<1>1. ASSUME IndInv PROVE HandlersBounded
  <2> DEFINE H == {r \in Reqs : pc[r] \in RunningPc}
  <2>1. H \subseteq slots
    BY <1>1 DEF IndInv, Slots, RunningPc
  <2>2. Cardinality(H) <= Cardinality(slots) /\ IsFiniteSet(H)
    BY <1>1, <2>1, FS_Subset DEF IndInv, Bounded
  <2> QED
    BY <1>1, <2>2, FS_CardinalityType DEF IndInv, TypeOK, Bounded, HandlersBounded
<1> QED
  BY Invariance, <1>1, PTL

(* After Done has returned no request is dispatched, and none that the     *)
(* receive loop ran itself moves: the loop has ended, so it has none.      *)
THEOREM NothingAfterDone == Spec => QuietAfterDone
<1> DEFINE Quiet ==
      dpc = "returned" =>
         \A r \in Reqs : /\ pc[r] = "queued" => pc'[r] # "wait"
                        /\ ~prof[r].go /\ pc[r] \notin {"idle", "queued"} =>
                              pc'[r] = pc[r]
<1>1. IndInv /\ [Next]_vars => [Quiet]_vars
  <2> SUFFICES ASSUME IndInv, Next, dpc = "returned", NEW q \in Reqs
               PROVE  /\ pc[q] = "queued" => pc'[q] # "wait"
                      /\ ~prof[q].go /\ pc[q] \notin {"idle", "queued"} =>
                            pc'[q] = pc[q]
    OBVIOUS
  <2>1. lpc \in {"exit", "dead"} /\ cur = NoReq /\ NoReq \notin Reqs
    BY ServerAssumption DEF IndInv, Returned, Owner, Stopped
  <2>2. ASSUME NEW r \in Reqs, Request(r)
        PROVE  /\ r = q => pc[q] # "queued" /\ prof[q].go
               /\ r # q => pc'[q] = pc[q]
    BY <2>1, <2>2
       DEF IndInv, TypeOK, Owner, GuardedPc, RunningPc, Request, RunWait, RunLookup,
           RunArgs, RunBody, DeferWg, DeferRelease, DeferFinish, Rescue, Recover, Goto,
           End, Escape
  <2>3. ASSUME NEW r \in Reqs, Arrive(r)
        PROVE  pc[q] # "idle" => pc'[q] = pc[q]
    BY <2>3 DEF IndInv, TypeOK, Arrive
  <2>4. CASE ConnLost \/ HelperUnsubscribe
    BY <2>4 DEF IndInv, TypeOK, ConnLost, HelperUnsubscribe, DropQueue
  <2>5. CASE Loop \/ DoneStart \/ Shutdown
    BY <2>1, <2>5
       DEF Loop, LoopSubscribe, LoopCheck, LoopNext, LoopNoMsg, LoopResubscribe,
           DoneStart, Shutdown, DoneWait, ShutdownClose, ShutdownSetClose, ShutdownAwait
  <2> QED
    BY <2>2, <2>3, <2>4, <2>5 DEF Next
<1> QED
  BY Invariance, <1>1, PTL DEF QuietAfterDone, Spec
=============================================================================
