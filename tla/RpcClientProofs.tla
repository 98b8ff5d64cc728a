--------------------------- MODULE RpcClientProofs ---------------------------
(***************************************************************************)
(* Theorems about RpcClient for any set of calls, any choice of calls with *)
(* a deadline and any number of answers per call.                          *)
(***************************************************************************)
EXTENDS RpcClient, TLAPS

(* The variables, grouped as the UNCHANGED clauses of the actions do.      *)
USE DEF callerVars, chanVars, netVars, loopVars, doneVars

(* Initially nothing is pending, closed or handed over.                    *)
LEMMA InitInv == Init => IndInv
<1> SUFFICES ASSUME Init PROVE IndInv
  OBVIOUS
<1>1. TypeOK
  BY CallsAssumption DEF Init, TypeOK, PendingPc, Outcomes
<1>2. PhaseInv /\ HandOverInv /\ CloseInv
  BY DEF Init, PhaseInv, HandOverInv, CloseInv, Handing
<1>3. LoopDeathCause /\ NoEntryLeak /\ ClosedOnlyByDone
  BY DEF Init, LoopDeathCause, NoEntryLeak, ClosedOnlyByDone
<1> QED BY <1>1, <1>2, <1>3 DEF IndInv

(* Every step preserves the types: each action assigns values of the sets  *)
(* TypeOK names, and the receive loop only handles ids of calls.           *)
LEMMA TypeStep == TypeOK /\ [Next]_vars => TypeOK'
<1> SUFFICES ASSUME TypeOK, [Next]_vars PROVE TypeOK'
  OBVIOUS
<1> USE CallsAssumption DEF TypeOK, PendingPc, Outcomes
<1>1. ASSUME NEW c \in Calls, Caller(c) PROVE TypeOK'
  BY <1>1 DEF Caller, CallStart, CallSet, CallPublish, CallReceive,
              CallTimeout, CallExpire, CallNR, Goto, Return
<1>2. ASSUME NEW c \in Calls, Arrive(c) PROVE TypeOK'
  BY <1>2 DEF Arrive
<1>3. CASE Handler
  <2>1. CASE HandlerSubscribe \/ HandlerLoop \/ HandlerNoMsg \/ HandlerCheck
    BY <2>1 DEF HandlerSubscribe, HandlerLoop, HandlerNoMsg, HandlerCheck, HGoto
  <2>2. ASSUME NEW c \in Calls, HandlerNext(c) PROVE TypeOK'
    BY <2>2 DEF HandlerNext, HGoto
  <2>3. CASE HandlerGet
    <3>1. hfound' \in {hfound, (hcid \in callinfos)}
      BY <2>3 DEF HandlerGet, HGoto
    <3>2. (hcid \in callinfos) \in BOOLEAN
      OBVIOUS
    <3>3. (hfound \in BOOLEAN)'
      BY <3>1, <3>2, Zenon
    <3> QED BY <2>3, <3>3 DEF HandlerGet, HGoto
  <2>4. CASE HandlerDelete
    BY <2>4 DEF HandlerDelete, HGoto
  <2>5. CASE HandlerSend \/ HandlerClose
    BY <2>5 DEF HandlerSend, HandlerClose, HGoto
  <2> QED BY <1>3, <2>1, <2>2, <2>3, <2>4, <2>5 DEF Handler
<1>4. CASE HelperUnsubscribe
  BY <1>4 DEF HelperUnsubscribe, Empty
<1>5. CASE Done
  <2>1. CASE DoneItems \/ DoneDelete \/ DoneSend
    BY <2>1 DEF DoneItems, DoneDelete, DoneSend
  <2>2. ASSUME NEW c \in Calls, DoneClose(c) PROVE TypeOK'
    BY <2>2 DEF DoneClose
  <2>3. CASE DoneNil
    BY <2>3 DEF DoneNil
  <2>4. CASE DoneSetClose
    BY <2>4 DEF DoneSetClose
  <2> QED BY <1>5, <2>1, <2>2, <2>3, <2>4 DEF Done
<1>6. CASE ConnLost
  BY <1>6 DEF ConnLost, Empty
<1>7. CASE UNCHANGED vars
  BY <1>7 DEF vars
<1> QED BY <1>1, <1>2, <1>3, <1>4, <1>5, <1>6, <1>7 DEF Next

(* Every step preserves the invariant. The steps that matter are the       *)
(* receive loop's (Get, Delete, Send, Close), the caller's timeout and the *)
(* walk of Done: each removes an entry or closes a channel while another   *)
(* goroutine may hold the entry it read earlier.                           *)
LEMMA IndStep == IndInv /\ [Next]_vars => IndInv'
<1> SUFFICES ASSUME IndInv, [Next]_vars PROVE IndInv'
  OBVIOUS
<1> USE CallsAssumption
        DEF IndInv, TypeOK, Registered, TimedOut, Handing, HandedOver
<1>0. TypeOK'
  BY TypeStep
<1>1. ASSUME NEW c \in Calls, CallStart(c) PROVE IndInv'
  BY <1>0, <1>1 DEF CallStart, Goto, Return, PhaseInv, HandOverInv, CloseInv,
     LoopDeathCause, NoEntryLeak, ClosedOnlyByDone
<1>2. ASSUME NEW c \in Calls, CallSet(c) PROVE IndInv'
  <2>1. PhaseInv' /\ HandOverInv'
    BY <1>0, <1>2 DEF CallSet, Goto, Return, PhaseInv, HandOverInv
  <2>2. CloseInv'
    BY <1>0, <1>2 DEF CallSet, Goto, Return, PhaseInv, HandOverInv, CloseInv
  <2>3. LoopDeathCause' /\ ClosedOnlyByDone'
    BY <1>0, <1>2 DEF CallSet, Goto, Return, PhaseInv, CloseInv, LoopDeathCause,
       ClosedOnlyByDone
  <2>4. NoEntryLeak'
    BY <1>0, <1>2 DEF CallSet, Goto, Return, PhaseInv, HandOverInv, CloseInv, NoEntryLeak
  <2> QED BY <1>0, <2>1, <2>2, <2>3, <2>4
<1>3. ASSUME NEW c \in Calls, CallPublish(c) PROVE IndInv'
  <2>1. PhaseInv' /\ HandOverInv'
    BY <1>0, <1>3 DEF CallPublish, Goto, Return, PhaseInv, HandOverInv
  <2>2. CloseInv'
    BY <1>0, <1>3 DEF CallPublish, Goto, Return, PhaseInv, HandOverInv, CloseInv
  <2>3. LoopDeathCause' /\ ClosedOnlyByDone'
    BY <1>0, <1>3 DEF CallPublish, Goto, Return, PhaseInv, CloseInv, LoopDeathCause,
       ClosedOnlyByDone
  <2>4. NoEntryLeak'
    BY <1>0, <1>3 DEF CallPublish, Goto, Return, PhaseInv, HandOverInv, CloseInv, NoEntryLeak
  <2> QED BY <1>0, <2>1, <2>2, <2>3, <2>4
<1>4. ASSUME NEW c \in Calls, CallReceive(c) PROVE IndInv'
  <2>1. PhaseInv' /\ HandOverInv'
    BY <1>0, <1>4 DEF CallReceive, Return, PhaseInv, HandOverInv
  <2>2. CloseInv'
    BY <1>0, <1>4 DEF CallReceive, Return, PhaseInv, HandOverInv, CloseInv
  <2>3. LoopDeathCause' /\ ClosedOnlyByDone'
    BY <1>0, <1>4 DEF CallReceive, Return, PhaseInv, CloseInv, LoopDeathCause,
       ClosedOnlyByDone
  <2>4. NoEntryLeak'
    BY <1>0, <1>4 DEF CallReceive, Return, PhaseInv, HandOverInv, CloseInv, NoEntryLeak
  <2> QED BY <1>0, <2>1, <2>2, <2>3, <2>4
<1>5. ASSUME NEW c \in Calls, CallTimeout(c) PROVE IndInv'
  <2>1. PhaseInv' /\ HandOverInv'
    BY <1>0, <1>5 DEF CallTimeout, Goto, PhaseInv, HandOverInv
  <2>2. CloseInv'
    BY <1>0, <1>5 DEF CallTimeout, Goto, PhaseInv, HandOverInv, CloseInv
  <2>3. LoopDeathCause' /\ ClosedOnlyByDone'
    BY <1>0, <1>5 DEF CallTimeout, Goto, PhaseInv, CloseInv, LoopDeathCause,
       ClosedOnlyByDone
  <2>4. NoEntryLeak'
    BY <1>0, <1>5 DEF CallTimeout, Goto, PhaseInv, HandOverInv, CloseInv, NoEntryLeak
  <2> QED BY <1>0, <2>1, <2>2, <2>3, <2>4
<1>6. ASSUME NEW c \in Calls, CallExpire(c) PROVE IndInv'
  <2>1. PhaseInv' /\ HandOverInv'
    BY <1>0, <1>6 DEF CallExpire, Goto, Return, PhaseInv, HandOverInv
  <2>2. CloseInv'
    BY <1>0, <1>6 DEF CallExpire, Goto, Return, PhaseInv, HandOverInv, CloseInv
  <2>3. LoopDeathCause' /\ ClosedOnlyByDone'
    BY <1>0, <1>6 DEF CallExpire, Goto, Return, PhaseInv, CloseInv, LoopDeathCause,
       ClosedOnlyByDone
  <2>4. NoEntryLeak'
    BY <1>0, <1>6 DEF CallExpire, Goto, Return, PhaseInv, HandOverInv, CloseInv, NoEntryLeak
  <2> QED BY <1>0, <2>1, <2>2, <2>3, <2>4
<1>7. ASSUME NEW c \in Calls, CallNR(c) PROVE IndInv'
  BY <1>0, <1>7 DEF CallNR, Return, PhaseInv, HandOverInv, CloseInv,
     LoopDeathCause, NoEntryLeak, ClosedOnlyByDone
<1>8. ASSUME NEW c \in Calls, Arrive(c) PROVE IndInv'
  BY <1>0, <1>8 DEF Arrive, PhaseInv, HandOverInv, CloseInv,
     LoopDeathCause, NoEntryLeak, ClosedOnlyByDone
<1>9. CASE ConnLost
  BY <1>0, <1>9 DEF ConnLost, PhaseInv, HandOverInv, CloseInv,
     LoopDeathCause, NoEntryLeak, ClosedOnlyByDone
<1>10. CASE HandlerSubscribe
  BY <1>0, <1>10 DEF HandlerSubscribe, HGoto, PhaseInv, HandOverInv, CloseInv,
     LoopDeathCause, NoEntryLeak, ClosedOnlyByDone
<1>11. CASE HandlerLoop
  BY <1>0, <1>11 DEF HandlerLoop, HGoto, PhaseInv, HandOverInv, CloseInv,
     LoopDeathCause, NoEntryLeak, ClosedOnlyByDone
<1>12. ASSUME NEW c \in Calls, HandlerNext(c) PROVE IndInv'
  BY <1>0, <1>12 DEF HandlerNext, HGoto, PhaseInv, HandOverInv, CloseInv,
     LoopDeathCause, NoEntryLeak, ClosedOnlyByDone
<1>13. CASE HandlerNoMsg
  BY <1>0, <1>13 DEF HandlerNoMsg, HGoto, PhaseInv, HandOverInv, CloseInv,
     LoopDeathCause, NoEntryLeak, ClosedOnlyByDone
<1>14. CASE HandlerCheck
  BY <1>0, <1>14 DEF HandlerCheck, HGoto, PhaseInv, HandOverInv, CloseInv,
     LoopDeathCause, NoEntryLeak, ClosedOnlyByDone
<1>15. CASE HandlerGet
  <2>1. PhaseInv' /\ HandOverInv'
    BY <1>0, <1>15 DEF HandlerGet, HGoto, PhaseInv, HandOverInv
  <2>2. CloseInv'
    BY <1>0, <1>15 DEF HandlerGet, HGoto, PhaseInv, HandOverInv, CloseInv
  <2>3. LoopDeathCause' /\ ClosedOnlyByDone'
    BY <1>0, <1>15 DEF HandlerGet, HGoto, PhaseInv, CloseInv, LoopDeathCause,
       ClosedOnlyByDone
  <2>4. NoEntryLeak'
    BY <1>0, <1>15 DEF HandlerGet, HGoto, PhaseInv, HandOverInv, CloseInv, NoEntryLeak
  <2> QED BY <1>0, <2>1, <2>2, <2>3, <2>4
<1>16. CASE HandlerDelete
  <2>1. PhaseInv' /\ HandOverInv'
    BY <1>0, <1>16 DEF HandlerDelete, HGoto, PhaseInv, HandOverInv
  <2>2. CloseInv'
    BY <1>0, <1>16 DEF HandlerDelete, HGoto, PhaseInv, HandOverInv, CloseInv
  <2>3. LoopDeathCause' /\ ClosedOnlyByDone'
    BY <1>0, <1>16 DEF HandlerDelete, HGoto, PhaseInv, CloseInv, LoopDeathCause,
       ClosedOnlyByDone
  <2>4. NoEntryLeak'
    BY <1>0, <1>16 DEF HandlerDelete, HGoto, PhaseInv, HandOverInv, CloseInv, NoEntryLeak
  <2> QED BY <1>0, <2>1, <2>2, <2>3, <2>4
<1>17. CASE HandlerSend
  <2>1. PhaseInv' /\ HandOverInv'
    BY <1>0, <1>17 DEF HandlerSend, HGoto, PhaseInv, HandOverInv
  <2>2. CloseInv'
    BY <1>0, <1>17 DEF HandlerSend, HGoto, PhaseInv, HandOverInv, CloseInv
  <2>3. LoopDeathCause' /\ ClosedOnlyByDone'
    BY <1>0, <1>17 DEF HandlerSend, HGoto, PhaseInv, CloseInv, LoopDeathCause,
       ClosedOnlyByDone
  <2>4. NoEntryLeak'
    BY <1>0, <1>17 DEF HandlerSend, HGoto, PhaseInv, HandOverInv, CloseInv, NoEntryLeak
  <2> QED BY <1>0, <2>1, <2>2, <2>3, <2>4
<1>18. CASE HandlerClose
  <2>1. PhaseInv' /\ HandOverInv'
    BY <1>0, <1>18 DEF HandlerClose, HGoto, PhaseInv, HandOverInv
  <2>2. CloseInv'
    BY <1>0, <1>18 DEF HandlerClose, HGoto, PhaseInv, HandOverInv, CloseInv
  <2>3. LoopDeathCause' /\ ClosedOnlyByDone'
    BY <1>0, <1>18 DEF HandlerClose, HGoto, PhaseInv, CloseInv, LoopDeathCause,
       ClosedOnlyByDone
  <2>4. NoEntryLeak'
    BY <1>0, <1>18 DEF HandlerClose, HGoto, PhaseInv, HandOverInv, CloseInv, NoEntryLeak
  <2> QED BY <1>0, <2>1, <2>2, <2>3, <2>4
<1>19. CASE HelperUnsubscribe
  BY <1>0, <1>19 DEF HelperUnsubscribe, PhaseInv, HandOverInv, CloseInv,
     LoopDeathCause, NoEntryLeak, ClosedOnlyByDone
<1>20. CASE DoneItems
  BY <1>0, <1>20 DEF DoneItems, PhaseInv, HandOverInv, CloseInv,
     LoopDeathCause, NoEntryLeak, ClosedOnlyByDone
<1>21. ASSUME NEW c \in Calls, DoneClose(c) PROVE IndInv'
  <2>1. PhaseInv' /\ HandOverInv'
    BY <1>0, <1>21 DEF DoneClose, PhaseInv, HandOverInv
  <2>2. CloseInv'
    BY <1>0, <1>21 DEF DoneClose, PhaseInv, HandOverInv, CloseInv
  <2>3. LoopDeathCause' /\ ClosedOnlyByDone'
    BY <1>0, <1>21 DEF DoneClose, PhaseInv, CloseInv, LoopDeathCause,
       ClosedOnlyByDone
  <2>4. NoEntryLeak'
    BY <1>0, <1>21 DEF DoneClose, PhaseInv, HandOverInv, CloseInv, NoEntryLeak
  <2> QED BY <1>0, <2>1, <2>2, <2>3, <2>4
<1>22. CASE DoneDelete
  <2>1. PhaseInv' /\ HandOverInv'
    BY <1>0, <1>22 DEF DoneDelete, PhaseInv, HandOverInv
  <2>2. CloseInv'
    BY <1>0, <1>22 DEF DoneDelete, PhaseInv, HandOverInv, CloseInv
  <2>3. LoopDeathCause' /\ ClosedOnlyByDone'
    BY <1>0, <1>22 DEF DoneDelete, PhaseInv, CloseInv, LoopDeathCause,
       ClosedOnlyByDone
  <2>4. NoEntryLeak'
    BY <1>0, <1>22 DEF DoneDelete, PhaseInv, HandOverInv, CloseInv, NoEntryLeak
  <2> QED BY <1>0, <2>1, <2>2, <2>3, <2>4
<1>23. CASE DoneNil
  BY <1>0, <1>23 DEF DoneNil, PhaseInv, HandOverInv, CloseInv,
     LoopDeathCause, NoEntryLeak, ClosedOnlyByDone
<1>24. CASE DoneSend
  BY <1>0, <1>24 DEF DoneSend, PhaseInv, HandOverInv, CloseInv,
     LoopDeathCause, NoEntryLeak, ClosedOnlyByDone
<1>25. CASE DoneSetClose
  BY <1>0, <1>25 DEF DoneSetClose, PhaseInv, HandOverInv, CloseInv,
     LoopDeathCause, NoEntryLeak, ClosedOnlyByDone
<1>26. CASE UNCHANGED vars
  BY <1>0, <1>26 DEF vars, PhaseInv, HandOverInv, CloseInv, LoopDeathCause,
     NoEntryLeak, ClosedOnlyByDone
<1> QED
  BY <1>1, <1>2, <1>3, <1>4, <1>5, <1>6, <1>7, <1>8, <1>9, <1>10, <1>11, <1>12, <1>13,
     <1>14, <1>15, <1>16, <1>17, <1>18, <1>19, <1>20, <1>21, <1>22, <1>23, <1>24, <1>25, <1>26
  DEF Next, Caller, Handler, Done

(* Every value of the client stays in its set: in particular the receive   *)
(* loop only ever handles correlation ids of calls made.                   *)
THEOREM TypeCorrect == Spec => []TypeOK
<1>1. Init => TypeOK
  BY InitInv DEF IndInv
<1> QED BY <1>1, TypeStep, PTL DEF Spec

(* The receive loop never blocks handing over an answer, for any number of *)
(* callers and of duplicate answers (nats_client.go:191-197).              *)
THEOREM NeverBlocks == Spec => []ReplyNeverBlocks
<1>1. IndInv => ReplyNeverBlocks
  BY DEF IndInv, TypeOK, HandOverInv, Handing, ReplyNeverBlocks
<1> QED BY <1>1, InitInv, IndStep, PTL DEF Spec

(* The receive loop dies only of a timeout that closed the channel of the  *)
(* answer in its hands (nats_client.go:196, rpc_client.go:108), of Done,   *)
(* or of a failed resubscription (nats_client.go:163, 177).                *)
THEOREM DeathCause == Spec => []LoopDeathCause
<1>1. IndInv => LoopDeathCause
  BY DEF IndInv
<1> QED BY <1>1, InitInv, IndStep, PTL DEF Spec

(* callinfos holds no call that has returned, but for a failed Publish and *)
(* the entry Done is deleting.                                             *)
THEOREM NoLeak == Spec => []NoEntryLeak
<1>1. IndInv => NoEntryLeak
  BY DEF IndInv
<1> QED BY <1>1, InitInv, IndStep, PTL DEF Spec

(* "client closed" is only ever returned after Done: the close after the   *)
(* send of the receive loop is never mistaken for it (rpc_client.go:98).   *)
THEOREM ClosedByDone == Spec => []ClosedOnlyByDone
<1>1. IndInv => ClosedOnlyByDone
  BY DEF IndInv
<1> QED BY <1>1, InitInv, IndStep, PTL DEF Spec
=============================================================================
