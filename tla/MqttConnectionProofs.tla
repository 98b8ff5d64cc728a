------------------------ MODULE MqttConnectionProofs ------------------------
(***************************************************************************)
(* The safety properties of a connection and of its write queue, for any   *)
(* number of goroutines and any capacity of the channels. Three facts      *)
(* about the labels carry them: what the handler knows of the connection   *)
(* (Known), who is inside WritePack or Close (Outside: a goroutine that    *)
(* enters is never inside already, so that its token is not lost), and     *)
(* that Flusher starts once (Before).                                      *)
(***************************************************************************)
EXTENDS MqttConnection, FiniteSetTheorems, TLAPS

(* Up to the CONNACK; up to Listen_loop; in Listen_loop; after it.         *)
Unknown == {"spawned", "handshake", "ack"}
Early == Unknown \cup {"connect", "listen"}
Listening == {"read", "recover", "refuse", "refuseFailed", "closing", "stop"}
Leaving == {"exit", "cleanup", "leave"}

(* The entry in the map and the count of the handler.                      *)
Known ==
    /\ run \in Unknown => ~protocolOk
    /\ run \in {"connect", "listen"} \cup Listening => protocolOk
    /\ run \in Unknown \cup {"connect", "done"} => ~inSessions
    /\ run \in Early \cup {"done"} => agentNum = 0
    /\ run \in Listening => agentNum = 1
    /\ run \in Leaving => agentNum = IF protocolOk THEN 1 ELSE 0

(* Who is not inside WritePack or Close.                                   *)
Outside ==
    /\ run \notin {"recover", "refuse", "refuseFailed", "closing"} => wpc[Reader] = "idle"
    /\ \A w \in Helpers : helper[w] \in {"free", "busy"} => wpc[w] = "idle"

(* Flusher is started by Listen_loop.                                      *)
Before == run \in Early => flusher = "none"

(* The requests that have a place in agent.ch.                             *)
Workers == {w \in Helpers : helper[w] \in {"busy", "done"}}
Bounded == IsFiniteSet(Workers) /\ Cardinality(Workers) <= ConcurrentTasks

(* TypeOK in two halves: flags, and labels and counts.                     *)
Flags ==
    /\ readerErr \in BOOLEAN /\ fchOpen \in BOOLEAN /\ buffered \in BOOLEAN
    /\ broken \in BOOLEAN /\ protocolOk \in BOOLEAN /\ isStop \in BOOLEAN
    /\ inSessions \in BOOLEAN
Labels ==
    /\ wpc \in [Writers -> {"idle", "write", "overflow", "send", "sendFailed",
                        "close", "conn"}]
    /\ fch \in 0..FchCap /\ flusher \in {"none", "recv", "lock", "flush", "end"}
    /\ status \in {"connected", "closed"} /\ conn \in {"open", "closing", "closed"}
    /\ run \in Early \cup Listening \cup Leaving \cup {"done"}
    /\ pack \in Packs /\ agentNum \in Nat
    /\ helper \in [Helpers -> {"free", "busy", "done", "rpc"}]
    /\ gate \in {"run", "closing", "stopped"}

(* Together they are TypeOK.                                               *)
LEMMA TypeHalves == Flags /\ Labels => TypeOK
BY DEF Flags, Labels, TypeOK, QueueTypeOK, Early, Unknown, Listening, Leaving

(* The inductive invariant.                                                *)
IndInv == TypeOK /\ Known /\ Outside /\ Before /\ Bounded /\ FlushPromised

(* What the answer to a refused request leaves alone, apart from the flag. *)
LEMMA Refused ==
  ASSUME RecoverRefused
  PROVE  /\ run \in {"refuse", "refuseFailed"} /\ wpc[Reader] = "idle"
         /\ run' = "recover" /\ pack' = NoPack
         /\ UNCHANGED <<wpc, writeVars, protocolOk, isStop, handlerVars, otherVars>>
BY Zenon DEF RecoverRefused

(* The types, one step per group of actions: flags.                        *)
LEMMA FlagsStep == IndInv /\ [Next]_vars => Flags'
<1> SUFFICES ASSUME IndInv, [Next]_vars PROVE Flags'
  OBVIOUS
<1> USE QueueAssumption, AgentAssumption
    DEF IndInv, TypeOK, QueueTypeOK, Flags,
        queueVars, agentVars, handlerVars, otherVars, writeVars
<1>1. ASSUME NEW w \in Writers, Write(w) \/ Overflow(w) \/ Send(w) \/ Close(w),
             UNCHANGED agentVars
      PROVE  Flags'
  BY <1>1, Zenon DEF Write, Overflow, Send, Close, WriteRefused, WriteBuffered, WriteFailed,
         WriteOverflow, OverflowDone, OverflowFailed, SendToken, SendPanic, CloseQueue,
         CloseConn, WriterTo, Result
<1>2. ASSUME Flusher /\ UNCHANGED agentVars
      PROVE  Flags'
  BY <1>2, Zenon DEF Flusher, FlusherTake, FlusherEnd, FlusherLock, Flush, FlushDone,
         FlushFailed, NextRound
<1>3. ASSUME Handshake
      PROVE  Flags'
  BY <1>3, Zenon DEF Handshake, Start, HandshakeFail, HandshakeOk, Ack, ConnectStore,
       Listen, Step
<1>4. ASSUME ReadPack \/ ReadFail \/ ReadStop \/ Closed
      PROVE  Flags'
  BY <1>4, Zenon DEF ReadPack, ReadFail, ReadStop, Closed, Step, WriterTo
<1>5. ASSUME RecoverNothing \/ RecoverRefuse \/ RecoverRefused \/ RecoverPanic
      PROVE  Flags'
  BY <1>5, Zenon DEF RecoverNothing, RecoverRefuse, RecoverRefused, RecoverPanic, Handled,
         LoopAgain, WriterTo
<1>6. ASSUME NEW w \in Helpers, RecoverWorker(w)
      PROVE  Flags'
  BY <1>6, Zenon DEF RecoverWorker, Handled, LoopAgain, WriterTo
<1>7. ASSUME Ending
      PROVE  Flags'
  BY <1>7, Zenon DEF Ending, StopClient, Exit, Cleanup, Leave, Step, AgentClose, BeginClose
<1>8. ASSUME NEW w \in Helpers, Worker(w) \/ HandlerSend(w)
      PROVE  Flags'
  BY <1>8, Zenon DEF Worker, WorkerWrite, WorkerFinish, HandlerSend, WriteMsg, WriterTo
<1>9. ASSUME CloserRun \/ OverTime \/ HandlerClose
      PROVE  Flags'
  BY <1>9, Zenon DEF CloserRun, OverTime, HandlerClose, AgentClose, BeginClose
<1>10. ASSUME OnDestroy \/ GateStopped
      PROVE  Flags'
  BY <1>10, Zenon DEF OnDestroy, GateStopped, AgentClose, BeginClose
<1>11. CASE UNCHANGED vars
  BY <1>11 DEF vars
<1> QED
  BY <1>1, <1>2, <1>3, <1>4, <1>5, <1>6, <1>7, <1>8, <1>9, <1>10, <1>11
  DEF Next, Queue, QueueStep, Loop

(* The types: labels and counts. agentNum is 1 where Leave lowers it.      *)
LEMMA LabelsStep == IndInv /\ [Next]_vars => Labels'
<1> SUFFICES ASSUME IndInv, [Next]_vars PROVE Labels'
  OBVIOUS
<1> USE QueueAssumption, AgentAssumption
    DEF IndInv, TypeOK, QueueTypeOK, Labels, Known, Early, Unknown, Listening, Leaving,
        NoPack, Packs, Helpers,
        queueVars, agentVars, handlerVars, otherVars, writeVars
<1>1. ASSUME NEW w \in Writers, Write(w) \/ Overflow(w) \/ Send(w) \/ Close(w),
             UNCHANGED agentVars
      PROVE  Labels'
  <2>1. CASE Write(w) \/ Overflow(w)
    <3>1. /\ \E label \in {"idle", "overflow", "send", "sendFailed"} :
                wpc' = [wpc EXCEPT ![w] = label]
          /\ UNCHANGED <<fch, flusher, status, conn>>
      BY <2>1, Zenon DEF Write, Overflow, WriteRefused, WriteBuffered, WriteFailed,
         WriteOverflow, OverflowDone, OverflowFailed, WriterTo
    <3> QED
      BY <1>1, <3>1
  <2>2. CASE Send(w)
    <3>1. /\ \E label \in {"idle", "close"} : wpc' = [wpc EXCEPT ![w] = label]
          /\ fch' = fch \/ (fch < FchCap /\ fch' = fch + 1)
          /\ UNCHANGED <<flusher, status, conn>>
      BY <2>2, Zenon DEF Send, SendToken, SendPanic, WriterTo
    <3> QED
      BY <1>1, <3>1
  <2>3. CASE Close(w)
    BY <1>1, <2>3 DEF Close, CloseQueue, CloseConn, WriterTo
  <2> QED
    BY <1>1, <2>1, <2>2, <2>3
<1>2. ASSUME Flusher /\ UNCHANGED agentVars
      PROVE  Labels'
  BY <1>2 DEF Flusher, FlusherTake, FlusherEnd, FlusherLock, Flush, FlushDone,
         FlushFailed, NextRound
<1>3. ASSUME Handshake
      PROVE  Labels'
  BY <1>3 DEF Handshake, Start, HandshakeFail, HandshakeOk, Ack, ConnectStore, Listen, Step
<1>4. ASSUME ReadPack \/ ReadFail \/ ReadStop \/ Closed
      PROVE  Labels'
  BY <1>4 DEF ReadPack, ReadFail, ReadStop, Closed, Step, WriterTo
<1>5. ASSUME RecoverNothing \/ RecoverRefuse \/ RecoverRefused \/ RecoverPanic
      PROVE  Labels'
  <2>1. CASE RecoverNothing
    BY <1>5, <2>1 DEF RecoverNothing, Handled, LoopAgain, WriterTo
  <2>2. CASE RecoverRefuse
    BY <1>5, <2>2 DEF RecoverRefuse, Handled, WriterTo
  <2>3. CASE RecoverRefused
    <3>1. /\ run' = "recover" /\ pack' = NoPack
          /\ UNCHANGED <<wpc, fch, flusher, status, conn, agentNum, helper, gate>>
      BY <2>3, Refused
    <3> QED
      BY <3>1
  <2>4. CASE RecoverPanic
    BY <2>4 DEF RecoverPanic, Handled
  <2> QED
    BY <1>5, <2>1, <2>2, <2>3, <2>4
<1>6. ASSUME NEW w \in Helpers, RecoverWorker(w)
      PROVE  Labels'
  BY <1>6 DEF RecoverWorker, Handled, LoopAgain, WriterTo
<1>7. ASSUME Ending
      PROVE  Labels'
  BY <1>7 DEF Ending, StopClient, Exit, Cleanup, Leave, Step, AgentClose, BeginClose
<1>8. ASSUME NEW w \in Helpers, Worker(w) \/ HandlerSend(w)
      PROVE  Labels'
  BY <1>8 DEF Worker, WorkerWrite, WorkerFinish, HandlerSend, WriteMsg, WriterTo
<1>9. ASSUME CloserRun \/ OverTime \/ HandlerClose
      PROVE  Labels'
  BY <1>9 DEF CloserRun, OverTime, HandlerClose, AgentClose, BeginClose
<1>10. ASSUME OnDestroy \/ GateStopped
      PROVE  Labels'
  BY <1>10 DEF OnDestroy, GateStopped, AgentClose, BeginClose
<1>11. CASE UNCHANGED vars
  BY <1>11 DEF vars
<1> QED
  BY <1>1, <1>2, <1>3, <1>4, <1>5, <1>6, <1>7, <1>8, <1>9, <1>10, <1>11
  DEF Next, Queue, QueueStep, Loop

(* Connect and DisConnect of the handler come in pairs.                    *)
LEMMA KnownStep == IndInv /\ [Next]_vars => Known'
<1> SUFFICES ASSUME IndInv, [Next]_vars PROVE Known'
  OBVIOUS
<1> USE QueueAssumption, AgentAssumption
    DEF IndInv, TypeOK, Known, Early, Unknown, Listening, Leaving,
        queueVars, agentVars, handlerVars, otherVars, writeVars
<1>1. ASSUME NEW w \in Writers, Write(w) \/ Overflow(w) \/ Send(w) \/ Close(w),
             UNCHANGED agentVars
      PROVE  Known'
  BY <1>1 DEF Write, Overflow, Send, Close, WriteRefused, WriteBuffered, WriteFailed,
         WriteOverflow, OverflowDone, OverflowFailed, SendToken, SendPanic, CloseQueue,
         CloseConn, WriterTo, Result
<1>2. ASSUME Flusher /\ UNCHANGED agentVars
      PROVE  Known'
  BY <1>2 DEF Flusher, FlusherTake, FlusherEnd, FlusherLock, Flush, FlushDone,
         FlushFailed, NextRound
<1>3. ASSUME Handshake
      PROVE  Known'
  BY <1>3 DEF Handshake, Start, HandshakeFail, HandshakeOk, Ack, ConnectStore, Listen, Step
<1>4. ASSUME ReadPack \/ ReadFail \/ ReadStop \/ Closed
      PROVE  Known'
  BY <1>4 DEF ReadPack, ReadFail, ReadStop, Closed, Step, WriterTo
<1>5. ASSUME RecoverNothing \/ RecoverRefuse \/ RecoverRefused \/ RecoverPanic
      PROVE  Known'
  BY <1>5 DEF RecoverNothing, RecoverRefuse, RecoverRefused, RecoverPanic, Handled,
         LoopAgain, WriterTo
<1>6. ASSUME NEW w \in Helpers, RecoverWorker(w)
      PROVE  Known'
  BY <1>6 DEF RecoverWorker, Handled, LoopAgain, WriterTo
<1>7. ASSUME Ending
      PROVE  Known'
  BY <1>7 DEF Ending, StopClient, Exit, Cleanup, Leave, Step, AgentClose, BeginClose
<1>8. ASSUME NEW w \in Helpers, Worker(w) \/ HandlerSend(w)
      PROVE  Known'
  BY <1>8 DEF Worker, WorkerWrite, WorkerFinish, HandlerSend, WriteMsg, WriterTo
<1>9. ASSUME CloserRun \/ OverTime \/ HandlerClose
      PROVE  Known'
  BY <1>9 DEF CloserRun, OverTime, HandlerClose, AgentClose, BeginClose
<1>10. ASSUME OnDestroy \/ GateStopped
      PROVE  Known'
  BY <1>10 DEF OnDestroy, GateStopped, AgentClose, BeginClose
<1>11. CASE UNCHANGED vars
  BY <1>11 DEF vars
<1> QED
  BY <1>1, <1>2, <1>3, <1>4, <1>5, <1>6, <1>7, <1>8, <1>9, <1>10, <1>11
  DEF Next, Queue, QueueStep, Loop

(* A goroutine leaves WritePack or Close before it does something else.    *)
LEMMA OutsideStep == IndInv /\ [Next]_vars => Outside'
<1> SUFFICES ASSUME IndInv, [Next]_vars PROVE Outside'
  OBVIOUS
<1> USE QueueAssumption, AgentAssumption
    DEF IndInv, TypeOK, QueueTypeOK, Outside, Helpers,
        queueVars, agentVars, handlerVars, otherVars, writeVars
<1>1. ASSUME NEW w \in Writers, Write(w) \/ Overflow(w) \/ Send(w) \/ Close(w),
             UNCHANGED agentVars
      PROVE  Outside'
  BY <1>1 DEF Write, Overflow, Send, Close, WriteRefused, WriteBuffered, WriteFailed,
         WriteOverflow, OverflowDone, OverflowFailed, SendToken, SendPanic, CloseQueue,
         CloseConn, WriterTo, Result
<1>2. ASSUME Flusher /\ UNCHANGED agentVars
      PROVE  Outside'
  BY <1>2 DEF Flusher, FlusherTake, FlusherEnd, FlusherLock, Flush, FlushDone,
         FlushFailed, NextRound
<1>3. ASSUME Handshake
      PROVE  Outside'
  BY <1>3 DEF Handshake, Start, HandshakeFail, HandshakeOk, Ack, ConnectStore, Listen, Step
<1>4. ASSUME ReadPack \/ ReadFail \/ ReadStop \/ Closed
      PROVE  Outside'
  BY <1>4 DEF ReadPack, ReadFail, ReadStop, Closed, Step, WriterTo
<1>5. ASSUME RecoverNothing \/ RecoverRefuse \/ RecoverRefused \/ RecoverPanic
      PROVE  Outside'
  BY <1>5 DEF RecoverNothing, RecoverRefuse, RecoverRefused, RecoverPanic, Handled,
         LoopAgain, WriterTo
<1>6. ASSUME NEW w \in Helpers, RecoverWorker(w)
      PROVE  Outside'
  BY <1>6 DEF RecoverWorker, Handled, LoopAgain, WriterTo
<1>7. ASSUME Ending
      PROVE  Outside'
  BY <1>7 DEF Ending, StopClient, Exit, Cleanup, Leave, Step, AgentClose, BeginClose
<1>8. ASSUME NEW w \in Helpers, Worker(w) \/ HandlerSend(w)
      PROVE  Outside'
  BY <1>8 DEF Worker, WorkerWrite, WorkerFinish, HandlerSend, WriteMsg, WriterTo
<1>9. ASSUME CloserRun \/ OverTime \/ HandlerClose
      PROVE  Outside'
  BY <1>9 DEF CloserRun, OverTime, HandlerClose, AgentClose, BeginClose
<1>10. ASSUME OnDestroy \/ GateStopped
      PROVE  Outside'
  BY <1>10 DEF OnDestroy, GateStopped, AgentClose, BeginClose
<1>11. CASE UNCHANGED vars
  BY <1>11 DEF vars
<1> QED
  BY <1>1, <1>2, <1>3, <1>4, <1>5, <1>6, <1>7, <1>8, <1>9, <1>10, <1>11
  DEF Next, Queue, QueueStep, Loop

(* Flusher does not run before Listen_loop has started it.                 *)
LEMMA BeforeStep == IndInv /\ [Next]_vars => Before'
<1> SUFFICES ASSUME IndInv, [Next]_vars PROVE Before'
  OBVIOUS
<1> USE QueueAssumption, AgentAssumption
    DEF IndInv, TypeOK, Before, Early, Unknown,
        queueVars, agentVars, handlerVars, otherVars, writeVars
<1>1. ASSUME NEW w \in Writers, Write(w) \/ Overflow(w) \/ Send(w) \/ Close(w),
             UNCHANGED agentVars
      PROVE  Before'
  BY <1>1 DEF Write, Overflow, Send, Close, WriteRefused, WriteBuffered, WriteFailed,
         WriteOverflow, OverflowDone, OverflowFailed, SendToken, SendPanic, CloseQueue,
         CloseConn, WriterTo, Result
<1>2. ASSUME Flusher /\ UNCHANGED agentVars
      PROVE  Before'
  BY <1>2 DEF Flusher, FlusherTake, FlusherEnd, FlusherLock, Flush, FlushDone,
         FlushFailed, NextRound
<1>3. ASSUME Handshake
      PROVE  Before'
  BY <1>3 DEF Handshake, Start, HandshakeFail, HandshakeOk, Ack, ConnectStore, Listen, Step
<1>4. ASSUME ReadPack \/ ReadFail \/ ReadStop \/ Closed
      PROVE  Before'
  BY <1>4 DEF ReadPack, ReadFail, ReadStop, Closed, Step, WriterTo
<1>5. ASSUME RecoverNothing \/ RecoverRefuse \/ RecoverRefused \/ RecoverPanic
      PROVE  Before'
  BY <1>5 DEF RecoverNothing, RecoverRefuse, RecoverRefused, RecoverPanic, Handled,
         LoopAgain, WriterTo
<1>6. ASSUME NEW w \in Helpers, RecoverWorker(w)
      PROVE  Before'
  BY <1>6 DEF RecoverWorker, Handled, LoopAgain, WriterTo
<1>7. ASSUME Ending
      PROVE  Before'
  BY <1>7 DEF Ending, StopClient, Exit, Cleanup, Leave, Step, AgentClose, BeginClose
<1>8. ASSUME NEW w \in Helpers, Worker(w) \/ HandlerSend(w)
      PROVE  Before'
  BY <1>8 DEF Worker, WorkerWrite, WorkerFinish, HandlerSend, WriteMsg, WriterTo
<1>9. ASSUME CloserRun \/ OverTime \/ HandlerClose
      PROVE  Before'
  BY <1>9 DEF CloserRun, OverTime, HandlerClose, AgentClose, BeginClose
<1>10. ASSUME OnDestroy \/ GateStopped
      PROVE  Before'
  BY <1>10 DEF OnDestroy, GateStopped, AgentClose, BeginClose
<1>11. CASE UNCHANGED vars
  BY <1>11 DEF vars
<1> QED
  BY <1>1, <1>2, <1>3, <1>4, <1>5, <1>6, <1>7, <1>8, <1>9, <1>10, <1>11
  DEF Next, Queue, QueueStep, Loop

(* A token goes with buffered data until Flusher takes it.                 *)
LEMMA FlushPromisedStep == IndInv /\ [Next]_vars => FlushPromised'
<1> SUFFICES ASSUME IndInv, [Next]_vars PROVE FlushPromised'
  OBVIOUS
<1> USE QueueAssumption, AgentAssumption
    DEF IndInv, TypeOK, QueueTypeOK, Outside, Before, Early, Unknown, FlushPromised, Helpers,
        queueVars, agentVars, handlerVars, otherVars, writeVars
<1>1. ASSUME NEW w \in Writers, Write(w) \/ Overflow(w) \/ Send(w) \/ Close(w),
             UNCHANGED agentVars
      PROVE  FlushPromised'
  <2>1. CASE Write(w)
    BY <1>1, <2>1 DEF Write, WriteRefused, WriteBuffered, WriteFailed, WriteOverflow,
       WriterTo
  <2>4. CASE OverflowDone(w)
    <3>1. wpc'[w] = "send"
      BY <2>4 DEF OverflowDone, WriterTo
    <3> QED
      BY <3>1
  <2>5. CASE OverflowFailed(w)
    <3>1. broken'
      BY <2>5, Zenon DEF OverflowFailed
    <3> QED
      BY <3>1
  <2>2. CASE Send(w)
    <3>1. CASE SendToken(w)
      <4>1. fch' > 0
        BY <3>1 DEF SendToken
      <4> QED
        BY <4>1
    <3>2. CASE SendPanic(w)
      <4>1. ~fchOpen'
        BY <3>2, Zenon DEF SendPanic
      <4> QED
        BY <4>1
    <3> QED
      BY <2>2, <3>1, <3>2 DEF Send
  <2>3. CASE Close(w)
    BY <1>1, <2>3 DEF Close, CloseQueue, CloseConn, WriterTo
  <2> QED
    BY <1>1, <2>1, <2>2, <2>3, <2>4, <2>5 DEF Overflow
<1>2. ASSUME Flusher /\ UNCHANGED agentVars
      PROVE  FlushPromised'
  BY <1>2 DEF Flusher, FlusherTake, FlusherEnd, FlusherLock, Flush, FlushDone,
         FlushFailed, NextRound
<1>3. ASSUME Handshake
      PROVE  FlushPromised'
  BY <1>3 DEF Handshake, Start, HandshakeFail, HandshakeOk, Ack, ConnectStore, Listen, Step
<1>4. ASSUME ReadPack \/ ReadFail \/ ReadStop \/ Closed
      PROVE  FlushPromised'
  BY <1>4 DEF ReadPack, ReadFail, ReadStop, Closed, Step, WriterTo
<1>5. ASSUME RecoverNothing \/ RecoverRefuse \/ RecoverRefused \/ RecoverPanic
      PROVE  FlushPromised'
  <2>1. CASE RecoverNothing
    BY <1>5, <2>1 DEF RecoverNothing, Handled, LoopAgain, WriterTo
  <2>2. CASE RecoverRefuse
    BY <1>5, <2>2 DEF RecoverRefuse, Handled, WriterTo
  <2>3. CASE RecoverRefused
    BY <2>3, Refused
  <2>4. CASE RecoverPanic
    BY <2>4 DEF RecoverPanic, Handled
  <2> QED
    BY <1>5, <2>1, <2>2, <2>3, <2>4
<1>6. ASSUME NEW w \in Helpers, RecoverWorker(w)
      PROVE  FlushPromised'
  BY <1>6 DEF RecoverWorker, Handled, LoopAgain, WriterTo
<1>7. ASSUME Ending
      PROVE  FlushPromised'
  BY <1>7 DEF Ending, StopClient, Exit, Cleanup, Leave, Step, AgentClose, BeginClose
<1>8. ASSUME NEW w \in Helpers, Worker(w) \/ HandlerSend(w)
      PROVE  FlushPromised'
  BY <1>8 DEF Worker, WorkerWrite, WorkerFinish, HandlerSend, WriteMsg, WriterTo
<1>9. ASSUME CloserRun \/ OverTime \/ HandlerClose
      PROVE  FlushPromised'
  BY <1>9 DEF CloserRun, OverTime, HandlerClose, AgentClose, BeginClose
<1>10. ASSUME OnDestroy \/ GateStopped
      PROVE  FlushPromised'
  BY <1>10 DEF OnDestroy, GateStopped, AgentClose, BeginClose
<1>11. CASE UNCHANGED vars
  BY <1>11 DEF vars
<1> QED
  BY <1>1, <1>2, <1>3, <1>4, <1>5, <1>6, <1>7, <1>8, <1>9, <1>10, <1>11
  DEF Next, Queue, QueueStep, Loop

(* Only RecoverWorker takes a place in agent.ch, if there is one.          *)
LEMMA BoundedStep == IndInv /\ [Next]_vars => Bounded'
<1> SUFFICES ASSUME IndInv, [Next]_vars PROVE Bounded'
  OBVIOUS
<1>0. /\ IsFiniteSet(Workers) /\ Cardinality(Workers) \in Nat
      /\ Cardinality(Workers) <= ConcurrentTasks /\ ConcurrentTasks \in Nat
  BY AgentAssumption, FS_CardinalityType DEF IndInv, Bounded
<1>1. ASSUME NEW w \in Helpers, RecoverWorker(w) PROVE Bounded'
  <2>1. Workers' = Workers \cup {w}
    BY <1>1 DEF IndInv, TypeOK, RecoverWorker, Workers
  <2>2. Cardinality(Workers) < ConcurrentTasks
    BY <1>0, <1>1 DEF RecoverWorker, Full, Workers
  <2>3. /\ IsFiniteSet(Workers \cup {w})
        /\ Cardinality(Workers \cup {w}) =
              IF w \in Workers THEN Cardinality(Workers) ELSE Cardinality(Workers) + 1
    BY <1>0, FS_AddElement, Zenon
  <2> QED
    BY <1>0, <2>1, <2>2, <2>3 DEF Bounded
<1>2. ASSUME Workers' \subseteq Workers PROVE Bounded'
  <2>1. IsFiniteSet(Workers') /\ Cardinality(Workers') <= Cardinality(Workers)
    BY <1>0, <1>2, FS_Subset
  <2>2. Cardinality(Workers') \in Nat
    BY <2>1, FS_CardinalityType
  <2> QED
    BY <1>0, <2>1, <2>2 DEF Bounded
<1>3. ASSUME NEW w \in Helpers, Worker(w) \/ HandlerSend(w) PROVE Workers' \subseteq Workers
  BY <1>3 DEF IndInv, TypeOK, Worker, WorkerWrite, WorkerFinish, HandlerSend, Workers
<1>4. ASSUME UNCHANGED helper PROVE Workers' \subseteq Workers
  BY <1>4 DEF Workers
<1>5. \/ \E w \in Helpers : RecoverWorker(w) \/ Worker(w) \/ HandlerSend(w)
      \/ UNCHANGED helper
  BY Zenon
     DEF Next, vars, agentVars, otherVars, Queue, Handshake, Loop, Ending, Start,
         HandshakeFail, HandshakeOk, Ack, ConnectStore, Listen, ReadPack, ReadFail,
         ReadStop, Closed, RecoverNothing, RecoverRefuse, RecoverRefused, RecoverPanic,
         StopClient, Exit, Cleanup, Leave, CloserRun, OverTime, HandlerClose,
         OnDestroy, GateStopped
<1> QED
  BY <1>1, <1>2, <1>3, <1>4, <1>5

(* The three facts about IndInv.                                           *)
LEMMA Begin == Init => IndInv
<1> SUFFICES ASSUME Init PROVE IndInv
  OBVIOUS
<1> USE QueueAssumption, AgentAssumption DEF Init, QueueInit
<1>1. TypeOK
  <2>1. Flags
    BY Zenon DEF Flags
  <2>2. Labels
    BY DEF Labels, NoPack, Packs, Early, Unknown
  <2> QED
    BY <2>1, <2>2, TypeHalves
<1>2. Known /\ Outside /\ Before /\ FlushPromised
  BY DEF Known, Outside, Before, FlushPromised, Early, Unknown, Listening, Leaving,
         Helpers
<1>3. Workers = {}
  BY DEF Workers
<1>4. Bounded
  BY <1>3, FS_EmptySet DEF Bounded
<1> QED
  BY <1>1, <1>2, <1>4 DEF IndInv

(* Every step of the connection keeps IndInv.                              *)
LEMMA Keep == IndInv /\ [Next]_vars => IndInv'
<1>1. (Flags /\ Labels => TypeOK)'
  BY TypeHalves, PTL
<1> QED
  BY <1>1, FlagsStep, LabelsStep, KnownStep, OutsideStep, BeforeStep, FlushPromisedStep,
     BoundedStep DEF IndInv

(* IndInv always holds.                                                    *)
LEMMA Invariance == Spec => []IndInv
BY Begin, Keep, PTL DEF Spec

(* A connection keeps its types. In particular fch never holds more than   *)
(* its capacity, and the count of agents is not negative.                  *)
THEOREM TypeCorrect == Spec => []TypeOK
<1>1. IndInv => TypeOK
  BY DEF IndInv
<1> QED
  BY Invariance, <1>1, PTL

(* However a connection ends, the handler has forgotten it and does not    *)
(* count it.                                                               *)
THEOREM Forgotten == Spec => []NoSessionLeak
<1>1. IndInv => NoSessionLeak
  BY DEF IndInv, Known, NoSessionLeak
<1> QED
  BY Invariance, <1>1, PTL

(* As long as the queue works, data in the buffer has a token that tells   *)
(* Flusher of it, or a writer about to send one.                           *)
THEOREM Promise == Spec => []FlushPromised
<1>1. IndInv => FlushPromised
  BY DEF IndInv
<1> QED
  BY Invariance, <1>1, PTL

(* The client has at most as many requests served at one time as agent.ch  *)
(* has places: no path through OnRecover takes a place without a free one. *)
WorkersLimited == Cardinality(Workers) <= ConcurrentTasks

(* WorkersLimited always holds.                                            *)
THEOREM Limited == Spec => []WorkersLimited
<1>1. IndInv => WorkersLimited
  BY DEF IndInv, Bounded, WorkersLimited
<1> QED
  BY Invariance, <1>1, PTL
=============================================================================
