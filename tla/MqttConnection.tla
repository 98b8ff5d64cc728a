--------------------------- MODULE MqttConnection ---------------------------
(***************************************************************************)
(* One client connection of a gate, from accept to the end: the goroutine  *)
(* of network/tcp_server.go that runs the agent (gate/base/mqtt_agent.go), *)
(* its MQTT client (mqtt_client_server.go) over the write queue PackQueue, *)
(* the workers it starts for requests, the entry of the connection in the  *)
(* handler (gate_handler.go), and the gate stopping (mqtt_gate.go).        *)
(* Connections share nothing but the session map and a locked counter.     *)
(***************************************************************************)
EXTENDS PackQueue, FiniteSets

CONSTANTS
    ConcurrentTasks  \* the capacity of agent.ch

ASSUME AgentAssumption == ConcurrentTasks \in Nat \ {0}

(* bound: the goroutines that serve requests of the client, or RPCs of the *)
(* gate, at one time.                                                      *)
Helpers == Writers \ {Reader}

VARIABLES
    run,         \* where the goroutine of the connection is
    pack,        \* the pack being handled
    protocolOk,
    isStop,      \* of the client
    inSessions,  \* handler.sessions holds the agent
    agentNum,
    helper,      \* what a helper does: "free", "busy" and "done" as a worker of
                 \* the agent, or "rpc"
    gate         \* "run", "closing" or "stopped"

agentVars == <<run, pack, protocolOk, isStop, inSessions, agentNum, helper, gate>>
vars == <<queueVars, agentVars>>

(* The packs a client may send: whether waitPack replies, and what it      *)
(* hands to OnRecover. A publish of QoS 0 or 1; a ping or a subscription;  *)
(* PUBREC or PUBREL; anything else.                                        *)
Packs == [reply : BOOLEAN, up : {"nothing", "publish", "control"}]
NoPack == [reply |-> FALSE, up |-> "nothing"]

Init ==
    /\ QueueInit
    /\ run = "spawned" /\ pack = NoPack /\ protocolOk = FALSE /\ isStop = FALSE
    /\ inSessions = FALSE /\ agentNum = 0
    /\ helper = [w \in Helpers |-> "free"] /\ gate = "run"

Step(from, to) == run = from /\ run' = to
handlerVars == <<inSessions, agentNum>>
otherVars == <<helper, gate>>
writeVars == <<fch, fchOpen, flusher, status, buffered, broken, conn>>

-----------------------------------------------------------------------------
(* agent.Run up to the handshake, which fails when the peer is gone, sends *)
(* something else than CONNECT, or was closed.                             *)
Start ==
    /\ Step("spawned", "handshake")
    /\ UNCHANGED <<queueVars, pack, protocolOk, isStop, handlerVars, otherVars>>

HandshakeFail ==
    /\ Step("handshake", "exit")
    /\ UNCHANGED <<queueVars, pack, protocolOk, isStop, handlerVars, otherVars>>

HandshakeOk ==
    /\ Step("handshake", "ack") /\ conn # "closed"
    /\ UNCHANGED <<queueVars, pack, protocolOk, isStop, handlerVars, otherVars>>

(* OverTime: a goroutine of agent.Close is started if there is no session. *)
BeginClose == conn' = IF conn = "open" THEN "closing" ELSE conn
AgentClose ==
    /\ BeginClose
    /\ UNCHANGED <<wpc, readerErr, fch, fchOpen, flusher, status, buffered, broken>>

OverTime ==
    /\ run = "handshake" /\ conn = "open" /\ AgentClose
    /\ UNCHANGED agentVars

(* The CONNACK, written and flushed past the queue.                        *)
Ack ==
    /\ \/ Step("ack", "connect") /\ conn # "closed" /\ protocolOk' = TRUE
       \/ Step("ack", "exit") /\ UNCHANGED protocolOk
    /\ UNCHANGED <<queueVars, pack, isStop, handlerVars, otherVars>>

(* handler.Connect: the map, then the counter.                             *)
ConnectStore ==
    /\ Step("connect", "listen") /\ inSessions' = TRUE
    /\ UNCHANGED <<queueVars, pack, protocolOk, isStop, agentNum, otherVars>>

(* Mutant: the connection is not counted.                                  *)
ListenUncounted ==
    /\ Step("listen", "read") /\ flusher' = "recv"
    /\ UNCHANGED <<wpc, readerErr, fch, fchOpen, status, buffered, broken, conn>>
    /\ UNCHANGED <<pack, protocolOk, isStop, handlerVars, otherVars>>

Listen ==
    /\ Step("listen", "read") /\ agentNum' = agentNum + 1 /\ flusher' = "recv"
    /\ UNCHANGED <<wpc, readerErr, fch, fchOpen, status, buffered, broken, conn>>
    /\ UNCHANGED <<pack, protocolOk, isStop, inSessions, otherVars>>

-----------------------------------------------------------------------------
(* ReadPackInLoop. The deadline ends a read that gets nothing. waitPack    *)
(* replies first; an error of the reply ends the loop only after OnRecover.*)
ReadPack ==
    /\ Step("read", "recover") /\ status = "connected" /\ conn # "closed"
    /\ pack' \in Packs /\ readerErr' = FALSE
    /\ WriterTo(Reader, IF pack'.reply THEN "write" ELSE "idle")
    /\ UNCHANGED <<writeVars, protocolOk, isStop, handlerVars, otherVars>>

(* Mutant: a read error is ignored.                                        *)
ReadFailIgnored ==
    /\ Step("read", "recover") /\ status = "connected" /\ pack' = NoPack
    /\ UNCHANGED <<queueVars, protocolOk, isStop, handlerVars, otherVars>>

ReadFail ==
    /\ Step("read", "closing") /\ status = "connected"
    /\ WriterTo(Reader, "close")
    /\ UNCHANGED <<readerErr, writeVars, pack, protocolOk, isStop, handlerVars, otherVars>>

ReadStop ==
    /\ Step("read", "stop") /\ status # "connected"
    /\ UNCHANGED <<queueVars, pack, protocolOk, isStop, handlerVars, otherVars>>

(* OnRecover: a worker if there is a slot, else an answer that there is    *)
(* none, and a panic when the pack is no publish, which the answer takes   *)
(* it for. Listen_loop recovers from the panic and returns.                *)
Handled == run = "recover" /\ wpc[Reader] = "idle"
Full == Cardinality({w \in Helpers : helper[w] \in {"busy", "done"}}) >= ConcurrentTasks
LoopAgain ==
    /\ pack' = NoPack /\ readerErr' = FALSE
    /\ run' = IF readerErr THEN "closing" ELSE "read"
    /\ WriterTo(Reader, IF readerErr THEN "close" ELSE "idle")

RecoverNothing ==
    /\ Handled /\ pack.up = "nothing" /\ LoopAgain
    /\ UNCHANGED <<writeVars, protocolOk, isStop, handlerVars, otherVars>>

RecoverWorker(w) ==
    /\ Handled /\ pack.up # "nothing" /\ ~Full /\ helper[w] = "free" /\ LoopAgain
    /\ helper' = [helper EXCEPT ![w] = IF pack.up = "publish" THEN "busy" ELSE "done"]
    /\ UNCHANGED <<writeVars, protocolOk, isStop, handlerVars, gate>>

(* The error of that answer is dropped, the one of the reply is not.       *)
RecoverRefuse ==
    /\ Handled /\ pack.up = "publish" /\ Full
    /\ run' = IF readerErr THEN "refuseFailed" ELSE "refuse"
    /\ WriterTo(Reader, "write")
    /\ UNCHANGED <<readerErr, writeVars, pack, protocolOk, isStop, handlerVars, otherVars>>

RecoverRefused ==
    /\ run \in {"refuse", "refuseFailed"} /\ wpc[Reader] = "idle"
    /\ run' = "recover" /\ pack' = NoPack /\ readerErr' = (run = "refuseFailed")
    /\ UNCHANGED <<wpc, writeVars, protocolOk, isStop, handlerVars, otherVars>>

RecoverPanic ==
    /\ Handled /\ pack.up = "control" /\ Full
    /\ run' = "exit" /\ pack' = NoPack
    /\ UNCHANGED <<queueVars, protocolOk, isStop, handlerVars, otherVars>>

Closed ==
    /\ Step("closing", "stop") /\ wpc[Reader] = "idle"
    /\ UNCHANGED <<queueVars, pack, protocolOk, isStop, handlerVars, otherVars>>

-----------------------------------------------------------------------------
(* The end of Listen_loop, of Run, and what tcp_server.go does after it.   *)
StopClient ==
    /\ Step("stop", "exit") /\ isStop' = TRUE
    /\ UNCHANGED <<queueVars, pack, protocolOk, handlerVars, otherVars>>

Exit ==
    /\ Step("exit", "cleanup") /\ AgentClose
    /\ UNCHANGED <<pack, protocolOk, isStop, handlerVars, otherVars>>

Cleanup ==
    /\ Step("cleanup", "leave") /\ LockFree /\ conn' = "closed"
    /\ UNCHANGED <<wpc, readerErr, fch, fchOpen, flusher, status, buffered, broken>>
    /\ UNCHANGED <<pack, protocolOk, isStop, handlerVars, otherVars>>

(* Mutant: only a client that stopped in order leaves the map.             *)
LeaveIfStopped ==
    /\ Step("leave", "done")
    /\ inSessions' = (inSessions /\ ~isStop)
    /\ agentNum' = IF protocolOk THEN agentNum - 1 ELSE agentNum
    /\ UNCHANGED <<queueVars, pack, protocolOk, isStop, otherVars>>

(* OnClose and handler.DisConnect.                                         *)
Leave ==
    /\ Step("leave", "done")
    /\ inSessions' = FALSE
    /\ agentNum' = IF protocolOk THEN agentNum - 1 ELSE agentNum
    /\ UNCHANGED <<queueVars, pack, protocolOk, isStop, otherVars>>

-----------------------------------------------------------------------------
(* The goroutine of agent.Close.                                           *)
CloserRun ==
    /\ conn = "closing" /\ LockFree /\ conn' = "closed"
    /\ UNCHANGED <<wpc, readerErr, fch, fchOpen, flusher, status, buffered, broken>>
    /\ UNCHANGED agentVars

(* agent.WriteMsg and Client.WriteMsg.                                     *)
WriteMsg(w) == WriterTo(w, IF isStop THEN "idle" ELSE "write")

(* recoverworker: a helper may answer, and gives its slot back.            *)
WorkerWrite(w) ==
    /\ helper[w] = "busy" /\ helper' = [helper EXCEPT ![w] = "done"]
    /\ WriteMsg(w)
    /\ UNCHANGED <<readerErr, writeVars, run, pack, protocolOk, isStop, handlerVars, gate>>

WorkerFinish(w) ==
    /\ helper[w] # "free" /\ wpc[w] = "idle"
    /\ helper' = [helper EXCEPT ![w] = "free"]
    /\ UNCHANGED <<queueVars, run, pack, protocolOk, isStop, handlerVars, gate>>

(* Calls of the handler: Send and its like, and Close.                     *)
HandlerSend(w) ==
    /\ inSessions /\ helper[w] = "free" /\ helper' = [helper EXCEPT ![w] = "rpc"]
    /\ WriteMsg(w)
    /\ UNCHANGED <<readerErr, writeVars, run, pack, protocolOk, isStop, handlerVars, gate>>

HandlerClose ==
    /\ inSessions /\ conn = "open" /\ AgentClose
    /\ UNCHANGED agentVars

(* Mutant: stopping only forgets the connections.                          *)
OnDestroyForgets ==
    /\ gate = "run" /\ gate' = "closing" /\ inSessions' = FALSE
    /\ UNCHANGED <<queueVars, run, pack, protocolOk, isStop, agentNum, helper>>

(* Gate.Run after closeSig: OnDestroy goes through the map.                *)
OnDestroy ==
    /\ gate = "run" /\ gate' = "closing" /\ inSessions' = FALSE
    /\ IF inSessions THEN AgentClose ELSE UNCHANGED queueVars
    /\ UNCHANGED <<run, pack, protocolOk, isStop, agentNum, helper>>

(* TCPServer.Close waits for the connections whose goroutine has begun.    *)
GateStopped ==
    /\ gate = "closing" /\ run \in {"spawned", "done"} /\ gate' = "stopped"
    /\ UNCHANGED <<queueVars, run, pack, protocolOk, isStop, handlerVars, helper>>

-----------------------------------------------------------------------------
Handshake == Start \/ HandshakeFail \/ HandshakeOk \/ Ack \/ ConnectStore \/ Listen
Loop == \/ ReadPack \/ ReadFail \/ ReadStop \/ Closed
        \/ RecoverNothing \/ RecoverRefuse \/ RecoverRefused \/ RecoverPanic
        \/ \E w \in Helpers : RecoverWorker(w)
Ending == StopClient \/ Exit \/ Cleanup \/ Leave
Worker(w) == WorkerWrite(w) \/ WorkerFinish(w)
Queue(A) == A /\ UNCHANGED agentVars

Next ==
    \/ Queue(QueueStep)
    \/ Handshake \/ Loop \/ Ending
    \/ CloserRun \/ OverTime
    \/ \E w \in Helpers : Worker(w) \/ HandlerSend(w)
    \/ HandlerClose
    \/ OnDestroy \/ GateStopped

Spec == Init /\ [][Next]_vars

(* Mutexes and channels serve those who wait in turn; starting a worker    *)
(* waits for nothing but the bound on helpers. A write to the network ends *)
(* at its deadline, which the read loop moves with every pack it reads: it *)
(* need not end while the client goes on sending and takes nothing. A      *)
(* client may stay silent: until the connection is closed, a handshake     *)
(* need not end. Nobody needs to call the handler.                         *)
Fairness ==
    /\ \A w \in Writers : /\ SF_vars(Queue(Write(w) \/ Send(w)))
                          /\ WF_vars(Queue(Close(w)))
    /\ SF_vars(CloserRun) /\ SF_vars(\E w \in Helpers : RecoverWorker(w))
    /\ WF_vars(Queue(FlusherTake \/ FlusherEnd \/ FlusherLock)) /\ WF_vars(OverTime)
    /\ WF_vars(Queue(NetworkStep) \/ ReadPack)
    /\ WF_vars(Start \/ Ack \/ ConnectStore \/ Listen \/ Loop \/ Ending)
    /\ WF_vars(HandshakeFail /\ conn = "closed")
    /\ \A w \in Helpers : WF_vars(Worker(w))
    /\ WF_vars(GateStopped)

FairSpec == Spec /\ Fairness

-----------------------------------------------------------------------------
TypeOK ==
    /\ QueueTypeOK
    /\ run \in {"spawned", "handshake", "ack", "connect", "listen", "read", "recover",
                "refuse", "refuseFailed", "closing", "stop", "exit",
                "cleanup", "leave", "done"}
    /\ pack \in Packs /\ protocolOk \in BOOLEAN /\ isStop \in BOOLEAN
    /\ inSessions \in BOOLEAN /\ agentNum \in Nat
    /\ helper \in [Helpers -> {"free", "busy", "done", "rpc"}]
    /\ gate \in {"run", "closing", "stopped"}

(* However a connection ends, the handler forgets it: no entry is left in  *)
(* sessions, where it would be sent to for ever, and GetAgentNum does not  *)
(* count it.                                                               *)
NoSessionLeak == run = "done" => ~inSessions /\ agentNum = 0

(* A write to the network never ends. By Fairness that takes a client that *)
(* takes nothing and sends for ever: every pack read moves the deadline of *)
(* the write that waits.                                                   *)
Stalled == <>[]~LockFree

(* WritePack and Close return, unless the queue is jammed or the client    *)
(* keeps the connection stalled.                                           *)
WriterReturns ==
    \A w \in Writers : (wpc[w] # "idle" ~> wpc[w] = "idle" \/ Jammed) \/ Stalled

(* A closed connection is given up, unless the queue is jammed: its        *)
(* goroutine ends and the handler forgets it.                              *)
RunEnds == conn = "closed" ~> run = "done" \/ Jammed

(* Flusher does not outlive the connection, unless a panic of OnRecover    *)
(* ended it: then Listen_loop returns without closing the queue.           *)
Crashed == run = "done" /\ protocolOk /\ ~isStop
FlusherEnds == run = "done" ~> flusher \in {"none", "end"} \/ Crashed

(* A gate that is told to stop does, unless a client completed its         *)
(* handshake after OnDestroy went through the map, the queue is jammed, or *)
(* a client keeps its connection stalled.                                  *)
GateStops ==
    (gate = "closing" ~> gate = "stopped" \/ inSessions \/ Jammed) \/ Stalled
=============================================================================
