------------------------------ MODULE PackQueue ------------------------------
(***************************************************************************)
(* gate/base/mqtt/pack_queue.go: the write queue of one MQTT connection.   *)
(* Goroutines put packs into a bufio.Writer under writelock and a token    *)
(* into the channel fch; the goroutine of Flusher takes tokens and         *)
(* flushes. Anyone closes the queue, without the lock.                     *)
(*                                                                         *)
(* Writing to the network takes time and is a step of its own, in a flush  *)
(* and in a WritePack that the buffer cannot hold: it keeps writelock and  *)
(* the mutex of the connection, on which closing the connection waits      *)
(* (network/tcp_conn.go). The rest of the critical section of WritePack is *)
(* one step. The size of packs and buffer is abstracted to whether the     *)
(* buffer holds anything.                                                  *)
(***************************************************************************)
EXTENDS Integers

CONSTANTS
    Writers,     \* the goroutines that call WritePack or Close
    Reader,      \* the one that looks at the error WritePack returns
    FchCap       \* the capacity of fch

ASSUME QueueAssumption == FchCap \in Nat \ {0} /\ Reader \in Writers

VARIABLES
    wpc,         \* where a writer is in WritePack or Close
    readerErr,   \* the last WritePack of Reader returned an error
    fch,         \* the tokens in the channel
    fchOpen,     \* the channel is not closed
    flusher,     \* where Flusher is
    status,
    buffered,    \* the bufio.Writer holds data
    broken,      \* its sticky error
    conn         \* "open", "closing" while a goroutine is about to close it,
                 \* or "closed"

queueVars == <<wpc, readerErr, fch, fchOpen, flusher, status, buffered, broken, conn>>

QueueInit ==
    /\ wpc = [w \in Writers |-> "idle"] /\ readerErr = FALSE
    /\ fch = 0 /\ fchOpen = TRUE /\ flusher = "none"
    /\ status = "connected" /\ buffered = FALSE /\ broken = FALSE /\ conn = "open"

(* The mutexes that a write to the network in progress holds.              *)
LockFree == flusher # "flush" /\ \A w \in Writers : wpc[w] # "overflow"

WriterTo(w, pc) == wpc' = [wpc EXCEPT ![w] = pc]
Result(w, err) == readerErr' = IF w = Reader THEN err ELSE readerErr

-----------------------------------------------------------------------------
(* WritePack up to the unlock: refused, because the queue is closed or the *)
(* buffer full; buffered; failed, because an earlier write did; or written *)
(* to the network, whole or in part, when the buffer overflows.            *)
WriteRefused(w) ==
    /\ wpc[w] = "write" /\ LockFree
    /\ status # "connected" \/ buffered
    /\ WriterTo(w, "idle") /\ Result(w, TRUE)
    /\ UNCHANGED <<fch, fchOpen, flusher, status, buffered, broken, conn>>

(* Mutant: a pack is buffered without a token for the flusher.             *)
WriteWithoutToken(w) ==
    /\ wpc[w] = "write" /\ LockFree /\ status = "connected" /\ ~broken
    /\ buffered' = TRUE /\ WriterTo(w, "idle") /\ Result(w, FALSE)
    /\ UNCHANGED <<fch, fchOpen, flusher, status, broken, conn>>

WriteBuffered(w) ==
    /\ wpc[w] = "write" /\ LockFree /\ status = "connected" /\ ~broken
    /\ buffered' = TRUE /\ WriterTo(w, "send") /\ Result(w, FALSE)
    /\ UNCHANGED <<fch, fchOpen, flusher, status, broken, conn>>

WriteFailed(w) ==
    /\ wpc[w] = "write" /\ LockFree /\ status = "connected" /\ broken
    /\ WriterTo(w, "sendFailed") /\ Result(w, TRUE)
    /\ UNCHANGED <<fch, fchOpen, flusher, status, buffered, broken, conn>>

WriteOverflow(w) ==
    /\ wpc[w] = "write" /\ LockFree /\ status = "connected" /\ ~broken
    /\ WriterTo(w, "overflow")
    /\ UNCHANGED <<readerErr, fch, fchOpen, flusher, status, buffered, broken, conn>>

OverflowDone(w) ==
    /\ wpc[w] = "overflow" /\ conn # "closed"
    /\ buffered' \in BOOLEAN /\ WriterTo(w, "send") /\ Result(w, FALSE)
    /\ UNCHANGED <<fch, fchOpen, flusher, status, broken, conn>>

(* A connection that was closed, a write error, or the deadline.           *)
OverflowFailed(w) ==
    /\ wpc[w] = "overflow"
    /\ broken' = TRUE /\ WriterTo(w, "sendFailed") /\ Result(w, TRUE)
    /\ UNCHANGED <<fch, fchOpen, flusher, status, buffered, conn>>

(* The token. It waits for room; on a closed channel it panics, and the    *)
(* deferred function of WritePack closes the queue.                        *)
SendToken(w) ==
    /\ wpc[w] \in {"send", "sendFailed"} /\ fchOpen /\ fch < FchCap
    /\ fch' = fch + 1
    /\ WriterTo(w, IF wpc[w] = "send" THEN "idle" ELSE "close")
    /\ UNCHANGED <<readerErr, fchOpen, flusher, status, buffered, broken, conn>>

SendPanic(w) ==
    /\ wpc[w] \in {"send", "sendFailed"} /\ ~fchOpen
    /\ WriterTo(w, "close") /\ Result(w, TRUE)
    /\ UNCHANGED <<fch, fchOpen, flusher, status, buffered, broken, conn>>

(* Mutant: Close leaves the channel open.                                  *)
CloseKeepsFch(w) ==
    /\ wpc[w] = "close" /\ WriterTo(w, "conn") /\ status' = "closed"
    /\ UNCHANGED <<readerErr, fch, fchOpen, flusher, buffered, broken, conn>>

(* Close: writeError, fch and status, which are one step, since who reads  *)
(* them in between acts like one who read them before; then the connection.*)
CloseQueue(w) ==
    /\ wpc[w] = "close" /\ WriterTo(w, "conn")
    /\ status' = "closed" /\ fchOpen' = FALSE
    /\ UNCHANGED <<readerErr, fch, flusher, buffered, broken, conn>>

CloseConn(w) ==
    /\ wpc[w] = "conn" /\ LockFree /\ WriterTo(w, "idle")
    /\ conn' = "closed"
    /\ UNCHANGED <<readerErr, fch, fchOpen, flusher, status, buffered, broken>>

-----------------------------------------------------------------------------
(* Flusher. Blocked in the receive it does not see the status; a closed    *)
(* channel still gives the tokens it holds. The test at the head of the    *)
(* loop is part of the step before it.                                     *)
NextRound == IF status = "connected" THEN "recv" ELSE "end"

FlusherTake ==
    /\ flusher = "recv" /\ fch > 0
    /\ fch' = fch - 1 /\ flusher' = "lock"
    /\ UNCHANGED <<wpc, readerErr, fchOpen, status, buffered, broken, conn>>

FlusherEnd ==
    /\ flusher = "recv" /\ fch = 0 /\ ~fchOpen
    /\ flusher' = "end"
    /\ UNCHANGED <<wpc, readerErr, fch, fchOpen, status, buffered, broken, conn>>

FlusherLock ==
    /\ flusher = "lock" /\ LockFree
    /\ flusher' = IF status = "connected" /\ buffered THEN "flush" ELSE NextRound
    /\ UNCHANGED <<wpc, readerErr, fch, fchOpen, status, buffered, broken, conn>>

FlushDone ==
    /\ flusher = "flush" /\ conn # "closed" /\ ~broken
    /\ flusher' = NextRound /\ buffered' = FALSE
    /\ UNCHANGED <<wpc, readerErr, fch, fchOpen, status, broken, conn>>

(* A write error or the deadline ends Flusher; it does not close.          *)
FlushFailed ==
    /\ flusher = "flush"
    /\ flusher' = "end" /\ broken' = TRUE
    /\ UNCHANGED <<wpc, readerErr, fch, fchOpen, status, buffered, conn>>

Write(w) == WriteRefused(w) \/ WriteBuffered(w) \/ WriteFailed(w) \/ WriteOverflow(w)
Overflow(w) == OverflowDone(w) \/ OverflowFailed(w)
Send(w) == SendToken(w) \/ SendPanic(w)
Close(w) == CloseQueue(w) \/ CloseConn(w)
Flush == FlushDone \/ FlushFailed
Flusher == FlusherTake \/ FlusherEnd \/ FlusherLock \/ Flush

QueueStep == \/ Flusher
             \/ \E w \in Writers : Write(w) \/ Overflow(w) \/ Send(w) \/ Close(w)

(* A write to the network comes to an end.                                 *)
NetworkStep == Flush \/ \E w \in Writers : Overflow(w)

-----------------------------------------------------------------------------
QueueTypeOK ==
    /\ wpc \in [Writers -> {"idle", "write", "overflow", "send", "sendFailed",
                        "close", "conn"}]
    /\ readerErr \in BOOLEAN
    /\ fch \in 0..FchCap /\ fchOpen \in BOOLEAN
    /\ flusher \in {"none", "recv", "lock", "flush", "end"}
    /\ status \in {"connected", "closed"}
    /\ buffered \in BOOLEAN /\ broken \in BOOLEAN
    /\ conn \in {"open", "closing", "closed"}

(* Data in the buffer is never forgotten: as long as the queue is open and *)
(* Flusher waits for a token, there is one, or a writer is about to send   *)
(* it.                                                                     *)
FlushPromised ==
    buffered /\ fchOpen /\ ~broken /\ flusher \in {"none", "recv"} =>
       fch > 0 \/ \E w \in Writers : wpc[w] = "send"

(* The one way to block a writer for good: a flush failed, so nobody takes *)
(* tokens, and the channel was full already, so the writer that meets the  *)
(* error cannot get past its own token to close the queue.                 *)
Jammed ==
    /\ flusher = "end" /\ status = "connected"
    /\ fchOpen /\ fch = FchCap
=============================================================================
