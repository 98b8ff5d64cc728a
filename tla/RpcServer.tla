------------------------------ MODULE RpcServer ------------------------------
(***************************************************************************)
(* The server half of the RPC layer: rpc/base/nats_server.go (NatsServer:  *)
(* subscription, receive loop, Shutdown) and rpc/base/rpc_server.go        *)
(* (RPCServer: runFunc, _runFunc, _errorCallback, Done).                   *)
(*                                                                         *)
(* A request runs in the receive loop, or, if its handler was registered   *)
(* with RegisterGO, in a goroutine of its own. What a request meets on its *)
(* way is its profile: chosen at the start and never changed.              *)
(*                                                                         *)
(* The WaitGroup is that of Go's library: a counter and a waiter. Add(-1)  *)
(* that takes the counter to zero under a waiter, and the release of the   *)
(* waiter, are two steps; an Add between them, or before the waiter has    *)
(* looked at the counter again, is a misuse the library panics on.         *)
(***************************************************************************)
EXTENDS Integers, FiniteSets

CONSTANTS
    Reqs,      \* the requests (correlation ids)
    Settings,  \* the profiles the requests may have, each with how many of
               \* them Wait of the GoroutineControl lets through
    NoReq

Kinds == {"nofunc",    \* no such function, the listener returns an error
          "nilfunc",   \* no such function and no listener: a nil dereference
          "badargs",   \* the number of parameters does not fit
          "reject",    \* an argument, BeforeHandle or the result is refused
          "panic",     \* the handler, or a hook before the reply, panics
          "ok",
          "okpanic"}   \* OnComplete panics, after the reply

(* go: registered with RegisterGO. reply: the caller wants an answer.      *)
(* hook: ServerRPCHandler or OnError panics for this request.              *)
Profile == [kind : Kinds, go : BOOLEAN, reply : BOOLEAN, hook : BOOLEAN]

ASSUME ServerAssumption == /\ Settings \subseteq [Reqs -> Profile] \X (Nat \ {0})
                           /\ NoReq \notin Reqs

VARIABLES
    prof,      \* prof[r]: the profile of request r
    limit,     \* the limit of the GoroutineControl
    pc,        \* pc[r]: where request r is
    sent,      \* sent[r]: answers published for r
    unsent,    \* unsent[r]: answers for r that could not be encoded or published
    ran,       \* ran[r]: how often the handler was entered for r
    panicking, \* requests whose _runFunc is unwinding a panic
    slots,     \* requests that passed control.Wait without control.Finish
    wg,        \* requests counted in the WaitGroup
    subs,      \* the subscription s.subs: "none" before the first, "valid",
               \* "invalid", or "nil" after a SubscribeSync that failed
    lpc,       \* where the receive loop is
    cur,       \* the request the receive loop runs itself
    helper,    \* the goroutine that unsubscribes
    done,      \* the channel done is closed
    isClose,
    dpc,       \* where Done is
    crashed    \* a panic left a goroutine: the process is gone

config   == <<prof, limit>>
replies  == <<sent, unsent>>
workVars == <<replies, ran, panicking, slots, wg>>
loopVars == <<subs, lpc, cur, helper>>
stopVars == <<done, isClose, dpc>>
vars == <<config, pc, workVars, loopVars, stopVars, crashed>>

(* The requests that are inside _runFunc, between wg.Add(1) and wg.Add(-1).*)
RunningPc == {"body", "defer"}
Stopped == lpc \in {"exit", "dead"}

Init ==
    /\ \E s \in Settings : prof = s[1] /\ limit = s[2]
    /\ pc = [r \in Reqs |-> "idle"]
    /\ sent = [r \in Reqs |-> 0] /\ unsent = [r \in Reqs |-> 0]
    /\ ran = [r \in Reqs |-> 0]
    /\ panicking = {} /\ slots = {} /\ wg = {}
    /\ subs = "none" /\ lpc = "subscribe" /\ cur = NoReq /\ helper = "none"
    /\ done = FALSE /\ isClose = FALSE /\ dpc = "idle"
    /\ crashed = FALSE

-----------------------------------------------------------------------------
(* NATS (external).                                                        *)

(* A request reaches the server's subject: it queues, or nobody listens.   *)
Arrive(r) ==
    /\ pc[r] = "idle"
    /\ pc' = [pc EXCEPT ![r] = IF subs = "valid" THEN "queued" ELSE "lost"]
    /\ UNCHANGED <<config, workVars, loopVars, stopVars, crashed>>

DropQueue == pc' = [r \in Reqs |-> IF pc[r] = "queued" THEN "lost" ELSE pc[r]]

ConnLost ==
    /\ subs = "valid"
    /\ subs' = "invalid" /\ DropQueue
    /\ UNCHANGED <<config, workVars, lpc, cur, helper, stopVars, crashed>>

-----------------------------------------------------------------------------
(* NatsServer.on_request_handle.                                           *)

LoopSubscribe ==
    /\ lpc = "subscribe"
    /\ \/ subs' = "valid" /\ helper' = "waiting" /\ lpc' = "loop"
       \/ lpc' = "exit" /\ UNCHANGED <<subs, helper>>
    /\ UNCHANGED <<config, pc, workVars, cur, stopVars, crashed>>

LoopCheck ==
    /\ lpc = "loop"
    /\ lpc' = IF isClose THEN "exit" ELSE "next"
    /\ UNCHANGED <<config, pc, workVars, subs, cur, helper, stopVars, crashed>>

(* Mutant: the loop does not note which request it runs.                   *)
LoopNextLosesRequest(r) ==
    /\ lpc = "next" /\ subs = "valid" /\ pc[r] = "queued"
    /\ pc' = [pc EXCEPT ![r] = "wait"] /\ lpc' = "call"
    /\ UNCHANGED <<config, workVars, subs, cur, helper, stopVars, crashed>>

(* NextMsg returns a request; one that does not decode is dropped.         *)
LoopNext(r) ==
    /\ lpc = "next" /\ subs = "valid" /\ pc[r] = "queued"
    /\ \/ pc' = [pc EXCEPT ![r] = "wait"] /\ lpc' = "call" /\ cur' = r
       \/ pc' = [pc EXCEPT ![r] = "lost"] /\ lpc' = "loop" /\ UNCHANGED cur
    /\ UNCHANGED <<config, workVars, subs, helper, stopVars, crashed>>

(* NextMsg times out, or the subscription is not valid.                    *)
LoopNoMsg ==
    /\ lpc = "next"
    /\ subs = "valid" => \A r \in Reqs : pc[r] # "queued"
    /\ lpc' = "check"
    /\ UNCHANGED <<config, pc, workVars, subs, cur, helper, stopVars, crashed>>

(* IsValid, and another SubscribeSync if it is not, which assigns nil to   *)
(* s.subs when it fails. IsValid of nil panics, and that ends the loop     *)
(* (recovered) one round later.                                            *)
LoopResubscribe ==
    /\ lpc = "check"
    /\ \/ subs = "valid" /\ UNCHANGED subs /\ lpc' = "loop"
       \/ subs = "invalid" /\ subs' \in {"valid", "nil"} /\ lpc' = "loop"
       \/ subs = "nil" /\ UNCHANGED subs /\ lpc' = "dead"
    /\ UNCHANGED <<config, pc, workVars, cur, helper, stopVars, crashed>>

HelperUnsubscribe ==
    /\ helper = "waiting" /\ done
    /\ helper' = "ended"
    /\ IF subs = "valid" THEN subs' = "invalid" /\ DropQueue
       ELSE UNCHANGED <<subs, pc>>
    /\ UNCHANGED <<config, workVars, lpc, cur, stopVars, crashed>>

-----------------------------------------------------------------------------
(* RPCServer.runFunc and _runFunc.                                         *)

(* doCallback publishes the result of a request that wants an answer. If   *)
(* it does not encode, or Publish fails, that is only logged.              *)
Callback(r) ==
    \/ /\ sent' = [sent EXCEPT ![r] = @ + (IF prof[r].reply THEN 1 ELSE 0)]
       /\ UNCHANGED unsent
    \/ /\ prof[r].reply
       /\ unsent' = [unsent EXCEPT ![r] = @ + 1]
       /\ UNCHANGED sent

(* The request is over. The receive loop goes on if it ran the request,    *)
(* and ends (recovered in on_request_handle) if a panic got that far.      *)
End(r, loop) == /\ pc' = [pc EXCEPT ![r] = "done"]
                /\ lpc' = IF cur = r THEN loop ELSE lpc
                /\ cur' = IF cur = r THEN NoReq ELSE cur

Goto(r, label) == pc' = [pc EXCEPT ![r] = label] /\ UNCHANGED <<lpc, cur>>

(* A panic leaves _runFunc: runFunc recovers it if it is on the stack.     *)
Escape(r) == IF prof[r].go
             THEN End(r, "loop") /\ crashed' = TRUE
             ELSE Goto(r, "recover") /\ UNCHANGED crashed

(* Mutant: the limit is off by one.                                        *)
RunWaitOneLess(r) ==
    /\ pc[r] = "wait" /\ Cardinality(slots) + 1 < limit
    /\ slots' = slots \union {r}
    /\ Goto(r, "lookup")
    /\ UNCHANGED <<config, replies, ran, panicking, wg, subs, helper, stopVars, crashed>>

(* control.Wait, before anything is known about the request.               *)
RunWait(r) ==
    /\ pc[r] = "wait" /\ Cardinality(slots) < limit
    /\ slots' = slots \union {r}
    /\ Goto(r, "lookup")
    /\ UNCHANGED <<config, replies, ran, panicking, wg, subs, helper,
                   stopVars, crashed>>

(* The function table, the listener, and `go _runFunc' or _runFunc.        *)
RunLookup(r) ==
    /\ pc[r] = "lookup"
    /\ CASE prof[r].kind = "nofunc" ->
              /\ Callback(r)
              /\ IF prof[r].hook THEN Goto(r, "recover") ELSE End(r, "loop")
         [] prof[r].kind = "nilfunc" -> Goto(r, "recover") /\ UNCHANGED replies
         [] OTHER ->
              /\ pc' = [pc EXCEPT ![r] = "args"]
              /\ IF prof[r].go THEN lpc' = "loop" /\ cur' = NoReq
                 ELSE UNCHANGED <<lpc, cur>>
              /\ UNCHANGED replies
    /\ UNCHANGED <<config, ran, panicking, slots, wg, subs,
                   helper, stopVars, crashed>>

(* Mutant: a wrong number of parameters is only logged.                    *)
RunArgsSilent(r) ==
    /\ pc[r] = "args"
    /\ IF prof[r].kind = "badargs" THEN End(r, "loop") /\ UNCHANGED wg
       ELSE wg' = wg \union {r} /\ Goto(r, "body")
    /\ UNCHANGED <<config, replies, ran, panicking, slots, subs,
                   helper, stopVars, crashed>>

(* The number of parameters is checked before wg.Add and the defer. Add    *)
(* panics if it finds the counter at zero and a waiter not yet released.   *)
RunArgs(r) ==
    /\ pc[r] = "args"
    /\ IF prof[r].kind = "badargs"
       THEN /\ Callback(r)
            /\ IF prof[r].hook THEN Escape(r)
               ELSE End(r, "loop") /\ UNCHANGED crashed
            /\ UNCHANGED wg
       ELSE /\ wg' = wg \union {r}
            /\ IF wg = {} /\ dpc = "wgwait" THEN Escape(r)
               ELSE Goto(r, "body") /\ UNCHANGED crashed
            /\ UNCHANGED replies
    /\ UNCHANGED <<config, ran, panicking, slots, subs, helper, stopVars>>

(* Arguments, BeforeHandle, the handler, the reply and the hooks after it. *)
(* A refusal or a panic may come before the handler or after it.           *)
RunBody(r) ==
    /\ pc[r] = "body"
    /\ \/ ran' = [ran EXCEPT ![r] = @ + 1]
       \/ prof[r].kind \in {"reject", "panic"} /\ UNCHANGED ran
    /\ IF prof[r].kind = "panic" THEN UNCHANGED replies ELSE Callback(r)
    /\ panicking' = IF prof[r].kind \in {"panic", "okpanic"} \/ prof[r].hook
                    THEN panicking \union {r} ELSE panicking
    /\ Goto(r, "defer")
    /\ UNCHANGED <<config, slots, wg, subs, helper, stopVars,
                   crashed>>

(* The deferred function: wg.Add(-1), then Finish. The last one to leave   *)
(* finds Done waiting.                                                     *)
DeferWg(r) ==
    /\ pc[r] = "defer"
    /\ wg' = wg \ {r}
    /\ Goto(r, IF wg = {r} /\ dpc = "wgwait" THEN "release" ELSE "finish")
    /\ UNCHANGED <<config, replies, ran, panicking, slots, subs,
                   helper, stopVars, crashed>>

(* Still inside wg.Add(-1): release the waiter, or panic if the counter    *)
(* has moved since. That panic leaves the deferred function, before Finish *)
(* and recover.                                                            *)
DeferRelease(r) ==
    /\ pc[r] = "release"
    /\ IF wg = {} THEN dpc' = "woken" /\ Goto(r, "finish") /\ UNCHANGED crashed
       ELSE Escape(r) /\ UNCHANGED dpc
    /\ UNCHANGED <<config, workVars, subs, helper, done, isClose>>

(* Mutant: Finish is skipped when the handler panicked.                    *)
DeferFinishUnlessPanic(r) ==
    /\ pc[r] = "finish"
    /\ slots' = IF r \in panicking THEN slots ELSE slots \ {r}
    /\ IF r \in panicking THEN Goto(r, "rescue") ELSE End(r, "loop")
    /\ UNCHANGED <<config, replies, ran, panicking, wg, subs, helper,
                   stopVars, crashed>>

DeferFinish(r) ==
    /\ pc[r] = "finish"
    /\ slots' = slots \ {r}
    /\ IF r \in panicking THEN Goto(r, "rescue") ELSE End(r, "loop")
    /\ UNCHANGED <<config, replies, ran, panicking, wg, subs, helper,
                   stopVars, crashed>>

(* Mutant: a panic is not recovered in _runFunc.                           *)
RescueMissing(r) ==
    /\ pc[r] = "rescue"
    /\ Escape(r)
    /\ UNCHANGED <<config, replies, ran, panicking, slots, wg, subs,
                   helper, stopVars>>

(* recover() in _runFunc: _errorCallback answers the caller.               *)
Rescue(r) ==
    /\ pc[r] = "rescue"
    /\ Callback(r)
    /\ IF prof[r].hook THEN Escape(r) ELSE End(r, "loop") /\ UNCHANGED crashed
    /\ UNCHANGED <<config, ran, panicking, slots, wg, subs,
                   helper, stopVars>>

(* recover() in runFunc: the same; a panic now ends the receive loop.      *)
Recover(r) ==
    /\ pc[r] = "recover"
    /\ Callback(r)
    /\ End(r, IF prof[r].hook THEN "dead" ELSE "loop")
    /\ UNCHANGED <<config, ran, panicking, slots, wg, subs,
                   helper, stopVars, crashed>>

-----------------------------------------------------------------------------
(* RPCServer.Done and NatsServer.Shutdown.                                 *)

(* wg.Wait passes at once, or waits for the requests counted.              *)
DoneStart ==
    /\ dpc = "idle"
    /\ dpc' = IF wg = {} THEN "close" ELSE "wgwait"
    /\ UNCHANGED <<config, pc, workVars, loopVars, done, isClose, crashed>>

(* wg.Wait was released. It panics if the counter is not zero any more. In *)
(* the goroutine of service.Run nobody recovers that; in OnDestroy, which  *)
(* calls Done if service.Run did not, DefaultModule.destroy does.          *)
DoneWait ==
    /\ dpc = "woken"
    /\ \/ wg = {} /\ dpc' = "close" /\ UNCHANGED crashed
       \/ wg # {} /\ dpc' = "panicked" /\ crashed' \in BOOLEAN
    /\ UNCHANGED <<config, pc, workVars, loopVars, done, isClose>>

ShutdownClose ==
    /\ dpc = "close"
    /\ done' = TRUE /\ dpc' = "setclose"
    /\ UNCHANGED <<config, pc, workVars, loopVars, isClose, crashed>>

(* Mutant: isClose is never set.                                           *)
ShutdownForgetsIsClose ==
    /\ dpc = "setclose" /\ dpc' = "await"
    /\ UNCHANGED <<config, pc, workVars, loopVars, done, isClose, crashed>>

ShutdownSetClose ==
    /\ dpc = "setclose"
    /\ isClose' = TRUE /\ dpc' = "await"
    /\ UNCHANGED <<config, pc, workVars, loopVars, done, crashed>>

(* Mutant: Shutdown does not wait for the receive loop.                    *)
ShutdownDoesNotAwait ==
    /\ dpc = "await" /\ dpc' = "returned"
    /\ UNCHANGED <<config, pc, workVars, loopVars, done, isClose, crashed>>

(* <-s.stopeds, closed when on_request_handle has returned.                *)
ShutdownAwait ==
    /\ dpc = "await" /\ Stopped
    /\ dpc' = "returned"
    /\ UNCHANGED <<config, pc, workVars, loopVars, done, isClose, crashed>>

-----------------------------------------------------------------------------
Request(r) == \/ RunWait(r) \/ RunLookup(r) \/ RunArgs(r) \/ RunBody(r)
              \/ DeferWg(r) \/ DeferRelease(r) \/ DeferFinish(r)
              \/ Rescue(r) \/ Recover(r)

Loop == \/ LoopSubscribe \/ LoopCheck \/ LoopNoMsg \/ LoopResubscribe
        \/ \E r \in Reqs : LoopNext(r)

Shutdown == DoneWait \/ ShutdownClose \/ ShutdownSetClose \/ ShutdownAwait

Next == /\ ~crashed
        /\ \/ \E r \in Reqs : Arrive(r) \/ Request(r)
           \/ Loop \/ HelperUnsubscribe \/ ConnLost
           \/ DoneStart \/ Shutdown

(* Goroutines that can run do; a handler returns or panics in the end.     *)
Fairness == /\ \A r \in Reqs : WF_vars(~crashed /\ Request(r))
            /\ WF_vars(~crashed /\ Loop)
            /\ WF_vars(~crashed /\ HelperUnsubscribe)
            /\ WF_vars(~crashed /\ Shutdown)

Spec == Init /\ [][Next]_vars
FairSpec == Spec /\ Fairness

-----------------------------------------------------------------------------
TypeOK ==
    /\ prof \in [Reqs -> Profile] /\ limit \in Nat \ {0}
    /\ pc \in [Reqs -> {"idle", "queued", "lost", "wait", "lookup", "args",
                        "release", "finish", "rescue", "recover",
                        "done"} \union RunningPc]
    /\ sent \in [Reqs -> Nat] /\ unsent \in [Reqs -> Nat] /\ ran \in [Reqs -> Nat]
    /\ panicking \subseteq Reqs /\ slots \subseteq Reqs /\ wg \subseteq Reqs
    /\ subs \in {"none", "valid", "invalid", "nil"}
    /\ lpc \in {"subscribe", "loop", "next", "check", "call", "exit", "dead"}
    /\ cur \in Reqs \union {NoReq}
    /\ lpc = "call" => cur \in Reqs
    /\ helper \in {"none", "waiting", "ended"}
    /\ done \in BOOLEAN /\ isClose \in BOOLEAN /\ crashed \in BOOLEAN
    /\ dpc \in {"idle", "wgwait", "woken", "panicked", "close", "setclose",
                "await", "returned"}

(* The replies doCallback tried to send for r.                             *)
Replies(r) == sent[r] + unsent[r]

(* Whatever path a request takes through lookup, parameters, handler,      *)
(* panic and recovery, one reply is tried: never without having asked,     *)
(* exactly once unless a hook panicked after the reply, and never not at   *)
(* all unless the process crashed under its goroutine. It goes out unless  *)
(* its encoding or Publish fails; nothing is tried again. No path enters   *)
(* the handler twice.                                                      *)
AnsweredOnce ==
    \A r \in Reqs :
        /\ ~prof[r].reply => Replies(r) = 0
        /\ prof[r].reply /\ pc[r] = "done" =>
              Replies(r) >= 1 \/ (crashed /\ prof[r].go)
        /\ ~prof[r].hook /\ prof[r].kind # "okpanic" => Replies(r) <= 1
        /\ ran[r] <= 1

(* wg.Add(1) of r panicked, so that r stays in the count: it met an        *)
(* Add(-1) that was about to release Done.                                 *)
Misused(r) == r \in wg /\ pc[r] \in {"recover", "done"}

(* A request that ended gives its goroutine slot back, panics included,    *)
(* unless it failed before the deferred Finish was in place.               *)
SlotLeakCause ==
    ~crashed =>
        \A r \in slots :
            pc[r] = "done" => \/ prof[r].kind \in {"nofunc", "nilfunc", "badargs"}
                             \/ Misused(r)

(* The receive loop is taken down only by a hook that panics again inside  *)
(* the recovery, or by a resubscription that failed and left s.subs nil;   *)
(* the process only by such a hook in a goroutine, or by a request that    *)
(* starts just when the last one leaves and Done waits for it or wakes.    *)
(* Panics of handlers never do.                                            *)
DeathCause ==
    /\ lpc = "dead" => \/ \E r \in Reqs : prof[r].hook /\ pc[r] = "done"
                       \/ subs = "nil"
    /\ crashed => \/ \E r \in Reqs : prof[r].hook /\ prof[r].go /\ pc[r] = "done"
                  \/ dpc = "panicked" \/ \E r \in Reqs : Misused(r)

(* Once Done has returned the receive loop does nothing more: no queued     *)
(* request is dispatched, and none that the loop was running itself moves. *)
QuietAfterDone ==
    [][dpc = "returned" =>
         \A r \in Reqs : /\ pc[r] = "queued" => pc'[r] # "wait"
                        /\ ~prof[r].go /\ pc[r] \notin {"idle", "queued"} =>
                              pc'[r] = pc[r]]_vars

(* rpc_server.go:125 of Done: it waits for the requests being executed.    *)
DoneWaitsForRequests == dpc = "returned" => wg = {}

(* Slots that will never be given back fill the limit, or a panic has      *)
(* ended the receive loop or the process.                                  *)
Jammed == \/ Cardinality({r \in slots : pc[r] = "done"}) >= limit
          \/ lpc = "dead" \/ crashed

(* Until Done is called, every request that reached the server's queue is  *)
(* served or was dropped with the subscription, even with a single         *)
(* goroutine slot, unless the server is jammed. (After Done it may sit in  *)
(* a subscription nobody reads.)                                           *)
RequestServed ==
    \A r \in Reqs :
        pc[r] = "queued" ~> pc[r] \in {"done", "lost"} \/ dpc # "idle" \/ Jammed

(* Done comes back, unless the server is jammed or a request that started  *)
(* between the release of wg.Wait and its return made it panic.            *)
ShutdownCompletes == dpc # "idle" ~> dpc \in {"returned", "panicked"} \/ Jammed
=============================================================================
