------------------------------ MODULE RpcClient ------------------------------
(***************************************************************************)
(* The client half of the RPC layer: rpc/base/rpc_client.go (RPCClient,    *)
(* one per remote node) and rpc/base/nats_client.go (NatsClient), with the *)
(* locked map callinfos (utils/safemap.go).                                *)
(*                                                                         *)
(* Four kinds of goroutines share one NatsClient:                          *)
(*   - callers, inside CallArgs: register the call, publish it, wait for   *)
(*     the answer or for the end of their context;                         *)
(*   - the receive loop on_request_handle, which hands answers over;       *)
(*   - the helper it starts, which waits on `done' and unsubscribes;       *)
(*   - whoever calls Done (app.Watcher, when the node leaves the registry).*)
(* Every operation on the locked map, on a channel, on the subscription    *)
(* and on the unlocked fields callinfos and isClose is a step of its own.  *)
(* A call is named by its correlation id, which is a fresh UUID.           *)
(***************************************************************************)
EXTENDS Naturals

CONSTANTS
    Calls,      \* the correlation ids of the calls made through this client
    NRCalls,    \* those made with CallNR, which ask for no reply
    Timed,      \* those whose context ends: nil (RPCExpired) or a deadline
    MaxReplies, \* bound: answers that arrive for each call
    NoCall      \* no correlation id

ASSUME CallsAssumption == /\ NRCalls \subseteq Calls
                          /\ Timed \subseteq Calls
                          /\ MaxReplies \in [Calls -> Nat]
                          /\ NoCall \notin Calls

VARIABLES
    pc,         \* pc[c]: where the goroutine of call c is
    outcome,    \* outcome[c]: what CallArgs or CallNRArgs returned
    full,       \* callback channels (capacity 1) that hold a value
    closed,     \* callback channels that are closed
    callinfos,  \* keys of the map of pending calls
    mapNil,     \* Done has set the field callinfos to nil
    published,  \* requests handed to NATS
    arrived,    \* arrived[c]: answers for c that NATS has routed so far
    inbox,      \* inbox[c]: answers for c pending in the subscription
    subs,       \* the subscription c.subs: "none" before the first, "valid",
                \* "invalid", or "nil" after a SubscribeSync that failed
    hpc,        \* where the receive loop is
    hcid,       \* the correlation id the receive loop is handling
    hfound,     \* whether it found that id in callinfos
    helper,     \* the goroutine that waits on done
    dpc,        \* where Done is
    snap,       \* the part of Items() Done has still to walk
    dcur,       \* the entry Done is at
    isClose

callerVars == <<pc, outcome>>
chanVars   == <<full, closed>>
netVars    == <<published, arrived, inbox>>
loopVars   == <<hpc, hcid, hfound>>
doneVars   == <<dpc, snap, dcur, isClose>>
vars == <<callerVars, chanVars, callinfos, mapNil, netVars, subs, loopVars,
          helper, doneVars>>

PendingPc == {"set", "publish", "wait", "expire"}
Outcomes  == {"none", "answered", "client_closed", "deadline_exceeded",
              "is_closed", "not_published", "sent"}

(* NewNatsClient: the map is made, the receive loop is started.            *)
Init ==
    /\ pc = [c \in Calls |-> "idle"]
    /\ outcome = [c \in Calls |-> "none"]
    /\ full = {} /\ closed = {}
    /\ callinfos = {} /\ mapNil = FALSE
    /\ published = {}
    /\ arrived = [c \in Calls |-> 0]
    /\ inbox = [c \in Calls |-> 0]
    /\ subs = "none"
    /\ hpc = "subscribe" /\ hcid = NoCall /\ hfound = FALSE
    /\ helper = "none"
    /\ dpc = "idle" /\ snap = {} /\ dcur = NoCall /\ isClose = FALSE

-----------------------------------------------------------------------------
(* The callers.                                                            *)

Goto(c, label) == pc' = [pc EXCEPT ![c] = label] /\ UNCHANGED outcome

Return(c, how) == /\ pc' = [pc EXCEPT ![c] = "returned"]
                  /\ outcome' = [outcome EXCEPT ![c] = how]

(* CallArgs makes the callback channel; NatsClient.Call looks at callinfos.*)
CallStart(c) ==
    /\ pc[c] = "idle" /\ c \notin NRCalls
    /\ IF mapNil THEN Return(c, "is_closed") ELSE Goto(c, "set")
    /\ UNCHANGED <<chanVars, callinfos, mapNil, netVars, subs, loopVars,
                   helper, doneVars>>

(* c.callinfos.Set: the field is read again, and may be nil by now. The    *)
(* panic is not recovered here: the caller's goroutine unwinds.            *)
CallSet(c) ==
    /\ pc[c] = "set"
    /\ \/ mapNil /\ Goto(c, "panicked") /\ UNCHANGED callinfos
       \/ ~mapNil /\ Goto(c, "publish") /\ callinfos' = callinfos \union {c}
    /\ UNCHANGED <<chanVars, mapNil, netVars, subs, loopVars, helper, doneVars>>

(* Marshal and Transport().Publish; on an error the entry stays behind.    *)
CallPublish(c) ==
    /\ pc[c] = "publish"
    /\ \/ Goto(c, "wait") /\ published' = published \union {c}
       \/ Return(c, "not_published") /\ UNCHANGED published
    /\ UNCHANGED <<chanVars, callinfos, mapNil, arrived, inbox, subs, loopVars,
                   helper, doneVars>>

(* The select of CallArgs, case <-callback: a buffered value comes first,  *)
(* an empty closed channel reads as "client_closed".                       *)
CallReceive(c) ==
    /\ pc[c] = "wait"
    /\ \/ /\ c \in full
          /\ full' = full \ {c}
          /\ Return(c, "answered")
       \/ /\ c \notin full /\ c \in closed
          /\ Return(c, "client_closed")
          /\ UNCHANGED full
    /\ UNCHANGED <<closed, callinfos, mapNil, netVars, subs, loopVars, helper,
                   doneVars>>

(* Mutant: a call that times out is published again.                       *)
CallTimeoutRetries(c) ==
    /\ pc[c] = "wait" /\ c \in Timed
    /\ Goto(c, "publish")
    /\ UNCHANGED <<chanVars, callinfos, mapNil, netVars, subs, loopVars, helper,
                   doneVars>>

(* The select, case <-ctx.Done(): close_callback_chan. When both cases are *)
(* ready the runtime picks either.                                         *)
CallTimeout(c) ==
    /\ pc[c] = "wait" /\ c \in Timed
    /\ closed' = closed \union {c}
    /\ Goto(c, "expire")
    /\ UNCHANGED <<full, callinfos, mapNil, netVars, subs, loopVars, helper,
                   doneVars>>

(* Mutant: the timeout leaves its entry in the map.                        *)
CallExpireKeepsEntry(c) ==
    /\ pc[c] = "expire"
    /\ Return(c, "deadline_exceeded")
    /\ UNCHANGED <<chanVars, callinfos, mapNil, netVars, subs, loopVars, helper,
                   doneVars>>

(* nats_client.Delete(cid), through the field callinfos, which may be nil. *)
CallExpire(c) ==
    /\ pc[c] = "expire"
    /\ IF mapNil THEN Goto(c, "panicked") /\ UNCHANGED callinfos
       ELSE Return(c, "deadline_exceeded") /\ callinfos' = callinfos \ {c}
    /\ UNCHANGED <<chanVars, mapNil, netVars, subs, loopVars, helper, doneVars>>

(* CallNR: published without looking at callinfos or isClose.              *)
CallNR(c) ==
    /\ pc[c] = "idle" /\ c \in NRCalls
    /\ \/ Return(c, "sent") /\ published' = published \union {c}
       \/ Return(c, "not_published") /\ UNCHANGED published
    /\ UNCHANGED <<chanVars, callinfos, mapNil, arrived, inbox, subs, loopVars,
                   helper, doneVars>>

-----------------------------------------------------------------------------
(* NATS (external): answers are routed to the live subscription of the     *)
(* callback queue, or dropped; a lost connection invalidates it.           *)

Arrive(c) ==
    /\ c \in published \ NRCalls
    /\ arrived[c] < MaxReplies[c]
    /\ arrived' = [arrived EXCEPT ![c] = @ + 1]
    /\ inbox' = IF subs = "valid" THEN [inbox EXCEPT ![c] = @ + 1] ELSE inbox
    /\ UNCHANGED <<callerVars, chanVars, callinfos, mapNil, published, subs,
                   loopVars, helper, doneVars>>

Empty == [c \in Calls |-> 0]

ConnLost ==
    /\ subs = "valid"
    /\ subs' = "invalid" /\ inbox' = Empty
    /\ UNCHANGED <<callerVars, chanVars, callinfos, mapNil, published, arrived,
                   loopVars, helper, doneVars>>

-----------------------------------------------------------------------------
(* The receive loop on_request_handle.                                     *)

HGoto(label) == hpc' = label /\ UNCHANGED <<hcid, hfound>>

(* The first SubscribeSync; without it there is no helper and no loop.     *)
HandlerSubscribe ==
    /\ hpc = "subscribe"
    /\ \/ subs' = "valid" /\ helper' = "waiting" /\ HGoto("loop")
       \/ subs' = "none" /\ HGoto("exit") /\ UNCHANGED helper
    /\ UNCHANGED <<callerVars, chanVars, callinfos, mapNil, netVars, doneVars>>

HandlerLoop ==
    /\ hpc = "loop"
    /\ HGoto(IF isClose THEN "exit" ELSE "next")
    /\ UNCHANGED <<callerVars, chanVars, callinfos, mapNil, netVars, subs,
                   helper, doneVars>>

(* Mutant: the loop does not note which call it handles.                   *)
HandlerNextLosesId(c) ==
    /\ hpc = "next" /\ subs = "valid" /\ inbox[c] > 0
    /\ inbox' = [inbox EXCEPT ![c] = @ - 1]
    /\ HGoto("get")
    /\ UNCHANGED <<callerVars, chanVars, callinfos, mapNil, published, arrived,
                   subs, helper, doneVars>>

(* NextMsg returns an answer, which may fail to decode.                    *)
HandlerNext(c) ==
    /\ hpc = "next" /\ subs = "valid" /\ inbox[c] > 0
    /\ inbox' = [inbox EXCEPT ![c] = @ - 1]
    /\ \/ hpc' = "get" /\ hcid' = c /\ UNCHANGED hfound
       \/ HGoto("loop")
    /\ UNCHANGED <<callerVars, chanVars, callinfos, mapNil, published, arrived,
                   subs, helper, doneVars>>

(* NextMsg times out after a minute, or the subscription is not valid.     *)
HandlerNoMsg ==
    /\ hpc = "next"
    /\ subs = "valid" => inbox = Empty
    /\ HGoto("check")
    /\ UNCHANGED <<callerVars, chanVars, callinfos, mapNil, netVars, subs,
                   helper, doneVars>>

(* IsValid, and another SubscribeSync if it is not, which assigns nil to   *)
(* c.subs when it fails. IsValid of nil panics, and that ends the loop     *)
(* (recovered) one round later.                                            *)
HandlerCheck ==
    /\ hpc = "check"
    /\ \/ subs = "valid" /\ UNCHANGED subs /\ HGoto("loop")
       \/ subs = "invalid" /\ subs' \in {"valid", "nil"} /\ HGoto("loop")
       \/ subs = "nil" /\ UNCHANGED subs /\ HGoto("dead")
    /\ UNCHANGED <<callerVars, chanVars, callinfos, mapNil, netVars, helper,
                   doneVars>>

(* c.callinfos.Get: a nil map is a panic, which ends the loop (recovered). *)
HandlerGet ==
    /\ hpc = "get"
    /\ IF mapNil THEN HGoto("dead")
       ELSE hpc' = "delete" /\ hfound' = (hcid \in callinfos) /\ UNCHANGED hcid
    /\ UNCHANGED <<callerVars, chanVars, callinfos, mapNil, netVars, subs,
                   helper, doneVars>>

(* Mutants: the loop leaves the entry in the map; it closes the channel    *)
(* instead of sending first.                                               *)
HandlerDeleteKeepsEntry ==
    /\ hpc = "delete"
    /\ HGoto(IF mapNil THEN "dead" ELSE IF hfound THEN "send" ELSE "loop")
    /\ UNCHANGED <<callerVars, chanVars, callinfos, mapNil, netVars, subs,
                   helper, doneVars>>

HandlerDeleteThenClose ==
    /\ hpc = "delete"
    /\ IF mapNil THEN HGoto("dead") /\ UNCHANGED callinfos
       ELSE /\ callinfos' = callinfos \ {hcid}
            /\ HGoto(IF hfound THEN "close" ELSE "loop")
    /\ UNCHANGED <<callerVars, chanVars, mapNil, netVars, subs, helper, doneVars>>

(* c.callinfos.Delete; an answer nobody waits for is only logged.          *)
HandlerDelete ==
    /\ hpc = "delete"
    /\ IF mapNil THEN HGoto("dead") /\ UNCHANGED callinfos
       ELSE /\ callinfos' = callinfos \ {hcid}
            /\ HGoto(IF hfound THEN "send" ELSE "loop")
    /\ UNCHANGED <<callerVars, chanVars, mapNil, netVars, subs, helper, doneVars>>

(* call <- resultInfo: blocks on a full channel, panics on a closed one.   *)
HandlerSend ==
    /\ hpc = "send"
    /\ \/ hcid \in closed /\ HGoto("dead") /\ UNCHANGED full
       \/ /\ hcid \notin closed \union full
          /\ full' = full \union {hcid} /\ HGoto("close")
    /\ UNCHANGED <<callerVars, closed, callinfos, mapNil, netVars, subs, helper,
                   doneVars>>

HandlerClose ==
    /\ hpc = "close"
    /\ closed' = closed \union {hcid}
    /\ HGoto("loop")
    /\ UNCHANGED <<callerVars, full, callinfos, mapNil, netVars, subs, helper,
                   doneVars>>

(* The helper, after <-c.done: Unsubscribe drops what is pending.          *)
HelperUnsubscribe ==
    /\ helper = "unsubscribe"
    /\ helper' = "ended"
    /\ IF subs = "valid" THEN subs' = "invalid" /\ inbox' = Empty
       ELSE UNCHANGED <<subs, inbox>>
    /\ UNCHANGED <<callerVars, chanVars, callinfos, mapNil, published, arrived,
                   loopVars, doneVars>>

-----------------------------------------------------------------------------
(* NatsClient.Done. It is called once: app.Watcher removes the session.    *)

DoneItems ==
    /\ dpc = "idle"
    /\ dpc' = "walk" /\ snap' = callinfos
    /\ UNCHANGED <<callerVars, chanVars, callinfos, mapNil, netVars, subs,
                   loopVars, helper, dcur, isClose>>

(* Mutant: Done drops the entries without closing their channels.          *)
DoneCloseSkipsChannel(c) ==
    /\ dpc = "walk" /\ c \in snap
    /\ dpc' = "delete" /\ dcur' = c /\ snap' = snap \ {c}
    /\ UNCHANGED <<callerVars, chanVars, callinfos, mapNil, netVars, subs,
                   loopVars, helper, isClose>>

DoneClose(c) ==
    /\ dpc = "walk" /\ c \in snap
    /\ closed' = closed \union {c}
    /\ dpc' = "delete" /\ dcur' = c /\ snap' = snap \ {c}
    /\ UNCHANGED <<callerVars, full, callinfos, mapNil, netVars, subs, loopVars,
                   helper, isClose>>

DoneDelete ==
    /\ dpc = "delete"
    /\ callinfos' = callinfos \ {dcur}
    /\ dpc' = "walk"
    /\ UNCHANGED <<callerVars, chanVars, mapNil, netVars, subs, loopVars,
                   helper, snap, dcur, isClose>>

DoneNil ==
    /\ dpc = "walk" /\ snap = {}
    /\ mapNil' = TRUE
    /\ dpc' = "send"
    /\ UNCHANGED <<callerVars, chanVars, callinfos, netVars, subs, loopVars,
                   helper, snap, dcur, isClose>>

(* c.done <- nil: unbuffered, it meets the helper or blocks for ever.      *)
DoneSend ==
    /\ dpc = "send" /\ helper = "waiting"
    /\ helper' = "unsubscribe" /\ dpc' = "setclose"
    /\ UNCHANGED <<callerVars, chanVars, callinfos, mapNil, netVars, subs,
                   loopVars, snap, dcur, isClose>>

(* Mutant: isClose is never set.                                           *)
DoneForgetsIsClose ==
    /\ dpc = "setclose"
    /\ dpc' = "returned"
    /\ UNCHANGED <<callerVars, chanVars, callinfos, mapNil, netVars, subs,
                   loopVars, helper, snap, dcur, isClose>>

DoneSetClose ==
    /\ dpc = "setclose"
    /\ isClose' = TRUE /\ dpc' = "returned"
    /\ UNCHANGED <<callerVars, chanVars, callinfos, mapNil, netVars, subs,
                   loopVars, helper, snap, dcur>>

-----------------------------------------------------------------------------
Caller(c) == \/ CallStart(c) \/ CallSet(c) \/ CallPublish(c)
             \/ CallReceive(c) \/ CallTimeout(c) \/ CallExpire(c) \/ CallNR(c)

Handler == \/ HandlerSubscribe \/ HandlerLoop
           \/ \E c \in Calls : HandlerNext(c)
           \/ HandlerNoMsg \/ HandlerCheck
           \/ HandlerGet \/ HandlerDelete \/ HandlerSend \/ HandlerClose

Done == \/ DoneItems \/ DoneDelete \/ DoneNil \/ DoneSend \/ DoneSetClose
        \/ \E c \in Calls : DoneClose(c)

Next == \/ \E c \in Calls : Caller(c) \/ Arrive(c)
        \/ Handler \/ HelperUnsubscribe \/ Done \/ ConnLost

(* A goroutine that can run eventually does; the timer of a context fires. *)
(* Nobody is obliged to start a call or to call Done, and the server and   *)
(* the network owe nothing.                                                *)
Fairness ==
    /\ \A c \in Calls : WF_vars(CallSet(c) \/ CallPublish(c) \/ CallReceive(c)
                                \/ CallTimeout(c) \/ CallExpire(c))
    /\ WF_vars(Handler)
    /\ WF_vars(HelperUnsubscribe)
    /\ WF_vars(Done /\ dpc # "idle")

Spec == Init /\ [][Next]_vars
FairSpec == Spec /\ Fairness

-----------------------------------------------------------------------------
TypeOK ==
    /\ pc \in [Calls -> {"idle", "returned", "panicked"} \union PendingPc]
    /\ outcome \in [Calls -> Outcomes]
    /\ full \subseteq Calls /\ closed \subseteq Calls
    /\ callinfos \subseteq Calls /\ mapNil \in BOOLEAN
    /\ published \subseteq Calls
    /\ arrived \in [Calls -> Nat] /\ inbox \in [Calls -> Nat]
    /\ subs \in {"none", "valid", "invalid", "nil"}
    /\ hpc \in {"subscribe", "loop", "next", "check", "get", "delete", "send",
                "close", "exit", "dead"}
    /\ hcid \in Calls \union {NoCall}
    /\ hpc \in {"get", "delete", "send", "close"} => hcid \in Calls
    /\ hfound \in BOOLEAN
    /\ helper \in {"none", "waiting", "unsubscribe", "ended"}
    /\ dpc \in {"idle", "walk", "delete", "send", "setclose", "returned"}
    /\ snap \subseteq Calls /\ dcur \in Calls \union {NoCall}
    /\ isClose \in BOOLEAN

(* The receive loop never blocks on a callback channel: whatever answers   *)
(* arrive, duplicates included, the channel it is about to send on is      *)
(* empty, so one slow or vanished caller cannot hold up the others         *)
(* (capacity 1, and the entry is deleted before the send).                 *)
ReplyNeverBlocks == hpc = "send" => hcid \notin full

(* The receive loop dies of nothing but a call that gave up waiting while  *)
(* its answer was being handed over, of Done, or of a resubscription that  *)
(* failed and left c.subs nil: late or duplicated answers and lost         *)
(* connections alone do not end it.                                        *)
LoopDeathCause ==
    hpc = "dead" =>
        \/ dpc # "idle"
        \/ subs = "nil"
        \/ /\ hcid \in Timed
           /\ \/ pc[hcid] = "expire"
              \/ outcome[hcid] = "deadline_exceeded"

(* A call that returned is not in callinfos any more, except after an      *)
(* error from Publish (NatsClient.Call returns without deleting it) and    *)
(* for the one entry Done has closed and is about to delete.               *)
NoEntryLeak ==
    \A c \in callinfos :
        pc[c] = "returned" /\ ~mapNil =>
            \/ outcome[c] = "not_published"
            \/ dpc = "delete" /\ dcur = c

(* A caller is told "client_closed" only when Done was called: the receive *)
(* loop's own close of the channel is never seen before the value it sent. *)
ClosedOnlyByDone ==
    \A c \in Calls : outcome[c] = "client_closed" => dpc # "idle"

-----------------------------------------------------------------------------
(* The inductive invariant behind these properties.                        *)

(* The call has been entered in callinfos at some time (or is over).       *)
Registered(c) == pc[c] \in {"publish", "wait", "expire", "returned", "panicked"}

TimedOut(c) == /\ c \in Timed
               /\ pc[c] = "expire" \/ outcome[c] = "deadline_exceeded"

(* The receive loop found the entry of c and has not sent yet.             *)
Handing(c) == hcid = c /\ (hpc = "send" \/ (hpc = "delete" /\ hfound))

(* The receive loop has closed the channel of c, after its one send.       *)
HandedOver(c) == /\ c \notin callinfos
                 /\ ~Handing(c)
                 /\ c \in full \/ pc[c] \in {"expire", "returned", "panicked"}

PhaseInv ==
    /\ \A c \in Calls : outcome[c] # "none" => pc[c] = "returned"
    /\ \A c \in callinfos \union full \union closed \union snap : Registered(c)
    /\ \A c \in Calls : Handing(c) \/ (hpc = "close" /\ hcid = c) => Registered(c)
    /\ dpc = "delete" => dcur \in Calls /\ Registered(dcur)
    /\ mapNil => dpc \notin {"idle", "walk", "delete"}
    /\ (\E c \in Calls : pc[c] = "panicked") => mapNil

HandOverInv ==
    /\ \A c \in full : c \notin callinfos /\ ~Handing(c)
    /\ hpc = "send" => hcid \notin callinfos
    /\ hpc = "close" => /\ hcid \notin callinfos
                        /\ hcid \in full \/ pc[hcid] \in {"expire", "returned", "panicked"}

CloseInv ==
    /\ \A c \in closed : dpc = "idle" => TimedOut(c) \/ HandedOver(c)
    /\ \A c \in closed \intersect callinfos :
           mapNil \/ pc[c] = "expire" \/ (dpc = "delete" /\ dcur = c)

IndInv == /\ TypeOK /\ PhaseInv /\ HandOverInv /\ CloseInv
          /\ LoopDeathCause /\ NoEntryLeak /\ ClosedOnlyByDone

-----------------------------------------------------------------------------
(* What nats_client.go:200 says of an answer that comes after the timeout: *)
(* it is logged, and the receive loop lives on.                            *)
LateReplyHarmless == dpc = "idle" /\ subs # "nil" => hpc # "dead"

(* Every call whose context ends comes back to its caller, whatever the    *)
(* server and the network do. Only if Done has dropped the map can it end  *)
(* in a panic of the caller's goroutine instead (Set and Delete through    *)
(* the field that is nil).                                                 *)
CallReturns ==
    \A c \in Timed :
        pc[c] \in PendingPc ~> \/ pc[c] = "returned"
                               \/ pc[c] = "panicked" /\ mapNil

(* Done wakes every call it found pending: each returns, deadline or not.  *)
(* One with a deadline may choose the end of its context instead, and      *)
(* panics if Done has dropped the map before it comes to its Delete.       *)
DoneWakesPending ==
    \A c \in Calls :
        dpc = "walk" /\ c \in snap
            ~> pc[c] = "returned" \/ (c \in Timed /\ pc[c] = "panicked")

(* Done, once the receive loop was subscribed, completes, and the receive  *)
(* loop then stops.                                                        *)
DoneStopsLoop ==
    dpc # "idle" /\ helper # "none"
        ~> dpc = "returned" /\ hpc \in {"exit", "dead"}
=============================================================================
