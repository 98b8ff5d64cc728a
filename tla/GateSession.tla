----------------------------- MODULE GateSession -----------------------------
(***************************************************************************)
(* The session of a client: the gate holds it (gate/base/gate_handler.go), *)
(* other modules hold copies (gate/base/session.go) and change it by calls *)
(* to the gate, and a StorageHandler of the application keeps the settings *)
(* of a user from one connection to the next.                              *)
(*                                                                         *)
(* The handlers of the gate are registered with RegisterGO, so those of    *)
(* one session run at the same time; every access to the session is a      *)
(* step. A copy is used by one goroutine (gate/define.go: a Session is not *)
(* thread safe), but a call that timed out goes on at the gate while its   *)
(* caller makes the next one. The StorageHandler is external. Query is one *)
(* step; Storage, which no lock protects, is two: it serialises the        *)
(* session and then writes what it got. Of a copy only the settings are    *)
(* kept: no call depends on the rest.                                      *)
(***************************************************************************)

CONSTANTS
    Sessions, NoSession,
    Copies,       \* the sessions other modules hold
    SessionOf,    \* the session of a copy
    Users, NoUser,
    Keys, Vals, NoVal,
    Calls, NoCall, \* bound: the calls under way at the same time
    LocalChanges, \* modules change settings of their copies only
    MayFail       \* Storage and Query may return an error, and the gate may
                  \* not be found

ASSUME SessionAssumption ==
    /\ NoSession \notin Sessions /\ NoUser \notin Users /\ NoVal \notin Vals
    /\ SessionOf \in [Copies -> Sessions]
    /\ NoCall \notin Calls /\ Copies # {}
    /\ LocalChanges \in BOOLEAN /\ MayFail \in BOOLEAN

Settings == [Keys -> Vals \union {NoVal}]
Empty == [k \in Keys |-> NoVal]

VARIABLES
    online,    \* the session is in handler.sessions: not yet, yes, no more
    user, settings,  \* the session at the gate
    stored,    \* what the StorageHandler keeps for a user
    by,        \* history: the session whose Storage was the last of a user
    amiss,     \* history: the last Storage of a session to end has failed, or
               \* another one of the session ended since it read the session
    copy,      \* the settings of a copy
    waiting,   \* the call the holder of a copy waits for
    pc,        \* where the handler of a call is
    req,       \* what a call asks for; in Storage, user is the one it read
    map        \* the settings a call carries: to be written, to be imported,
               \* to be stored, or in its answer

gateVars == <<online, user, settings>>
storageVars == <<stored, by, amiss>>
copyVars == <<copy, waiting>>
callVars == <<pc, req, map>>
vars == <<gateVars, storageVars, copyVars, callVars>>

NoReq == [from |-> CHOOSE c \in Copies : TRUE, op |-> "Update", keys |-> {}, user |-> NoUser]

Init ==
    /\ online = [s \in Sessions |-> "new"]
    /\ user = [s \in Sessions |-> NoUser] /\ settings = [s \in Sessions |-> Empty]
    /\ stored = [u \in Users |-> Empty] /\ by = [u \in Users |-> NoSession]
    /\ amiss = [s \in Sessions |-> FALSE]
    /\ copy = [c \in Copies |-> Empty] /\ waiting = [c \in Copies |-> NoCall]
    /\ pc = [i \in Calls |-> "free"]
    /\ req = [i \in Calls |-> NoReq] /\ map = [i \in Calls |-> Empty]

-----------------------------------------------------------------------------
(* handler.Connect and DisConnect; a publish of the client brings a module *)
(* a clone of the session (agent.recoverworker).                           *)
Connect(s) ==
    /\ online[s] = "new" /\ online' = [online EXCEPT ![s] = "yes"]
    /\ UNCHANGED <<user, settings, storageVars, copyVars, callVars>>

DisConnect(s) ==
    /\ online[s] = "yes" /\ online' = [online EXCEPT ![s] = "no"]
    /\ UNCHANGED <<user, settings, storageVars, copyVars, callVars>>

Clone(c) ==
    /\ waiting[c] = NoCall /\ online[SessionOf[c]] = "yes"
    /\ copy' = [copy EXCEPT ![c] = settings[SessionOf[c]]]
    /\ UNCHANGED <<gateVars, storageVars, waiting, callVars>>

-----------------------------------------------------------------------------
(* A module changes its copy, or calls the gate.                           *)
LocalKV(c) ==
    /\ LocalChanges /\ waiting[c] = NoCall
    /\ \E k \in Keys, v \in Vals \union {NoVal} :
          copy' = [copy EXCEPT ![c][k] = v]
    /\ UNCHANGED <<gateVars, storageVars, waiting, callVars>>

(* keys is the key Remove or SetPush is called with (SetPush does not send *)
(* it), u the user of Bind, and m the map that is sent. Nothing is sent    *)
(* when the gate is not found.                                             *)
Request(c, op, keys, u, m) ==
    /\ waiting[c] = NoCall /\ online[SessionOf[c]] # "new"
    /\ \/ \E i \in Calls :
             /\ pc[i] = "free" /\ pc' = [pc EXCEPT ![i] = "sent"]
             /\ req' = [req EXCEPT ![i] =
                          [from |-> c, op |-> op, keys |-> keys, user |-> u]]
             /\ map' = [map EXCEPT ![i] = m] /\ waiting' = [waiting EXCEPT ![c] = i]
       \/ MayFail /\ UNCHANGED <<waiting, callVars>>
    /\ UNCHANGED <<gateVars, storageVars>>

Update(c) == Request(c, "Update", {}, NoUser, Empty) /\ UNCHANGED copy
UnBind(c) == Request(c, "UnBind", {}, NoUser, Empty) /\ UNCHANGED copy

Bind(c) ==
    /\ \E u \in Users : Request(c, "Bind", {}, u, Empty)
    /\ UNCHANGED copy

Set(c) ==
    /\ \E k \in Keys, v \in Vals : Request(c, "Set", {}, NoUser, [Empty EXCEPT ![k] = v])
    /\ UNCHANGED copy

Remove(c) ==
    /\ \E k \in Keys : Request(c, "Remove", {k}, NoUser, Empty)
    /\ UNCHANGED copy

Push(c) == Request(c, "Push", {}, NoUser, copy[c]) /\ UNCHANGED copy

SetBatch(c) ==
    /\ \E m \in Settings : Request(c, "Push", {}, NoUser, m)
    /\ UNCHANGED copy

(* The value is put into the copy, and the whole copy is pushed.           *)
SetPush(c) ==
    \E k \in Keys, v \in Vals :
        /\ copy' = [copy EXCEPT ![c][k] = v]
        /\ Request(c, "SetPush", {k}, NoUser, [copy[c] EXCEPT ![k] = v])

(* A call that is over leaves nothing behind.                              *)
Over(i) == /\ pc' = [pc EXCEPT ![i] = "free"] /\ req' = [req EXCEPT ![i] = NoReq]
           /\ map' = [map EXCEPT ![i] = Empty]

(* A successful answer replaces the settings of the copy; an answer nobody *)
(* waits for is dropped.                                                   *)
Return(c) ==
    LET i == waiting[c] IN
    /\ i # NoCall /\ pc[i] \in {"answered", "refused"} /\ Over(i)
    /\ waiting' = [waiting EXCEPT ![c] = NoCall]
    /\ copy' = IF pc[i] = "answered" THEN [copy EXCEPT ![c] = map[i]] ELSE copy
    /\ UNCHANGED <<gateVars, storageVars>>

Timeout(c) ==
    LET i == waiting[c] IN
    /\ i # NoCall /\ waiting' = [waiting EXCEPT ![c] = NoCall]
    /\ IF pc[i] \in {"answered", "refused"} THEN Over(i) ELSE UNCHANGED callVars
    /\ UNCHANGED <<gateVars, storageVars, copy>>

-----------------------------------------------------------------------------
(* The handlers of the gate. i is a call, Sess(i) its session.             *)
Sess(i) == SessionOf[req[i].from]
Awaited(i) == waiting[req[i].from] = i
To(i, label) == pc' = [pc EXCEPT ![i] = label]

Answer(i, label, m) ==
    IF Awaited(i) THEN To(i, label) /\ map' = [map EXCEPT ![i] = m] /\ UNCHANGED req
    ELSE Over(i)

(* sessions.Load.                                                          *)
LoadNone(i) ==
    /\ pc[i] = "sent" /\ online[Sess(i)] # "yes"
    /\ Answer(i, "refused", Empty)
    /\ UNCHANGED <<gateVars, storageVars, copyVars>>

Load(i) ==
    /\ pc[i] = "sent" /\ online[Sess(i)] = "yes"
    /\ To(i, CASE req[i].op = "Update" -> "reply"
               [] req[i].op \in {"Bind", "UnBind"} -> "user"
               [] OTHER -> "write")
    /\ UNCHANGED <<gateVars, storageVars, copyVars, req, map>>

SetUserID(i) ==
    /\ pc[i] = "user"
    /\ user' = [user EXCEPT ![Sess(i)] = req[i].user]
    /\ To(i, IF req[i].op = "Bind" THEN "check" ELSE "reply")
    /\ UNCHANGED <<online, settings, storageVars, copyVars, req, map>>

(* Set and Push: one key after the other, each under the lock of the       *)
(* session.                                                                *)
SetLocalKV(i) ==
    /\ pc[i] = "write" /\ req[i].op # "Remove"
    /\ \E k \in Keys :
          /\ map[i][k] # NoVal /\ map' = [map EXCEPT ![i][k] = NoVal]
          /\ settings' = [settings EXCEPT ![Sess(i)][k] = map[i][k]]
    /\ UNCHANGED <<online, user, storageVars, copyVars, pc, req>>

RemoveLocalKV(i) ==
    /\ pc[i] = "write" /\ req[i].op = "Remove" /\ To(i, "check")
    /\ \E k \in req[i].keys : settings' = [settings EXCEPT ![Sess(i)][k] = NoVal]
    /\ UNCHANGED <<online, user, storageVars, copyVars, req, map>>

Written(i) == pc[i] = "write" /\ req[i].op # "Remove" /\ map[i] = Empty

(* Mutant: a removal is not stored.                                        *)
CheckUserNotRemove(i) ==
    /\ pc[i] = "check" \/ Written(i)
    /\ To(i, IF user[Sess(i)] = NoUser \/ req[i].op = "Remove" THEN "reply"
             ELSE IF req[i].op = "Bind" THEN "query" ELSE "store")
    /\ UNCHANGED <<gateVars, storageVars, copyVars, req, map>>

(* A session without a user is not stored.                                 *)
CheckUser(i) ==
    /\ pc[i] = "check" \/ Written(i)
    /\ To(i, IF user[Sess(i)] = NoUser THEN "reply"
             ELSE IF req[i].op = "Bind" THEN "query" ELSE "store")
    /\ UNCHANGED <<gateVars, storageVars, copyVars, req, map>>

(* Bind asks for the settings of the user it was called with.              *)
QueryFound(i) ==
    /\ pc[i] = "query" /\ by[req[i].user] # NoSession
    /\ To(i, "import") /\ map' = [map EXCEPT ![i] = stored[req[i].user]]
    /\ UNCHANGED <<gateVars, storageVars, copyVars, req>>

QueryNone(i) ==
    /\ pc[i] = "query" /\ (by[req[i].user] = NoSession \/ MayFail)
    /\ To(i, "store")
    /\ UNCHANGED <<gateVars, storageVars, copyVars, req, map>>

(* What the session has takes precedence.                                  *)
ImportSettings(i) ==
    /\ pc[i] = "import" /\ To(i, "store")
    /\ settings' = [settings EXCEPT ![Sess(i)] =
                      [k \in Keys |-> IF @[k] # NoVal THEN @[k] ELSE map[i][k]]]
    /\ map' = [map EXCEPT ![i] = Empty]
    /\ UNCHANGED <<online, user, storageVars, copyVars, req>>

(* Storage(session), external, begins: it reads the session as it is by    *)
(* then, and has nothing to do if that has no user any more.               *)
Snapshot(i) ==
    /\ pc[i] = "store" /\ user[Sess(i)] # NoUser /\ To(i, "save")
    /\ map' = [map EXCEPT ![i] = settings[Sess(i)]]
    /\ req' = [req EXCEPT ![i].user = user[Sess(i)]]
    /\ UNCHANGED <<gateVars, storageVars, copyVars>>

Unbound(i) ==
    /\ pc[i] = "store" /\ user[Sess(i)] = NoUser /\ To(i, "reply")
    /\ UNCHANGED <<gateVars, storageVars, copyVars, req, map>>

(* Storage ends, while those of the same session that are under way may    *)
(* hold an older or a newer snapshot. The gate logs an error and goes on.  *)
StorageEnds(i) ==
    /\ pc' = [j \in Calls |-> IF j = i THEN "reply"
                              ELSE IF pc[j] = "save" /\ Sess(j) = Sess(i) THEN "late"
                              ELSE pc[j]]
    /\ map' = [map EXCEPT ![i] = Empty]
    /\ UNCHANGED <<gateVars, copyVars, req>>

Stored(i) ==
    /\ pc[i] \in {"save", "late"} /\ StorageEnds(i)
    /\ stored' = [stored EXCEPT ![req[i].user] = map[i]]
    /\ by' = [by EXCEPT ![req[i].user] = Sess(i)]
    /\ amiss' = [amiss EXCEPT ![Sess(i)] = (pc[i] = "late")]

NotStored(i) ==
    /\ MayFail /\ pc[i] \in {"save", "late"} /\ StorageEnds(i)
    /\ amiss' = [amiss EXCEPT ![Sess(i)] = TRUE]
    /\ UNCHANGED <<stored, by>>

(* Mutant: the handler forgets its result, the answer carries no settings. *)
ReplyNil(i) ==
    /\ pc[i] = "reply" /\ Answer(i, "answered", [k \in {} |-> NoVal])
    /\ UNCHANGED <<gateVars, storageVars, copyVars>>

(* The result is serialised after the handler has returned.                *)
Reply(i) ==
    /\ pc[i] = "reply" /\ Answer(i, "answered", settings[Sess(i)])
    /\ UNCHANGED <<gateVars, storageVars, copyVars>>

-----------------------------------------------------------------------------
Handler(i) == \/ LoadNone(i) \/ Load(i) \/ SetUserID(i) \/ SetLocalKV(i)
              \/ RemoveLocalKV(i) \/ CheckUser(i) \/ QueryFound(i) \/ QueryNone(i)
              \/ ImportSettings(i) \/ Snapshot(i) \/ Unbound(i) \/ Stored(i)
              \/ NotStored(i) \/ Reply(i)

Next ==
    \/ \E s \in Sessions : Connect(s) \/ DisConnect(s)
    \/ \E c \in Copies : \/ Clone(c) \/ LocalKV(c)
                         \/ Update(c) \/ Bind(c) \/ UnBind(c) \/ Set(c) \/ Remove(c)
                         \/ Push(c) \/ SetBatch(c) \/ SetPush(c)
                         \/ Return(c) \/ Timeout(c)
    \/ \E i \in Calls : Handler(i)

Spec == Init /\ [][Next]_vars

-----------------------------------------------------------------------------
Ops == {"Update", "Bind", "UnBind", "Set", "Remove", "Push", "SetPush"}
ReqType == [from : Copies, op : Ops, keys : SUBSET Keys, user : Users \union {NoUser}]

TypeOK ==
    /\ online \in [Sessions -> {"new", "yes", "no"}]
    /\ user \in [Sessions -> Users \union {NoUser}] /\ settings \in [Sessions -> Settings]
    /\ stored \in [Users -> Settings] /\ by \in [Users -> Sessions \union {NoSession}]
    /\ amiss \in [Sessions -> BOOLEAN]
    /\ copy \in [Copies -> Settings] /\ waiting \in [Copies -> Calls \union {NoCall}]
    /\ pc \in [Calls -> {"free", "sent", "user", "check", "write", "query", "import",
                         "store", "save", "late", "reply", "answered", "refused"}]
    /\ req \in [Calls -> ReqType] /\ map \in [Calls -> Settings]

(* A handler has yet to store what it, or another before it, changed.      *)
ActivePc == {"user", "check", "write", "query", "import", "store", "save", "late"}
Active(s) == \E i \in Calls : pc[i] \in ActivePc /\ Sess(i) = s

(* gate/define.go:136, every change after Bind is stored: when no handler  *)
(* is at work on a bound session, what is stored for its user is what the  *)
(* session holds, in whatever order the handlers of Bind, UnBind, Set,     *)
(* Push and Remove ran. Three things may spoil it: the last Storage of the *)
(* session failed, it overlapped with another one of the session, so that  *)
(* the older snapshot may have been written last, or another session of    *)
(* the user was the last to store.                                         *)
StorageCurrent ==
    \A s \in Sessions :
        user[s] # NoUser /\ ~Active(s) /\ ~amiss[s] =>
            /\ by[user[s]] # NoSession
            /\ by[user[s]] = s => stored[user[s]] = settings[s]

(* gate/define.go:100: SetPush does what Set does, so its handler changes  *)
(* no other key of the session at the gate.                                *)
SetPushLikeSet ==
    [][\A i \in Calls : SetLocalKV(i) /\ req[i].op = "SetPush" =>
          \A k \in Keys \ req[i].keys :
             settings'[Sess(i)][k] = settings[Sess(i)][k]]_vars
=============================================================================
