-------------------------- MODULE GateSessionProofs --------------------------
(***************************************************************************)
(* StorageCurrent for any number of sessions, copies, users, keys and      *)
(* calls under way. Beside the types it rests on what the label of a call  *)
(* says about its request (ReqInv) and on CurrentFor: once the last        *)
(* handler that changed a bound session has come to Storage, a Storage     *)
(* under way carries the session as it is, until one ends.                 *)
(***************************************************************************)
EXTENDS GateSession, TLAPS

(* Bind names a user and UnBind none; only they set the user, and only     *)
(* Bind queries the storage.                                               *)
ReqInv ==
    \A i \in Calls : /\ req[i].op = "Bind" => req[i].user \in Users
                     /\ req[i].op = "UnBind" /\ pc[i] \in {"sent", "user"}
                           => req[i].user = NoUser
                     /\ pc[i] \in {"save", "late"} => req[i].user \in Users
                     /\ pc[i] = "user" => req[i].op \in {"Bind", "UnBind"}
                     /\ pc[i] = "query" => req[i].op = "Bind"

(* Facts about the types of settings, requests and sessions.               *)
LEMMA EmptyType == Empty \in Settings
BY DEF Empty, Settings

LEMMA NoReqType == NoReq \in ReqType /\ NoReq.op = "Update"
BY SessionAssumption DEF NoReq, ReqType, Ops

LEMMA SessType ==
  ASSUME TypeOK, NEW i \in Calls PROVE Sess(i) \in Sessions
BY SessionAssumption DEF TypeOK, ReqType, Sess

(* Ending a call, and answering it, change that call only.                 *)
LEMMA OverType ==
  ASSUME TypeOK, NEW i \in Calls, Over(i)
  PROVE  /\ req' \in [Calls -> ReqType] /\ map' \in [Calls -> Settings]
         /\ pc' = [pc EXCEPT ![i] = "free"]
         /\ req'[i].op = "Update" /\ \A j \in Calls \ {i} : req'[j] = req[j]
BY EmptyType, NoReqType DEF TypeOK, Over

LEMMA AnswerType ==
  ASSUME TypeOK, NEW i \in Calls, NEW label \in {"answered", "refused"},
         NEW m \in Settings, Answer(i, label, m)
  PROVE  /\ req' \in [Calls -> ReqType] /\ map' \in [Calls -> Settings]
         /\ pc' = [pc EXCEPT ![i] = label] \/ pc' = [pc EXCEPT ![i] = "free"]
         /\ req'[i] = req[i] \/ req'[i].op = "Update"
         /\ \A j \in Calls \ {i} : req'[j] = req[j]
BY OverType DEF TypeOK, Answer, To

(* The end of Storage changes the label of its call and of those that are  *)
(* under way for the same session.                                         *)
LEMMA StorageEndsType ==
  ASSUME TypeOK, ReqInv, NEW i \in Calls, StorageEnds(i), pc[i] \in {"save", "late"}
  PROVE  /\ online' \in [Sessions -> {"new", "yes", "no"}]
         /\ user' \in [Sessions -> Users \union {NoUser}]
         /\ settings' \in [Sessions -> Settings]
         /\ copy' \in [Copies -> Settings] /\ waiting' \in [Copies -> Calls \union {NoCall}]
         /\ pc' \in [Calls -> {"free", "sent", "user", "check", "write", "query",
                              "import", "store", "save", "late", "reply", "answered",
                              "refused"}]
         /\ req' \in [Calls -> ReqType] /\ map' \in [Calls -> Settings] /\ ReqInv'
BY EmptyType DEF TypeOK, ReqInv, StorageEnds, gateVars, copyVars

(* What the calls of a copy have in common.                                *)
Calling(c) == \E op \in Ops, keys \in SUBSET Keys, u \in Users \union {NoUser},
                 m \in Settings :
                 /\ Request(c, op, keys, u, m)
                 /\ op = "Bind" => u \in Users
                 /\ op = "UnBind" => u = NoUser

(* Every call of a module is such a request, and keeps the copy a copy.    *)
LEMMA CallingStep ==
  ASSUME TypeOK, NEW c \in Copies,
         \/ Update(c) \/ UnBind(c) \/ Bind(c) \/ Set(c) \/ Remove(c) \/ Push(c)
         \/ SetBatch(c) \/ SetPush(c)
  PROVE  Calling(c) /\ copy' \in [Copies -> Settings]
<1> USE EmptyType
<1>1. copy[c] \in Settings /\ copy \in [Copies -> Settings]
  BY DEF TypeOK
<1>2. \A k \in Keys, v \in Vals, m \in Settings : [m EXCEPT ![k] = v] \in Settings
  BY DEF Settings
<1>3. CASE Update(c) \/ UnBind(c) \/ Push(c)
  BY <1>1, <1>3 DEF Update, UnBind, Push, Calling, Ops
<1>4. CASE Bind(c)
  BY <1>1, <1>4 DEF Bind, Calling, Ops
<1>5. CASE Set(c)
  BY <1>1, <1>2, <1>5 DEF Set, Calling, Ops
<1>6. CASE Remove(c) \/ SetBatch(c)
  BY <1>1, <1>6 DEF Remove, SetBatch, Calling, Ops
<1>7. CASE SetPush(c)
  <2>1. PICK k \in Keys, v \in Vals :
          /\ copy' = [copy EXCEPT ![c][k] = v]
          /\ Request(c, "SetPush", {k}, NoUser, [copy[c] EXCEPT ![k] = v])
    BY <1>7 DEF SetPush
  <2>2. [copy[c] EXCEPT ![k] = v] \in Settings
    BY <1>1, <1>2
  <2>3. copy' \in [Copies -> Settings]
    BY <1>1, <2>1, <2>2
  <2> QED
    BY <2>1, <2>2, <2>3 DEF Calling, Ops
<1> QED
  BY <1>3, <1>4, <1>5, <1>6, <1>7

(* The inductive step of the types and of ReqInv, one step per action.     *)
LEMMA TypeStep == TypeOK /\ ReqInv /\ [Next]_vars => TypeOK' /\ ReqInv'
<1> SUFFICES ASSUME TypeOK, ReqInv, [Next]_vars PROVE TypeOK' /\ ReqInv'
  OBVIOUS
<1> USE SessionAssumption, EmptyType
<1>1. ASSUME NEW s \in Sessions, Connect(s) \/ DisConnect(s) PROVE TypeOK' /\ ReqInv'
  BY <1>1 DEF TypeOK, ReqInv, Connect, DisConnect, storageVars, copyVars, callVars
<1>2. ASSUME NEW c \in Copies, Clone(c) PROVE TypeOK' /\ ReqInv'
  BY <1>2 DEF TypeOK, ReqInv, Clone, gateVars, storageVars, callVars
<1>3. ASSUME NEW c \in Copies, LocalKV(c) PROVE TypeOK' /\ ReqInv'
  <2>1. PICK k \in Keys, v \in Vals \union {NoVal} : copy' = [copy EXCEPT ![c][k] = v]
    BY <1>3 DEF LocalKV
  <2>2. copy' \in [Copies -> Settings]
    BY <2>1 DEF TypeOK, Settings
  <2> QED
    BY <1>3, <2>2 DEF TypeOK, ReqInv, LocalKV, gateVars, storageVars, callVars
<1>4. ASSUME NEW c \in Copies,
             \/ Update(c) \/ UnBind(c) \/ Bind(c) \/ Set(c) \/ Remove(c) \/ Push(c)
             \/ SetBatch(c) \/ SetPush(c)
      PROVE  TypeOK' /\ ReqInv'
  <2>1. PICK op \in Ops, keys \in SUBSET Keys, u \in Users \union {NoUser}, m \in Settings :
          /\ Request(c, op, keys, u, m)
          /\ op = "Bind" => u \in Users
          /\ op = "UnBind" => u = NoUser
    BY <1>4, CallingStep DEF Calling
  <2>3. UNCHANGED <<gateVars, storageVars>> /\ copy' \in [Copies -> Settings]
    BY <1>4, <2>1, CallingStep DEF Request
  <2>4. [from |-> c, op |-> op, keys |-> keys, user |-> u] \in ReqType
    BY DEF ReqType
  <2>5. ASSUME NEW i \in Calls,
               /\ pc[i] = "free" /\ pc' = [pc EXCEPT ![i] = "sent"]
               /\ req' = [req EXCEPT ![i] =
                            [from |-> c, op |-> op, keys |-> keys, user |-> u]]
               /\ map' = [map EXCEPT ![i] = m] /\ waiting' = [waiting EXCEPT ![c] = i]
        PROVE  TypeOK' /\ ReqInv'
    <3>1. TypeOK'
      BY <2>3, <2>4, <2>5 DEF TypeOK, gateVars, storageVars
    <3>2. /\ req'[i].op = op /\ req'[i].user = u
          /\ \A j \in Calls \ {i} : req'[j] = req[j] /\ pc'[j] = pc[j]
          /\ pc'[i] = "sent"
      BY <2>5 DEF TypeOK
    <3> QED
      BY <2>1, <3>1, <3>2 DEF ReqInv
  <2>6. CASE UNCHANGED <<waiting, callVars>>
    BY <2>3, <2>6 DEF TypeOK, ReqInv, gateVars, storageVars, callVars
  <2> QED
    BY <2>1, <2>5, <2>6 DEF Request
<1>5. ASSUME NEW c \in Copies, Return(c) \/ Timeout(c) PROVE TypeOK' /\ ReqInv'
  <2>1. waiting[c] \in Calls
    BY <1>5 DEF TypeOK, Return, Timeout
  <2>2. /\ waiting' \in [Copies -> Calls \union {NoCall}] /\ copy' \in [Copies -> Settings]
        /\ UNCHANGED <<gateVars, storageVars>>
    BY <1>5, <2>1 DEF TypeOK, Return, Timeout
  <2>3. CASE Over(waiting[c])
    BY <2>1, <2>2, <2>3, OverType DEF TypeOK, ReqInv, gateVars, storageVars
  <2>4. CASE UNCHANGED callVars
    BY <2>2, <2>4 DEF TypeOK, ReqInv, gateVars, storageVars, callVars
  <2> QED
    BY <1>5, <2>3, <2>4 DEF Return, Timeout
<1>6. ASSUME NEW i \in Calls, Handler(i) PROVE TypeOK' /\ ReqInv'
  <2> USE SessType
  <2>1. CASE LoadNone(i)
    <3>1. Answer(i, "refused", Empty) /\ UNCHANGED <<gateVars, storageVars, copyVars>>
      BY <2>1 DEF LoadNone
    <3>2. /\ req' \in [Calls -> ReqType] /\ map' \in [Calls -> Settings]
          /\ pc' = [pc EXCEPT ![i] = "refused"] \/ pc' = [pc EXCEPT ![i] = "free"]
          /\ req'[i] = req[i] \/ req'[i].op = "Update"
          /\ \A j \in Calls \ {i} : req'[j] = req[j]
      BY <3>1, AnswerType
    <3> QED
      BY <3>1, <3>2 DEF TypeOK, ReqInv, gateVars, storageVars, copyVars
  <2>2. CASE Load(i)
    BY <2>2 DEF TypeOK, ReqInv, Load, To, gateVars, storageVars, copyVars
  <2>3. CASE SetUserID(i)
    BY <2>3 DEF TypeOK, ReqInv, ReqType, SetUserID, To, storageVars, copyVars
  <2>4. CASE SetLocalKV(i)
    <3>1. PICK k \in Keys : /\ map' = [map EXCEPT ![i][k] = NoVal]
                            /\ settings' = [settings EXCEPT ![Sess(i)][k] = map[i][k]]
      BY <2>4 DEF SetLocalKV
    <3>2. settings' \in [Sessions -> Settings] /\ map' \in [Calls -> Settings]
      BY <3>1 DEF TypeOK, Settings
    <3> QED
      BY <2>4, <3>2 DEF TypeOK, ReqInv, SetLocalKV, storageVars, copyVars
  <2>5. CASE RemoveLocalKV(i)
    <3>1. PICK k \in Keys : settings' = [settings EXCEPT ![Sess(i)][k] = NoVal]
      BY <2>5 DEF RemoveLocalKV, TypeOK, ReqType
    <3>2. settings' \in [Sessions -> Settings]
      BY <3>1 DEF TypeOK, Settings
    <3> QED
      BY <2>5, <3>2 DEF TypeOK, ReqInv, RemoveLocalKV, To, storageVars, copyVars
  <2>6. CASE CheckUser(i)
    BY <2>6 DEF TypeOK, ReqInv, CheckUser, To, gateVars, storageVars, copyVars
  <2>7. CASE QueryFound(i)
    BY <2>7 DEF TypeOK, ReqInv, QueryFound, To, gateVars, storageVars, copyVars
  <2>8. CASE QueryNone(i)
    BY <2>8 DEF TypeOK, ReqInv, QueryNone, To, gateVars, storageVars, copyVars
  <2>9. CASE ImportSettings(i)
    <3>1. settings' \in [Sessions -> Settings]
      BY <2>9 DEF TypeOK, Settings, ImportSettings
    <3> QED
      BY <2>9, <3>1 DEF TypeOK, ReqInv, ImportSettings, To, storageVars, copyVars
  <2>10. CASE Stored(i)
    <3>1. amiss' \in [Sessions -> BOOLEAN]
      BY <2>10, Zenon DEF TypeOK, Stored
    <3>2. stored' \in [Users -> Settings] /\ by' \in [Users -> Sessions \union {NoSession}]
      BY <2>10 DEF TypeOK, ReqInv, Stored
    <3> QED
      BY <2>10, <3>1, <3>2, StorageEndsType DEF Stored, TypeOK
  <2>11. CASE NotStored(i)
    <3>1. amiss' \in [Sessions -> BOOLEAN]
      BY <2>11 DEF TypeOK, NotStored
    <3> QED
      BY <2>11, <3>1, StorageEndsType DEF NotStored, TypeOK
  <2>13. CASE Snapshot(i)
    <3>1. user[Sess(i)] \in Users /\ settings[Sess(i)] \in Settings
      BY <2>13 DEF TypeOK, Snapshot
    <3>2. /\ req' = [req EXCEPT ![i] = [req[i] EXCEPT !.user = user[Sess(i)]]]
          /\ [req[i] EXCEPT !.user = user[Sess(i)]] \in ReqType
          /\ [req[i] EXCEPT !.user = user[Sess(i)]].op = req[i].op
          /\ [req[i] EXCEPT !.user = user[Sess(i)]].user = user[Sess(i)]
      BY <2>13, <3>1 DEF TypeOK, Snapshot, ReqType
    <3>3. /\ pc' = [pc EXCEPT ![i] = "save"]
          /\ map' = [map EXCEPT ![i] = settings[Sess(i)]]
          /\ UNCHANGED <<gateVars, storageVars, copyVars>>
      BY <2>13 DEF Snapshot, To
    <3> DEFINE r == [req[i] EXCEPT !.user = user[Sess(i)]]
    <3> HIDE DEF r
    <3>4. TypeOK'
      BY <3>1, <3>2, <3>3 DEF TypeOK, gateVars, storageVars, copyVars, r
    <3>5. /\ pc'[i] = "save" /\ req'[i].op = req[i].op /\ req'[i].user \in Users
          /\ \A j \in Calls \ {i} : req'[j] = req[j] /\ pc'[j] = pc[j]
      BY <3>1, <3>2, <3>3 DEF TypeOK
    <3> QED
      BY <3>4, <3>5 DEF ReqInv
  <2>14. CASE Unbound(i)
    BY <2>14 DEF TypeOK, ReqInv, Unbound, To, gateVars, storageVars, copyVars
  <2>12. CASE Reply(i)
    <3>1. settings[Sess(i)] \in Settings
      BY DEF TypeOK
    <3> QED
      BY <2>12, <3>1, AnswerType DEF TypeOK, ReqInv, Reply, gateVars, storageVars, copyVars
  <2> QED
    BY <1>6, <2>1, <2>2, <2>3, <2>4, <2>5, <2>6, <2>7, <2>8, <2>9, <2>10, <2>11, <2>12,
       <2>13, <2>14 DEF Handler
<1>7. CASE UNCHANGED vars
  BY <1>7 DEF TypeOK, ReqInv, vars, gateVars, storageVars, copyVars, callVars
<1> QED
  BY <1>1, <1>2, <1>3, <1>4, <1>5, <1>6, <1>7 DEF Next

(* Initially there are no calls and nothing is stored.                     *)
LEMMA InitType == Init => TypeOK /\ ReqInv
BY SessionAssumption, EmptyType, NoReqType DEF Init, TypeOK, ReqInv

(* The sessions, calls and what is stored keep their types.                *)
THEOREM TypeCorrect == Spec => []TypeOK
BY InitType, TypeStep, PTL DEF Spec

(* A handler that has yet to read the session for its Storage.             *)
DirtyPc == {"user", "check", "write", "query", "import", "store"}
Dirty(s) == \E i \in Calls : pc[i] \in DirtyPc /\ Sess(i) = s

(* A Storage under way that has read the session as it is.                 *)
Carries(i, s) == /\ pc[i] \in {"save", "late"} /\ Sess(i) = s
                 /\ map[i] = settings[s] /\ req[i].user = user[s]

(* No Storage has read the session since the last one ended.               *)
NoneSince(s) == \A i \in Calls : Sess(i) = s => pc[i] # "save"

Kept(s) == /\ by[user[s]] # NoSession
           /\ by[user[s]] = s => stored[user[s]] = settings[s]

(* When no handler of a bound session is left that changes it, a Storage   *)
(* under way carries it as it is, or the last one has settled the matter.  *)
CurrentFor(s) ==
    user[s] # NoUser /\ ~Dirty(s) =>
        \/ \E i \in Calls : Carries(i, s)
        \/ NoneSince(s) /\ (amiss[s] \/ Kept(s))

CurrentInv == \A s \in Sessions : CurrentFor(s)

(* A step that leaves the session, what is kept of it and the handlers at  *)
(* work on it as they are, and takes no snapshot of it, keeps CurrentFor.  *)
LEMMA Untouched ==
  ASSUME NEW s \in Sessions, CurrentFor(s),
         user'[s] = user[s], settings'[s] = settings[s], amiss'[s] = amiss[s],
         user[s] # NoUser /\ Kept(s) => Kept(s)',
         \A j \in Calls : pc[j] \in ActivePc /\ Sess(j) = s =>
            /\ pc'[j] = pc[j] /\ Sess(j)' = s
            /\ map'[j] = map[j] /\ req'[j].user = req[j].user,
         \A j \in Calls : pc'[j] = "save" /\ Sess(j)' = s => pc[j] = "save" /\ Sess(j) = s
  PROVE  CurrentFor(s)'
<1> SUFFICES ASSUME user'[s] # NoUser, ~Dirty(s)'
             PROVE  \/ \E i \in Calls : Carries(i, s)'
                    \/ NoneSince(s)' /\ (amiss'[s] \/ Kept(s)')
  BY DEF CurrentFor
<1>1. user[s] # NoUser /\ ~Dirty(s)
  BY DEF Dirty, DirtyPc, ActivePc
<1>2. ASSUME NEW i \in Calls, Carries(i, s) PROVE Carries(i, s)'
  BY <1>2 DEF Carries, ActivePc
<1>3. ASSUME NoneSince(s) PROVE NoneSince(s)'
  BY <1>3 DEF NoneSince
<1> QED
  BY <1>1, <1>2, <1>3 DEF CurrentFor

(* A step of one call that is not at work on the session.                  *)
LEMMA CallStep ==
  ASSUME TypeOK, NEW s \in Sessions, NEW i \in Calls, NEW label,
         pc' = [pc EXCEPT ![i] = label],
         \A j \in Calls \ {i} : req'[j] = req[j] /\ map'[j] = map[j],
         pc[i] \notin ActivePc \/ Sess(i) # s,
         label # "save" \/ Sess(i)' # s
  PROVE  /\ \A j \in Calls : pc[j] \in ActivePc /\ Sess(j) = s =>
              /\ pc'[j] = pc[j] /\ Sess(j)' = s
              /\ map'[j] = map[j] /\ req'[j].user = req[j].user
         /\ \A j \in Calls : pc'[j] = "save" /\ Sess(j)' = s =>
              pc[j] = "save" /\ Sess(j) = s
<1>1. \A j \in Calls \ {i} : pc'[j] = pc[j] /\ Sess(j)' = Sess(j)
  BY DEF TypeOK, Sess
<1>2. pc'[i] = label
  BY DEF TypeOK
<1> QED
  BY <1>1, <1>2

(* Steps of the clients and of the modules touch no session and no call    *)
(* that is at work.                                                        *)
LEMMA OutsideStep ==
  ASSUME TypeOK, NEW s \in Sessions, CurrentFor(s),
         \/ \E t \in Sessions : Connect(t) \/ DisConnect(t)
         \/ \E c \in Copies : \/ Clone(c) \/ LocalKV(c)
                              \/ Update(c) \/ Bind(c) \/ UnBind(c) \/ Set(c) \/ Remove(c)
                              \/ Push(c) \/ SetBatch(c) \/ SetPush(c)
                              \/ Return(c) \/ Timeout(c)
  PROVE  CurrentFor(s)'
<1>1. UNCHANGED callVars \/ \E i \in Calls : \E label :
        /\ pc' = [pc EXCEPT ![i] = label] /\ pc[i] \notin ActivePc /\ label # "save"
        /\ \A j \in Calls \ {i} : req'[j] = req[j] /\ map'[j] = map[j]
  <2>1. ASSUME NEW t \in Sessions, Connect(t) \/ DisConnect(t) PROVE UNCHANGED callVars
    BY <2>1 DEF Connect, DisConnect
  <2>2. ASSUME NEW c \in Copies, Clone(c) \/ LocalKV(c) PROVE UNCHANGED callVars
    BY <2>2 DEF Clone, LocalKV
  <2>3. ASSUME NEW c \in Copies,
               \/ Update(c) \/ UnBind(c) \/ Bind(c) \/ Set(c) \/ Remove(c) \/ Push(c)
               \/ SetBatch(c) \/ SetPush(c),
               ~UNCHANGED callVars
        PROVE  \E i \in Calls : \E label :
                 /\ pc' = [pc EXCEPT ![i] = label] /\ pc[i] \notin ActivePc /\ label # "save"
                 /\ \A j \in Calls \ {i} : req'[j] = req[j] /\ map'[j] = map[j]
    <3>1. PICK op \in Ops, keys \in SUBSET Keys, u \in Users \union {NoUser},
               m \in Settings : Request(c, op, keys, u, m)
      BY <2>3, CallingStep DEF Calling
    <3>2. PICK i \in Calls :
            /\ pc[i] = "free" /\ pc' = [pc EXCEPT ![i] = "sent"]
            /\ req' = [req EXCEPT ![i] = [from |-> c, op |-> op, keys |-> keys, user |-> u]]
            /\ map' = [map EXCEPT ![i] = m]
      BY <2>3, <3>1 DEF Request
    <3>3. /\ pc[i] \notin ActivePc
          /\ \A j \in Calls \ {i} : req'[j] = req[j] /\ map'[j] = map[j]
      BY <3>2 DEF ActivePc, TypeOK
    <3> QED
      BY <3>2, <3>3
  <2>4. ASSUME NEW c \in Copies, Return(c) \/ Timeout(c)
        PROVE  UNCHANGED callVars \/ \E i \in Calls : \E label :
                 /\ pc' = [pc EXCEPT ![i] = label] /\ pc[i] \notin ActivePc /\ label # "save"
                 /\ \A j \in Calls \ {i} : req'[j] = req[j] /\ map'[j] = map[j]
    <3>1. waiting[c] \in Calls
      BY <2>4 DEF TypeOK, Return, Timeout
    <3>2. UNCHANGED callVars \/ (Over(waiting[c]) /\ pc[waiting[c]] \notin ActivePc)
      BY <2>4 DEF Return, Timeout, ActivePc
    <3>3. ASSUME Over(waiting[c])
          PROVE  /\ pc' = [pc EXCEPT ![waiting[c]] = "free"]
                 /\ \A j \in Calls \ {waiting[c]} : req'[j] = req[j] /\ map'[j] = map[j]
      BY <3>1, <3>3 DEF TypeOK, Over
    <3> QED
      BY <3>1, <3>2, <3>3
  <2> QED
    BY <2>1, <2>2, <2>3, <2>4
<1>2. UNCHANGED <<user, settings, storageVars>>
  <2>1. ASSUME NEW t \in Sessions, Connect(t) \/ DisConnect(t)
        PROVE  UNCHANGED <<user, settings, storageVars>>
    BY <2>1 DEF Connect, DisConnect
  <2>2. ASSUME NEW c \in Copies, Clone(c) \/ LocalKV(c) \/ Return(c) \/ Timeout(c)
        PROVE  UNCHANGED <<user, settings, storageVars>>
    BY <2>2 DEF Clone, LocalKV, Return, Timeout, gateVars
  <2>3. ASSUME NEW c \in Copies,
               \/ Update(c) \/ UnBind(c) \/ Bind(c) \/ Set(c) \/ Remove(c) \/ Push(c)
               \/ SetBatch(c) \/ SetPush(c)
        PROVE  UNCHANGED <<user, settings, storageVars>>
    BY <2>3, CallingStep DEF Calling, Request, gateVars
  <2> QED
    BY <2>1, <2>2, <2>3
<1>3. Kept(s) => Kept(s)'
  BY <1>2 DEF Kept, storageVars
<1>4. user'[s] = user[s] /\ settings'[s] = settings[s] /\ amiss'[s] = amiss[s]
  BY <1>2 DEF storageVars
<1>5. CASE UNCHANGED callVars
  <2>1. \A j \in Calls : pc'[j] = pc[j] /\ Sess(j)' = Sess(j) /\ map'[j] = map[j]
                         /\ req'[j] = req[j]
    BY <1>5 DEF callVars, Sess
  <2> QED
    BY <1>3, <1>4, <2>1, Untouched
<1>6. ASSUME NEW i \in Calls, NEW label,
             /\ pc' = [pc EXCEPT ![i] = label] /\ pc[i] \notin ActivePc /\ label # "save"
             /\ \A j \in Calls \ {i} : req'[j] = req[j] /\ map'[j] = map[j]
      PROVE  CurrentFor(s)'
  BY <1>3, <1>4, <1>6, CallStep, Untouched
<1> QED
  BY <1>1, <1>5, <1>6

(* What a Storage changes that ends: its own call, and those under way for *)
(* the same session, which are late from then on.                          *)
LEMMA StorageEndsStep ==
  ASSUME TypeOK, NEW i \in Calls, StorageEnds(i)
  PROVE  /\ UNCHANGED <<user, settings, req>> /\ pc'[i] = "reply"
         /\ \A j \in Calls : Sess(j)' = Sess(j)
         /\ \A j \in Calls \ {i} : map'[j] = map[j]
         /\ \A j \in Calls : Sess(j) # Sess(i) => pc'[j] = pc[j]
         /\ \A j \in Calls \ {i} : pc'[j] = pc[j] \/ (pc[j] = "save" /\ pc'[j] = "late")
         /\ \A j \in Calls : Sess(j) = Sess(i) => pc'[j] # "save"
BY DEF TypeOK, StorageEnds, Sess, gateVars

(* A handler of another session.                                           *)
LEMMA OtherStep ==
  ASSUME TypeOK, ReqInv, NEW i \in Calls, Handler(i),
         NEW s \in Sessions, CurrentFor(s), Sess(i) # s
  PROVE  CurrentFor(s)'
<1> USE SessionAssumption, SessType
<1>1. user'[s] = user[s] /\ settings'[s] = settings[s] /\ amiss'[s] = amiss[s]
  BY DEF TypeOK, Handler, LoadNone, Load, SetUserID, SetLocalKV, RemoveLocalKV, CheckUser,
         QueryFound, QueryNone, ImportSettings, Snapshot, Unbound, Stored, NotStored,
         StorageEnds, Reply, gateVars, storageVars
<1>2. ASSUME user[s] # NoUser, Kept(s) PROVE Kept(s)'
  <2>1. CASE Stored(i)
    <3>1. user[s] \in Users /\ req[i].user \in Users /\ Sess(i) # NoSession
      BY <1>2, <2>1 DEF TypeOK, ReqInv, Stored
    <3>2. CASE user[s] = req[i].user
      <4>1. by'[user[s]] = Sess(i)
        BY <2>1, <3>1, <3>2 DEF TypeOK, Stored
      <4> QED
        BY <1>1, <3>1, <4>1 DEF Kept
    <3>3. CASE user[s] # req[i].user
      <4>1. by'[user[s]] = by[user[s]] /\ stored'[user[s]] = stored[user[s]]
        BY <2>1, <3>1, <3>3 DEF TypeOK, Stored
      <4> QED
        BY <1>1, <1>2, <4>1 DEF Kept
    <3> QED
      BY <3>2, <3>3
  <2>2. CASE ~Stored(i)
    <3>1. UNCHANGED <<stored, by>>
      BY <2>2 DEF Handler, LoadNone, Load, SetUserID, SetLocalKV, RemoveLocalKV, CheckUser,
         QueryFound, QueryNone, ImportSettings, Snapshot, Unbound, NotStored, Reply,
         storageVars
    <3> QED
      BY <1>1, <1>2, <3>1 DEF Kept
  <2> QED
    BY <2>1, <2>2
<1>3. CASE Stored(i) \/ NotStored(i)
  <2>1. StorageEnds(i)
    BY <1>3 DEF Stored, NotStored
  <2>2. \A j \in Calls : Sess(j) = s =>
          pc'[j] = pc[j] /\ map'[j] = map[j] /\ req'[j] = req[j]
    BY <2>1, StorageEndsStep
  <2>3. \A j \in Calls : Sess(j)' = Sess(j)
    BY <2>1, StorageEndsStep
  <2> QED
    BY <1>1, <1>2, <2>2, <2>3, Untouched
<1>4. CASE ~(Stored(i) \/ NotStored(i))
  <2>1. PICK label : /\ pc' = [pc EXCEPT ![i] = label]
                     /\ label # "save" \/ Sess(i)' # s
    <3>1. CASE LoadNone(i) \/ Reply(i)
      BY <3>1 DEF LoadNone, Reply, Answer, Over, To
    <3>2. CASE SetLocalKV(i)
      <4>1. pc' = [pc EXCEPT ![i] = pc[i]] /\ pc[i] # "save"
        BY <3>2 DEF TypeOK, SetLocalKV
      <4> QED
        BY <4>1, Zenon
    <3>3. CASE Snapshot(i)
      <4>1. req'[i].from = req[i].from
        BY <3>3 DEF TypeOK, ReqType, Snapshot
      <4>2. Sess(i)' # s
        BY <4>1 DEF Sess
      <4> QED
        BY <3>3, <4>2 DEF Snapshot, To
    <3>4. CASE Load(i)
      <4>1. /\ pc' = [pc EXCEPT ![i] = pc'[i]]
            /\ pc'[i] = "reply" \/ pc'[i] = "user" \/ pc'[i] = "write"
        BY <3>4 DEF TypeOK, Load, To
      <4>2. pc'[i] # "save"
        BY <4>1
      <4> QED
        BY <4>1, <4>2, Zenon
    <3>5. CASE SetUserID(i) \/ RemoveLocalKV(i) \/ CheckUser(i) \/ QueryFound(i)
               \/ QueryNone(i) \/ ImportSettings(i) \/ Unbound(i)
      BY <3>5 DEF SetUserID, RemoveLocalKV, CheckUser, QueryFound, QueryNone,
         ImportSettings, Unbound, To
    <3> QED
      BY <1>4, <3>1, <3>2, <3>3, <3>4, <3>5 DEF Handler
  <2>2. \A j \in Calls \ {i} : req'[j] = req[j] /\ map'[j] = map[j]
    <3>1. CASE LoadNone(i) \/ Reply(i)
      BY <3>1 DEF TypeOK, LoadNone, Reply, Answer, Over
    <3>2. CASE SetLocalKV(i)
      BY <3>2 DEF TypeOK, SetLocalKV
    <3>3. CASE Snapshot(i)
      BY <3>3 DEF TypeOK, Snapshot
    <3>4. CASE \/ Load(i) \/ SetUserID(i) \/ RemoveLocalKV(i) \/ CheckUser(i)
               \/ QueryFound(i) \/ QueryNone(i) \/ ImportSettings(i) \/ Unbound(i)
      BY <3>4 DEF TypeOK, Load, SetUserID, RemoveLocalKV, CheckUser, QueryFound, QueryNone,
         ImportSettings, Unbound
    <3> QED
      BY <1>4, <3>1, <3>2, <3>3, <3>4 DEF Handler
  <2> QED
    BY <1>1, <1>2, <2>1, <2>2, CallStep, Untouched
<1> QED
  BY <1>3, <1>4

(* A handler of the session itself: it has yet to come to Storage, it      *)
(* finds or leaves the session without a user, it takes a snapshot, it     *)
(* ends a Storage, or it was not at work and touches nothing.              *)
LEMMA OwnStep ==
  ASSUME TypeOK, ReqInv, NEW i \in Calls, Handler(i),
         NEW s \in Sessions, s = Sess(i), CurrentFor(s)
  PROVE  CurrentFor(s)'
<1> USE SessionAssumption
<1>1. ASSUME NEW label \in DirtyPc, pc' = [pc EXCEPT ![i] = label], UNCHANGED req
      PROVE  CurrentFor(s)'
  <2>1. Dirty(s)'
    BY <1>1 DEF TypeOK, Dirty, Sess
  <2> QED
    BY <2>1 DEF CurrentFor
<1>2. CASE LoadNone(i) \/ Load(i) \/ Reply(i)
  <2>1. pc[i] \notin ActivePc /\ UNCHANGED <<user, settings, storageVars>>
    BY <1>2 DEF LoadNone, Load, Reply, gateVars, ActivePc
  <2>2. PICK label : pc' = [pc EXCEPT ![i] = label] /\ label # "save"
    BY <1>2 DEF LoadNone, Load, Reply, Answer, Over, To
  <2>3. \A j \in Calls \ {i} : req'[j] = req[j] /\ map'[j] = map[j]
    BY <1>2 DEF TypeOK, LoadNone, Load, Reply, Answer, Over
  <2>4. /\ user'[s] = user[s] /\ settings'[s] = settings[s] /\ amiss'[s] = amiss[s]
        /\ Kept(s) => Kept(s)'
    BY <2>1 DEF storageVars, Kept
  <2> QED
    BY <2>1, <2>2, <2>3, <2>4, CallStep, Untouched
<1>4. CASE SetUserID(i)
  <2>1. CASE req[i].op = "Bind"
    BY <1>1, <1>4, <2>1 DEF SetUserID, To, DirtyPc
  <2>2. CASE req[i].op # "Bind"
    <3>1. user'[s] = NoUser
      BY <1>4, <2>2 DEF TypeOK, ReqInv, SetUserID
    <3> QED
      BY <3>1 DEF CurrentFor
  <2> QED
    BY <2>1, <2>2
<1>5. CASE SetLocalKV(i)
  <2>1. pc' = [pc EXCEPT ![i] = "write"]
    BY <1>5 DEF TypeOK, SetLocalKV
  <2> QED
    BY <1>1, <1>5, <2>1 DEF SetLocalKV, DirtyPc
<1>6. CASE RemoveLocalKV(i) \/ QueryFound(i) \/ QueryNone(i) \/ ImportSettings(i)
  BY <1>1, <1>6 DEF RemoveLocalKV, QueryFound, QueryNone, ImportSettings, To, DirtyPc
<1>7. CASE CheckUser(i)
  <2>1. CASE user[s] = NoUser
    BY <1>7, <2>1 DEF CheckUser, CurrentFor, gateVars
  <2>2. CASE user[s] # NoUser
    BY <1>1, <1>7, <2>2 DEF CheckUser, To, DirtyPc
  <2> QED
    BY <2>1, <2>2
<1>8. CASE Snapshot(i)
  <2>1. /\ pc'[i] = "save" /\ map'[i] = settings[s] /\ UNCHANGED <<user, settings>>
        /\ req'[i].from = req[i].from /\ req'[i].user = user[s]
    BY <1>8 DEF TypeOK, ReqType, Snapshot, To, gateVars
  <2>2. Carries(i, s)'
    BY <2>1 DEF Carries, Sess
  <2> QED
    BY <2>2 DEF CurrentFor
<1>9. CASE Unbound(i)
  BY <1>9 DEF Unbound, CurrentFor, gateVars
<1>10. CASE Stored(i) \/ NotStored(i)
  <2> SUFFICES ASSUME user'[s] # NoUser, ~Dirty(s)'
               PROVE  \/ \E j \in Calls : Carries(j, s)'
                      \/ NoneSince(s)' /\ (amiss'[s] \/ Kept(s)')
    BY DEF CurrentFor
  <2>1. StorageEnds(i) /\ pc[i] \in {"save", "late"}
    BY <1>10 DEF Stored, NotStored
  <2>2. user[s] # NoUser /\ UNCHANGED <<user, settings>>
    BY <2>1, StorageEndsStep
  <2>3. ~Dirty(s)
    BY <2>1, StorageEndsStep DEF Dirty, DirtyPc
  <2>4. NoneSince(s)'
    BY <2>1, StorageEndsStep DEF NoneSince
  <2>5. ASSUME NEW j \in Calls \ {i}, Carries(j, s) PROVE Carries(j, s)'
    BY <2>1, <2>5, StorageEndsStep DEF Carries
  <2>6. CASE pc[i] = "late" \/ NotStored(i)
    <3>1. amiss'[s] = TRUE
      BY <1>10, <2>6 DEF TypeOK, Stored, NotStored
    <3> QED
      BY <2>4, <3>1
  <2>7. CASE Carries(i, s) /\ Stored(i)
    <3>1. user[s] \in Users /\ req[i].user = user[s] /\ map[i] = settings[s]
      BY <2>2, <2>7 DEF TypeOK, Carries
    <3>2. by'[user[s]] = s /\ stored'[user[s]] = settings[s]
      BY <2>7, <3>1 DEF TypeOK, Stored
    <3>3. Kept(s)'
      BY <2>2, <3>2 DEF Kept
    <3> QED
      BY <2>4, <3>3
  <2>8. pc[i] = "save" => ~NoneSince(s)
    BY DEF NoneSince
  <2> QED
    BY <1>10, <2>1, <2>2, <2>3, <2>5, <2>6, <2>7, <2>8 DEF CurrentFor
<1> QED
  BY <1>2, <1>4, <1>5, <1>6, <1>7, <1>8, <1>9, <1>10 DEF Handler

(* The inductive step of CurrentFor, session by session.                   *)
LEMMA CurrentStep ==
  TypeOK /\ ReqInv /\ CurrentInv /\ [Next]_vars => CurrentInv'
<1> SUFFICES ASSUME TypeOK, ReqInv, CurrentInv, [Next]_vars, NEW s \in Sessions
             PROVE  CurrentFor(s)'
  BY DEF CurrentInv
<1>1. CurrentFor(s)
  BY DEF CurrentInv
<1>2. ASSUME NEW i \in Calls, Handler(i) PROVE CurrentFor(s)'
  BY <1>1, <1>2, OtherStep, OwnStep
<1>3. CASE UNCHANGED vars
  BY <1>1, <1>3 DEF vars, gateVars, storageVars, callVars, CurrentFor, Dirty, Sess,
     Carries, NoneSince, Kept
<1> QED
  BY <1>1, <1>2, <1>3, OutsideStep DEF Next

(* When no handler is at work, no Storage is under way: what CurrentFor    *)
(* says of a session is what StorageCurrent says of it.                    *)
LEMMA CurrentStored == CurrentInv => StorageCurrent
<1> SUFFICES ASSUME CurrentInv, NEW s \in Sessions,
                    user[s] # NoUser, ~Active(s), ~amiss[s]
             PROVE  Kept(s)
  BY DEF StorageCurrent, Kept
<1>1. ~Dirty(s)
  BY DEF Active, ActivePc, Dirty, DirtyPc
<1>2. \A i \in Calls : ~Carries(i, s)
  BY DEF Active, ActivePc, Carries
<1> QED
  BY <1>1, <1>2 DEF CurrentInv, CurrentFor

(* StorageCurrent for every number of sessions, copies and calls: whatever *)
(* the order in which the handlers of Bind, UnBind, Set, Push and Remove   *)
(* ran and read the session for Storage, a bound session nobody works on   *)
(* is stored as it is, unless the last Storage failed or overlapped with   *)
(* another, or another session of the user stored after it.                *)
THEOREM StorageKept == Spec => []StorageCurrent
<1>1. Init => CurrentInv
  BY DEF Init, CurrentInv, CurrentFor
<1> QED
  BY <1>1, InitType, TypeStep, CurrentStep, CurrentStored, PTL DEF Spec

=============================================================================
