-------------------------- MODULE DiscoveryProofs --------------------------
(***************************************************************************)
(* The sessions of the application (serverList of app/app.go) for any      *)
(* number of nodes, lookups, sessions and watchers: no lookup that starts  *)
(* after Watcher closed a session finds it (SessionInv). And the types of  *)
(* the watchers and the selector, whose results point into a heap (Types). *)
(***************************************************************************)
EXTENDS Discovery, FiniteSetTheorems, TLAPS

(* What the property speaks of.                                            *)
sessionVars == <<upc, unode, serverList, sess, gpc, gnode, gsess>>

(* A goroutine between NewServerSession and Store.                         *)
Storing(g) == gpc[g] = "store"

(* A session is held by one goroutine that is about to store it, or listed *)
(* for one node, or forgotten; only a session Watcher is removing is       *)
(* closed, and only its node may still list it.                            *)
SessionInv ==
    /\ upc = "remove" => unode \in Nodes
    /\ \A g \in Getters : Storing(g) =>
          gnode[g] \in Nodes /\ gsess[g] \in Sessions /\ sess[gsess[g]] = "open"
    /\ \A g, h \in Getters : Storing(g) /\ Storing(h) /\ g # h => gsess[g] # gsess[h]
    /\ \A g \in Getters, n \in Nodes : Storing(g) => serverList[n] # gsess[g]
    /\ \A n, k \in Nodes : n # k /\ serverList[n] # NoSession
                             => serverList[n] # serverList[k]
    /\ \A s \in Sessions : sess[s] = "done" =>
          upc = "remove" /\ \A n \in Nodes : serverList[n] = s => n = unode
    /\ \A n \in Nodes : serverList[n] # NoSession => sess[serverList[n]] # "free"

IndInv == SessionTypeOK /\ SessionInv

-----------------------------------------------------------------------------
(* Steps that do not concern the sessions.                                 *)
LEMMA OtherStep == IndInv /\ UNCHANGED sessionVars => IndInv'
  BY DEF IndInv, SessionTypeOK, SessionInv, sessionVars, Storing

(* An update begins or ends: no session is being removed on either side.   *)
LEMMA UpdateStep ==
    ASSUME IndInv, upc # "remove", upc' \in {"idle", "call"},
           UNCHANGED <<unode, serverList, sess, gpc, gnode, gsess>>
    PROVE  IndInv'
  BY DEF IndInv, SessionTypeOK, SessionInv, Storing

(* A goroutine moves on without a session of its own.                      *)
LEMMA MoveStep ==
    ASSUME NEW g \in Getters, IndInv, gpc[g] # "store",
           NEW to \in {"idle", "load"}, gpc' = [gpc EXCEPT ![g] = to],
           gnode' \in {gnode, [gnode EXCEPT ![g] = NoNode]},
           gsess' \in {gsess, [gsess EXCEPT ![g] = NoSession]},
           UNCHANGED <<upc, unode, serverList, sess>>
    PROVE  IndInv'
  BY DEF IndInv, SessionTypeOK, SessionInv, Storing

-----------------------------------------------------------------------------
(* NewServerSession: the new session was neither held nor listed.          *)
LEMMA LoadMissStep ==
    ASSUME NEW g \in Getters, NEW n \in Nodes, IndInv, LoadMiss(g, n)
    PROVE  IndInv'
<1> DEFINE s == CHOOSE t \in Sessions : sess[t] = "free"
<1>1. s \in Sessions /\ sess[s] = "free"
  BY DEF LoadMiss
<1>2. /\ sess' = [sess EXCEPT ![s] = "open"] /\ gpc' = [gpc EXCEPT ![g] = "store"]
      /\ gnode' = [gnode EXCEPT ![g] = n] /\ gsess' = [gsess EXCEPT ![g] = s]
      /\ UNCHANGED <<upc, unode, serverList>> /\ gpc[g] = "load"
  BY DEF LoadMiss, cacheVars, updVars
<1> HIDE DEF s
<1>3. \A k \in Nodes : serverList[k] # s
  BY <1>1, DiscoveryAssumption DEF IndInv, SessionInv, SessionTypeOK
<1>4. \A h \in Getters : Storing(h) => gsess[h] # s
  BY <1>1 DEF IndInv, SessionInv
<1> QED
  BY <1>1, <1>2, <1>3, <1>4 DEF IndInv, SessionInv, SessionTypeOK, Storing

(* Store: the session of g takes the place of whatever the node had.       *)
LEMMA StoreStep ==
    ASSUME NEW g \in Getters, IndInv, Store(g)
    PROVE  IndInv'
<1>1. PICK to \in {"idle", "load"} : gpc' = [gpc EXCEPT ![g] = to]
  BY DEF Store, Finish
<1>2. /\ gpc[g] = "store" /\ serverList' = [serverList EXCEPT ![gnode[g]] = gsess[g]]
      /\ gnode' = [gnode EXCEPT ![g] = NoNode]
      /\ gsess' = [gsess EXCEPT ![g] = NoSession]
      /\ UNCHANGED <<upc, unode, sess>>
  BY DEF Store, Finish, cacheVars, updVars
<1>3. gnode[g] \in Nodes /\ gsess[g] \in Sessions /\ sess[gsess[g]] = "open"
  BY <1>2 DEF IndInv, SessionInv, Storing
<1>4. SessionTypeOK'
  BY <1>1, <1>2, <1>3 DEF IndInv, SessionTypeOK
<1>5. \A h \in Getters : Storing(h)' => Storing(h) /\ h # g /\ gsess'[h] = gsess[h]
                                        /\ gnode'[h] = gnode[h]
  BY <1>1, <1>2 DEF IndInv, SessionTypeOK, Storing
<1>6. \A k \in Nodes : serverList'[k] = IF k = gnode[g] THEN gsess[g] ELSE serverList[k]
  BY <1>2, <1>3 DEF IndInv, SessionTypeOK
<1> QED
  BY <1>2, <1>3, <1>4, <1>5, <1>6 DEF IndInv, SessionInv, Storing

-----------------------------------------------------------------------------
(* app.Watcher closes the session its node lists ...                       *)
LEMMA WatcherDoneStep ==
    ASSUME NEW n \in Nodes, IndInv, WatcherDone(n)
    PROVE  IndInv'
<1>1. CASE serverList[n] = NoSession
  BY <1>1, OtherStep DEF WatcherDone, callVars, sessionVars
<1>2. CASE serverList[n] # NoSession
  <2>1. /\ upc = "call" /\ upc' = "remove" /\ unode' = n
        /\ sess' = [sess EXCEPT ![serverList[n]] = "done"]
        /\ UNCHANGED <<serverList, gpc, gnode, gsess>>
    BY <1>2 DEF WatcherDone, callVars
  <2>2. serverList[n] \in Sessions
    BY <1>2 DEF IndInv, SessionTypeOK
  <2> QED
    BY <1>2, <2>1, <2>2 DEF IndInv, SessionInv, SessionTypeOK, Storing
<1> QED
  BY <1>1, <1>2

(* ... and takes it, or one that was stored since, off the list.           *)
LEMMA WatcherDeleteStep == IndInv /\ WatcherDelete => IndInv'
<1> SUFFICES ASSUME IndInv, WatcherDelete PROVE IndInv'
  OBVIOUS
<1>1. /\ upc = "remove" /\ upc' = "call" /\ unode' = NoNode
      /\ serverList' = [serverList EXCEPT ![unode] = NoSession]
      /\ sess' = [s \in Sessions |-> IF sess[s] = "done" THEN "free" ELSE sess[s]]
      /\ UNCHANGED <<gpc, gnode, gsess>>
  BY DEF WatcherDelete, callVars
<1>2. unode \in Nodes
  BY <1>1 DEF IndInv, SessionInv
<1>3. \A k \in Nodes : serverList'[k] = IF k = unode THEN NoSession ELSE serverList[k]
  BY <1>1, <1>2 DEF IndInv, SessionTypeOK
<1>4. SessionTypeOK'
  BY <1>1, <1>2 DEF IndInv, SessionTypeOK
<1>5. \A k \in Nodes : serverList'[k] # NoSession => sess'[serverList'[k]] # "free"
  BY <1>1, <1>3 DEF IndInv, SessionTypeOK, SessionInv
<1> QED
  BY <1>1, <1>2, <1>3, <1>4, <1>5, DiscoveryAssumption
     DEF IndInv, SessionInv, SessionTypeOK, Storing

-----------------------------------------------------------------------------
(* The invariant of the sessions holds at the start.                       *)
THEOREM Initially == Init => IndInv
  BY DiscoveryAssumption DEF Init, IndInv, SessionTypeOK, SessionInv, Storing

(* Every step of the selector, its watchers and the lookups.               *)
THEOREM Inductive == IndInv /\ [Next]_vars => IndInv'
<1> SUFFICES ASSUME IndInv, [Next]_vars PROVE IndInv'
  OBVIOUS
<1>1. CASE Agent
  BY <1>1, OtherStep DEF Agent, cacheVars, updVars, appVars, sessionVars
<1>2. ASSUME NEW w \in Watchers, Plan(w) PROVE IndInv'
  BY <1>2, OtherStep DEF Plan, cacheVars, updVars, appVars, sessionVars
<1>3. ASSUME NEW g \in Getters, NEW f \in BOOLEAN, Lookup(g, f) PROVE IndInv'
  <2>1. PICK T : gpc' = [gpc EXCEPT ![g] = IF T = {} THEN "idle" ELSE "load"]
    BY <1>3 DEF Lookup
  <2>2. PICK to \in {"idle", "load"} : gpc' = [gpc EXCEPT ![g] = to]
    BY <2>1
  <2>3. gpc[g] = "idle" /\ UNCHANGED <<upc, unode, serverList, sess, gnode, gsess>>
    BY <1>3 DEF Lookup, updVars
  <2> QED
    BY <2>2, <2>3, MoveStep
<1>4. ASSUME NEW g \in Getters, Load(g) PROVE IndInv'
  <2>1. PICK n \in Nodes : LoadHit(g, n) \/ LoadMiss(g, n)
    BY <1>4 DEF Load
  <2>2. CASE LoadHit(g, n)
    <3>1. PICK to \in {"idle", "load"} : gpc' = [gpc EXCEPT ![g] = to]
      BY <2>2 DEF LoadHit, Finish
    <3>2. /\ gpc[g] = "load" /\ gnode' = [gnode EXCEPT ![g] = NoNode]
          /\ gsess' = [gsess EXCEPT ![g] = NoSession]
          /\ UNCHANGED <<upc, unode, serverList, sess>>
      BY <2>2 DEF LoadHit, Finish, cacheVars, updVars
    <3> QED
      BY <3>1, <3>2, MoveStep
  <2> QED
    BY <2>1, <2>2, LoadMissStep
<1>5. ASSUME NEW g \in Getters, Store(g) PROVE IndInv'
  BY <1>5, StoreStep
<1>6. ASSUME NEW w \in Watchers, Update(w) PROVE IndInv'
  <2>1. upc = "idle" /\ UNCHANGED <<serverList, sess, gpc, gnode, gsess>>
    BY <1>6 DEF Update, appVars
  <2>2. upc' \in {"idle", "call"} /\ UNCHANGED unode
    BY <1>6, <2>1 DEF Update, UpdateIgnored, UpdateDropService, UpdateMerge, UpdateDelete,
                      updVars
  <2> QED
    BY <2>1, <2>2, UpdateStep
<1>7. ASSUME NEW w \in Watchers, RunWatch(w) PROVE IndInv'
  BY <1>7, OtherStep DEF RunWatch, updVars, appVars, sessionVars
<1>8. CASE Callback
  <2>1. CASE UpdateEnd
    BY <2>1, UpdateStep DEF UpdateEnd, appVars
  <2> QED
    BY <1>8, <2>1, WatcherDoneStep, WatcherDeleteStep DEF Callback
<1>9. CASE RunExit \/ NextError \/ StopWatcher \/ Reload \/ Close \/ Expire
  BY <1>9, OtherStep DEF RunExit, NextError, StopWatcher, Reload, Close, Expire, updVars,
                         appVars, sessionVars
<1>10. CASE UNCHANGED vars
  BY <1>10, OtherStep DEF vars, cacheVars, updVars, appVars, sessionVars
<1> QED
  BY <1>1, <1>2, <1>3, <1>4, <1>5, <1>6, <1>7, <1>8, <1>9, <1>10 DEF Next, Loop

(* app.Watcher never leaves a closed session behind in serverList, however *)
(* many lookups run, and however they overlap with it and with each other. *)
THEOREM NeverFindsClosed == Spec => []ClosedOnlyWhileRemoved
<1>1. IndInv => ClosedOnlyWhileRemoved
  BY DEF IndInv, SessionTypeOK, SessionInv, ClosedOnlyWhileRemoved
<1> QED
  BY Initially, Inductive, <1>1, PTL DEF Spec

-----------------------------------------------------------------------------
(* The types of the watchers and the selector. TypeOK says of the records  *)
(* what the code relies on; to be kept by every step it needs the whole of *)
(* them, with what is on its way in out and next.                          *)

Results == [action : {"create", "update", "delete"}, svc : Objs \cup {NoObj}]
Snapshots == {NoSnapshot} \cup [Nodes -> Statuses]
WatcherType == [exit : BOOLEAN, services : Services, watching : BOOLEAN,
                next : Seq(Results)]
ServicesPlanType == [pc : {"none", "idle", "handle", "send"},
                     seen : {"never", "yes", "no"}, out : Seq(Results)]
ServicePlanType == [pc : {"none", "idle", "fetched", "diff"}, stopped : BOOLEAN,
                    snap : Snapshots, old : Services, new : Services,
                    todo : SUBSET Versions, out : Seq(Results)]
LoopType == [pc : {"none", "new", "watch", "ended"}, w : Watchers \cup {NoWatcher}]
UpdateRecord == [version : Versions, dead : SUBSET Nodes, kept : SUBSET Nodes]
CacheType == [has : BOOLEAN, svcs : Services]
Heap == [Objs -> [version : Versions, nodes : SUBSET Nodes]]

(* The watchers. A goroutine of the "services" plan that is to send has    *)
(* something to send, and next never holds more than its capacity.         *)
WatcherTypes ==
    /\ agent \in [Nodes -> Statuses] /\ changes \in 0..MaxChanges
    /\ obj \in Heap
    /\ cw \in [Watchers -> WatcherType]
    /\ svcs \in [Watchers -> ServicesPlanType]
    /\ srv \in [Watchers -> ServicePlanType]
    /\ \A w \in Watchers : /\ Len(cw[w].next) <= Cap
                           /\ svcs[w].pc = "send" => svcs[w].out # <<>>

USE DEF LoopType, UpdateRecord, CacheType

(* A watcher that knows no service has an empty map.                       *)
LEMMA Empty == NoServices \in Services
BY DEF NoServices, Services

(* What is a map from versions to Service objects ...                      *)
LEMMA ServicesMember ==
  ASSUME NEW V \in SUBSET Versions, NEW f \in [V -> Objs]
  PROVE  f \in Services
BY DEF Services

(* ... and what one looks up in it.                                        *)
LEMMA ServicesApply ==
  ASSUME NEW s \in Services
  PROVE  /\ DOMAIN s \subseteq Versions /\ s \in [DOMAIN s -> Objs]
         /\ Held(s) \subseteq Objs
BY DEF Services, Held

(* A version is added or replaced, or versions are left out.               *)
LEMMA ServicesUpdate ==
  ASSUME NEW s \in Services, NEW v \in Versions, NEW o \in Objs
  PROVE  /\ [u \in DOMAIN s \cup {v} |-> IF u = v THEN o ELSE s[u]] \in Services
         /\ \A V \in SUBSET DOMAIN s : [u \in V |-> s[u]] \in Services
<1>1. DOMAIN s \cup {v} \subseteq Versions /\ DOMAIN s \subseteq Versions
  BY ServicesApply
<1>2. [u \in DOMAIN s \cup {v} |-> IF u = v THEN o ELSE s[u]]
        \in [DOMAIN s \cup {v} -> Objs]
  BY ServicesApply
<1>3. \A V \in SUBSET DOMAIN s : [u \in V |-> s[u]] \in [V -> Objs]
  BY ServicesApply
<1> QED
  BY <1>1, <1>2, <1>3, ServicesMember

(* The Services of a list of entries are of known versions and nodes.      *)
LEMMA SnapshotVersions ==
  ASSUME NEW a \in Snapshots
  PROVE  VersionsIn(a) \subseteq Versions /\ \A v : NodesIn(a, v) \subseteq Nodes
BY WatcherAssumption DEF Snapshots, NoSnapshot, VersionsIn, NodesIn

(* The results that are sent.                                              *)
LEMMA ResultType ==
  ASSUME NEW o \in Objs \cup {NoObj}
  PROVE  /\ Result("create", o) \in Results /\ Result("update", o) \in Results
         /\ Result("delete", o) \in Results
BY DEF Result, Results

(* What a plan starts from.                                                *)
LEMMA NoPlanType == NoServicePlan \in ServicePlanType
<1>1. NoSnapshot \in Snapshots /\ {} \in SUBSET Versions /\ <<>> \in Seq(Results)
  BY DEF Snapshots
<1> QED
  BY <1>1, Empty DEF NoServicePlan, ServicePlanType

(* One watcher changes.                                                    *)
LEMMA ChangeWatcher ==
  ASSUME cw \in [Watchers -> WatcherType], \A u \in Watchers : Len(cw[u].next) <= Cap,
         NEW w \in Watchers, NEW c \in WatcherType, Len(c.next) <= Cap,
         cw' = [cw EXCEPT ![w] = c]
  PROVE  /\ cw' \in [Watchers -> WatcherType]
         /\ \A u \in Watchers : Len(cw'[u].next) <= Cap
<1>1. cw' \in [Watchers -> WatcherType]
  OBVIOUS
<1>2. \A u \in Watchers : cw'[u] = IF u = w THEN c ELSE cw[u]
  OBVIOUS
<1> QED
  BY <1>1, <1>2

(* A result is put on next while there is room.                            *)
LEMMA PutResult ==
  ASSUME cw \in [Watchers -> WatcherType], \A u \in Watchers : Len(cw[u].next) <= Cap,
         NEW w \in Watchers, NEW r \in Results, Len(cw[w].next) < Cap,
         cw' = [cw EXCEPT ![w].next = Append(@, r)]
  PROVE  /\ cw' \in [Watchers -> WatcherType]
         /\ \A u \in Watchers : Len(cw'[u].next) <= Cap
<1>1. cw[w] \in WatcherType /\ cw[w].next \in Seq(Results)
  BY DEF WatcherType
<1>2. Append(cw[w].next, r) \in Seq(Results) /\ Len(Append(cw[w].next, r)) <= Cap
  BY <1>1, WatcherAssumption
<1>3. cw' = [cw EXCEPT ![w] = [cw[w] EXCEPT !.next = Append(cw[w].next, r)]]
  OBVIOUS
<1>4. [cw[w] EXCEPT !.next = Append(cw[w].next, r)] \in WatcherType
      /\ [cw[w] EXCEPT !.next = Append(cw[w].next, r)].next = Append(cw[w].next, r)
  BY <1>1, <1>2 DEF WatcherType
<1> QED
  BY <1>2, <1>3, <1>4, ChangeWatcher

(* The "services" plan.                                                    *)
LEMMA HandleKept ==
  ASSUME WatcherTypes, NEW w \in Watchers,
         \/ Watch(w) \/ HandleFetch(w) \/ HandleAdd(w) \/ HandleRemove(w)
         \/ HandleNothing(w) \/ HandleSend(w)
  PROVE  WatcherTypes'
<1>1. CASE Watch(w)
  BY <1>1 DEF WatcherTypes, Watch, ServicesPlanType, NewServicesPlan
<1>2. CASE HandleFetch(w)
  BY <1>2 DEF WatcherTypes, HandleFetch, ServicesPlanType
<1>3. CASE HandleAdd(w)
  <2> DEFINE q == <<Result("create", NoObj)>>
  <2>1. q \in Seq(Results) /\ q # <<>>
    BY ResultType
  <2>2. /\ svcs' \in [Watchers -> ServicesPlanType]
        /\ \A u \in Watchers : svcs'[u].pc = "send" => svcs'[u].out # <<>>
    <3>1. svcs' = [svcs EXCEPT ![w].pc = "send", ![w].out = q]
      BY <1>3 DEF HandleAdd
    <3> HIDE DEF q
    <3> QED
      BY <2>1, <3>1 DEF WatcherTypes, ServicesPlanType
  <2>3. [NoServicePlan EXCEPT !.pc = "idle"] \in ServicePlanType
    BY NoPlanType DEF ServicePlanType
  <2>4. srv' \in [Watchers -> ServicePlanType]
    BY <1>3, <2>3 DEF WatcherTypes, HandleAdd
  <2>5. /\ cw' \in [Watchers -> WatcherType]
        /\ \A u \in Watchers : Len(cw'[u].next) <= Cap
    BY <1>3 DEF WatcherTypes, HandleAdd, WatcherType
  <2> QED
    BY <1>3, <2>2, <2>4, <2>5 DEF WatcherTypes, HandleAdd
<1>4. CASE HandleRemove(w)
  <2> DEFINE q == <<Result("delete", NoObj)>>
  <2>1. q \in Seq(Results) /\ q # <<>>
    BY ResultType
  <2>2. /\ svcs' \in [Watchers -> ServicesPlanType]
        /\ \A u \in Watchers : svcs'[u].pc = "send" => svcs'[u].out # <<>>
    <3>1. svcs' = [svcs EXCEPT ![w].pc = "send", ![w].out = q]
      BY <1>4 DEF HandleRemove
    <3> HIDE DEF q
    <3> QED
      BY <2>1, <3>1 DEF WatcherTypes, ServicesPlanType
  <2>4. srv' \in [Watchers -> ServicePlanType]
    BY <1>4 DEF WatcherTypes, HandleRemove, ServicePlanType
  <2>5. /\ cw' \in [Watchers -> WatcherType]
        /\ \A u \in Watchers : Len(cw'[u].next) <= Cap
    BY <1>4, Empty DEF WatcherTypes, HandleRemove, WatcherType
  <2> QED
    BY <1>4, <2>2, <2>4, <2>5 DEF WatcherTypes, HandleRemove
<1>5. CASE HandleNothing(w)
  BY <1>5, Empty DEF WatcherTypes, HandleNothing, WatcherType, ServicesPlanType
<1>6. CASE HandleSend(w)
  <2>1. Head(svcs[w].out) \in Results
    BY <1>6 DEF WatcherTypes, HandleSend, ServicesPlanType
  <2>2. /\ cw' \in [Watchers -> WatcherType]
        /\ \A u \in Watchers : Len(cw'[u].next) <= Cap
    BY <1>6, <2>1, PutResult DEF WatcherTypes, HandleSend
  <2> QED
    BY <1>6, <2>2 DEF WatcherTypes, HandleSend, ServicesPlanType
<1> QED
  BY <1>1, <1>2, <1>3, <1>4, <1>5, <1>6

(* The "service" plan, apart from the round over the versions.             *)
LEMMA ServicePlanKept ==
  ASSUME WatcherTypes, NEW w \in Watchers,
         \/ ServiceFetch(w) \/ ServicePlanEnd(w) \/ HandlerCopy(w) \/ HandlerSend(w)
         \/ HandlerDone(w) \/ \E v \in Versions : HandlerDelete(w, v)
  PROVE  WatcherTypes'
<1>0. /\ srv[w] \in ServicePlanType /\ srv[w].snap \in Snapshots
      /\ srv[w].old \in Services /\ srv[w].new \in Services
      /\ srv[w].out \in Seq(Results) /\ cw[w] \in WatcherType /\ cw[w].services \in Services
  BY DEF WatcherTypes, ServicePlanType, WatcherType
<1>1. CASE ServiceFetch(w)
  <2>1. agent \in Snapshots
    BY DEF WatcherTypes, Snapshots
  <2> QED
    BY <1>1, <2>1 DEF WatcherTypes, ServiceFetch, ServicePlanType
<1>2. CASE ServicePlanEnd(w)
  BY <1>2, NoPlanType DEF WatcherTypes, ServicePlanEnd
<1>3. CASE HandlerCopy(w)
  <2> DEFINE V == VersionsIn(srv[w].snap)
             old == IF V = {} THEN NoServices ELSE cw[w].services
  <2>1. V \in SUBSET Versions /\ old \in Services
    BY <1>0, Empty, SnapshotVersions
  <2>2. srv' = [srv EXCEPT ![w] = [srv[w] EXCEPT !.pc = "diff", !.todo = V, !.old = old]]
    BY <1>3 DEF HandlerCopy, WatcherTypes
  <2> HIDE DEF V, old
  <2>3. [srv[w] EXCEPT !.pc = "diff", !.todo = V, !.old = old] \in ServicePlanType
    BY <1>0, <2>1 DEF ServicePlanType
  <2> QED
    BY <1>3, <2>2, <2>3 DEF WatcherTypes, HandlerCopy
<1>4. CASE HandlerSend(w)
  <2>1. Head(srv[w].out) \in Results /\ Tail(srv[w].out) \in Seq(Results)
    BY <1>0, <1>4 DEF HandlerSend
  <2>2. /\ cw' \in [Watchers -> WatcherType]
        /\ \A u \in Watchers : Len(cw'[u].next) <= Cap
    BY <1>4, <2>1, PutResult DEF WatcherTypes, HandlerSend
  <2>3. srv' \in [Watchers -> ServicePlanType]
    BY <1>4, <2>1 DEF WatcherTypes, HandlerSend, ServicePlanType
  <2> QED
    BY <1>4, <2>2, <2>3 DEF WatcherTypes, HandlerSend
<1>5. CASE HandlerDone(w)
  <2>1. srv' = [srv EXCEPT ![w] = [srv[w] EXCEPT !.pc = "idle", !.old = NoServices,
                                                 !.new = NoServices]]
    BY <1>5 DEF HandlerDone, WatcherTypes
  <2>2. [srv[w] EXCEPT !.pc = "idle", !.old = NoServices, !.new = NoServices]
          \in ServicePlanType
    BY <1>0, Empty DEF ServicePlanType
  <2>3. /\ cw' \in [Watchers -> WatcherType]
        /\ \A u \in Watchers : Len(cw'[u].next) <= Cap
    BY <1>0, <1>5 DEF WatcherTypes, HandlerDone, WatcherType
  <2> QED
    BY <1>5, <2>1, <2>2, <2>3 DEF WatcherTypes, HandlerDone
<1>6. ASSUME NEW v \in Versions, HandlerDelete(w, v) PROVE WatcherTypes'
  <2> DEFINE old == [u \in DOMAIN srv[w].old \ {v} |-> srv[w].old[u]]
             out == <<Result("delete", srv[w].old[v])>>
  <2>1. v \in DOMAIN srv[w].old
    BY <1>6 DEF HandlerDelete, Vanished
  <2>2. srv[w].old[v] \in Objs
    BY <1>0, <2>1, ServicesApply
  <2>3. old \in Services
    BY <1>0, <2>2, ServicesUpdate
  <2>4. out \in Seq(Results)
    BY <2>2, ResultType
  <2>5. srv' = [srv EXCEPT ![w] = [srv[w] EXCEPT !.old = old, !.out = out]]
    BY <1>6 DEF HandlerDelete, WatcherTypes
  <2> HIDE DEF old, out
  <2>6. [srv[w] EXCEPT !.old = old, !.out = out] \in ServicePlanType
    BY <1>0, <2>3, <2>4 DEF ServicePlanType
  <2> QED
    BY <1>6, <2>5, <2>6 DEF WatcherTypes, HandlerDelete
<1> QED
  BY <1>1, <1>2, <1>3, <1>4, <1>5, <1>6

(* A round of the loop over serviceMap.                                    *)
LEMMA DiffKept ==
  ASSUME WatcherTypes, NEW w \in Watchers, NEW v \in Versions, NEW o, HandlerDiff(w, v, o)
  PROVE  WatcherTypes'
<1> DEFINE p == srv[w]
           nodes == NodesIn(p.snap, v)
           known == v \in DOMAIN p.old
           gone == IF known THEN obj[p.old[v]].nodes \ nodes ELSE {}
           born == [obj EXCEPT ![o] = [version |-> v, nodes |-> nodes]]
           new == [u \in DOMAIN p.new \cup {v} |-> IF u = v THEN o ELSE p.new[u]]
           del == IF gone = {} THEN <<>> ELSE <<Result("delete", p.old[v])>>
           add == <<Result(IF known THEN "update" ELSE "create", o)>>
           todo1 == p.todo \ {v}
<1>0. /\ p \in ServicePlanType /\ p.snap \in Snapshots /\ p.todo \in SUBSET Versions
      /\ p.old \in Services /\ p.new \in Services /\ o \in Objs
  BY DEF WatcherTypes, ServicePlanType, HandlerDiff
<1>1. nodes \in SUBSET Nodes
  BY <1>0, SnapshotVersions
<1>2. known => p.old[v] \in Objs /\ gone \in SUBSET Nodes
  BY <1>0, ServicesApply DEF WatcherTypes, Heap
<1>3. /\ obj' = IF gone = {} THEN born ELSE [born EXCEPT ![p.old[v]].nodes = gone]
      /\ srv' = [srv EXCEPT ![w] = [p EXCEPT !.todo = todo1, !.new = new,
                                             !.out = del \o add]]
      /\ UNCHANGED <<agent, changes, cw, svcs>>
  BY DEF HandlerDiff, WatcherTypes
<1>4. new \in Services
  BY <1>0, ServicesUpdate
<1>5. del \in Seq(Results)
  BY <1>2, ResultType
<1>6. add \in Seq(Results)
  BY <1>0, ResultType
<1>7. del \o add \in Seq(Results)
  BY <1>5, <1>6
<1>8. todo1 \in SUBSET Versions
  BY <1>0
<1> HIDE DEF todo1, new, del, add, nodes
<1>9. [p EXCEPT !.todo = todo1, !.new = new, !.out = del \o add] \in ServicePlanType
  BY <1>0, <1>4, <1>7, <1>8 DEF ServicePlanType
<1>10. born \in Heap
  BY <1>0, <1>1 DEF WatcherTypes, Heap
<1> HIDE DEF born
<1>11. obj' \in Heap
  BY <1>2, <1>3, <1>10 DEF Heap
<1> HIDE DEF p
<1> QED
  BY <1>3, <1>9, <1>11 DEF WatcherTypes

(* Every step of the plans of a watcher.                                   *)
LEMMA PlanKept ==
  ASSUME WatcherTypes, NEW w \in Watchers, NEW o, Watching(w, o)
  PROVE  WatcherTypes'
BY HandleKept, ServicePlanKept, DiffKept DEF Watching

(* An entry in the agent changes.                                          *)
LEMMA AgentKept ==
  ASSUME WatcherTypes, NEW n \in Nodes, AgentChange(n)
  PROVE  WatcherTypes'
BY WatcherAssumption DEF WatcherTypes, AgentChange, Statuses

(* The selector: the cached maps, the watch loop and an update in          *)
(* progress.                                                               *)
CacheTypes ==
    /\ cache \in CacheType
    /\ ~cache.has => cache.svcs = NoServices
    /\ expired \in BOOLEAN
    /\ loop \in LoopType
    /\ upd \in UpdateRecord
Types == WatcherTypes /\ CacheTypes

(* A set that is not larger than another can be numbered with its members: *)
(* the new Service objects get places of their own.                        *)
LEMMA InjectionExists ==
  ASSUME NEW S, NEW T, IsFiniteSet(S), IsFiniteSet(T), Cardinality(S) <= Cardinality(T)
  PROVE  \E f \in [S -> T] : \A u, v \in S : f[u] = f[v] => u = v
<1> DEFINE m == Cardinality(S)
           n == Cardinality(T)
<1>1. m \in Nat /\ n \in Nat /\ ExistsBijection(1..m, S) /\ ExistsBijection(1..n, T)
  BY FS_CardinalityType
<1>2. PICK f \in [1..m -> S] : \A u \in S : \E i \in 1..m : f[i] = u
  BY <1>1 DEF ExistsBijection, Bijection, Surjection
<1>3. PICK g \in [1..n -> T] : \A i, j \in 1..n : g[i] = g[j] => i = j
  BY <1>1 DEF ExistsBijection, Bijection, Injection, IsInjective
<1> DEFINE h == [u \in S |-> CHOOSE i \in 1..m : f[i] = u]
<1>4. \A u \in S : h[u] \in 1..m /\ f[h[u]] = u
  BY <1>2
<1> HIDE DEF h, m, n
<1>5. m <= n
  BY DEF m, n
<1>6. \A u \in S : h[u] \in 1..n
  BY <1>1, <1>4, <1>5
<1>7. [u \in S |-> g[h[u]]] \in [S -> T]
  BY <1>3, <1>6
<1>8. \A u, v \in S : g[h[u]] = g[h[v]] => u = v
  BY <1>3, <1>4, <1>6
<1> QED
  BY <1>7, <1>8

(* set stores copies of the Services the registry returned.                *)
LEMMA FetchKept ==
  ASSUME Types, Fetch, UNCHANGED <<agent, changes, cw, svcs, srv, upd>>, 
     loop' \in LoopType
  PROVE  Types'
<1> DEFINE V == VersionsIn(agent)
           good(f) == \A u, v \in V : f[u] = f[v] => u = v
           new == CHOOSE f \in [V -> FreeObjs] : good(f)
<1>1. V \in SUBSET Versions /\ \A v : NodesIn(agent, v) \in SUBSET Nodes
  BY SnapshotVersions DEF Types, WatcherTypes, Snapshots
<1>2. FreeObjs \in SUBSET Objs
  BY DEF FreeObjs
<1>3. IsFiniteSet(V) /\ IsFiniteSet(FreeObjs)
  BY <1>1, <1>2, WatcherAssumption, FS_Subset
<1>4. Cardinality(V) <= Cardinality(FreeObjs)
  BY DEF Fetch
<1>5. \E f \in [V -> FreeObjs] : good(f)
  BY <1>3, <1>4, InjectionExists
<1>6. new \in [V -> FreeObjs]
  BY <1>5
<1>7. /\ cache' = [has |-> TRUE, svcs |-> new] /\ expired' = FALSE
      /\ obj' = [o \in Objs |-> IF o \in Held(new)
                                THEN LET v == CHOOSE u \in V : new[u] = o
                                     IN [version |-> v, nodes |-> NodesIn(agent, v)]
                                ELSE obj[o]]
  BY DEF Fetch
<1> HIDE DEF new, V
<1>8. new \in [V -> Objs]
  BY <1>2, <1>6
<1>9. new \in Services
  BY <1>1, <1>8, ServicesMember
<1>10. \A o \in Held(new) : (CHOOSE u \in V : new[u] = o) \in Versions
  BY <1>1, <1>6 DEF Held
<1>11. obj' \in Heap
  BY <1>1, <1>7, <1>10 DEF Types, WatcherTypes, Heap
<1>12. WatcherTypes'
  BY <1>11 DEF Types, WatcherTypes
<1>13. CacheTypes'
  BY <1>7, <1>9 DEF Types, CacheTypes
<1> QED
  BY <1>12, <1>13 DEF Types

(* get serves the cached answer or fetches a new one.                      *)
LEMMA LookupKept ==
  ASSUME Types, NEW g \in Getters, NEW f \in BOOLEAN, Lookup(g, f)
  PROVE  Types'
<1>1. /\ UNCHANGED <<agent, changes, cw, svcs, srv, upd>>
      /\ (UNCHANGED <<cache, obj, expired>>) \/ Fetch
  BY DEF Lookup, Get, updVars
<1>2. loop' \in LoopType
  BY DEF Types, CacheTypes, Lookup, Get
<1>3. CASE UNCHANGED <<cache, obj, expired>>
  BY <1>1, <1>2, <1>3 DEF Types, WatcherTypes, CacheTypes
<1> QED
  BY <1>1, <1>2, <1>3, FetchKept

(* Next takes the first result off the channel.                            *)
LEMMA TakeResult ==
  ASSUME WatcherTypes, NEW w \in Watchers, NextResult(w)
  PROVE  /\ Head(cw[w].next) \in Results
         /\ cw' \in [Watchers -> WatcherType]
         /\ \A u \in Watchers : Len(cw'[u].next) <= Cap
<1>1. /\ cw \in [Watchers -> WatcherType] /\ cw[w] \in WatcherType
      /\ cw[w].next \in Seq(Results) /\ cw[w].next # <<>> /\ Len(cw[w].next) <= Cap
  BY DEF WatcherTypes, WatcherType, NextResult
<1>2. Head(cw[w].next) \in Results /\ Tail(cw[w].next) \in Seq(Results)
  BY <1>1
<1>3. Len(Tail(cw[w].next)) <= Cap
  BY <1>1, WatcherAssumption
<1> DEFINE c == [cw[w] EXCEPT !.next = Tail(cw[w].next)]
<1>4. c \in WatcherType /\ c.next = Tail(cw[w].next)
  BY <1>1, <1>2 DEF WatcherType
<1>5. cw' = [cw EXCEPT ![w] = c]
  BY <1>1 DEF NextResult
<1> HIDE DEF c
<1> QED
  BY <1>1, <1>2, <1>3, <1>4, <1>5, ChangeWatcher DEF WatcherTypes

(* create, update: the Service of the result takes the cached one's place. *)
LEMMA MergeKept ==
  ASSUME obj \in Heap, CacheTypes, NEW r \in Results, r.svc # NoObj,
         UpdateMerge(r), UNCHANGED loop
  PROVE  obj' \in Heap /\ CacheTypes'
<1> DEFINE v == obj[r.svc].version
           old == IF v \in DOMAIN cache.svcs THEN obj[cache.svcs[v]].nodes ELSE {}
           new == [u \in DOMAIN cache.svcs \cup {v} |->
                      IF u = v THEN r.svc ELSE cache.svcs[u]]
<1>1. r.svc \in Objs /\ cache.svcs \in Services
  BY DEF Results, CacheTypes
<1>2. v \in Versions
  BY <1>1 DEF Heap
<1>3. old \in SUBSET Nodes
  BY <1>1, ServicesApply DEF Heap
<1>4. new \in Services
  BY <1>1, <1>2, ServicesUpdate
<1>5. /\ cache.has /\ expired' = FALSE /\ UNCHANGED updVars
      /\ obj' = [obj EXCEPT ![r.svc].nodes = @ \cup old]
      /\ cache' = [cache EXCEPT !.svcs = new]
  BY DEF UpdateMerge
<1> HIDE DEF v, old, new
<1>6. obj' \in Heap
  BY <1>1, <1>3, <1>5 DEF Heap
<1>7. cache' \in CacheType /\ cache'.has
  BY <1>4, <1>5 DEF CacheTypes
<1> QED
  BY <1>5, <1>6, <1>7 DEF CacheTypes, updVars

(* delete: the nodes that go and the nodes that stay.                      *)
LEMMA DeleteKept ==
  ASSUME obj \in Heap, CacheTypes, NEW r \in Results, r.svc # NoObj,
         UpdateDelete(r), UNCHANGED loop
  PROVE  obj' \in Heap /\ CacheTypes'
<1> DEFINE v == obj[r.svc].version
           old == obj[cache.svcs[v]].nodes
<1>1. r.svc \in Objs /\ cache.svcs \in Services
  BY DEF Results, CacheTypes
<1>2. v \in Versions
  BY <1>1 DEF Heap
<1>3. old \in SUBSET Nodes
  BY <1>1, ServicesApply DEF Heap, UpdateDelete
<1>4. upd' \in UpdateRecord
  <2>1. upd' = [version |-> v, dead |-> old \cap NodesOf(r), kept |-> old \ NodesOf(r)]
    BY DEF UpdateDelete
  <2> HIDE DEF v, old
  <2> QED
    BY <1>2, <1>3, <2>1
<1> QED
  BY <1>4 DEF CacheTypes, UpdateDelete

(* Without a key there are no Services.                                    *)
LEMMA NoCacheType == NoCache \in CacheType /\ NoCache.svcs = NoServices
BY Empty DEF NoCache

(* update of any result.                                                   *)
LEMMA UpdateKept ==
  ASSUME Types, NEW w \in Watchers, Update(w)
  PROVE  Types'
<1> DEFINE r == Head(cw[w].next)
<1>1. /\ NextResult(w) /\ UNCHANGED <<agent, changes, svcs, srv, loop>>
      /\ \/ UpdateIgnored(r) \/ UpdateDropService(r)
         \/ r.svc # NoObj /\ (UpdateMerge(r) \/ UpdateDelete(r))
  BY DEF Update
<1>2. /\ r \in Results /\ cw' \in [Watchers -> WatcherType]
      /\ \A u \in Watchers : Len(cw'[u].next) <= Cap
  BY <1>1, TakeResult DEF Types
<1> HIDE DEF r
<1>3. obj' \in Heap /\ CacheTypes'
  <2>1. CASE UpdateIgnored(r)
    BY <1>1, <2>1 DEF UpdateIgnored, Types, WatcherTypes, CacheTypes, updVars
  <2>2. CASE UpdateDropService(r)
    BY <1>1, <2>2, NoCacheType
       DEF UpdateDropService, Types, WatcherTypes, CacheTypes, updVars
  <2> QED
    BY <1>1, <1>2, <2>1, <2>2, MergeKept, DeleteKept DEF Types, WatcherTypes
<1> QED
  BY <1>1, <1>2, <1>3 DEF Types, WatcherTypes

(* No update is in progress.                                               *)
LEMMA NoUpdateType == NoUpdate \in UpdateRecord
<1>1. (CHOOSE v \in Versions : TRUE) \in Versions
  BY WatcherAssumption
<1> QED
  BY <1>1 DEF NoUpdate

(* The end of an update drops the key only with its last version.          *)
LEMMA UpdateEndKept ==
  ASSUME Types, UpdateEnd
  PROVE  Types'
<1> DEFINE v == upd.version
           rest == DOMAIN cache.svcs \ {v}
           kept == [u \in rest |-> cache.svcs[u]]
<1>1. /\ UNCHANGED <<agent, changes, cw, svcs, srv, loop>>
      /\ upd' = NoUpdate /\ expired' = FALSE
      /\ \/ obj' = [obj EXCEPT ![cache.svcs[v]].nodes = upd.kept] /\ UNCHANGED cache
         \/ /\ cache' = NoCache \/ (rest # {} /\ cache' = [cache EXCEPT !.svcs = kept])
            /\ UNCHANGED obj
  BY DEF UpdateEnd
<1>2. cache.svcs \in Services /\ upd.kept \in SUBSET Nodes /\ v \in Versions
  BY DEF Types, CacheTypes
<1>3. kept \in Services
  <2>1. rest \in SUBSET DOMAIN cache.svcs
    OBVIOUS
  <2>2. \A o \in Objs : kept \in Services
    BY <1>2, <2>1, ServicesUpdate
  <2> QED
    BY <1>2, <2>2, ServicesApply, Empty DEF NoServices
<1>4. obj' \in Heap
  BY <1>1, <1>2 DEF Types, WatcherTypes, Heap
<1>5. rest # {} => cache.has
  BY DEF Types, CacheTypes, NoServices
<1> HIDE DEF kept, rest
<1>6. /\ cache' \in CacheType
      /\ ~cache'.has => cache'.svcs = NoServices
  BY <1>1, <1>3, <1>5, NoCacheType DEF Types, CacheTypes
<1> QED
  BY <1>1, <1>4, <1>6, NoUpdateType DEF Types, WatcherTypes, CacheTypes

(* app.Watcher goes through the nodes that go.                             *)
LEMMA CallbackKept ==
  ASSUME Types, Callback
  PROVE  Types'
<1>1. ASSUME NEW n \in Nodes, WatcherDone(n) PROVE Types'
  <2>1. /\ UNCHANGED <<watcherVars, cache, expired, loop>>
        /\ upd' \in {upd, [upd EXCEPT !.dead = upd.dead \ {n}]}
    BY <1>1 DEF WatcherDone, callVars
  <2> QED
    BY <2>1 DEF Types, WatcherTypes, CacheTypes, watcherVars
<1>2. CASE WatcherDelete
  <2>1. /\ UNCHANGED <<watcherVars, cache, expired, loop>>
        /\ upd' = [upd EXCEPT !.dead = upd.dead \ {unode}]
    BY <1>2 DEF WatcherDelete, callVars
  <2> QED
    BY <2>1 DEF Types, WatcherTypes, CacheTypes, watcherVars
<1> QED
  BY <1>1, <1>2, UpdateEndKept DEF Callback

(* The watch loop, the goroutine that stops a watcher, and the selector's  *)
(* Init and Close.                                                         *)
LEMMA LoopKept ==
  ASSUME Types,
         \/ \E w \in Watchers : RunWatch(w)
         \/ RunExit \/ NextError \/ StopWatcher \/ Reload \/ Close \/ Expire
  PROVE  Types'
<1>1. ASSUME NEW w \in Watchers, RunWatch(w) PROVE Types'
  <2>1. WatcherTypes'
    BY <1>1, HandleKept DEF RunWatch, Types
  <2> QED
    BY <1>1, <2>1 DEF Types, CacheTypes, RunWatch, updVars
<1>2. CASE RunExit \/ NextError
  BY <1>2 DEF Types, WatcherTypes, CacheTypes, RunExit, NextError, updVars, watcherVars
<1>3. CASE StopWatcher
  <2>1. /\ UNCHANGED <<agent, changes, obj, svcs, srv, cache, expired, loop, upd>>
        /\ \/ UNCHANGED cw
           \/ cw' = [cw EXCEPT ![loop.w].exit = TRUE, ![loop.w].next = <<>>]
    BY <1>3 DEF StopWatcher, Stop, updVars
  <2>2. CASE UNCHANGED cw
    BY <2>1, <2>2 DEF Types, WatcherTypes, CacheTypes
  <2>3. CASE loop.w \in Watchers /\ ~ UNCHANGED cw
    <3> DEFINE c == [cw[loop.w] EXCEPT !.exit = TRUE, !.next = <<>>]
    <3>1. /\ <<>> \in Seq(Results)
          /\ cw \in [Watchers -> WatcherType] /\ cw[loop.w] \in WatcherType
          /\ \A u \in Watchers : Len(cw[u].next) <= Cap
      BY <2>3 DEF Types, WatcherTypes
    <3>2. c \in WatcherType /\ c.next = <<>>
      BY <3>1 DEF WatcherType
    <3>3. Len(c.next) <= Cap
      BY <3>2, WatcherAssumption
    <3>4. cw' = [cw EXCEPT ![loop.w] = c]
      BY <2>1, <2>3, <3>1
    <3> HIDE DEF c
    <3>5. /\ cw' \in [Watchers -> WatcherType]
          /\ \A u \in Watchers : Len(cw'[u].next) <= Cap
      BY <2>3, <3>1, <3>2, <3>3, <3>4, ChangeWatcher
    <3> QED
      BY <2>1, <3>5 DEF Types, WatcherTypes, CacheTypes
  <2>4. CASE loop.w \notin Watchers
    <3>1. UNCHANGED cw
      BY <2>1, <2>4 DEF Types, WatcherTypes
    <3> QED
      BY <2>2, <3>1
  <2> QED
    BY <2>2, <2>3, <2>4
<1>4. CASE Reload \/ Close
  BY <1>4, WatcherAssumption, NoCacheType
     DEF Types, WatcherTypes, CacheTypes, Reload, Close, updVars
<1>5. CASE Expire
  BY <1>5 DEF Types, WatcherTypes, CacheTypes, Expire, updVars, watcherVars
<1> QED
  BY <1>1, <1>2, <1>3, <1>4, <1>5

(* Every step keeps the types.                                             *)
LEMMA TypesKept == Types /\ [Next]_vars => Types'
<1> SUFFICES ASSUME Types, [Next]_vars PROVE Types'
  OBVIOUS
<1>1. CASE Agent
  <2>1. WatcherTypes'
    BY <1>1, AgentKept DEF Agent, Types
  <2> QED
    BY <1>1, <2>1 DEF Agent, Types, CacheTypes, cacheVars, updVars
<1>2. ASSUME NEW w \in Watchers, Plan(w) PROVE Types'
  <2>1. WatcherTypes'
    BY <1>2, PlanKept DEF Plan, Types
  <2> QED
    BY <1>2, <2>1 DEF Plan, Types, CacheTypes, cacheVars, updVars
<1>3. ASSUME NEW g \in Getters, Load(g) \/ Store(g) PROVE Types'
  <2>1. UNCHANGED <<watcherVars, cacheVars>>
    BY <1>3 DEF Load, LoadHit, LoadMiss, Store
  <2> QED
    BY <2>1 DEF Types, WatcherTypes, CacheTypes, watcherVars, cacheVars, updVars
<1>4. CASE UNCHANGED vars
  BY <1>4 DEF Types, WatcherTypes, CacheTypes, vars, watcherVars, cacheVars, updVars
<1>5. ASSUME NEW g \in Getters, NEW f \in BOOLEAN, Lookup(g, f) PROVE Types'
  BY <1>5, LookupKept
<1> QED
  BY <1>1, <1>2, <1>3, <1>4, <1>5, UpdateKept, CallbackKept, LoopKept DEF Next, Loop

(* The types hold at the start.                                            *)
LEMMA TypesInitially == Init => Types
<1> SUFFICES ASSUME Init PROVE Types
  OBVIOUS
<1>1. (CHOOSE v \in Versions : TRUE) \in Versions /\ <<>> \in Seq(Results)
      /\ Len(<<>>) <= Cap
  BY WatcherAssumption
<1>2. obj \in Heap
  BY <1>1 DEF Init, WatcherInit, Heap
<1>3. NewWatcher \in WatcherType /\ NewWatcher.next = <<>>
  BY <1>1, Empty DEF NewWatcher, WatcherType
<1>4. NewServicesPlan("none") \in ServicesPlanType /\ NewServicesPlan("none").pc = "none"
  BY <1>1 DEF NewServicesPlan, ServicesPlanType
<1>5. /\ cw = [w \in Watchers |-> NewWatcher] /\ srv = [w \in Watchers |-> NoServicePlan]
      /\ svcs = [w \in Watchers |-> NewServicesPlan("none")]
      /\ agent \in [Nodes -> Statuses] /\ changes \in 0..MaxChanges
  BY WatcherAssumption DEF Init, WatcherInit, Statuses
<1>6. WatcherTypes
  BY <1>1, <1>2, <1>3, <1>4, <1>5, NoPlanType DEF WatcherTypes
<1>7. CacheTypes
  BY NoCacheType, NoUpdateType DEF Init, CacheTypes
<1> QED
  BY <1>6, <1>7 DEF Types

(* With those of the sessions they are TypeOK.                             *)
LEMMA TypesImply == Types /\ SessionTypeOK => TypeOK
<1> SUFFICES ASSUME Types, SessionTypeOK PROVE TypeOK
  OBVIOUS
<1>1. ASSUME NEW w \in Watchers
      PROVE  /\ cw[w].services \in Services /\ Len(cw[w].next) <= Cap
             /\ srv[w].old \in Services /\ srv[w].new \in Services
             /\ srv[w].pc \in {"none", "idle", "fetched", "diff"}
             /\ svcs[w].pc \in {"none", "idle", "handle", "send"}
  BY DEF Types, WatcherTypes, WatcherType, ServicePlanType, ServicesPlanType
<1>2. ASSUME NEW w \in Watchers
      PROVE  Pending(cw[w].next) \subseteq Objs \cup {NoObj}
  <2>1. cw[w].next \in Seq(Results)
    BY DEF Types, WatcherTypes, WatcherType
  <2>2. \A i \in 1..Len(cw[w].next) : cw[w].next[i] \in Results
    BY <2>1
  <2>3. \A i \in 1..Len(cw[w].next) : cw[w].next[i].svc \in Objs \cup {NoObj}
    BY <2>2 DEF Results
  <2> QED
    BY <2>3 DEF Pending
<1>3. WatcherTypeOK
  BY <1>1, <1>2 DEF WatcherTypeOK, Types, WatcherTypes, Heap
<1> QED
  BY <1>3 DEF Types, CacheTypes, TypeOK

(* The consul watcher and the selector keep their types, whatever the      *)
(* plans send and in which order: next never holds more than its capacity, *)
(* a result names a Service object or none, and what a lookup stores is a  *)
(* session. For any number of nodes, versions, objects and watchers.       *)
THEOREM TypeCorrect == Spec => []TypeOK
<1>1. Spec => []IndInv
  BY Initially, Inductive, PTL DEF Spec
<1>2. Spec => []Types
  BY TypesInitially, TypesKept, PTL DEF Spec
<1>3. IndInv /\ Types => TypeOK
  BY TypesImply DEF IndInv
<1> QED
  BY <1>1, <1>2, <1>3, PTL
=============================================================================
