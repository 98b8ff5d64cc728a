----------------------------- MODULE Discovery -----------------------------
(***************************************************************************)
(* How a process finds the nodes of a service: the caching selector        *)
(* (selector/cache/cache.go) over the consul watcher, and the sessions of  *)
(* the application (serverList of app/app.go), one RPC client per node.    *)
(*                                                                         *)
(* The goroutines: the watch loop of the selector (run, watch, update,     *)
(* with the callback app.Watcher called under the selector's lock), the    *)
(* goroutine that stops a watcher, the callers of GetServerBySelector and  *)
(* GetServersByType, and the two plans of every consul watcher. get holds  *)
(* the lock while it asks the registry and is one step.                    *)
(***************************************************************************)
EXTENDS ConsulWatcher

CONSTANTS
    Getters,     \* goroutines that look up servers
    Sessions,    \* bound: ServerSessions alive at a time
    NoSession, NoNode, NoWatcher,
    MayFail,     \* the registry may return an error
    MayStop      \* Init (reload) and Close of the selector may be called, which
                 \* count as changes

ASSUME DiscoveryAssumption ==
    /\ NoSession \notin Sessions /\ NoNode \notin Nodes
    /\ NoWatcher \notin Watchers
    /\ MayFail \in BOOLEAN /\ MayStop \in BOOLEAN

VARIABLES
    cache,      \* the cached Service of every version; has: a key exists
    expired,    \* the time the cached answer is served is over
    exit,       \* the channel exit of the selector is closed
    reload,     \* the channel reload holds a signal
    watched,    \* the service is in the map watched
    loop,       \* where the watch loop is, and its watcher
    managed,    \* the goroutine of watch still waits for a signal
    upc, upd,   \* an update in progress, which holds the lock: where it is, and
                \* the version it is about, the nodes that go and that stay
    unode,      \* the node app.Watcher is removing
    serverList, \* the session of every node, in app.serverList
    sess,       \* the sessions: "free", "open" or "done"
    sessNode,   \* the node of a session
    gpc, todo,  \* the goroutines that look up servers, the nodes they have left
    gnode, gsess, \* and the session they have created for a node
    stable      \* history: the nodes that passed their check all the time

updVars == <<upc, upd, unode>>
cacheVars == <<cache, expired, exit, reload, watched, loop, managed,
               updVars>>
appVars == <<serverList, sess, sessNode, gpc, todo, gnode, gsess>>
vars == <<watcherVars, cacheVars, appVars, stable>>

NoCache == [has |-> FALSE, svcs |-> NoServices]
NoUpdate == [version |-> CHOOSE v \in Versions : TRUE, dead |-> {}, kept |-> {}]

Init ==
    /\ WatcherInit
    /\ cache = NoCache /\ expired = FALSE
    /\ exit = FALSE /\ reload = FALSE /\ watched = FALSE
    /\ loop = [pc |-> "none", w |-> NoWatcher] /\ managed = FALSE
    /\ upc = "idle" /\ upd = NoUpdate /\ unode = NoNode
    /\ serverList = [n \in Nodes |-> NoSession]
    /\ sess = [s \in Sessions |-> "free"] /\ sessNode = [s \in Sessions |-> NoNode]
    /\ gpc = [g \in Getters |-> "idle"] /\ todo = [g \in Getters |-> {}]
    /\ gnode = [g \in Getters |-> NoNode] /\ gsess = [g \in Getters |-> NoSession]
    /\ stable = Passing

FreeObjs == Objs \ (WatcherRefs \cup Held(cache.svcs))

-----------------------------------------------------------------------------
(* cacheSelector.get, under the lock.                                      *)

CacheNodes == UNION {obj[o].nodes : o \in Held(cache.svcs)}

(* Mutant: a cached answer never expires.                                  *)
AlwaysFresh == TRUE

(* ttls holds the time of set plus ttl, and get compares the time since    *)
(* then with ttl: an answer is served until it is twice as old as ttl.     *)
Fresh == ~expired
Servable == cache.has /\ DOMAIN cache.svcs # {} /\ Fresh

(* The nodes get returns. After an error services is nil: get has already  *)
(* overwritten it.                                                         *)
GetReturn(fails) == IF Servable THEN CacheNodes ELSE IF fails THEN {} ELSE Passing

(* set(service, cp(services)): new objects for every version.              *)
Fetch ==
    LET V == VersionsIn(agent) IN
    /\ Cardinality(V) <= Cardinality(FreeObjs)
    /\ LET new == CHOOSE f \in [V -> FreeObjs] :
                    \A u, v \in V : f[u] = f[v] => u = v
       IN /\ cache' = [has |-> TRUE, svcs |-> new]
          /\ obj' = [o \in Objs |-> IF o \in Held(new)
                                    THEN LET v == CHOOSE u \in V : new[u] = o
                                         IN [version |-> v, nodes |-> NodesIn(agent, v)]
                                    ELSE obj[o]]
    /\ expired' = FALSE

Get(fails) ==
    /\ upc = "idle"
    /\ watched' = TRUE
    /\ loop' = IF ~watched /\ loop.pc = "none" THEN [loop EXCEPT !.pc = "new"] ELSE loop
    /\ IF Servable \/ fails THEN UNCHANGED <<cache, obj, expired>> ELSE Fetch

-----------------------------------------------------------------------------
(* The application's lookups.                                              *)

(* GetServersByType takes every node of the answer, GetServerBySelector    *)
(* the one its strategy picks.                                             *)
Lookup(g, fails) ==
    LET nodes == GetReturn(fails) IN
    /\ gpc[g] = "idle"
    /\ Get(fails)
    /\ \E T \in {{n} : n \in nodes} \cup {nodes} :
          /\ gpc' = [gpc EXCEPT ![g] = IF T = {} THEN "idle" ELSE "load"]
          /\ todo' = [todo EXCEPT ![g] = T]
    /\ UNCHANGED <<agent, changes, cw, svcs, srv, exit, reload, managed, updVars,
                   serverList, sess, sessNode, gnode, gsess, stable>>

Finish(g, n) ==
    /\ todo' = [todo EXCEPT ![g] = @ \ {n}]
    /\ gpc' = [gpc EXCEPT ![g] = IF todo[g] \ {n} = {} THEN "idle" ELSE "load"]
    /\ gnode' = [gnode EXCEPT ![g] = NoNode]
    /\ gsess' = [gsess EXCEPT ![g] = NoSession]

(* serverList.Load; on a miss NewServerSession.                            *)
LoadHit(g, n) ==
    /\ gpc[g] = "load" /\ n \in todo[g]
    /\ serverList[n] # NoSession
    /\ Finish(g, n)
    /\ UNCHANGED <<watcherVars, cacheVars, serverList, sess, sessNode, stable>>

(* Mutant: a session that could not be created is stored all the same.     *)
LoadMissNil(g, n) ==
    /\ gpc[g] = "load" /\ n \in todo[g]
    /\ serverList[n] = NoSession
    /\ gpc' = [gpc EXCEPT ![g] = "store"]
    /\ gnode' = [gnode EXCEPT ![g] = n]
    /\ gsess' = [gsess EXCEPT ![g] = NoSession]
    /\ UNCHANGED <<watcherVars, cacheVars, serverList, sess, sessNode, todo, stable>>

LoadMiss(g, n) ==
    /\ gpc[g] = "load" /\ n \in todo[g]
    /\ serverList[n] = NoSession
    /\ \E s \in Sessions : sess[s] = "free"
    /\ LET s == CHOOSE t \in Sessions : sess[t] = "free" IN
         /\ sess' = [sess EXCEPT ![s] = "open"]
         /\ sessNode' = [sessNode EXCEPT ![s] = n]
         /\ gpc' = [gpc EXCEPT ![g] = "store"]
         /\ gnode' = [gnode EXCEPT ![g] = n]
         /\ gsess' = [gsess EXCEPT ![g] = s]
    /\ UNCHANGED <<watcherVars, cacheVars, serverList, todo, stable>>

Store(g) ==
    /\ gpc[g] = "store"
    /\ serverList' = [serverList EXCEPT ![gnode[g]] = gsess[g]]
    /\ Finish(g, gnode[g])
    /\ UNCHANGED <<watcherVars, cacheVars, sess, sessNode, stable>>

-----------------------------------------------------------------------------
(* cacheSelector.update of a result r.                                     *)

NodesOf(r) == IF r.svc = NoObj THEN {} ELSE obj[r.svc].nodes

UpdateIgnored(r) ==
    /\ \/ ~cache.has
       \/ NodesOf(r) = {} /\ r.action # "delete"
       \/ /\ NodesOf(r) # {} /\ r.action = "delete"
          /\ obj[r.svc].version \notin DOMAIN cache.svcs
    /\ UNCHANGED <<obj, cache, expired, updVars>>

UpdateDropService(r) ==
    /\ cache.has /\ NodesOf(r) = {} /\ r.action = "delete"
    /\ cache' = NoCache
    /\ UNCHANGED <<obj, expired, updVars>>

(* create, update: the nodes of the cached Service are appended to the     *)
(* Service of the result, which takes its place.                           *)
UpdateMerge(r) ==
    LET v == obj[r.svc].version
        old == IF v \in DOMAIN cache.svcs THEN obj[cache.svcs[v]].nodes ELSE {} IN
    /\ cache.has /\ NodesOf(r) # {} /\ r.action \in {"create", "update"}
    /\ obj' = [obj EXCEPT ![r.svc].nodes = @ \cup old]
    /\ cache' = [cache EXCEPT !.svcs = [u \in DOMAIN @ \cup {v} |->
                                          IF u = v THEN r.svc ELSE @[u]]]
    /\ expired' = FALSE
    /\ UNCHANGED <<updVars>>

(* delete: the callback runs for every node that goes.                     *)
UpdateDelete(r) ==
    LET v == obj[r.svc].version
        old == obj[cache.svcs[v]].nodes IN
    /\ cache.has /\ NodesOf(r) # {} /\ r.action = "delete"
    /\ v \in DOMAIN cache.svcs
    /\ upc' = "call"
    /\ upd' = [version |-> v, dead |-> old \cap NodesOf(r), kept |-> old \ NodesOf(r)]
    /\ UNCHANGED <<obj, cache, expired, unode>>

Update(w) ==
    LET r == Head(cw[w].next) IN
    /\ loop = [pc |-> "watch", w |-> w] /\ upc = "idle"
    /\ NextResult(w)
    /\ \/ UpdateIgnored(r)
       \/ UpdateDropService(r)
       \/ r.svc # NoObj /\ (UpdateMerge(r) \/ UpdateDelete(r))
    /\ UNCHANGED <<agent, changes, svcs, srv, exit, reload, watched, loop, managed,
                   appVars, stable>>

callVars == <<watcherVars, cache, expired, exit, reload, watched, loop, managed,
              gpc, todo, gnode, gsess, stable>>

(* app.Watcher(n): Load and Done; when Done returns, Delete. Done takes    *)
(* its time and may not come back: it hands over to the client's receive   *)
(* loop, which need not be there any more (RpcClient).                     *)
WatcherDone(n) ==
    LET s == serverList[n] IN
    /\ upc = "call" /\ n \in upd.dead
    /\ IF s = NoSession
       THEN /\ upd' = [upd EXCEPT !.dead = @ \ {n}]
            /\ UNCHANGED <<upc, unode, sess>>
       ELSE /\ upc' = "remove" /\ unode' = n /\ UNCHANGED upd
            /\ sess' = [sess EXCEPT ![s] = "done"]
    /\ UNCHANGED <<callVars, serverList, sessNode>>

(* Mutant: the closed session is not deleted.                              *)
WatcherKeeps ==
    /\ upc = "remove" /\ upc' = "call" /\ unode' = NoNode
    /\ upd' = [upd EXCEPT !.dead = @ \ {unode}]
    /\ UNCHANGED <<callVars, serverList, sess, sessNode>>

(* A closed session that is not listed any more is gone.                   *)
WatcherDelete ==
    /\ upc = "remove" /\ upc' = "call" /\ unode' = NoNode
    /\ upd' = [upd EXCEPT !.dead = @ \ {unode}]
    /\ serverList' = [serverList EXCEPT ![unode] = NoSession]
    /\ sess' = [s \in Sessions |-> IF sess[s] = "done" THEN "free" ELSE sess[s]]
    /\ sessNode' = [s \in Sessions |-> IF sess[s] = "done" THEN NoNode ELSE sessNode[s]]
    /\ UNCHANGED callVars

UpdateEnd ==
    LET v == upd.version
        rest == DOMAIN cache.svcs \ {v} IN
    /\ upc = "call" /\ upd.dead = {}
    /\ upc' = "idle" /\ upd' = NoUpdate /\ UNCHANGED unode
    /\ IF upd.kept # {}
       THEN obj' = [obj EXCEPT ![cache.svcs[v]].nodes = upd.kept] /\ UNCHANGED cache
       ELSE /\ cache' = IF rest = {} THEN NoCache
                        ELSE [cache EXCEPT !.svcs = [u \in rest |-> @[u]]]
            /\ UNCHANGED obj
    /\ expired' = FALSE
    /\ UNCHANGED <<agent, changes, cw, svcs, srv, exit, reload, watched, loop,
                   managed, appVars, stable>>

-----------------------------------------------------------------------------
(* run and watch: the loop that creates a watcher and takes its results.   *)
RunWatch(w) ==
    /\ loop.pc = "new" /\ ~exit
    /\ w = CHOOSE u \in Watchers : svcs[u].pc = "none"
    /\ Watch(w)
    /\ loop' = [pc |-> "watch", w |-> w] /\ managed' = TRUE
    /\ UNCHANGED <<cache, expired, exit, reload, watched, updVars, appVars,
                   stable>>

RunExit ==
    /\ loop.pc = "new" /\ exit
    /\ loop' = [pc |-> "ended", w |-> NoWatcher]
    /\ UNCHANGED <<watcherVars, cache, expired, exit, reload, watched, managed,
                   updVars, appVars, stable>>

(* Mutant: watch goes on after an error.                                   *)
NextErrorIgnored ==
    /\ loop.pc = "watch" /\ cw[loop.w].exit /\ upc = "idle"
    /\ UNCHANGED vars

(* Next returns an error once the watcher is stopped.                      *)
NextError ==
    /\ loop.pc = "watch" /\ cw[loop.w].exit /\ upc = "idle"
    /\ loop' = [pc |-> "new", w |-> NoWatcher]
    /\ UNCHANGED <<watcherVars, cache, expired, exit, reload, watched, managed,
                   updVars, appVars, stable>>

(* The goroutine of watch: exit or reload stops the watcher.               *)
StopWatcher ==
    /\ managed /\ (exit \/ reload)
    /\ managed' = FALSE
    /\ reload' = IF exit THEN reload ELSE FALSE
    /\ Stop(loop.w)
    /\ UNCHANGED <<agent, changes, obj, svcs, srv, cache, expired, exit, watched,
                   loop, updVars, appVars, stable>>

(* Init after the start, while there is a watcher left to replace. Bound:  *)
(* it is the only change of its run.                                       *)
Reload ==
    /\ MayStop /\ ~exit /\ ~reload
    /\ \E w \in Watchers : svcs[w].pc = "none"
    /\ reload' = TRUE
    /\ changes = 0 /\ changes' = MaxChanges
    /\ UNCHANGED <<agent, obj, cw, svcs, srv, cache, expired, exit, watched, loop,
                   managed, updVars, appVars, stable>>

Close ==
    /\ MayStop /\ upc = "idle" /\ ~exit
    /\ cache' = NoCache /\ watched' = FALSE /\ exit' = TRUE
    /\ changes < MaxChanges /\ changes' = changes + 1
    /\ UNCHANGED <<agent, obj, cw, svcs, srv, expired, reload, loop, managed,
                   updVars, appVars, stable>>

Expire ==
    /\ cache.has /\ ~expired
    /\ expired' = TRUE
    /\ UNCHANGED <<watcherVars, cache, exit, reload, watched, loop, managed,
                   updVars, appVars, stable>>

-----------------------------------------------------------------------------
Plan(w) ==
    /\ Watching(w, IF FreeObjs = {} THEN NoObj ELSE CHOOSE o \in FreeObjs : TRUE)
    /\ UNCHANGED <<cacheVars, appVars, stable>>

Agent ==
    /\ \E n \in Nodes : AgentChange(n)
    /\ stable' = {n \in stable : agent'[n] = "passing"}
    /\ UNCHANGED <<cacheVars, appVars>>

Load(g) == \E n \in Nodes : LoadHit(g, n) \/ LoadMiss(g, n)
Callback == \/ \E n \in Nodes : WatcherDone(n)
            \/ WatcherDelete \/ UpdateEnd
Loop == \/ \E w \in Watchers : Update(w) \/ RunWatch(w)
        \/ Callback \/ RunExit \/ NextError

Next ==
    \/ Agent
    \/ \E w \in Watchers : Plan(w)
    \/ \E g \in Getters : \/ Lookup(g, FALSE) \/ (MayFail /\ Lookup(g, TRUE))
                          \/ Load(g) \/ Store(g)
    \/ Loop \/ StopWatcher \/ Reload \/ Close \/ Expire

(* Watcher is inside GetRpc().Done(), under the lock of the selector.      *)
InDone == upc = "remove"

(* Goroutines run, time passes, and servers are looked up again and again  *)
(* with the registry answering. Nothing is assumed of Done.                *)
Fairness ==
    /\ \A w \in Watchers : WF_vars(Plan(w))
    /\ \A g \in Getters : /\ WF_vars(Load(g) \/ Store(g))
                          /\ SF_vars(Lookup(g, FALSE))
    /\ WF_vars(Loop /\ ~InDone) /\ WF_vars(StopWatcher) /\ WF_vars(Expire)

Spec == Init /\ [][Next]_vars
FairSpec == Spec /\ Fairness

-----------------------------------------------------------------------------
SessionTypeOK ==
    /\ upc \in {"idle", "call", "remove"}
    /\ serverList \in [Nodes -> Sessions \cup {NoSession}]
    /\ unode \in Nodes \cup {NoNode}
    /\ sess \in [Sessions -> {"free", "open", "done"}]
    /\ gpc \in [Getters -> {"idle", "load", "store"}]
    /\ gnode \in [Getters -> Nodes \cup {NoNode}]
    /\ gsess \in [Getters -> Sessions \cup {NoSession}]
    /\ \A g \in Getters : gpc[g] = "store" => gnode[g] \in Nodes /\ gsess[g] \in Sessions

TypeOK ==
    /\ WatcherTypeOK
    /\ cache.svcs \in Services /\ expired \in BOOLEAN
    /\ loop.pc \in {"none", "new", "watch", "ended"}
    /\ SessionTypeOK

(* A closed session is in serverList only while app.Watcher, which closed  *)
(* it, is about to delete it: no lookup that starts later gets it.         *)
ClosedOnlyWhileRemoved ==
    \A n \in Nodes : LET s == serverList[n] IN
        s # NoSession /\ sess[s] # "open" => upc = "remove" /\ unode = n

(* The lookups repair what lost or reordered events leave behind: once     *)
(* the entries in the agent stay as they are, the cache ends up with the   *)
(* nodes that pass their check, and stays there. Only the callback can     *)
(* prevent it: a Done of Watcher that does not return keeps the lock every *)
(* lookup needs.                                                           *)
CacheConverges == <>[](cache.has => CacheNodes = Passing) \/ <>[]InDone

(* Close ends the watch loop, wherever it is, but inside a Done that does  *)
(* not return.                                                             *)
CloseEndsLoop == exit /\ loop.pc # "none" ~> loop.pc = "ended" \/ []InDone

(* app.go:307: Watcher deletes the sessions of services that have          *)
(* deregistered, so not those of a node that passed its check throughout.  *)
StableNeverClosed ==
    [][\A s \in Sessions : sess[s] = "open" /\ sess'[s] = "done"
                             => sessNode[s] \notin stable]_vars
=============================================================================
