--------------------------- MODULE ConsulWatcher ---------------------------
(***************************************************************************)
(* registry/consul_watcher.go, for the one service the selector watches:   *)
(* newConsulWatcher, handle, serviceHandler, Next and Stop. Two watch      *)
(* plans of the consul library (external) run in goroutines of their own:  *)
(* the "services" plan calls handle when the catalogue changes, the        *)
(* "service" plan calls serviceHandler when the entries of the service     *)
(* change. Both send on the channel next.                                  *)
(*                                                                         *)
(* A Service is a heap object: the code sends a pointer and keeps another  *)
(* in cw.services, so a later write shows in a result already sent. An     *)
(* object nobody refers to is allocated again.                             *)
(***************************************************************************)
EXTENDS Naturals, Sequences, FiniteSets

CONSTANTS
    Nodes, Versions,
    VersionOf,   \* the version a node registers with
    Start,       \* what the agent may hold at the start
    Watchers,    \* the watchers one run of the program creates
    Objs,        \* bound: Service objects alive at a time
    NoObj,       \* the Service of handle, with a name and no nodes
    Cap,         \* capacity of next (10 in the code)
    MaxChanges   \* bound: changes from outside, in the agent or of the selector

ASSUME WatcherAssumption ==
    /\ VersionOf \in [Nodes -> Versions]
    /\ Start \subseteq [Nodes -> {"none", "critical", "passing"}]
    /\ NoObj \notin Objs
    /\ Versions # {} /\ IsFiniteSet(Versions) /\ IsFiniteSet(Objs)
    /\ Cap \in Nat \ {0} /\ MaxChanges \in Nat

VARIABLES
    agent,    \* the state of every node's entry in the consul agent
    changes,  \* how many changes from outside there were
    obj,      \* the heap of Service objects: version and nodes
    cw,       \* per watcher: exit, services, watching, next
    svcs,     \* per watcher: the goroutine of the "services" plan
    srv       \* per watcher: the goroutine of the "service" plan

watcherVars == <<agent, changes, obj, cw, svcs, srv>>

Statuses == {"none", "critical", "passing"}
NoServices == [v \in {} |-> NoObj]
NoSnapshot == [n \in {} |-> "none"]

Passing == {n \in Nodes : agent[n] = "passing"}
Listed == \E n \in Nodes : agent[n] # "none"

(* The Service objects serviceHandler and GetService build from a list of  *)
(* entries: one per version, without the nodes whose check is critical.    *)
VersionsIn(entries) == {VersionOf[n] : n \in {m \in DOMAIN entries : entries[m] # "none"}}
NodesIn(entries, v) == {n \in DOMAIN entries : entries[n] = "passing" /\ VersionOf[n] = v}

Result(action, o) == [action |-> action, svc |-> o]
Services == UNION {[V -> Objs] : V \in SUBSET Versions}

Held(services) == {services[v] : v \in DOMAIN services}
Pending(results) == {results[i].svc : i \in 1..Len(results)}

(* The objects the watchers refer to.                                      *)
WatcherRefs ==
    UNION {Held(cw[w].services) \cup Held(srv[w].old) \cup Held(srv[w].new)
           \cup Pending(cw[w].next) \cup Pending(srv[w].out) : w \in Watchers}

NewWatcher == [exit |-> FALSE, services |-> NoServices, watching |-> FALSE,
               next |-> <<>>]
NewServicesPlan(pc) == [pc |-> pc, seen |-> "never", out |-> <<>>]
NoServicePlan == [pc |-> "none", stopped |-> FALSE, snap |-> NoSnapshot,
                  old |-> NoServices, new |-> NoServices, todo |-> {},
                  out |-> <<>>]

WatcherInit ==
    /\ agent \in Start
    /\ changes = 0
    /\ obj = [o \in Objs |-> [version |-> CHOOSE v \in Versions : TRUE, nodes |-> {}]]
    /\ cw = [w \in Watchers |-> NewWatcher]
    /\ svcs = [w \in Watchers |-> NewServicesPlan("none")]
    /\ srv = [w \in Watchers |-> NoServicePlan]

-----------------------------------------------------------------------------
(* The agent (external).                                                   *)
AgentChange(n) ==
    /\ changes < MaxChanges
    /\ \E s \in Statuses \ {agent[n]} : agent' = [agent EXCEPT ![n] = s]
    /\ changes' = changes + 1
    /\ UNCHANGED <<obj, cw, svcs, srv>>

-----------------------------------------------------------------------------
(* newConsulWatcher.                                                       *)
Watch(w) ==
    /\ svcs[w].pc = "none" /\ ~cw[w].exit
    /\ svcs' = [svcs EXCEPT ![w] = NewServicesPlan("idle")]
    /\ UNCHANGED <<agent, changes, obj, cw, srv>>

(* The "services" plan: a changed catalogue is handed to handle. A plan    *)
(* that was stopped makes no further call.                                 *)
HandleFetch(w) ==
    LET listed == IF Listed THEN "yes" ELSE "no" IN
    /\ svcs[w].pc = "idle" /\ ~cw[w].exit
    /\ svcs[w].seen # listed
    /\ svcs' = [svcs EXCEPT ![w].pc = "handle", ![w].seen = listed]
    /\ UNCHANGED <<agent, changes, obj, cw, srv>>

(* handle: a new service gets a plan of its own, once the plan of its      *)
(* earlier life has ended (the code does not wait for it); one that is not *)
(* in the catalogue any more is forgotten and its plan stopped.            *)
HandleAdd(w) ==
    /\ svcs[w].pc = "handle" /\ svcs[w].seen = "yes" /\ ~cw[w].watching
    /\ srv[w].pc = "none"
    /\ cw' = [cw EXCEPT ![w].watching = TRUE]
    /\ srv' = [srv EXCEPT ![w] = [NoServicePlan EXCEPT !.pc = "idle"]]
    /\ svcs' = [svcs EXCEPT ![w].pc = "send", ![w].out = <<Result("create", NoObj)>>]
    /\ UNCHANGED <<agent, changes, obj>>

HandleRemove(w) ==
    /\ svcs[w].pc = "handle" /\ svcs[w].seen = "no" /\ cw[w].watching
    /\ cw' = [cw EXCEPT ![w].watching = FALSE, ![w].services = NoServices]
    /\ srv' = [srv EXCEPT ![w].stopped = TRUE]
    /\ svcs' = [svcs EXCEPT ![w].pc = "send", ![w].out = <<Result("delete", NoObj)>>]
    /\ UNCHANGED <<agent, changes, obj>>

HandleNothing(w) ==
    /\ svcs[w].pc = "handle" /\ cw[w].watching = (svcs[w].seen = "yes")
    /\ svcs' = [svcs EXCEPT ![w].pc = "idle"]
    /\ cw' = IF cw[w].watching THEN cw ELSE [cw EXCEPT ![w].services = NoServices]
    /\ UNCHANGED <<agent, changes, obj, srv>>

HandleSend(w) ==
    /\ svcs[w].pc = "send" /\ Len(cw[w].next) < Cap
    /\ cw' = [cw EXCEPT ![w].next = Append(@, Head(svcs[w].out))]
    /\ svcs' = [svcs EXCEPT ![w].pc = "idle", ![w].out = <<>>]
    /\ UNCHANGED <<agent, changes, obj, srv>>

-----------------------------------------------------------------------------
(* The "service" plan.                                                     *)

ServiceFetch(w) ==
    /\ srv[w].pc = "idle" /\ ~srv[w].stopped
    /\ srv[w].snap # agent
    /\ srv' = [srv EXCEPT ![w].pc = "fetched", ![w].snap = agent]
    /\ UNCHANGED <<agent, changes, obj, cw, svcs>>

ServicePlanEnd(w) ==
    /\ srv[w].pc \in {"idle", "fetched"} /\ srv[w].stopped
    /\ srv' = [srv EXCEPT ![w] = NoServicePlan]
    /\ UNCHANGED <<agent, changes, obj, cw, svcs>>

(* serviceHandler copies cw.services. Without entries serviceName is "",   *)
(* under which nothing is kept.                                            *)
HandlerCopy(w) ==
    LET versions == VersionsIn(srv[w].snap) IN
    /\ srv[w].pc = "fetched"
    /\ srv' = [srv EXCEPT ![w].pc = "diff", ![w].todo = versions,
                          ![w].old = IF versions = {} THEN NoServices
                                     ELSE cw[w].services]
    /\ UNCHANGED <<agent, changes, obj, cw, svcs>>

(* One round of the loop over serviceMap, with o the new Service: the old  *)
(* Service of this version is overwritten with the nodes that went and     *)
(* sent as a deletion, then the new one is sent.                           *)
HandlerDiff(w, v, o) ==
    LET p == srv[w]
        nodes == NodesIn(p.snap, v)
        known == v \in DOMAIN p.old
        gone == IF known THEN obj[p.old[v]].nodes \ nodes ELSE {}
        born == [obj EXCEPT ![o] = [version |-> v, nodes |-> nodes]] IN
    /\ p.pc = "diff" /\ p.out = <<>> /\ v \in p.todo /\ o \in Objs
    /\ obj' = IF gone = {} THEN born ELSE [born EXCEPT ![p.old[v]].nodes = gone]
    /\ srv' = [srv EXCEPT
                 ![w].todo = @ \ {v},
                 ![w].new = [u \in DOMAIN @ \cup {v} |-> IF u = v THEN o ELSE @[u]],
                 ![w].out = (IF gone = {} THEN <<>> ELSE <<Result("delete", p.old[v])>>)
                            \o <<Result(IF known THEN "update" ELSE "create", o)>>]
    /\ UNCHANGED <<agent, changes, cw, svcs>>

(* Then the versions that have no entries any more.                        *)
Vanished(w) == IF srv[w].todo = {} THEN DOMAIN srv[w].old \ DOMAIN srv[w].new ELSE {}

HandlerDelete(w, v) ==
    /\ srv[w].pc = "diff" /\ srv[w].out = <<>> /\ v \in Vanished(w)
    /\ srv' = [srv EXCEPT ![w].old = [u \in DOMAIN @ \ {v} |-> @[u]],
                          ![w].out = <<Result("delete", srv[w].old[v])>>]
    /\ UNCHANGED <<agent, changes, obj, cw, svcs>>

HandlerSend(w) ==
    /\ srv[w].out # <<>> /\ Len(cw[w].next) < Cap
    /\ cw' = [cw EXCEPT ![w].next = Append(@, Head(srv[w].out))]
    /\ srv' = [srv EXCEPT ![w].out = Tail(@)]
    /\ UNCHANGED <<agent, changes, obj, svcs>>

HandlerDone(w) ==
    /\ srv[w].pc = "diff" /\ srv[w].out = <<>>
    /\ srv[w].todo = {} /\ Vanished(w) = {}
    /\ cw' = IF srv[w].new = NoServices THEN cw
             ELSE [cw EXCEPT ![w].services = srv[w].new]
    /\ srv' = [srv EXCEPT ![w].pc = "idle", ![w].old = NoServices,
                          ![w].new = NoServices]
    /\ UNCHANGED <<agent, changes, obj, svcs>>

-----------------------------------------------------------------------------
(* Next takes a result, also after exit is closed if one is left.          *)
NextResult(w) ==
    /\ cw[w].next # <<>>
    /\ cw' = [cw EXCEPT ![w].next = Tail(@)]

(* Stop: exit is closed, the "services" plan stopped, next drained. The    *)
(* plans in cw.watchers are not stopped.                                   *)
Stop(w) ==
    cw' = IF cw[w].exit THEN cw
          ELSE [cw EXCEPT ![w].exit = TRUE, ![w].next = <<>>]

Watching(w, o) ==
    \/ HandleFetch(w) \/ HandleAdd(w) \/ HandleRemove(w) \/ HandleNothing(w)
    \/ HandleSend(w) \/ ServiceFetch(w) \/ ServicePlanEnd(w) \/ HandlerCopy(w)
    \/ \E v \in Versions : HandlerDiff(w, v, o) \/ HandlerDelete(w, v)
    \/ HandlerSend(w) \/ HandlerDone(w)

WatcherTypeOK ==
    /\ agent \in [Nodes -> Statuses] /\ changes \in 0..MaxChanges
    /\ obj \in [Objs -> [version : Versions, nodes : SUBSET Nodes]]
    /\ \A w \in Watchers :
         /\ cw[w].services \in Services /\ Len(cw[w].next) <= Cap
         /\ Pending(cw[w].next) \subseteq Objs \cup {NoObj}
         /\ srv[w].old \in Services /\ srv[w].new \in Services
         /\ srv[w].pc \in {"none", "idle", "fetched", "diff"}
         /\ svcs[w].pc \in {"none", "idle", "handle", "send"}
=============================================================================
