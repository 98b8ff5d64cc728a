--------------------------- MODULE RegistryClient ---------------------------
(***************************************************************************)
(* Register and Deregister of the two registries an application can use:   *)
(* registry/consul_registry.go and registry/etcdv3/etcdv3.go, for one      *)
(* service, with RegisterTTL above zero. Consul and etcd are external: the *)
(* consul agent keeps an entry with a health check that turns critical     *)
(* when its TTL runs out, and removes what stays critical; etcd keeps the  *)
(* entry as long as the lease it was put with.                             *)
(*                                                                         *)
(* Every call to the registry is a step of its own. With MayFail it may    *)
(* have no effect, or have its effect and lose the answer.                 *)
(***************************************************************************)
EXTENDS Naturals

CONSTANTS
    Backends,   \* the registries to consider: a subset of {"consul", "etcd"}
    MayFail     \* calls to the registry may return an error

ASSUME RegistryAssumption ==
    Backends \subseteq {"consul", "etcd"} /\ MayFail \in BOOLEAN

(* The goroutines that register: the module's, the service's, the          *)
(* heartbeat's.                                                            *)
Procs == {"module", "service", "heartbeat"}

(* Identifiers of leases are used again once nothing refers to them; the   *)
(* leases referred to are the saved one, the entry's and one just granted. *)
Leases == 1 .. 3
NoLease == 0

VARIABLES
    backend,    \* the registry of the application
    reg,        \* reg[p]: where p is inside Register
    hash,       \* the hash the client holds for the service (register)
    lease,      \* etcd: the lease the client holds for the service (leases)
    held,       \* held[p]: etcd: the lease p has read or was granted
    entry,      \* the registry's entry: "none", "critical" or "passing"
    on,         \* etcd: the lease the entry was put with
    live        \* etcd: the leases that have not run out

registryVars == <<backend, reg, hash, lease, held, entry, on, live>>

RegistryInit ==
    /\ backend \in Backends
    /\ reg = [p \in Procs |-> "idle"]
    /\ hash = "none" /\ entry = "none"
    /\ lease = NoLease /\ held = [p \in Procs |-> NoLease]
    /\ on = NoLease /\ live = {}

(* The outcomes of a call: done says whether it had its effect, ok whether *)
(* it returned without an error.                                           *)
Outcome(done, ok) == (ok => done) /\ (ok \/ MayFail)

(* The metadata hostname and pid are added after the first registration,   *)
(* so that one is made with another hash.                                  *)
HashOf(p) == IF p = "module" THEN "bare" ELSE "full"

AtReg(p, label) == reg' = [reg EXCEPT ![p] = label]
Hold(p, l) == held' = [held EXCEPT ![p] = l]

-----------------------------------------------------------------------------
(* consulRegistry.Register.                                                *)

(* A known hash only needs its check passed.                               *)
ConsulBegin(p) ==
    /\ backend = "consul"
    /\ AtReg(p, IF hash = HashOf(p) THEN "pass" ELSE "register")
    /\ UNCHANGED <<backend, hash, lease, held, entry, on, live>>

(* PassTTL of a known service; on an error it is registered in full.       *)
ConsulPass(p) ==
    /\ reg[p] = "pass"
    /\ \E done, ok \in BOOLEAN :
          /\ Outcome(done, ok) \/ (entry = "none" /\ ~ok)
          /\ done => entry # "none"
          /\ entry' = IF done THEN "passing" ELSE entry
          /\ AtReg(p, IF ok THEN "ok" ELSE "register")
    /\ UNCHANGED <<backend, hash, lease, held, on, live>>

(* Agent().ServiceRegister: a new check starts out critical.               *)
ConsulRegister(p) ==
    /\ reg[p] = "register"
    /\ \E done, ok \in BOOLEAN :
          /\ Outcome(done, ok)
          /\ entry' = IF done THEN "critical" ELSE entry
          /\ AtReg(p, IF ok THEN "save" ELSE "failed")
    /\ UNCHANGED <<backend, hash, lease, held, on, live>>

ConsulSave(p) ==
    /\ reg[p] = "save"
    /\ hash' = HashOf(p) /\ AtReg(p, "pass2")
    /\ UNCHANGED <<backend, lease, held, entry, on, live>>

(* PassTTL after the registration: its error is returned.                  *)
ConsulPass2(p) ==
    /\ reg[p] = "pass2"
    /\ \E done, ok \in BOOLEAN :
          /\ Outcome(done, ok) \/ (entry = "none" /\ ~ok)
          /\ done => entry # "none"
          /\ entry' = IF done THEN "passing" ELSE entry
          /\ AtReg(p, IF ok THEN "ok" ELSE "failed")
    /\ UNCHANGED <<backend, hash, lease, held, on, live>>

-----------------------------------------------------------------------------
(* etcdv3Registry.Register.                                                *)

(* The lease is read outside the lock; without one there is nothing to     *)
(* refresh.                                                                *)
EtcdBegin(p) ==
    /\ backend = "etcd"
    /\ Hold(p, lease)
    /\ AtReg(p, IF lease = NoLease THEN "compare" ELSE "keepAlive")
    /\ UNCHANGED <<backend, hash, lease, entry, on, live>>

(* KeepAliveOnce: a lease that has run out makes p register in full, any   *)
(* other error is returned.                                                *)
EtcdKeepAlive(p) ==
    /\ reg[p] = "keepAlive"
    /\ \/ held[p] \in live /\ AtReg(p, "compare")
       \/ held[p] \notin live /\ AtReg(p, "grant")
       \/ MayFail /\ AtReg(p, "failed")
    /\ UNCHANGED <<backend, hash, lease, held, entry, on, live>>

(* An unchanged service with a live lease is not registered again.         *)
EtcdCompare(p) ==
    /\ reg[p] = "compare"
    /\ AtReg(p, IF hash = HashOf(p) THEN "ok" ELSE "grant")
    /\ UNCHANGED <<backend, hash, lease, held, entry, on, live>>

EtcdGrant(p) ==
    /\ reg[p] = "grant"
    /\ \/ LET l == CHOOSE i \in Leases : i \notin {lease, on}
          IN  /\ Hold(p, l) /\ live' = (live \cap {lease, on}) \cup {l}
              /\ AtReg(p, "put")
       \/ MayFail /\ AtReg(p, "failed") /\ UNCHANGED <<held, live>>
    /\ UNCHANGED <<backend, hash, lease, entry, on>>

(* Put with the new lease, which must not have run out.                    *)
EtcdPut(p) ==
    /\ reg[p] = "put"
    /\ \E done, ok \in BOOLEAN :
          /\ Outcome(done, ok) \/ (held[p] \notin live /\ ~ok)
          /\ done => held[p] \in live
          /\ entry' = IF done THEN "passing" ELSE entry
          /\ on' = IF done THEN held[p] ELSE on
          /\ AtReg(p, IF ok THEN "saveLease" ELSE "failed")
    /\ UNCHANGED <<backend, hash, lease, held, live>>

(* Mutant: the new lease is not kept.                                      *)
EtcdSaveHash(p) ==
    /\ reg[p] = "saveLease"
    /\ hash' = HashOf(p) /\ AtReg(p, "ok")
    /\ UNCHANGED <<backend, lease, held, entry, on, live>>

(* Hash and lease are kept under the lock.                                 *)
EtcdSave(p) ==
    /\ reg[p] = "saveLease"
    /\ hash' = HashOf(p) /\ lease' = held[p] /\ AtReg(p, "ok")
    /\ UNCHANGED <<backend, held, entry, on, live>>

-----------------------------------------------------------------------------
Register(p) == ConsulBegin(p) \/ EtcdBegin(p)

RegisterStep(p) ==
    \/ ConsulPass(p) \/ ConsulRegister(p) \/ ConsulSave(p) \/ ConsulPass2(p)
    \/ EtcdKeepAlive(p) \/ EtcdCompare(p) \/ EtcdGrant(p) \/ EtcdPut(p)
    \/ EtcdSave(p)

(* Deregister: what the client holds of the service is dropped ...         *)
Forget ==
    /\ hash' = "none" /\ lease' = NoLease
    /\ UNCHANGED <<backend, reg, held, entry, on, live>>

(* ... and then the registry is called.                                    *)
Remove(ok) ==
    /\ \E done \in BOOLEAN :
          /\ Outcome(done, ok)
          /\ entry' = IF done THEN "none" ELSE entry
          /\ on' = IF done THEN NoLease ELSE on
    /\ UNCHANGED <<backend, reg, hash, lease, held, live>>

(* The registry (external): the entry of a service that is not refreshed   *)
(* in time. The agent removes it after a minute or more in critical        *)
(* (getDeregisterTTL), never between the two calls of one Register.        *)
ExpireEntry ==
    /\ \/ backend = "consul" /\ entry = "passing" /\ entry' = "critical"
          /\ UNCHANGED <<on, live>>
       \/ /\ entry = "critical" /\ entry' = "none" /\ UNCHANGED <<on, live>>
          /\ \A p \in Procs : reg[p] \notin {"save", "pass2"}
       \/ /\ backend = "etcd" /\ entry # "none"
          /\ entry' = "none" /\ on' = NoLease /\ live' = live \ {on}
    /\ UNCHANGED <<backend, reg, hash, lease, held>>

(* A lease that no entry was put with.                                     *)
ExpireLease ==
    /\ \E l \in live \ {on} : live' = live \ {l}
    /\ UNCHANGED <<backend, reg, hash, lease, held, entry, on>>

RegistryTypeOK ==
    /\ backend \in Backends
    /\ reg \in [Procs -> {"idle", "pass", "register", "save", "pass2",
                          "keepAlive", "compare", "grant", "put", "saveLease",
                          "ok", "failed"}]
    /\ hash \in {"none", "bare", "full"}
    /\ lease \in Leases \cup {NoLease}
    /\ held \in [Procs -> Leases \cup {NoLease}]
    /\ entry \in {"none", "critical", "passing"}
    /\ on \in Leases \cup {NoLease} /\ live \subseteq Leases
=============================================================================
