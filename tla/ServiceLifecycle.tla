-------------------------- MODULE ServiceLifecycle --------------------------
(***************************************************************************)
(* One module of the application as a registered service: OnInit and       *)
(* OnDestroy of module/base/base_module.go, Run, run and Stop of           *)
(* service/service.go, ServiceRegister, ServiceDeregister and Stop of      *)
(* server/rpc_server.go, over the Register and Deregister of               *)
(* RegistryClient. Application says when the module is started and         *)
(* stopped.                                                                *)
(***************************************************************************)
EXTENDS RegistryClient

CONSTANT Heartbeat  \* RegisterInterval > 0

ASSUME LifecycleAssumption == Heartbeat \in BOOLEAN

VARIABLES
    mpc,        \* where the goroutine of the module is
    spc,        \* where service.Run is
    tpc,        \* where the heartbeat goroutine is
    cancelled,  \* the context of the service is cancelled
    ex,         \* the channel ex is closed
    up,         \* the RPC server is receiving
    late        \* history: the heartbeat registered after ServiceDeregister

serviceVars == <<registryVars, mpc, spc, tpc, cancelled, ex,
                 up, late>>

ServiceInit ==
    /\ RegistryInit
    /\ mpc = "init" /\ spc = "none" /\ tpc = "none"
    /\ cancelled = FALSE /\ ex = FALSE /\ up = FALSE /\ late = FALSE

-----------------------------------------------------------------------------
(* rpcServer.ServiceRegister. The field registered only decides what is    *)
(* logged.                                                                 *)
RegReturn(p) ==
    /\ reg[p] \in {"ok", "failed"}
    /\ AtReg(p, "idle") /\ Hold(p, NoLease)
    /\ UNCHANGED <<backend, hash, lease, entry, on, live>>

Registering(p) ==
    /\ RegisterStep(p)
    /\ late' = (late \/ (/\ p = "heartbeat" /\ entry # entry'
                         /\ spc \in {"stop", "ended", "failed"}))
    /\ UNCHANGED <<mpc, spc, tpc, cancelled, ex, up>>

-----------------------------------------------------------------------------
(* The module: BaseModule.OnInit and OnDestroy.                            *)

(* NewRPCServer starts to receive; ServiceRegister follows.                *)
ModuleInit ==
    /\ mpc = "init"
    /\ mpc' = "register" /\ up' = TRUE
    /\ Register("module")
    /\ UNCHANGED <<spc, tpc, cancelled, ex, late>>

(* An error of ServiceRegister is only logged; go service.Run().           *)
ModuleLaunch ==
    /\ mpc = "register" /\ RegReturn("module")
    /\ mpc' = "running" /\ spc' = "start"
    /\ UNCHANGED <<tpc, cancelled, ex, up, late>>

ModuleExit ==
    /\ mpc = "running"
    /\ mpc' = "await" /\ cancelled' = TRUE
    /\ UNCHANGED <<registryVars, spc, tpc, ex, up, late>>

(* <-serviceStopeds, then the server's OnDestroy. If service.Run did not   *)
(* come to stop the server, Done is called here, and may panic in wg.Wait. *)
ModuleDestroy ==
    /\ mpc = "await" /\ spc \in {"ended", "failed"}
    /\ mpc' = "destroyed"
    /\ \/ up' = FALSE
       \/ spc = "failed" /\ UNCHANGED up
    /\ UNCHANGED <<registryVars, spc, tpc, cancelled, ex, late>>

-----------------------------------------------------------------------------
(* service.Run, Start and Stop.                                            *)

ServiceStart ==
    /\ spc = "start"
    /\ Register("service")
    /\ spc' = "register"
    /\ UNCHANGED <<mpc, tpc, cancelled, ex, up, late>>

(* Start failed: Run returns, and nobody registers ever again.             *)
ServiceRun ==
    /\ spc = "register" /\ RegReturn("service")
    /\ IF reg["service"] = "ok"
       THEN spc' = "run" /\ tpc' = IF Heartbeat THEN "idle" ELSE "ended"
       ELSE spc' = "failed" /\ UNCHANGED tpc
    /\ UNCHANGED <<mpc, cancelled, ex, up, late>>

(* Mutants: the server is stopped without deregistration; ex is not        *)
(* closed; the heartbeat is joined before it is told to end.               *)
ServiceExitStops ==
    /\ spc = "run" /\ cancelled
    /\ ex' = TRUE /\ spc' = "stop"
    /\ UNCHANGED <<registryVars, mpc, tpc, cancelled, up, late>>

ServiceExitKeepsEx ==
    /\ spc = "run" /\ cancelled
    /\ spc' = "deregister"
    /\ UNCHANGED <<registryVars, mpc, tpc, cancelled, ex, up, late>>

ServiceExitJoinsFirst ==
    /\ spc = "run" /\ cancelled /\ tpc = "ended"
    /\ ex' = TRUE /\ spc' = "deregister"
    /\ UNCHANGED <<registryVars, mpc, tpc, cancelled, up, late>>

(* <-Context.Done(), close(ex).                                            *)
ServiceExit ==
    /\ spc = "run" /\ cancelled
    /\ ex' = TRUE /\ spc' = "deregister"
    /\ UNCHANGED <<registryVars, mpc, tpc, cancelled, up, late>>

(* ServiceDeregister; an error makes Stop return before the server is      *)
(* stopped.                                                                *)
ServiceForget ==
    /\ spc = "deregister" /\ Forget
    /\ spc' = "deregisterCall"
    /\ UNCHANGED <<mpc, tpc, cancelled, ex, up, late>>

ServiceDeregister ==
    /\ spc = "deregisterCall"
    /\ \/ Remove(TRUE) /\ spc' = "stop"
       \/ Remove(FALSE) /\ spc' = "failed"
    /\ UNCHANGED <<mpc, tpc, cancelled, ex, up, late>>

(* s.server.Done() returns.                                                *)
ServiceStop ==
    /\ spc = "stop"
    /\ up' = FALSE /\ spc' = "ended"
    /\ UNCHANGED <<registryVars, mpc, tpc, cancelled, ex, late>>

-----------------------------------------------------------------------------
(* service.run: a tick and a closed ex may both be ready.                  *)

HeartbeatTick ==
    /\ tpc = "idle"
    /\ Register("heartbeat")
    /\ tpc' = "register"
    /\ UNCHANGED <<mpc, spc, cancelled, ex, up, late>>

HeartbeatDone ==
    /\ tpc = "register" /\ RegReturn("heartbeat")
    /\ tpc' = "idle"
    /\ UNCHANGED <<mpc, spc, cancelled, ex, up, late>>

HeartbeatExit ==
    /\ tpc = "idle" /\ ex
    /\ tpc' = "ended"
    /\ UNCHANGED <<registryVars, mpc, spc, cancelled, ex, up, late>>

Service == \/ ServiceStart \/ ServiceRun \/ ServiceExit \/ ServiceForget
           \/ ServiceDeregister \/ ServiceStop

(* A goroutine is inside s.server.Done(): it waits for requests and for    *)
(* the receive loop, and need not come back (Jammed in RpcServer).         *)
InDone == spc = "stop" \/ (mpc = "await" /\ spc = "failed")

-----------------------------------------------------------------------------
ServiceTypeOK ==
    /\ RegistryTypeOK
    /\ mpc \in {"init", "register", "running", "await", "destroyed"}
    /\ spc \in {"none", "start", "register", "run", "deregister",
                "deregisterCall", "stop", "ended", "failed"}
    /\ tpc \in {"none", "idle", "register", "ended"}
    /\ cancelled \in BOOLEAN /\ ex \in BOOLEAN /\ up \in BOOLEAN
    /\ late \in BOOLEAN
=============================================================================
