---------------------------- MODULE Application -----------------------------
(***************************************************************************)
(* A process: app.Run of app/app.go with the module manager of             *)
(* module/base/ModuleManager.go and DefaultModule.go, which start the      *)
(* modules in order, wait for a signal and stop them in reverse order,     *)
(* within KillWaitTTL. The first module is the timer of                    *)
(* module/modules/timer_module.go, one of the others is the service of     *)
(* ServiceLifecycle; the rest are code of the application, which may       *)
(* return early from Run, panic, or not listen to its closeSig. When the   *)
(* process ends only the registry goes on.                                 *)
(***************************************************************************)
EXTENDS ServiceLifecycle

CONSTANTS
    N,      \* the number of modules in runMods
    Svc     \* the position of the service among them

ASSUME ApplicationAssumption == N \in Nat /\ Svc \in 2 .. N

Mods == 1 .. N
Timer == 1

VARIABLES
    main,       \* where app.Run is
    cur,        \* the module the loop of Init or Destroy is at
    step,       \* where that loop is with it
    run,        \* run[m]: the goroutine of m; its wg is 1 until it returned
    closeSig    \* closeSig[m]: the (buffered) channel holds a value or did

appVars == <<main, cur, step, run, closeSig>>
vars == <<serviceVars, appVars>>

Ended == {"closed", "killed", "crashed"}
Alive == main \notin Ended

Init ==
    /\ ServiceInit
    /\ main = "init" /\ cur = 1 /\ step = "init"
    /\ run = [m \in Mods |-> "none"]
    /\ closeSig = [m \in Mods |-> FALSE]

(* The process ends: what it held in memory is gone, the registry's part   *)
(* stays.                                                                  *)
EndProcess(how) ==
    /\ main' = how /\ cur' = 1 /\ step' = "init"
    /\ run' = [m \in Mods |-> "none"]
    /\ closeSig' = [m \in Mods |-> FALSE]
    /\ reg' = [p \in Procs |-> "idle"] /\ held' = [p \in Procs |-> NoLease]
    /\ hash' = "none" /\ lease' = NoLease
    /\ mpc' = "init" /\ spc' = "none" /\ tpc' = "none"
    /\ cancelled' = FALSE /\ ex' = FALSE /\ up' = FALSE /\ late' = FALSE
    /\ UNCHANGED <<backend, entry, on, live>>

-----------------------------------------------------------------------------
(* ModuleManager.Init: OnInit of one module after the other, then its      *)
(* goroutine. The service's OnInit is the one of ServiceLifecycle.         *)

InitModule ==
    /\ main = "init" /\ cur # Svc /\ step = "init"
    /\ step' = "launch"
    /\ UNCHANGED <<serviceVars, main, cur, run, closeSig>>

InitService ==
    /\ main = "init" /\ cur = Svc /\ step = "init"
    /\ \/ ModuleInit /\ UNCHANGED step
       \/ ModuleLaunch /\ step' = "launch"
    /\ UNCHANGED <<main, cur, run, closeSig>>

(* wg.Add(1) and go run(m); after the last one app.Run waits for a signal. *)
LaunchModule ==
    /\ main = "init" /\ step = "launch"
    /\ run' = [run EXCEPT ![cur] = "running"]
    /\ IF cur = N
       THEN main' = "started" /\ UNCHANGED cur /\ step' = "signal"
       ELSE UNCHANGED main /\ cur' = cur + 1 /\ step' = "init"
    /\ UNCHANGED <<serviceVars, closeSig>>

-----------------------------------------------------------------------------
(* run(m). The wheel returns when told to and runs jobs in goroutines with *)
(* a recovery of their own. wg.Done is not deferred: after a panic it is   *)
(* never reached.                                                          *)
RunReturn(m) ==
    /\ run[m] = "running" /\ (m = Timer => closeSig[m])
    /\ run' = [run EXCEPT ![m] = "returned"]
    /\ UNCHANGED <<serviceVars, main, cur, step, closeSig>>

RunPanic(m) ==
    /\ run[m] = "running" /\ m # Timer
    /\ run' = [run EXCEPT ![m] = "panicked"]
    /\ UNCHANGED <<serviceVars, main, cur, step, closeSig>>

-----------------------------------------------------------------------------
(* The signal, ModuleManager.Destroy in a goroutine, and the timeout.      *)

(* Mutant: the modules are stopped in the order they were started.         *)
SignalAscending ==
    /\ main = "started"
    /\ main' = "closing" /\ cur' = 1
    /\ UNCHANGED <<serviceVars, step, run, closeSig>>

Signal ==
    /\ main = "started"
    /\ main' = "closing" /\ cur' = N
    /\ UNCHANGED <<serviceVars, step, run, closeSig>>

(* Mutant: the module is only told to end when it has ended.               *)
DestroySignalLate ==
    /\ main = "closing" /\ cur # 0 /\ step = "signal"
    /\ closeSig' = [closeSig EXCEPT ![cur] = (run[cur] = "returned")]
    /\ step' = "wait"
    /\ UNCHANGED <<serviceVars, main, cur, run>>

(* closeSig has room for one value and is sent one.                        *)
DestroySignal ==
    /\ main = "closing" /\ cur # 0 /\ step = "signal"
    /\ closeSig' = [closeSig EXCEPT ![cur] = TRUE]
    /\ step' = "wait"
    /\ UNCHANGED <<serviceVars, main, cur, run>>

(* wg.Wait                                                                 *)
DestroyWait ==
    /\ main = "closing" /\ step = "wait" /\ run[cur] = "returned"
    /\ step' = "destroy"
    /\ UNCHANGED <<serviceVars, main, cur, run, closeSig>>

(* destroy(m): OnDestroy, or a panic in it that is recovered; for the      *)
(* service that leaves exit uncalled.                                      *)
DestroyModule ==
    /\ main = "closing" /\ step = "destroy"
    /\ cur' = cur - 1 /\ step' = "signal"
    /\ \/ cur # Svc /\ UNCHANGED serviceVars
       \/ cur = Svc /\ ModuleDestroy
       \/ cur = Svc /\ mpc = "running" /\ UNCHANGED serviceVars
    /\ UNCHANGED <<main, run, closeSig>>

DestroyService ==
    /\ main = "closing" /\ step = "destroy" /\ cur = Svc
    /\ ModuleExit
    /\ UNCHANGED appVars

(* wait <- struct{}{}                                                      *)
Close == main = "closing" /\ cur = 0 /\ EndProcess("closed")

Timeout == main = "closing" /\ EndProcess("killed")

(* A panic in OnInit or in a goroutine that recovers none (RpcServer has   *)
(* two, wg.Wait in service.Run among them), SIGKILL, a signal before       *)
(* Notify, or the fatal error of Go's maps when the leases are read while  *)
(* another goroutine writes.                                               *)
Crash == Alive /\ EndProcess("crashed")

-----------------------------------------------------------------------------
Manager == \/ InitModule \/ InitService \/ LaunchModule
           \/ DestroySignal \/ DestroyWait \/ DestroyModule \/ DestroyService
           \/ Close
Expire(A) == A /\ UNCHANGED <<mpc, spc, tpc, cancelled, ex, up,
                              late, appVars>>
Goroutine(A) == Alive /\ A /\ UNCHANGED appVars

Next == \/ Manager \/ Signal \/ Timeout \/ Crash
        \/ \E m \in Mods : Alive /\ (RunReturn(m) \/ RunPanic(m))
        \/ Goroutine(Service)
        \/ \E p \in Procs : Goroutine(Registering(p))
        \/ Goroutine(HeartbeatTick) \/ Goroutine(HeartbeatDone)
        \/ Goroutine(HeartbeatExit)
        \/ Expire(ExpireEntry) \/ Expire(ExpireLease)

Spec == Init /\ [][Next]_vars

(* A call of the heartbeat, to consul or to etcd, that is answered without *)
(* an error. Register is called by one goroutine at a time.                *)
Answered(calls) ==
    /\ reg["heartbeat"] \in calls /\ Goroutine(Registering("heartbeat"))
    /\ reg'["heartbeat"] # "failed"

(* Goroutines run, the wheel stops when told to, and entries run out. A    *)
(* call to the registry returns, and one repeated for ever succeeds in the *)
(* end; so does the heartbeat's choice of the closed ex over a tick.       *)
(* Nothing is assumed of the other modules' Run and of Done of the RPC     *)
(* server, and the timeout need not come.                                  *)
Fairness ==
    /\ WF_vars(Manager /\ ~InDone) /\ WF_vars(Alive /\ RunReturn(Timer))
    /\ WF_vars(Goroutine(Service) /\ ~InDone) /\ WF_vars(Expire(ExpireEntry))
    /\ WF_vars(\E p \in Procs : Goroutine(Registering(p)))
    /\ WF_vars(Goroutine(HeartbeatTick)) /\ WF_vars(Goroutine(HeartbeatDone))
    /\ SF_vars(Goroutine(HeartbeatExit))
    /\ SF_vars(Answered({"register", "keepAlive"}))
    /\ SF_vars(Answered({"grant"})) /\ SF_vars(Answered({"pass2", "put"}))

FairSpec == Spec /\ Fairness

-----------------------------------------------------------------------------
TypeOK ==
    /\ ServiceTypeOK
    /\ main \in {"init", "started", "closing"} \cup Ended
    /\ cur \in 0 .. N /\ step \in {"init", "launch", "signal", "wait", "destroy"}
    /\ run \in [Mods -> {"none", "running", "returned", "panicked"}]
    /\ closeSig \in [Mods -> BOOLEAN]

(* A node that is stopped has left the registry: its entry outlives it     *)
(* only if Start or ServiceDeregister failed, or a heartbeat was already   *)
(* under way (deregistration comes before Server.Stop).                    *)
StoppedIsDeregistered ==
    ~up /\ mpc # "init" /\ entry # "none" => late \/ spc = "failed"

(* Once the service was started it is found by others again and again,     *)
(* whatever its check or its lease does, until it is told to stop or the   *)
(* process ends.                                                           *)
StaysDiscoverable ==
    spc = "run" ~> entry = "passing" \/ cancelled \/ ~Alive

(* A destroyed module, and every module of a process that ended, however   *)
(* it ended, disappears from the registry for good: the TTL removes what a *)
(* late heartbeat brought back or nobody deregistered.                     *)
EventuallyGone == mpc = "destroyed" \/ ~Alive ~> [](entry = "none")

(* A close that hangs until KillWaitTTL hangs on one of two things: code   *)
(* of the application, a module whose Run panicked (its wg.Done is then    *)
(* skipped) or has been told to end and goes on; or Done of the RPC server *)
(* of a service, which does not come back.                                 *)
CloseHangCause ==
    <>[](main = "closing") =>
        \/ \E m \in Mods \ {Timer} :
              <>[](run[m] = "panicked" \/ (run[m] = "running" /\ closeSig[m]))
        \/ <>[]InDone

(* AddTimer and RemoveTimer block for ever once the wheel has returned:    *)
(* it goes on until every module started after it has returned from Run    *)
(* and from OnDestroy.                                                     *)
WheelOutlivesModules ==
    run[Timer] = "returned" =>
        (\A m \in Mods : run[m] = "returned") /\ mpc \in {"destroyed", "running"}

=============================================================================
