-------------------------- MODULE ApplicationProofs --------------------------
(***************************************************************************)
(* The safety properties of a process, for any number of modules and any   *)
(* place of the service among them. StoppedIsDeregistered rests on who may *)
(* be inside Register (Callers): once ServiceDeregister has succeeded only *)
(* the heartbeat is. WheelOutlivesModules rests on the order of Destroy    *)
(* (Stopping): what comes after the module it is at has returned.          *)
(***************************************************************************)
EXTENDS Application, TLAPS

(* Who is inside Register, and what that and the service's progress say.   *)
Callers ==
    /\ mpc \in {"init", "register"} => spc = "none"
    /\ reg["module"] # "idle" => mpc = "register"
    /\ reg["service"] # "idle" => spc = "register"
    /\ mpc # "init" /\ spc \notin {"ended", "failed"} => up
    /\ spc \in {"stop", "ended"} /\ entry # "none" => late

(* Where the loops of Init and Destroy are, and whom they have stopped.    *)
Stopping ==
    /\ main = "init" => cur \in Mods /\ step \in {"init", "launch"}
    /\ main = "started" => step = "signal"
    /\ main = "closing" => step \in {"signal", "wait", "destroy"}
    /\ main = "closing" /\ step # "signal" => cur # 0
    /\ main = "closing" /\ step = "destroy" => run[cur] = "returned"
    /\ main = "closing" => \A m \in Mods : m > cur => run[m] = "returned"
    /\ main = "closing" /\ Svc > cur => mpc \in {"destroyed", "running"}
    /\ closeSig[Timer] => main = "closing" /\ cur <= 1
    /\ run[Timer] = "returned" => closeSig[Timer]

(* The inductive invariant.                                                *)
IndInv == TypeOK /\ Callers /\ Stopping

-----------------------------------------------------------------------------
(* What the operations of the registry client do, whoever calls them.      *)

(* There is an identifier for a new lease.                                 *)
LEMMA FreeLease ==
  ASSUME RegistryTypeOK
  PROVE  (CHOOSE i \in Leases : i \notin {lease, on}) \in Leases
<1>1. \E i \in Leases : i \notin {lease, on}
  <2>1. 1 \in Leases /\ 2 \in Leases /\ 3 \in Leases
    BY DEF Leases
  <2> QED
    BY <2>1
<1> QED
  BY <1>1

(* The start of Register.                                                  *)
LEMMA RegisterEffect ==
  ASSUME RegistryTypeOK, NEW p \in Procs, Register(p)
  PROVE  /\ RegistryTypeOK' /\ entry' = entry
         /\ \A q \in Procs \ {p} : reg'[q] = reg[q]
BY DEF RegistryTypeOK, Register, ConsulBegin, EtcdBegin, AtReg, Hold

(* A step inside Register.                                                 *)
LEMMA StepEffect ==
  ASSUME RegistryTypeOK, NEW p \in Procs, RegisterStep(p)
  PROVE  /\ RegistryTypeOK' /\ reg[p] # "idle"
         /\ \A q \in Procs \ {p} : reg'[q] = reg[q]
<1> USE DEF RegistryTypeOK, AtReg, Hold
<1>1. CASE ConsulPass(p) \/ ConsulRegister(p) \/ ConsulPass2(p)
  BY <1>1 DEF ConsulPass, ConsulRegister, ConsulPass2
<1>2. CASE ConsulSave(p) \/ EtcdSave(p)
  BY <1>2 DEF ConsulSave, EtcdSave, HashOf
<1>3. CASE EtcdKeepAlive(p) \/ EtcdCompare(p)
  BY <1>3 DEF EtcdKeepAlive, EtcdCompare
<1>4. CASE EtcdGrant(p)
  BY <1>4, FreeLease DEF EtcdGrant
<1>5. CASE EtcdPut(p)
  BY <1>5 DEF EtcdPut
<1> QED
  BY <1>1, <1>2, <1>3, <1>4, <1>5 DEF RegisterStep

(* The return of Register.                                                 *)
LEMMA ReturnEffect ==
  ASSUME RegistryTypeOK, NEW p \in Procs, RegReturn(p)
  PROVE  /\ RegistryTypeOK' /\ entry' = entry /\ reg'[p] = "idle"
         /\ \A q \in Procs \ {p} : reg'[q] = reg[q]
BY DEF RegistryTypeOK, RegReturn, AtReg, Hold, NoLease

(* Deregister, and what runs out in the registry.                          *)
LEMMA RemoveEffect ==
  ASSUME RegistryTypeOK
  PROVE  /\ Forget => RegistryTypeOK' /\ reg' = reg /\ entry' = entry
         /\ \A ok \in BOOLEAN : Remove(ok) => /\ RegistryTypeOK' /\ reg' = reg
                                              /\ ok => entry' = "none"
BY DEF RegistryTypeOK, Forget, Remove, NoLease, Outcome

(* What runs out in the registry removes an entry and adds none.           *)
LEMMA ExpireEffect ==
  ASSUME RegistryTypeOK, ExpireEntry \/ ExpireLease
  PROVE  RegistryTypeOK' /\ reg' = reg /\ (entry' # "none" => entry # "none")
BY DEF RegistryTypeOK, ExpireEntry, ExpireLease, NoLease

-----------------------------------------------------------------------------
(* The types and Callers under the actions of the service.                 *)
LEMMA ServiceStep ==
  ASSUME ServiceTypeOK, Callers,
         \/ ModuleInit \/ ModuleLaunch \/ ModuleExit \/ ModuleDestroy
         \/ Service \/ HeartbeatTick \/ HeartbeatDone \/ HeartbeatExit
         \/ \E p \in Procs : Registering(p)
  PROVE  ServiceTypeOK' /\ Callers'
<1> USE LifecycleAssumption DEF ServiceTypeOK, Callers
<1>0. /\ RegistryTypeOK
      /\ "module" \in Procs /\ "service" \in Procs /\ "heartbeat" \in Procs
  BY DEF Procs
<1>1. CASE ModuleInit
  BY <1>0, <1>1, RegisterEffect DEF ModuleInit
<1>2. CASE ModuleLaunch
  BY <1>0, <1>2, ReturnEffect DEF ModuleLaunch
<1>3. CASE ModuleExit \/ ModuleDestroy
  <2>1. RegistryTypeOK' /\ UNCHANGED <<reg, entry>>
    BY <1>0, <1>3 DEF ModuleExit, ModuleDestroy, registryVars, RegistryTypeOK
  <2>2. cancelled' \in BOOLEAN /\ up' \in BOOLEAN /\ UNCHANGED <<spc, tpc, ex, late>>
    BY <1>3, Zenon DEF ModuleExit, ModuleDestroy
  <2>3. \/ mpc = "running" /\ mpc' = "await" /\ up' = up
        \/ mpc = "await" /\ mpc' = "destroyed" /\ spc \in {"ended", "failed"}
    BY <1>3, Zenon DEF ModuleExit, ModuleDestroy
  <2> QED
    BY <2>1, <2>2, <2>3
<1>4. CASE ServiceStart
  BY <1>0, <1>4, RegisterEffect DEF ServiceStart
<1>5. CASE ServiceRun
  BY <1>0, <1>5, ReturnEffect DEF ServiceRun
<1>6. CASE ServiceExit \/ ServiceStop
  <2>1. /\ ex' \in BOOLEAN /\ up' \in BOOLEAN
        /\ UNCHANGED <<registryVars, mpc, tpc, cancelled, late>>
    BY <1>6, Zenon DEF ServiceExit, ServiceStop
  <2>2. (spc = "run" /\ spc' = "deregister" /\ up' = up) \/ (spc = "stop" /\ spc' = "ended")
    BY <1>6, Zenon DEF ServiceExit, ServiceStop
  <2> QED
    BY <2>1, <2>2 DEF registryVars, RegistryTypeOK
<1>7. CASE ServiceForget
  BY <1>0, <1>7, RemoveEffect DEF ServiceForget
<1>8. CASE ServiceDeregister
  BY <1>0, <1>8, RemoveEffect DEF ServiceDeregister
<1>9. CASE HeartbeatTick
  BY <1>0, <1>9, RegisterEffect DEF HeartbeatTick
<1>10. CASE HeartbeatDone
  BY <1>0, <1>10, ReturnEffect DEF HeartbeatDone
<1>11. CASE HeartbeatExit
  BY <1>11 DEF HeartbeatExit, registryVars, RegistryTypeOK
<1>12. ASSUME NEW p \in Procs, Registering(p) PROVE ServiceTypeOK' /\ Callers'
  <2>1. /\ RegistryTypeOK' /\ reg[p] # "idle"
        /\ \A q \in Procs \ {p} : reg'[q] = reg[q]
    BY <1>0, <1>12, StepEffect DEF Registering
  <2>2. late' \in BOOLEAN /\ (late => late') /\ UNCHANGED <<mpc, spc, tpc, cancelled, ex, up>>
    BY <1>12, Zenon DEF Registering
  <2>3. ASSUME spc \in {"stop", "ended"}, entry' # "none" PROVE late'
    <3>1. p = "heartbeat"
      BY <2>1, <2>3 DEF Procs
    <3> QED
      BY <1>12, <2>3, <3>1 DEF Registering
  <2> QED
    BY <1>0, <2>1, <2>2, <2>3
<1> QED
  BY <1>1, <1>2, <1>3, <1>4, <1>5, <1>6, <1>7, <1>8, <1>9, <1>10, <1>11, <1>12
  DEF Service

(* The end of the process: the registry keeps its entry, the rest starts   *)
(* from nothing.                                                           *)
LEMMA EndStep ==
  ASSUME IndInv, NEW how \in Ended, EndProcess(how)
  PROVE  IndInv'
<1> USE ApplicationAssumption DEF IndInv, EndProcess, Ended
<1>1. TypeOK'
  <2>1. RegistryTypeOK'
    BY DEF TypeOK, ServiceTypeOK, RegistryTypeOK, NoLease
  <2>2. /\ cancelled' \in BOOLEAN /\ ex' \in BOOLEAN /\ up' \in BOOLEAN
        /\ late' \in BOOLEAN /\ closeSig' \in [Mods -> BOOLEAN]
    BY Zenon
  <2>3. cur' \in 0 .. N /\ run' \in [Mods -> {"none", "running", "returned", "panicked"}]
    BY DEF Mods
  <2> QED
    BY <2>1, <2>2, <2>3 DEF TypeOK, ServiceTypeOK
<1>2. Callers'
  BY DEF Callers, Procs
<1>3. Stopping'
  BY DEF Stopping, Mods, Timer
<1> QED
  BY <1>1, <1>2, <1>3

(* The manager's loops and the modules' goroutines.                        *)
LEMMA ManagerStep ==
  ASSUME IndInv, UNCHANGED serviceVars,
         \/ InitModule \/ LaunchModule \/ DestroySignal \/ DestroyWait \/ Signal
         \/ DestroyModule
         \/ \E m \in Mods : RunReturn(m) \/ RunPanic(m)
  PROVE  IndInv'
<1> USE ApplicationAssumption DEF IndInv, Mods, Timer
<1>1. ServiceTypeOK' /\ Callers'
  BY DEF TypeOK, ServiceTypeOK, RegistryTypeOK, Callers, serviceVars, registryVars
<1>2. mpc' = mpc
  BY DEF serviceVars
<1> USE <1>1, <1>2 DEF TypeOK, Stopping
<1>3. CASE InitModule
  BY <1>3 DEF InitModule
<1>4. CASE LaunchModule
  BY <1>4 DEF LaunchModule
<1>5. CASE DestroySignal
  BY <1>5 DEF DestroySignal
<1>6. CASE DestroyWait
  BY <1>6 DEF DestroyWait
<1>7. CASE Signal
  BY <1>7 DEF Signal
<1>8. CASE DestroyModule
  BY <1>8 DEF DestroyModule, ModuleDestroy
<1>9. ASSUME NEW m \in Mods, RunReturn(m) \/ RunPanic(m) PROVE IndInv'
  BY <1>9 DEF RunReturn, RunPanic
<1> QED
  BY <1>3, <1>4, <1>5, <1>6, <1>7, <1>8, <1>9

(* The loops' own part of the invariant, when they do not move.            *)
LEMMA Standing ==
  ASSUME TypeOK, Stopping, UNCHANGED appVars, ServiceTypeOK',
         mpc' = mpc \/ (main = "closing" => Svc <= cur)
  PROVE  TypeOK' /\ Stopping'
BY ApplicationAssumption DEF TypeOK, Stopping, appVars, Mods, Timer

(* Every action keeps the invariant.                                       *)
LEMMA Step == IndInv /\ [Next]_vars => IndInv'
<1> SUFFICES ASSUME IndInv, [Next]_vars PROVE IndInv'
  OBVIOUS
<1>0. TypeOK /\ ServiceTypeOK /\ Callers /\ Stopping
  BY DEF IndInv, TypeOK
<1>1. CASE InitModule \/ LaunchModule \/ DestroySignal \/ DestroyWait \/ Signal
  BY <1>1, ManagerStep
     DEF InitModule, LaunchModule, DestroySignal, DestroyWait, Signal
<1>2. ASSUME NEW m \in Mods, RunReturn(m) \/ RunPanic(m) PROVE IndInv'
  BY <1>2, ManagerStep DEF RunReturn, RunPanic
<1>3. CASE InitService
  <2>1. ServiceTypeOK' /\ Callers'
    BY <1>0, <1>3, ServiceStep DEF InitService
  <2>2. /\ main = "init" /\ step' \in {"init", "launch"}
        /\ UNCHANGED <<main, cur, run, closeSig>>
    BY <1>3 DEF InitService
  <2> QED
    BY <1>0, <2>1, <2>2 DEF IndInv, TypeOK, Stopping
<1>4. CASE DestroyModule
  <2>1. CASE UNCHANGED serviceVars
    BY <1>4, <2>1, ManagerStep
  <2>2. CASE cur = Svc /\ ModuleDestroy
    <3>1. ServiceTypeOK' /\ Callers' /\ mpc' = "destroyed"
      BY <1>0, <2>2, ServiceStep DEF ModuleDestroy
    <3>2. /\ main = "closing" /\ step = "destroy" /\ cur' = cur - 1 /\ step' = "signal"
          /\ UNCHANGED <<main, run, closeSig>>
      BY <1>4 DEF DestroyModule
    <3> QED
      BY <1>0, <2>2, <3>1, <3>2, ApplicationAssumption
         DEF IndInv, TypeOK, Stopping, Mods, Timer
  <2> QED
    BY <1>4, <2>1, <2>2 DEF DestroyModule
<1>5. CASE DestroyService
  <2>1. ServiceTypeOK' /\ Callers'
    BY <1>0, <1>5, ServiceStep DEF DestroyService
  <2> QED
    BY <1>0, <1>5, <2>1, Standing, ApplicationAssumption DEF DestroyService, IndInv
<1>6. CASE Close \/ Timeout \/ Crash
  BY <1>6, EndStep DEF Close, Timeout, Crash, Ended
<1>7. CASE \/ Goroutine(Service) \/ Goroutine(HeartbeatTick)
           \/ Goroutine(HeartbeatDone) \/ Goroutine(HeartbeatExit)
           \/ \E p \in Procs : Goroutine(Registering(p))
  <2>1. ServiceTypeOK' /\ Callers' /\ UNCHANGED appVars
    BY <1>0, <1>7, ServiceStep DEF Goroutine
  <2>2. mpc' = mpc
    BY <1>7 DEF Goroutine, Service, ServiceStart, ServiceRun, ServiceExit, ServiceForget,
                ServiceDeregister, ServiceStop, HeartbeatTick, HeartbeatDone,
                HeartbeatExit, Registering
  <2> QED
    BY <1>0, <2>1, <2>2, Standing DEF IndInv
<1>8. CASE Expire(ExpireEntry) \/ Expire(ExpireLease)
  <2>1. /\ RegistryTypeOK' /\ reg' = reg /\ (entry' # "none" => entry # "none")
        /\ UNCHANGED <<mpc, spc, tpc, cancelled, ex, up, late, appVars>>
    BY <1>0, <1>8, ExpireEffect DEF Expire, ServiceTypeOK
  <2>2. ServiceTypeOK' /\ Callers'
    BY <1>0, <2>1 DEF ServiceTypeOK, Callers
  <2> QED
    BY <1>0, <2>1, <2>2, Standing DEF IndInv
<1>9. CASE UNCHANGED vars
  <2>1. ServiceTypeOK' /\ Callers' /\ UNCHANGED appVars /\ mpc' = mpc
    BY <1>0, <1>9 DEF vars, serviceVars, registryVars, ServiceTypeOK, RegistryTypeOK, Callers
  <2> QED
    BY <1>0, <2>1, Standing DEF IndInv
<1> QED
  BY <1>1, <1>2, <1>3, <1>4, <1>5, <1>6, <1>7, <1>8, <1>9 DEF Next, Manager

(* A process starts with the invariant.                                    *)
LEMMA Begin == Init => IndInv
<1> SUFFICES ASSUME Init PROVE IndInv
  OBVIOUS
<1> USE ApplicationAssumption DEF Init, ServiceInit, RegistryInit
<1>1. RegistryTypeOK
  BY RegistryAssumption DEF RegistryTypeOK, NoLease
<1>2. /\ cancelled \in BOOLEAN /\ ex \in BOOLEAN /\ up \in BOOLEAN
      /\ late \in BOOLEAN /\ closeSig \in [Mods -> BOOLEAN]
  BY Zenon
<1>3. cur \in Mods /\ Mods \subseteq 0 .. N
  BY DEF Mods
<1>4. TypeOK
  BY <1>1, <1>2, <1>3 DEF TypeOK, ServiceTypeOK
<1>5. Callers
  BY DEF Callers, Procs
<1>6. Stopping
  BY <1>3 DEF Stopping, Mods, Timer
<1> QED
  BY <1>4, <1>5, <1>6 DEF IndInv

(* IndInv always holds.                                                    *)
LEMMA Invariance == Spec => []IndInv
BY Begin, Step, PTL DEF Spec

(* The process and its registry keep their types.                          *)
THEOREM TypeCorrect == Spec => []TypeOK
<1>1. IndInv => TypeOK
  BY DEF IndInv
<1> QED
  BY Invariance, <1>1, PTL

(* The entry of a stopped node is gone, unless Start or ServiceDeregister  *)
(* failed or a heartbeat was under way.                                    *)
THEOREM Deregistered == Spec => []StoppedIsDeregistered
<1>1. IndInv => StoppedIsDeregistered
  BY DEF IndInv, Callers, StoppedIsDeregistered
<1> QED
  BY Invariance, <1>1, PTL

(* The wheel has not returned as long as any module may still use it, for  *)
(* every number of modules.                                                *)
THEOREM WheelLast == Spec => []WheelOutlivesModules
<1>1. IndInv => WheelOutlivesModules
  BY ApplicationAssumption DEF IndInv, TypeOK, Stopping, WheelOutlivesModules, Mods, Timer
<1> QED
  BY Invariance, <1>1, PTL
=============================================================================
