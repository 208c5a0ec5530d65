---------------------------- MODULE MonitorState ----------------------------
(***************************************************************************)
(* The pause/resume/quit handshake between the monitor consoles and the    *)
(* vCPU (core/src/monitor.rs), reached by the consoles through the mutex   *)
(* around MonitorService (monitor/src/{hmp,mmp,service}.rs) and by the     *)
(* Ctrl+A X key directly (src/main.rs).  The vCPU side, check_pause, is    *)
(* here too; RunControl says when the exec loop calls it.                  *)
(*                                                                         *)
(* VmState is guarded by the mutex `inner`.  A method that holds it from   *)
(* beginning to end is one step.  request_quit also touches state that the *)
(* vCPU reads without the mutex, so it is several steps, and innerHeld     *)
(* says that it is between two of them with the mutex in its hands.        *)
(***************************************************************************)
EXTENDS Naturals

CONSTANTS
    Clients,    \* threads that give monitor commands
    NoClient    \* the service mutex is free

ASSUME ClientsAssumption == NoClient \notin Clients

VARIABLES
    vmState,        \* MonitorState.inner
    innerHeld,      \* request_quit holds the mutex `inner` between its steps
    quitRequested,  \* MonitorState.quit_requested
    parker,         \* the vCPU's place in check_pause
    snapshot,       \* MonitorState.snapshot, compared with the vCPU's registers
    svc,            \* owner of the mutex around MonitorService
    cpc,            \* what each client is doing
    wkAttached,     \* MonitorState.wfi_waker is the waker of this machine
    flagAttached,   \* MonitorState.stop_flag is the flag of this machine
    negAttached,    \* MonitorState.neg_align_ptr points to this machine's CPU
    runFlag,        \* CpuManager.running
    negAlign,       \* the CPU's exit request (neg_align < 0)
    irqPending, stopped, monitorWake, waiter, ret    \* the WfiWaker

(* The waker of the running machine.  Deadlines are AclintTimer's subject; *)
(* here there is none ({} stands for Rust's None).                         *)
WK == INSTANCE WfiWaker WITH
        Instants <- {}, MaxTime <- 0, now <- 0,
        NoDeadline <- {}, deadline <- {}, armed <- {}

wakerVars == <<irqPending, stopped, monitorWake, waiter, ret>>
attachVars == <<wkAttached, flagAttached, negAttached>>
monitorVars == <<vmState, innerHeld, quitRequested, parker, snapshot>>
clientVars == <<svc, cpc>>

VmStates == {"Running", "PauseRequested", "Paused"}
ClientStates == {"idle", "stopAsleep", "stopNotified",
                 "quitFlag", "quitInner", "quitLoad", "quitStore", "quitStale",
                 "gone"}

MonitorTypeOK ==
    /\ vmState \in VmStates
    /\ innerHeld \in BOOLEAN
    /\ quitRequested \in BOOLEAN
    /\ parker \in {"out", "asleep", "notified"}
    /\ snapshot \in {"none", "current", "outdated"}
    /\ svc \in Clients \cup {NoClient}
    /\ cpc \in [Clients -> ClientStates]
    /\ wkAttached \in BOOLEAN
    /\ flagAttached \in BOOLEAN
    /\ negAttached \in BOOLEAN
    /\ runFlag \in BOOLEAN
    /\ negAlign \in BOOLEAN
    /\ irqPending \in BOOLEAN
    /\ stopped \in BOOLEAN
    /\ monitorWake \in BOOLEAN
    /\ waiter \in WK!WaiterStates
    /\ ret \in BOOLEAN

MonitorInit ==
    /\ vmState = "Running"
    /\ innerHeld = FALSE
    /\ quitRequested = FALSE
    /\ parker = "out"
    /\ snapshot = "none"
    /\ svc = NoClient
    /\ cpc = [c \in Clients |-> "idle"]

-----------------------------------------------------------------------------
(* Condvar signals.  pause_barrier: clients in request_stop; resume_cv:    *)
(* the vCPU in check_pause.                                                *)
NotifyBarrier(pcs) ==
    [c \in Clients |-> IF pcs[c] = "stopAsleep" THEN "stopNotified" ELSE pcs[c]]
NotifyResume ==
    parker' = IF parker = "asleep" THEN "notified" ELSE parker

(* The waker calls made while holding `inner`; no-ops while the monitor    *)
(* has no waker of this machine.                                           *)
WakeForMonitor ==
    IF wkAttached THEN WK!MonitorWake ELSE UNCHANGED wakerVars
ForgetMonitorWake ==
    IF wkAttached THEN WK!ClearMonitorWake ELSE UNCHANGED wakerVars
StopWaker ==
    IF wkAttached THEN WK!Stop ELSE UNCHANGED wakerVars

-----------------------------------------------------------------------------
(* request_stop() that reports the pause without waiting for it. *)
RequestStopAtOnce(c) ==
    /\ cpc[c] = "idle" /\ svc = NoClient /\ ~innerHeld
    /\ vmState # "Paused"
    /\ vmState' = "Paused"
    /\ WakeForMonitor
    /\ UNCHANGED <<innerHeld, quitRequested, parker, snapshot, clientVars,
                   runFlag, negAlign, attachVars>>

(* request_stop() that does not wake a vCPU in WFI. *)
RequestStopNoWake(c) ==
    /\ cpc[c] = "idle" /\ svc = NoClient /\ ~innerHeld
    /\ vmState # "Paused"
    /\ vmState' = "PauseRequested"
    /\ cpc' = [cpc EXCEPT ![c] = "stopAsleep"]
    /\ svc' = c
    /\ UNCHANGED <<innerHeld, quitRequested, parker, snapshot, runFlag,
                   negAlign, attachVars, wakerVars>>

(* The stop command: request_stop() under the service mutex, which stays   *)
(* locked while the call waits for the vCPU to park.                       *)
RequestStop(c) ==
    /\ cpc[c] = "idle" /\ svc = NoClient /\ ~innerHeld
    /\ vmState # "Paused"
    /\ vmState' = "PauseRequested"
    /\ WakeForMonitor
    /\ cpc' = [cpc EXCEPT ![c] = "stopAsleep"]
    /\ svc' = c
    /\ UNCHANGED <<innerHeld, quitRequested, parker, snapshot, runFlag,
                   negAlign, attachVars>>

RequestStopWoken(c) ==
    /\ cpc[c] = "stopNotified" /\ ~innerHeld
    /\ IF vmState = "PauseRequested"
         THEN cpc' = [cpc EXCEPT ![c] = "stopAsleep"] /\ svc' = svc
         ELSE cpc' = [cpc EXCEPT ![c] = "idle"] /\ svc' = NoClient
    /\ UNCHANGED <<monitorVars, runFlag, negAlign, attachVars, wakerVars>>

(* request_cont() that leaves the latched monitor_wake behind. *)
RequestContKeepWake(c) ==
    /\ cpc[c] = "idle" /\ svc = NoClient /\ ~innerHeld
    /\ vmState # "Running"
    /\ vmState' = "Running"
    /\ NotifyResume
    /\ cpc' = NotifyBarrier(cpc)
    /\ UNCHANGED <<innerHeld, quitRequested, snapshot, svc, runFlag,
                   negAlign, attachVars, wakerVars>>

RequestCont(c) ==
    /\ cpc[c] = "idle" /\ svc = NoClient /\ ~innerHeld
    /\ vmState # "Running"
    /\ vmState' = "Running"
    /\ NotifyResume
    /\ cpc' = NotifyBarrier(cpc)
    /\ ForgetMonitorWake
    /\ UNCHANGED <<innerHeld, quitRequested, snapshot, svc, runFlag,
                   negAlign, attachVars>>

(* request_quit(), from a console (which holds the service mutex) or from  *)
(* the Ctrl+A X callback (which does not).                                 *)
RequestQuit(c) ==
    /\ cpc[c] = "idle"
    /\ \/ svc = NoClient /\ svc' = c
       \/ UNCHANGED svc
    /\ quitRequested' = TRUE
    /\ cpc' = [cpc EXCEPT ![c] = "quitFlag"]
    /\ UNCHANGED <<vmState, innerHeld, parker, snapshot, runFlag, negAlign,
                   attachVars, wakerVars>>

QuitStopFlag(c) ==
    /\ cpc[c] = "quitFlag"
    /\ runFlag' = (runFlag /\ ~flagAttached)
    /\ cpc' = [cpc EXCEPT ![c] = "quitInner"]
    /\ UNCHANGED <<monitorVars, svc, negAlign, attachVars, wakerVars>>

(* request_quit() that does not resume a paused vCPU. *)
QuitNoResume(c) ==
    /\ cpc[c] = "quitInner" /\ ~innerHeld
    /\ innerHeld' = TRUE
    /\ cpc' = [cpc EXCEPT ![c] = "quitLoad"]
    /\ StopWaker
    /\ UNCHANGED <<vmState, parker, quitRequested, snapshot, svc, runFlag,
                   negAlign, attachVars>>

QuitResumeAndWake(c) ==
    /\ cpc[c] = "quitInner" /\ ~innerHeld
    /\ innerHeld' = TRUE
    /\ vmState' = "Running"
    /\ NotifyResume
    /\ cpc' = [NotifyBarrier(cpc) EXCEPT ![c] = "quitLoad"]
    /\ StopWaker
    /\ UNCHANGED <<quitRequested, snapshot, svc, runFlag, negAlign, attachVars>>

QuitReturn(c) ==
    /\ innerHeld' = FALSE
    /\ cpc' = [cpc EXCEPT ![c] = "gone"]
    /\ svc' = IF svc = c THEN NoClient ELSE svc

(* neg_align_ptr is copied out of its mutex ...                            *)
QuitLoadPointer(c) ==
    /\ cpc[c] = "quitLoad"
    /\ IF negAttached
         THEN cpc' = [cpc EXCEPT ![c] = "quitStore"] /\ UNCHANGED <<svc, innerHeld>>
         ELSE QuitReturn(c)
    /\ UNCHANGED <<vmState, quitRequested, parker, snapshot, runFlag, negAlign,
                   attachVars, wakerVars>>

(* ... and then used.  "quitStale": the CPU has been dropped in between.   *)
QuitBreakChain(c) ==
    /\ cpc[c] \in {"quitStore", "quitStale"}
    /\ negAlign' = (negAlign \/ cpc[c] = "quitStore")
    /\ QuitReturn(c)
    /\ UNCHANGED <<vmState, quitRequested, parker, snapshot, runFlag,
                   attachVars, wakerVars>>

(* run_machine_cycle drops the CPU a client may hold a pointer to.         *)
DropCpu ==
    cpc' = [c \in Clients |-> IF cpc[c] = "quitStore" THEN "quitStale" ELSE cpc[c]]

ClientStep(c) ==
    \/ RequestStopWoken(c)
    \/ QuitStopFlag(c)
    \/ QuitResumeAndWake(c)
    \/ QuitLoadPointer(c)
    \/ QuitBreakChain(c)

ClientNext(c) ==
    \/ RequestStop(c)
    \/ RequestCont(c)
    \/ RequestQuit(c)
    \/ ClientStep(c)

-----------------------------------------------------------------------------
(* check_pause() that does not tell the stopping client. *)
ParkSilently ==
    /\ ~innerHeld
    /\ vmState = "PauseRequested"
    /\ vmState' = "Paused"
    /\ parker' = "asleep"
    /\ UNCHANGED <<innerHeld, quitRequested, snapshot, clientVars>>

(* check_pause(), after it found no quit request: park if asked to.        *)
Park ==
    /\ ~innerHeld
    /\ vmState = "PauseRequested"
    /\ vmState' = "Paused"
    /\ cpc' = NotifyBarrier(cpc)
    /\ parker' = "asleep"
    /\ UNCHANGED <<innerHeld, quitRequested, snapshot, svc>>

(* The wait on resume_cv loops while the state is Paused.  The state only  *)
(* leaves Paused in a step that notifies, so that a spurious wakeup finds  *)
(* it Paused and sleeps again: a stuttering step.                          *)
ParkWoken ==
    /\ parker = "notified" /\ ~innerHeld
    /\ parker' = IF vmState = "Paused" THEN "asleep" ELSE "out"
    /\ UNCHANGED <<vmState, innerHeld, quitRequested, snapshot, clientVars>>

IsPauseRequested == vmState \in {"PauseRequested", "Paused"}
=============================================================================
