----------------------------- MODULE RunControl -----------------------------
(***************************************************************************)
(* The control flow of the RISC-V vCPU thread: machine wiring              *)
(* (src/main.rs), CpuManager::run_riscv_cpu (system/src/lib.rs), the       *)
(* dispatch loop (accel/src/exec/exec_loop.rs) with its interrupt gate,    *)
(* exit request, stop check and monitor pause, and the WFI exit            *)
(* (accel/src/exec/arch_exit.rs); composed with the monitor handshake, the *)
(* WFI waker and one interrupt source in a thread of its own.              *)
(*                                                                         *)
(* What a translated block computes is left out: while the vCPU is in      *)
(* "exec" the guest chooses how the block is left.  One interrupt line is  *)
(* modelled, enabled in mie: mip is its bit in shared_mip, ie the enable   *)
(* bit of the current privilege level.                                     *)
(***************************************************************************)
EXTENDS MonitorState

CONSTANTS
    Kicks,      \* the source also requests an exit (ACLINT timer), or not (PLIC)
    Reasons     \* ShutdownReasons the guest may ask for: "reset", "pass"

ASSUME ReasonsAssumption == Reasons \subseteq {"reset", "pass"} /\ Kicks \in BOOLEAN

VARIABLES
    vpc,        \* place of the vCPU (main) thread
    resumeTo,   \* where check_monitor_pause returns to
    needsWake,  \* local of set_wfi_waker
    mip,        \* the interrupt line's bit in shared_mip
    ie,         \* the guest has interrupts enabled
    dpc,        \* place of the interrupt source's thread
    reason      \* shutdown_reason slot

cpuVars == <<vpc, resumeTo, needsWake, ie, reason>>
vars == <<monitorVars, clientVars, attachVars, wakerVars, runFlag, negAlign,
          vpc, resumeTo, needsWake, mip, ie, dpc, reason>>

WiringPcs == {"init", "wkCheck", "wkSet", "flagSet", "flagReplay", "negSet"}
LoopPcs == {"head", "headIrq", "deliver", "setReq", "clearReq", "exec",
            "cached", "cachedIrq", "bottom", "bottomIrq", "stopCheck"}
PausePcs == {"pauseSnap", "pauseQuit", "pausePark", "parked", "pauseDone"}
WfiPcs == {"wfi", "wfiCall", "wfiIn", "wfiDone"}
Pcs == WiringPcs \cup LoopPcs \cup PausePcs \cup WfiPcs \cup {"ret", "post", "done"}

TypeOK ==
    /\ MonitorTypeOK
    /\ vpc \in Pcs
    /\ resumeTo \in {"head", "wfiDone"}
    /\ needsWake \in BOOLEAN
    /\ mip \in BOOLEAN
    /\ ie \in BOOLEAN
    /\ dpc \in {"idle", "sinkWake", "kick", "wake"}
    /\ reason \in Reasons \cup {"none"}

(* A new machine: its own waker, running flag, interrupt lines and hart.   *)
FreshMachine ==
    /\ irqPending' = FALSE /\ stopped' = FALSE /\ monitorWake' = FALSE
    /\ waiter' = "out" /\ ret' = FALSE
    /\ runFlag' = TRUE
    /\ negAlign' = FALSE
    /\ mip' = FALSE
    /\ ie' = FALSE
    /\ dpc' = "idle"
    /\ reason' = "none"

MachineInit ==
    /\ irqPending = FALSE /\ stopped = FALSE /\ monitorWake = FALSE
    /\ waiter = "out" /\ ret = FALSE
    /\ runFlag = TRUE
    /\ negAlign = FALSE
    /\ mip = FALSE
    /\ ie = FALSE
    /\ dpc = "idle"
    /\ reason = "none"
    /\ resumeTo = "head"
    /\ needsWake = FALSE

(* Process start: nothing is attached to the monitor yet.                  *)
Init ==
    /\ MonitorInit /\ MachineInit
    /\ vpc = "init"
    /\ wkAttached = FALSE /\ flagAttached = FALSE /\ negAttached = FALSE

(* The same with the first machine already wired and entering the loop.    *)
InitWired ==
    /\ MonitorInit /\ MachineInit
    /\ vpc = "head"
    /\ wkAttached = TRUE /\ flagAttached = TRUE /\ negAttached = TRUE

-----------------------------------------------------------------------------
(* run_machine_cycle: build the machine, then attach it to the monitor.    *)
NewMachine ==
    /\ vpc = "init"
    /\ vpc' = "wkCheck"
    /\ FreshMachine
    /\ wkAttached' = FALSE /\ flagAttached' = FALSE
    /\ UNCHANGED <<monitorVars, clientVars, negAttached, resumeTo, needsWake>>

SetWfiWakerCheck ==
    /\ vpc = "wkCheck" /\ ~innerHeld
    /\ needsWake' = (quitRequested \/ IsPauseRequested)
    /\ vpc' = "wkSet"
    /\ UNCHANGED <<monitorVars, clientVars, attachVars, wakerVars, runFlag,
                   negAlign, resumeTo, mip, ie, dpc, reason>>

SetWfiWaker ==
    /\ vpc = "wkSet"
    /\ wkAttached' = TRUE
    /\ IF needsWake THEN WK!MonitorWake ELSE UNCHANGED wakerVars
    /\ vpc' = "flagSet"
    /\ UNCHANGED <<monitorVars, clientVars, flagAttached, negAttached, runFlag,
                   negAlign, resumeTo, needsWake, mip, ie, dpc, reason>>

SetStopFlag ==
    /\ vpc = "flagSet"
    /\ flagAttached' = TRUE
    /\ vpc' = "flagReplay"
    /\ UNCHANGED <<monitorVars, clientVars, wkAttached, negAttached, wakerVars,
                   runFlag, negAlign, resumeTo, needsWake, mip, ie, dpc, reason>>

(* set_stop_flag() without the replay of a quit that came earlier. *)
SetStopFlagNoReplay ==
    /\ vpc = "flagReplay"
    /\ vpc' = "negSet"
    /\ UNCHANGED <<monitorVars, clientVars, attachVars, wakerVars, runFlag,
                   negAlign, resumeTo, needsWake, mip, ie, dpc, reason>>

SetStopFlagReplay ==
    /\ vpc = "flagReplay"
    /\ runFlag' = (runFlag /\ ~quitRequested)
    /\ vpc' = "negSet"
    /\ UNCHANGED <<monitorVars, clientVars, attachVars, wakerVars,
                   negAlign, resumeTo, needsWake, mip, ie, dpc, reason>>

SetNegAlignPtr ==
    /\ vpc = "negSet"
    /\ negAttached' = TRUE
    /\ vpc' = "head"
    /\ UNCHANGED <<monitorVars, clientVars, wkAttached, flagAttached, wakerVars,
                   runFlag, negAlign, resumeTo, needsWake, mip, ie, dpc, reason>>

Wiring ==
    \/ NewMachine
    \/ SetWfiWakerCheck
    \/ SetWfiWaker
    \/ SetStopFlag
    \/ SetStopFlagReplay
    \/ SetNegAlignPtr

-----------------------------------------------------------------------------
(* Everything but the vCPU's own control state and its exit request.       *)
Others == <<monitorVars, clientVars, attachVars, wakerVars, runFlag, mip, dpc>>
OthersAndNeg == <<Others, negAlign>>

Goto(pc) == vpc' = pc /\ UNCHANGED <<resumeTo, needsWake, reason>>

(* handle_interrupt() looks at shared_mip again: a line that dropped since *)
(* the check is not taken.  Taking it disables interrupts.                 *)
HandleInterrupt == ie' = (ie /\ ~mip)

(* The interrupt gate at the top of the loop.  pending_interrupt() and     *)
(* has_pending_irq() each load shared_mip.                                 *)
Head ==
    /\ vpc = "head"
    /\ Goto(IF mip /\ ie THEN "deliver" ELSE "headIrq")
    /\ UNCHANGED <<OthersAndNeg, ie>>

HeadIrq ==
    /\ vpc = "headIrq"
    /\ Goto(IF mip THEN "setReq" ELSE "clearReq")
    /\ UNCHANGED <<OthersAndNeg, ie>>

Deliver ==
    /\ vpc = "deliver"
    /\ negAlign' = FALSE
    /\ HandleInterrupt
    /\ Goto("exec")
    /\ UNCHANGED Others

SetExitRequest ==
    /\ vpc = "setReq"
    /\ negAlign' = TRUE
    /\ Goto("exec")
    /\ UNCHANGED <<Others, ie>>

ResetExitRequest ==
    /\ vpc = "clearReq"
    /\ negAlign' = FALSE
    /\ Goto("exec")
    /\ UNCHANGED <<Others, ie>>

-----------------------------------------------------------------------------
(* Running translated code changes the registers.                          *)
Executes == snapshot' = IF snapshot = "none" THEN "none" ELSE "outdated"
ExecFrame == <<vmState, innerHeld, quitRequested, parker, clientVars, attachVars>>

(* A goto_tb jump is taken straight to the next block unless an exit is    *)
(* requested; the dispatch loop does not see it.                           *)
ChainToNext ==
    /\ vpc = "exec" /\ ~negAlign
    /\ Executes
    /\ UNCHANGED <<ExecFrame, wakerVars, runFlag, negAlign, cpuVars, mip, dpc>>

(* The guest's handler makes the device lower its line.                    *)
GuestAck ==
    /\ vpc = "exec" /\ mip
    /\ mip' = FALSE
    /\ Executes
    /\ UNCHANGED <<ExecFrame, wakerVars, runFlag, negAlign, cpuVars, dpc>>

(* The guest writes the test finisher: the shutdown handler runs in the    *)
(* vCPU thread, inside the block.                                          *)
GuestShutdown ==
    /\ vpc = "exec"
    /\ reason' \in Reasons
    /\ runFlag' = FALSE
    /\ WK!Stop
    /\ Executes
    /\ UNCHANGED <<ExecFrame, negAlign, vpc, resumeTo, needsWake, mip, ie, dpc>>

ExitTo(pc) ==
    /\ vpc = "exec"
    /\ Goto(pc)
    /\ Executes
    /\ UNCHANGED <<ExecFrame, wakerVars, runFlag, negAlign, mip, dpc>>

(* Chain exits, indirect jumps that miss the exit_target cache, xRET, CSR  *)
(* writes and fences: the guest may have changed the enable bit.           *)
ExitBottom == ExitTo("bottom") /\ ie' \in BOOLEAN
(* An indirect jump whose exit_target is still valid.                      *)
ExitCached == ExitTo("cached") /\ UNCHANGED ie
(* A latched memory fault, or a pending TB flush: straight to the top.     *)
ExitFault == ExitTo("head") /\ ie' \in {ie, FALSE}
ExitWfi == ExitTo("wfi") /\ UNCHANGED ie
(* ECALL (the manager calls the firmware or raises the trap) or a full     *)
(* code buffer (the manager flushes): back to the manager's loop.          *)
ExitToManager == ExitTo("ret") /\ ie' \in {ie, FALSE}

ExecExit == ExitBottom \/ ExitCached \/ ExitFault \/ ExitWfi \/ ExitToManager

-----------------------------------------------------------------------------
Cached ==
    /\ vpc = "cached"
    /\ IF mip /\ ie
         THEN HandleInterrupt /\ Goto("head")
         ELSE UNCHANGED ie /\ Goto("cachedIrq")
    /\ UNCHANGED OthersAndNeg

CachedIrq ==
    /\ vpc = "cachedIrq"
    /\ negAlign' = (negAlign \/ mip)
    /\ Goto("head")
    /\ UNCHANGED <<Others, ie>>

(* The end of the loop: interrupt gate, stop check, monitor pause.         *)
Bottom ==
    /\ vpc = "bottom"
    /\ IF mip /\ ie
         THEN HandleInterrupt /\ Goto("stopCheck")
         ELSE UNCHANGED ie /\ Goto("bottomIrq")
    /\ UNCHANGED OthersAndNeg

BottomIrq ==
    /\ vpc = "bottomIrq"
    /\ negAlign' = (negAlign \/ mip)
    /\ Goto("stopCheck")
    /\ UNCHANGED <<Others, ie>>

StopCheck ==
    /\ vpc = "stopCheck"
    /\ IF runFlag
         THEN vpc' = "pauseSnap" /\ resumeTo' = "head"
         ELSE vpc' = "ret" /\ UNCHANGED resumeTo
    /\ UNCHANGED <<OthersAndNeg, ie, needsWake, reason>>

-----------------------------------------------------------------------------
(* check_monitor_pause(): a snapshot if a pause is requested by now, then  *)
(* check_pause().                                                          *)
PauseSnapshot ==
    /\ vpc = "pauseSnap" /\ ~innerHeld
    /\ snapshot' = IF IsPauseRequested THEN "current" ELSE snapshot
    /\ Goto("pauseQuit")
    /\ UNCHANGED <<ExecFrame, wakerVars, runFlag, negAlign, mip, ie, dpc>>

PauseQuitCheck ==
    /\ vpc = "pauseQuit"
    /\ Goto(IF quitRequested THEN "ret" ELSE "pausePark")
    /\ UNCHANGED <<OthersAndNeg, ie>>

PausePark ==
    /\ vpc = "pausePark" /\ ~innerHeld
    /\ \/ Park /\ Goto("parked")
       \/ vmState # "PauseRequested" /\ Goto("pauseDone")
            /\ UNCHANGED <<monitorVars, clientVars>>
    /\ UNCHANGED <<attachVars, wakerVars, runFlag, negAlign, mip, ie, dpc>>

PauseWoken ==
    /\ vpc = "parked"
    /\ ParkWoken
    /\ Goto(IF parker' = "out" THEN "pauseDone" ELSE "parked")
    /\ UNCHANGED <<attachVars, wakerVars, runFlag, negAlign, mip, ie, dpc>>

PauseReturn ==
    /\ vpc = "pauseDone"
    /\ Goto(IF quitRequested THEN "ret" ELSE resumeTo)
    /\ UNCHANGED <<OthersAndNeg, ie>>

-----------------------------------------------------------------------------
(* A WFI that sleeps without looking for a pending interrupt first. *)
WfiNoCheck ==
    /\ vpc = "wfi"
    /\ Goto("wfiCall")
    /\ UNCHANGED <<OthersAndNeg, ie>>

(* The WFI exit. *)
Wfi ==
    /\ vpc = "wfi"
    /\ Goto(IF mip THEN "wfiDone" ELSE "wfiCall")
    /\ UNCHANGED <<OthersAndNeg, ie>>

WfiCall ==
    /\ vpc = "wfiCall"
    /\ WK!WaitCall
    /\ Goto("wfiIn")
    /\ UNCHANGED <<monitorVars, clientVars, attachVars, runFlag, negAlign,
                   mip, ie, dpc>>

WfiResume ==
    /\ vpc = "wfiIn"
    /\ WK!WaitResume
    /\ UNCHANGED <<monitorVars, clientVars, attachVars, runFlag, negAlign,
                   cpuVars, mip, dpc>>

WfiSpurious ==
    /\ vpc = "wfiIn"
    /\ WK!SpuriousWakeup
    /\ UNCHANGED <<monitorVars, clientVars, attachVars, runFlag, negAlign,
                   cpuVars, mip, dpc>>

WfiReturn ==
    /\ vpc = "wfiIn" /\ waiter = "out"
    /\ IF ret
         THEN vpc' = "pauseSnap" /\ resumeTo' = "wfiDone"
         ELSE vpc' = "ret" /\ UNCHANGED resumeTo
    /\ UNCHANGED <<OthersAndNeg, ie, needsWake, reason>>

WfiDone ==
    /\ vpc = "wfiDone"
    /\ HandleInterrupt
    /\ Goto("bottom")
    /\ UNCHANGED OthersAndNeg

-----------------------------------------------------------------------------
(* run_riscv_cpu: leave when the running flag is down, else loop again.    *)
(* Its last arm, `other => return other`, has no step: ExitReason::Exit    *)
(* comes from an exit code handle_riscv_arch_exit does not know, and it    *)
(* knows every code the RISC-V translator emits.                           *)
ManagerReturn ==
    /\ vpc = "ret"
    /\ Goto(IF runFlag THEN "head" ELSE "post")
    /\ UNCHANGED <<OthersAndNeg, ie>>

(* End of run_machine_cycle: the CPU pointer is withdrawn; a reset starts  *)
(* the next cycle, anything else ends the process.                         *)
CycleEnd ==
    /\ vpc = "post"
    /\ negAttached' = FALSE
    /\ DropCpu
    /\ Goto(IF reason = "reset" THEN "init" ELSE "done")
    /\ UNCHANGED <<monitorVars, svc, wkAttached, flagAttached, wakerVars,
                   runFlag, negAlign, mip, ie, dpc>>

VcpuStep ==
    \/ Wiring
    \/ Head \/ HeadIrq \/ Deliver \/ SetExitRequest \/ ResetExitRequest
    \/ Cached \/ CachedIrq \/ Bottom \/ BottomIrq \/ StopCheck
    \/ PauseSnapshot \/ PauseQuitCheck \/ PausePark \/ PauseWoken \/ PauseReturn
    \/ Wfi \/ WfiCall \/ WfiResume \/ WfiReturn \/ WfiDone
    \/ ManagerReturn \/ CycleEnd

-----------------------------------------------------------------------------
(* RiscvCpuIrqSink::set_irq(true): the bit, then the wakeup.               *)
RaiseLine ==
    /\ dpc = "idle" /\ ~mip /\ vpc \notin {"init", "done"}
    /\ mip' = TRUE
    /\ dpc' = "sinkWake"
    /\ UNCHANGED <<monitorVars, clientVars, attachVars, wakerVars, runFlag,
                   negAlign, cpuVars>>

(* A sink that raises the line and does not wake. *)
SinkNoWake ==
    /\ dpc = "sinkWake"
    /\ dpc' = IF Kicks THEN "kick" ELSE "idle"
    /\ UNCHANGED <<monitorVars, clientVars, attachVars, wakerVars, runFlag,
                   negAlign, cpuVars, mip>>

SinkWake ==
    /\ dpc = "sinkWake"
    /\ WK!Wake
    /\ dpc' = IF Kicks THEN "kick" ELSE "idle"
    /\ UNCHANGED <<monitorVars, clientVars, attachVars, runFlag, negAlign,
                   cpuVars, mip>>

(* The ACLINT timer worker goes on to its exit request and own wakeup.     *)
TimerKick ==
    /\ dpc = "kick"
    /\ negAlign' = TRUE
    /\ dpc' = "wake"
    /\ UNCHANGED <<monitorVars, clientVars, attachVars, wakerVars, runFlag,
                   cpuVars, mip>>

TimerWake ==
    /\ dpc = "wake"
    /\ WK!Wake
    /\ dpc' = "idle"
    /\ UNCHANGED <<monitorVars, clientVars, attachVars, runFlag, negAlign,
                   cpuVars, mip>>

DeviceStep == SinkWake \/ TimerKick \/ TimerWake

(* process::exit ends every thread.                                        *)
Alive == vpc # "done"

Next ==
    \/ VcpuStep
    \/ ChainToNext \/ GuestAck \/ GuestShutdown
    \/ ExecExit
    \/ WfiSpurious
    \/ Alive /\ RaiseLine
    \/ Alive /\ DeviceStep
    \/ \E c \in Clients :
         Alive /\ ClientNext(c) /\ UNCHANGED <<cpuVars, mip, dpc>>

(***************************************************************************)
(* Threads that can run do run.  In "exec" nothing is promised except that *)
(* a guest asked to exit again and again takes the goto_tb exit to the end *)
(* of the dispatch loop: whether it ever leaves its chain unasked is up to *)
(* the guest.                                                              *)
(***************************************************************************)
ThreadFairness ==
    /\ WF_vars(VcpuStep)
    /\ SF_vars(negAlign /\ ExitBottom)
    /\ WF_vars(Alive /\ DeviceStep)
    /\ \A c \in Clients :
         WF_vars(Alive /\ ClientStep(c) /\ UNCHANGED <<cpuVars, mip, dpc>>)

Spec == Init /\ [][Next]_vars /\ ThreadFairness
SpecWired == InitWired /\ [][Next]_vars /\ ThreadFairness

(* A guest that keeps coming back to the end of the dispatch loop.         *)
GuestYields == SF_vars(ExitBottom)
SpecYielding == SpecWired /\ GuestYields
SpecRebootYielding == Spec /\ GuestYields
-----------------------------------------------------------------------------
(* Paused is true to its name: the state is Paused exactly when the vCPU   *)
(* sleeps in check_pause, so no guest code runs behind the back of a       *)
(* client that was told the machine is paused, and cont always finds the   *)
(* vCPU it has to wake.                                                    *)
PausedIffParked ==
    (vmState = "Paused") <=> (vpc = "parked" /\ parker = "asleep")

(* A stop command sleeps on pause_barrier only while its request is still  *)
(* open: every way out of PauseRequested (park, cont, quit) signals it.    *)
StopSleepsOnOpenRequest ==
    \A c \in Clients : cpc[c] = "stopAsleep" => vmState = "PauseRequested"

(* A monitor wakeup is not left over: once cont has put the machine back   *)
(* to Running, the latch that made WFI return for the pause is cleared, so *)
(* later WFIs sleep again.  (After a quit it no longer matters.)           *)
MonitorWakeForgotten ==
    monitorWake /\ ~quitRequested => vmState # "Running"

(* The vCPU never sleeps in WFI with its line raised, except in the moment *)
(* between the sink's store to shared_mip and its wakeup.                  *)
NoSleepThroughIrq ==
    waiter = "asleep" /\ mip => dpc # "idle"

(* The stop command comes back: the vCPU parks, or the request is          *)
(* cancelled by cont or quit, or the process ends.                         *)
StopReturns ==
    \A c \in Clients :
        cpc[c] \in {"stopAsleep", "stopNotified"}
            ~> cpc[c] = "idle" \/ vpc = "done"

(* Quit ends the run, whatever the vCPU is doing: in a chain, in WFI,      *)
(* parked, or on its way to either.                                        *)
QuitTerminates == quitRequested ~> vpc = "done"

(* A raised and enabled interrupt is taken (taking it clears the enable    *)
(* bit), unless the line drops or the machine is paused or stopped first.  *)
IrqTaken ==
    mip /\ ie ~> ~(mip /\ ie) \/ vmState = "Paused" \/ vpc = "done"

(* A quit reaches the running flag of the machine, whether it comes before *)
(* the flag is attached (set_stop_flag replays it) or after (request_quit  *)
(* lowers it): past the wiring a completed quit leaves no flag up.         *)
QuitLowersRunFlag ==
    (\E c \in Clients : cpc[c] = "gone") /\ vpc \notin WiringPcs => ~runFlag

(* The snapshot the monitor shows while the machine is paused is the state *)
(* the vCPU is paused in.                                                  *)
SnapshotCurrent == vmState = "Paused" => snapshot = "current"
=============================================================================
