-------------------------- MODULE RunControlProofs --------------------------
(***************************************************************************)
(* Proofs about RunControl for any set of monitor clients.                 *)
(***************************************************************************)
EXTENDS RunControl, TLAPS

(* The handshake's inductive invariant.  Paused and "asleep in check_pause"*)
(* are one fact; that the place in check_pause and the thread's place in   *)
(* the loop agree is what makes it survive the steps of the loop.          *)
HandshakeInv ==
    /\ parker \in {"out", "asleep", "notified"}
    /\ cpc \in [Clients -> ClientStates]
    /\ parker # "out" <=> vpc = "parked"
    /\ parker = "asleep" <=> vmState = "Paused"
    /\ resumeTo \in {"head", "wfiDone"}
    /\ StopSleepsOnOpenRequest

(* Wiring, the loop's own steps and the interrupt source neither touch the *)
(* handshake nor enter or leave "parked".                                  *)
LEMMA HandshakeElsewhere ==
    ASSUME HandshakeInv, UNCHANGED <<vmState, parker, cpc>>,
           vpc # "parked", vpc' # "parked", resumeTo' \in {"head", "wfiDone"}
    PROVE  HandshakeInv'
BY DEF HandshakeInv, StopSleepsOnOpenRequest

(* The source and the guest do not touch the handshake at all.             *)
LEMMA HandshakeStill ==
    ASSUME HandshakeInv, UNCHANGED <<vmState, parker, cpc, vpc, resumeTo>>
    PROVE  HandshakeInv'
BY DEF HandshakeInv, StopSleepsOnOpenRequest

(* The vCPU thread outside check_pause.                                    *)
LEMMA HandshakeVcpu ==
    ASSUME HandshakeInv, VcpuStep, ~PausePark, ~PauseWoken, ~CycleEnd
    PROVE  HandshakeInv'
<1>0. resumeTo \in {"head", "wfiDone"}
  BY DEF HandshakeInv
<1> USE HandshakeElsewhere, <1>0 DEF monitorVars, clientVars
<1>1. CASE Wiring
  BY <1>1 DEF Wiring, NewMachine, SetWfiWakerCheck, SetWfiWaker, SetStopFlag,
     SetStopFlagReplay, SetNegAlignPtr
<1>2. CASE Head \/ HeadIrq \/ Deliver \/ SetExitRequest \/ ResetExitRequest
  BY <1>2 DEF Head, HeadIrq, Deliver, SetExitRequest, ResetExitRequest, Goto,
     Others, OthersAndNeg
<1>3. CASE Cached \/ CachedIrq \/ Bottom \/ BottomIrq \/ StopCheck
  BY <1>3 DEF Cached, CachedIrq, Bottom, BottomIrq, StopCheck, Goto, Others,
     OthersAndNeg
<1>4. CASE PauseSnapshot \/ PauseQuitCheck \/ PauseReturn
  BY <1>4 DEF PauseSnapshot, PauseQuitCheck, PauseReturn, Goto, Others,
     OthersAndNeg, ExecFrame
<1>5. CASE Wfi \/ WfiCall \/ WfiReturn \/ WfiDone
  BY <1>5 DEF Wfi, WfiCall, WfiReturn, WfiDone, Goto, Others, OthersAndNeg
<1>6. CASE WfiResume
  BY <1>6 DEF WfiResume, cpuVars
<1>7. CASE ManagerReturn
  BY <1>7 DEF ManagerReturn, Goto, Others, OthersAndNeg
<1> QED
  BY <1>1, <1>2, <1>3, <1>4, <1>5, <1>6, <1>7 DEF VcpuStep

(* check_pause, and the end of a machine cycle.                            *)
LEMMA HandshakePause ==
    ASSUME HandshakeInv, PausePark \/ PauseWoken \/ CycleEnd
    PROVE  HandshakeInv'
<1> USE DEF HandshakeInv, StopSleepsOnOpenRequest, Goto, clientVars,
        monitorVars
<1>1. CASE PausePark
  <2>1. CASE Park /\ Goto("parked")
    BY <2>1, <1>1 DEF PausePark, Park, NotifyBarrier, ClientStates
  <2>2. CASE vmState # "PauseRequested" /\ Goto("pauseDone")
             /\ UNCHANGED <<monitorVars, clientVars>>
    BY <2>2, <1>1 DEF PausePark
  <2> QED
    BY <1>1, <2>1, <2>2 DEF PausePark
<1>2. CASE PauseWoken
  BY <1>2 DEF PauseWoken, ParkWoken
<1>3. CASE CycleEnd
  BY <1>3 DEF CycleEnd, DropCpu, ClientStates
<1> QED
  BY <1>1, <1>2, <1>3

(* Commands given by a client.                                             *)
LEMMA HandshakeClient ==
    ASSUME HandshakeInv, NEW c \in Clients, ClientNext(c),
           UNCHANGED <<vpc, resumeTo>>
    PROVE  HandshakeInv'
<1> USE DEF HandshakeInv, StopSleepsOnOpenRequest, ClientStates, clientVars,
        monitorVars
<1>1. CASE RequestStop(c)
  BY <1>1 DEF RequestStop
<1>2. CASE RequestStopWoken(c)
  BY <1>2 DEF RequestStopWoken
<1>3. CASE RequestCont(c)
  BY <1>3 DEF RequestCont, NotifyResume, NotifyBarrier
<1>4. CASE RequestQuit(c)
  BY <1>4 DEF RequestQuit
<1>5. CASE QuitStopFlag(c)
  BY <1>5 DEF QuitStopFlag
<1>6. CASE QuitResumeAndWake(c)
  BY <1>6 DEF QuitResumeAndWake, NotifyResume, NotifyBarrier
<1>7. CASE QuitLoadPointer(c)
  BY <1>7 DEF QuitLoadPointer, QuitReturn
<1>8. CASE QuitBreakChain(c)
  BY <1>8 DEF QuitBreakChain, QuitReturn
<1> QED
  BY <1>1, <1>2, <1>3, <1>4, <1>5, <1>6, <1>7, <1>8 DEF ClientNext, ClientStep

(* Every step keeps the handshake.                                         *)
LEMMA HandshakeStep ==
    ASSUME HandshakeInv, [Next]_vars
    PROVE  HandshakeInv'
<1>1. CASE VcpuStep
  BY <1>1, HandshakeVcpu, HandshakePause
<1>2. CASE ChainToNext \/ GuestAck \/ GuestShutdown
  BY <1>2, HandshakeStill DEF ChainToNext, GuestAck, GuestShutdown, ExecFrame,
     clientVars, cpuVars
<1>3. CASE ExecExit
  BY <1>3, HandshakeElsewhere DEF ExecExit, ExitBottom, ExitCached, ExitFault,
     ExitWfi, ExitToManager, ExitTo, Goto, ExecFrame, clientVars, HandshakeInv
<1>4. CASE WfiSpurious \/ RaiseLine \/ DeviceStep
  BY <1>4, HandshakeStill DEF WfiSpurious, RaiseLine, DeviceStep, SinkWake,
     TimerKick, TimerWake, monitorVars, clientVars, cpuVars
<1>5. ASSUME NEW c \in Clients, ClientNext(c), UNCHANGED cpuVars
      PROVE  HandshakeInv'
  BY <1>5, HandshakeClient DEF cpuVars
<1>6. CASE UNCHANGED vars
  BY <1>6, HandshakeStill DEF vars, monitorVars, clientVars
<1> QED
  BY <1>1, <1>2, <1>3, <1>4, <1>5, <1>6 DEF Next

(* It holds when the process starts, and in a machine wired up.            *)
LEMMA HandshakeInit == Init \/ InitWired => HandshakeInv
BY DEF Init, InitWired, MonitorInit, MachineInit, HandshakeInv,
   StopSleepsOnOpenRequest, ClientStates

(* Paused means parked, for any number of clients and whatever they ask.   *)
THEOREM PausedMeansParked == Spec => []PausedIffParked
<1>1. HandshakeInv => PausedIffParked
  BY DEF HandshakeInv, PausedIffParked
<1> QED
  BY <1>1, HandshakeInit, HandshakeStep, PTL DEF Spec

(* No stop command sleeps on a request that was answered or withdrawn.     *)
THEOREM StopNotForgotten == Spec => []StopSleepsOnOpenRequest
<1>1. HandshakeInv => StopSleepsOnOpenRequest
  BY DEF HandshakeInv
<1> QED
  BY <1>1, HandshakeInit, HandshakeStep, PTL DEF Spec

-----------------------------------------------------------------------------
(* The WFI invariant.  From its last look at shared_mip until wait()       *)
(* returns, a raised line whose sink has finished has left irq_pending     *)
(* set; and nobody sleeps in wait() with irq_pending set.                  *)
InWfi == vpc = "wfiCall" \/ (vpc = "wfiIn" /\ waiter # "out")

WfiInv ==
    /\ waiter # "out" => vpc = "wfiIn"
    /\ InWfi /\ mip /\ dpc = "idle" => irqPending
    /\ waiter = "asleep" => ~irqPending

(* Steps that leave the waker and the source alone and do not decide to    *)
(* sleep.                                                                  *)
LEMMA WfiElsewhere ==
    ASSUME WfiInv, waiter = "out", waiter' = "out", vpc' # "wfiCall"
    PROVE  WfiInv'
BY DEF WfiInv, InWfi

(* Steps that touch neither the waker nor the line.                        *)
LEMMA WfiStill ==
    ASSUME WfiInv, UNCHANGED <<waiter, irqPending, vpc, mip, dpc>>
    PROVE  WfiInv'
BY DEF WfiInv, InWfi

(* A waker call that neither consumes irq_pending nor leaves a sleeper     *)
(* behind.                                                                 *)
LEMMA WfiNotify ==
    ASSUME WfiInv, UNCHANGED <<vpc, mip, dpc>>, irqPending' = irqPending,
           waiter' = IF waiter = "asleep" THEN "notified" ELSE waiter
    PROVE  WfiInv'
BY DEF WfiInv, InWfi

(* The vCPU thread, one step per group of its actions.                     *)
LEMMA WfiVcpu ==
    ASSUME HandshakeInv, WfiInv, VcpuStep
    PROVE  WfiInv'
<1>0. ASSUME vpc # "wfiIn"  PROVE waiter = "out"
  BY <1>0 DEF WfiInv
<1> USE DEF wakerVars, Goto, Others, OthersAndNeg
<1>1. CASE NewMachine
  BY <1>1, <1>0, WfiElsewhere DEF NewMachine, FreshMachine
<1>2. CASE SetWfiWaker
  BY <1>2, <1>0, WfiElsewhere DEF SetWfiWaker, WK!MonitorWake, WK!NotifyAll
<1>3. CASE SetWfiWakerCheck \/ SetStopFlag \/ SetStopFlagReplay \/ SetNegAlignPtr
  BY <1>3, <1>0, WfiElsewhere DEF SetWfiWakerCheck, SetStopFlag,
     SetStopFlagReplay, SetNegAlignPtr
<1>4. CASE Head \/ HeadIrq \/ Deliver \/ SetExitRequest \/ ResetExitRequest
  BY <1>4, <1>0, WfiElsewhere DEF Head, HeadIrq, Deliver, SetExitRequest,
     ResetExitRequest
<1>5. CASE Cached \/ CachedIrq \/ Bottom \/ BottomIrq \/ StopCheck
  BY <1>5, <1>0, WfiElsewhere DEF Cached, CachedIrq, Bottom, BottomIrq, StopCheck
<1>6. CASE PauseSnapshot \/ PauseQuitCheck \/ PausePark \/ PauseWoken
  BY <1>6, <1>0, WfiElsewhere DEF PauseSnapshot, PauseQuitCheck, PausePark,
     PauseWoken
<1>7. CASE PauseReturn
  BY <1>7, <1>0, WfiElsewhere DEF PauseReturn, HandshakeInv
<1>8. CASE Wfi
  BY <1>8, <1>0 DEF Wfi, WfiInv, InWfi
<1>9. CASE WfiCall
  <2>1. WK!WaitLoop /\ vpc = "wfiCall" /\ vpc' = "wfiIn" /\ UNCHANGED <<mip, dpc>>
    BY <1>9 DEF WfiCall, WK!WaitCall
  <2> QED
    BY <2>1 DEF WfiInv, InWfi, WK!WaitLoop, WK!Sleep, WK!NothingLatched,
       WK!ReturnIrq, WK!ReturnStopped, WK!ReturnMonitorWake, WK!ReturnExpired,
       WK!Return
<1>10. CASE WfiResume
  BY <1>10 DEF WfiResume, cpuVars, WfiInv, InWfi, WK!WaitResume, WK!WaitLoop,
     WK!Sleep, WK!NothingLatched, WK!ReturnIrq, WK!ReturnStopped,
     WK!ReturnMonitorWake, WK!ReturnExpired, WK!WaitTimedOut, WK!Return
<1>11. CASE WfiReturn \/ WfiDone
  BY <1>11, <1>0, WfiElsewhere DEF WfiReturn, WfiDone
<1>12. CASE ManagerReturn \/ CycleEnd
  BY <1>12, <1>0, WfiElsewhere DEF ManagerReturn, CycleEnd
<1> QED
  BY <1>1, <1>2, <1>3, <1>4, <1>5, <1>6, <1>7, <1>8, <1>9, <1>10, <1>11,
     <1>12
  DEF VcpuStep, Wiring

(* Every step keeps the WFI invariant.                                     *)
LEMMA WfiStep ==
    ASSUME HandshakeInv, WfiInv, [Next]_vars
    PROVE  WfiInv'
<1> USE DEF wakerVars, cpuVars
<1>1. CASE VcpuStep
  BY <1>1, WfiVcpu
<1>2. CASE ChainToNext \/ GuestAck
  BY <1>2 DEF ChainToNext, GuestAck, WfiInv, InWfi
<1>3. CASE GuestShutdown
  BY <1>3, WfiNotify DEF GuestShutdown, WK!Stop, WK!NotifyAll
<1>4. CASE ExecExit
  BY <1>4 DEF ExecExit, ExitBottom, ExitCached, ExitFault, ExitWfi,
     ExitToManager, ExitTo, Goto, WfiInv, InWfi
<1>5. CASE WfiSpurious
  BY <1>5, WfiNotify DEF WfiSpurious, WK!SpuriousWakeup
<1>6. CASE RaiseLine
  BY <1>6 DEF RaiseLine, WfiInv, InWfi
<1>7. CASE SinkWake \/ TimerWake
  BY <1>7 DEF SinkWake, TimerWake, WK!Wake, WK!NotifyAll, WfiInv, InWfi
<1>8. CASE TimerKick
  BY <1>8 DEF TimerKick, WfiInv, InWfi
<1>9. ASSUME NEW c \in Clients, ClientNext(c), UNCHANGED <<cpuVars, mip, dpc>>
      PROVE  WfiInv'
  <2>1. CASE RequestStop(c)
    BY <1>9, <2>1, WfiStill, WfiNotify DEF RequestStop, WakeForMonitor,
       WK!MonitorWake, WK!NotifyAll
  <2>2. CASE RequestCont(c)
    BY <1>9, <2>2, WfiStill DEF RequestCont, ForgetMonitorWake,
       WK!ClearMonitorWake
  <2>3. CASE QuitResumeAndWake(c)
    BY <1>9, <2>3, WfiStill, WfiNotify DEF QuitResumeAndWake, StopWaker,
       WK!Stop, WK!NotifyAll
  <2>4. CASE RequestQuit(c) \/ RequestStopWoken(c) \/ QuitStopFlag(c)
             \/ QuitLoadPointer(c) \/ QuitBreakChain(c)
    BY <1>9, <2>4, WfiStill DEF RequestQuit, RequestStopWoken, QuitStopFlag,
       QuitLoadPointer, QuitBreakChain
  <2> QED
    BY <1>9, <2>1, <2>2, <2>3, <2>4 DEF ClientNext, ClientStep
<1>10. CASE UNCHANGED vars
  BY <1>10, WfiStill DEF vars
<1> QED
  BY <1>1, <1>2, <1>3, <1>4, <1>5, <1>6, <1>7, <1>8, <1>9, <1>10
  DEF Next, DeviceStep

(* A hart never sleeps through a raised line.                              *)
THEOREM IrqNotSleptThrough == Spec => []NoSleepThroughIrq
<1>1. Init => WfiInv
  BY DEF Init, MachineInit, WfiInv, InWfi
<1>2. WfiInv => NoSleepThroughIrq
  BY DEF WfiInv, InWfi, NoSleepThroughIrq
<1> QED
  BY <1>1, <1>2, HandshakeInit, HandshakeStep, WfiStep, PTL DEF Spec
-----------------------------------------------------------------------------
(* What a quit has done by the time it is at a given place, and that the   *)
(* running flag is attached before it can be needed.                       *)
EarlyPcs == {"init", "wkCheck", "wkSet", "flagSet"}
Quitting == {"quitFlag", "quitInner", "quitLoad", "quitStore", "quitStale", "gone"}

QuitInv ==
    /\ cpc \in [Clients -> ClientStates]
    /\ \A c \in Clients : cpc[c] \in Quitting => quitRequested
    /\ vpc \notin EarlyPcs => flagAttached
    /\ (\E c \in Clients : cpc[c] \in Quitting \ {"quitFlag"})
         /\ vpc \notin EarlyPcs \cup {"flagReplay"} => ~runFlag

(* Steps that only move through the loop, or lower the flag.               *)
LEMMA QuitStill ==
    ASSUME QuitInv, UNCHANGED <<cpc, quitRequested, flagAttached>>,
           runFlag' = runFlag \/ ~runFlag',
           vpc' \notin EarlyPcs \cup {"flagReplay"} =>
               vpc \notin EarlyPcs \cup {"flagReplay"},
           vpc' \notin EarlyPcs => vpc \notin EarlyPcs
    PROVE  QuitInv'
BY DEF QuitInv

(* The vCPU thread: a new machine, the replay, and the loop.               *)
LEMMA QuitVcpu ==
    ASSUME HandshakeInv, QuitInv, VcpuStep
    PROVE  QuitInv'
<1> USE DEF EarlyPcs, Goto, Others, OthersAndNeg, monitorVars, clientVars,
        attachVars
<1>1. CASE NewMachine \/ SetStopFlag
  BY <1>1 DEF NewMachine, SetStopFlag, QuitInv
<1>2. CASE SetWfiWakerCheck \/ SetWfiWaker \/ SetNegAlignPtr
  BY <1>2, QuitStill DEF SetWfiWakerCheck, SetWfiWaker, SetNegAlignPtr
<1>3. CASE SetStopFlagReplay
  BY <1>3 DEF SetStopFlagReplay, QuitInv
<1>4. CASE Head \/ HeadIrq \/ Deliver \/ SetExitRequest \/ ResetExitRequest
  BY <1>4, QuitStill DEF Head, HeadIrq, Deliver, SetExitRequest,
     ResetExitRequest
<1>5. CASE Cached \/ CachedIrq \/ Bottom \/ BottomIrq \/ StopCheck
  BY <1>5, QuitStill DEF Cached, CachedIrq, Bottom, BottomIrq, StopCheck
<1>6. CASE PauseSnapshot \/ PauseQuitCheck \/ PauseReturn
  BY <1>6, QuitStill DEF PauseSnapshot, PauseQuitCheck, PauseReturn,
     HandshakeInv, ExecFrame
<1>7. CASE PauseWoken
  BY <1>7, QuitStill DEF PauseWoken, ParkWoken
<1>8. CASE PausePark
  BY <1>8 DEF PausePark, Park, NotifyBarrier, QuitInv, ClientStates, Quitting
<1>9. CASE Wfi \/ WfiCall \/ WfiReturn \/ WfiDone \/ ManagerReturn
  BY <1>9, QuitStill DEF Wfi, WfiCall, WfiReturn, WfiDone, ManagerReturn
<1>10. CASE WfiResume
  BY <1>10, QuitStill DEF WfiResume, cpuVars
<1>11. CASE CycleEnd
  BY <1>11 DEF CycleEnd, DropCpu, QuitInv, ClientStates, Quitting
<1> QED
  BY <1>1, <1>2, <1>3, <1>4, <1>5, <1>6, <1>7, <1>8, <1>9, <1>10, <1>11
  DEF VcpuStep, Wiring

(* Every step keeps the quit invariant.                                    *)
LEMMA QuitStep ==
    ASSUME HandshakeInv, QuitInv, [Next]_vars
    PROVE  QuitInv'
<1>1. CASE VcpuStep
  BY <1>1, QuitVcpu
<1>2. CASE ChainToNext \/ GuestAck \/ GuestShutdown
  BY <1>2, QuitStill DEF ChainToNext, GuestAck, GuestShutdown, ExecFrame,
     clientVars, attachVars, cpuVars
<1>3. CASE ExecExit
  BY <1>3, QuitStill DEF ExecExit, ExitBottom, ExitCached, ExitFault,
     ExitWfi, ExitToManager, ExitTo, Goto, ExecFrame, clientVars, attachVars,
     EarlyPcs
<1>4. CASE WfiSpurious \/ RaiseLine \/ DeviceStep
  BY <1>4, QuitStill DEF WfiSpurious, RaiseLine, DeviceStep, SinkWake,
     TimerKick, TimerWake, monitorVars, clientVars, attachVars, cpuVars
<1>5. ASSUME NEW c \in Clients, ClientNext(c), UNCHANGED cpuVars
      PROVE  QuitInv'
  <2> USE <1>5 DEF QuitInv, ClientStates, Quitting, attachVars, monitorVars,
          cpuVars
  <2>1. CASE RequestStop(c) \/ RequestCont(c) \/ RequestStopWoken(c)
    BY <2>1 DEF RequestStop, RequestCont, RequestStopWoken, NotifyBarrier
  <2>2. CASE RequestQuit(c)
    BY <2>2 DEF RequestQuit
  <2>3. CASE QuitStopFlag(c)
    BY <2>3 DEF QuitStopFlag, EarlyPcs
  <2>4. CASE QuitResumeAndWake(c)
    BY <2>4 DEF QuitResumeAndWake, NotifyBarrier
  <2>5. CASE QuitLoadPointer(c) \/ QuitBreakChain(c)
    BY <2>5 DEF QuitLoadPointer, QuitBreakChain, QuitReturn
  <2> QED
    BY <2>1, <2>2, <2>3, <2>4, <2>5 DEF ClientNext, ClientStep
<1>6. CASE UNCHANGED vars
  BY <1>6, QuitStill DEF vars, monitorVars, clientVars, attachVars
<1> QED
  BY <1>1, <1>2, <1>3, <1>4, <1>5, <1>6 DEF Next

(* A quit is never lost between two machines: it lowers the running flag   *)
(* of the one that is wired up while it comes, or of the next.             *)
THEOREM QuitReachesRunFlag == Spec => []QuitLowersRunFlag
<1>1. Init => QuitInv
  BY DEF Init, MonitorInit, QuitInv, EarlyPcs, Quitting, ClientStates
<1>2. QuitInv => QuitLowersRunFlag
  BY DEF QuitInv, QuitLowersRunFlag, WiringPcs, EarlyPcs, Quitting
<1> QED
  BY <1>1, <1>2, HandshakeInit, HandshakeStep, QuitStep, PTL DEF Spec
-----------------------------------------------------------------------------
(* The latch of monitor_wake.  An open pause request belongs to a client   *)
(* that sleeps in request_stop with the service mutex in its hands, so no  *)
(* cont can slip in between the two halves of set_wfi_waker.               *)
WakeInv ==
    /\ cpc \in [Clients -> ClientStates]
    /\ vmState \in VmStates
    /\ \A c \in Clients : cpc[c] \in Quitting => quitRequested
    /\ \A c \in Clients : svc = c => cpc[c] # "idle"
    /\ vmState = "PauseRequested" =>
          \E c \in Clients : cpc[c] = "stopAsleep" /\ svc = c
    /\ vpc = "wkSet" /\ needsWake /\ ~quitRequested => vmState = "PauseRequested"
    /\ monitorWake => wkAttached
    /\ MonitorWakeForgotten

(* Steps that leave the handshake alone and set no latch.                  *)
LEMMA WakeStill ==
    ASSUME WakeInv, UNCHANGED <<vmState, quitRequested, svc, cpc>>,
           UNCHANGED wkAttached, monitorWake' => monitorWake,
           vpc' = "wkSet" => vpc = "wkSet" /\ needsWake' = needsWake
    PROVE  WakeInv'
BY DEF WakeInv, MonitorWakeForgotten

(* The vCPU thread: only set_wfi_waker sets the latch.                     *)
LEMMA WakeVcpu ==
    ASSUME HandshakeInv, WakeInv, VcpuStep
    PROVE  WakeInv'
<1> USE DEF Goto, Others, OthersAndNeg, monitorVars, clientVars, attachVars,
        wakerVars
<1>1. CASE NewMachine
  BY <1>1 DEF NewMachine, FreshMachine, WakeInv, MonitorWakeForgotten
<1>2. CASE SetWfiWakerCheck
  BY <1>2 DEF SetWfiWakerCheck, IsPauseRequested, WakeInv, HandshakeInv,
     MonitorWakeForgotten
<1>3. CASE SetWfiWaker
  BY <1>3 DEF SetWfiWaker, WK!MonitorWake, WakeInv, MonitorWakeForgotten
<1>4. CASE SetStopFlag \/ SetStopFlagReplay \/ SetNegAlignPtr
  BY <1>4, WakeStill DEF SetStopFlag, SetStopFlagReplay, SetNegAlignPtr
<1>5. CASE Head \/ HeadIrq \/ Deliver \/ SetExitRequest \/ ResetExitRequest
  BY <1>5, WakeStill DEF Head, HeadIrq, Deliver, SetExitRequest,
     ResetExitRequest
<1>6. CASE Cached \/ CachedIrq \/ Bottom \/ BottomIrq \/ StopCheck
  BY <1>6, WakeStill DEF Cached, CachedIrq, Bottom, BottomIrq, StopCheck
<1>7. CASE PauseSnapshot \/ PauseQuitCheck \/ PauseReturn
  BY <1>7, WakeStill DEF PauseSnapshot, PauseQuitCheck, PauseReturn,
     HandshakeInv, ExecFrame
<1>8. CASE PauseWoken
  BY <1>8, WakeStill DEF PauseWoken, ParkWoken
<1>9. CASE PausePark
  BY <1>9 DEF PausePark, Park, NotifyBarrier, WakeInv, MonitorWakeForgotten,
     ClientStates, VmStates, Quitting
<1>10. CASE Wfi \/ WfiReturn \/ WfiDone \/ ManagerReturn
  BY <1>10, WakeStill DEF Wfi, WfiReturn, WfiDone, ManagerReturn
<1>11. CASE WfiCall \/ WfiResume
  <2>1. WK!WaitLoop /\ UNCHANGED <<vmState, quitRequested, svc, cpc, wkAttached>>
    BY <1>11 DEF WfiCall, WfiResume, WK!WaitCall, WK!WaitResume
  <2>2. monitorWake' => monitorWake
    BY <2>1 DEF WK!WaitLoop, WK!Sleep, WK!ReturnIrq, WK!ReturnStopped,
       WK!ReturnMonitorWake, WK!ReturnExpired
  <2>3. vpc' = "wfiIn"
    BY <1>11 DEF WfiCall, WfiResume, cpuVars
  <2> QED
    BY <2>1, <2>2, <2>3, WakeStill
<1>12. CASE CycleEnd
  BY <1>12 DEF CycleEnd, DropCpu, WakeInv, MonitorWakeForgotten, ClientStates,
     VmStates, Quitting
<1> QED
  BY <1>1, <1>2, <1>3, <1>4, <1>5, <1>6, <1>7, <1>8, <1>9, <1>10, <1>11, <1>12
  DEF VcpuStep, Wiring

(* The clients: stop sets the latch, cont clears it.                       *)
LEMMA WakeClient ==
    ASSUME HandshakeInv, WakeInv, NEW c \in Clients, ClientNext(c),
           UNCHANGED cpuVars
    PROVE  WakeInv'
<1> USE ClientsAssumption DEF WakeInv, MonitorWakeForgotten, ClientStates,
        VmStates, Quitting, monitorVars, attachVars, wakerVars, cpuVars
<1>1. CASE RequestStop(c)
  BY <1>1 DEF RequestStop, WakeForMonitor, WK!MonitorWake, HandshakeInv
<1>2. CASE RequestStopWoken(c)
  BY <1>2 DEF RequestStopWoken
<1>3. CASE RequestCont(c)
  BY <1>3 DEF RequestCont, ForgetMonitorWake, WK!ClearMonitorWake, NotifyBarrier
<1>4. CASE RequestQuit(c)
  BY <1>4 DEF RequestQuit
<1>5. CASE QuitStopFlag(c)
  BY <1>5 DEF QuitStopFlag
<1>6. CASE QuitResumeAndWake(c)
  BY <1>6 DEF QuitResumeAndWake, StopWaker, WK!Stop, NotifyBarrier
<1>7. CASE QuitLoadPointer(c) \/ QuitBreakChain(c)
  BY <1>7 DEF QuitLoadPointer, QuitBreakChain, QuitReturn
<1> QED
  BY <1>1, <1>2, <1>3, <1>4, <1>5, <1>6, <1>7 DEF ClientNext, ClientStep

(* Every step keeps the latch's invariant.                                 *)
LEMMA WakeStep ==
    ASSUME HandshakeInv, WakeInv, [Next]_vars
    PROVE  WakeInv'
<1> USE DEF monitorVars, clientVars, attachVars, wakerVars
<1>1. CASE VcpuStep
  BY <1>1, WakeVcpu
<1>2. CASE ChainToNext \/ GuestAck \/ GuestShutdown
  BY <1>2, WakeStill DEF ChainToNext, GuestAck, GuestShutdown, ExecFrame,
     cpuVars, WK!Stop
<1>3. CASE ExecExit
  <2>1. PICK pc \in {"bottom", "cached", "head", "wfi", "ret"} : ExitTo(pc)
    BY <1>3 DEF ExecExit, ExitBottom, ExitCached, ExitFault, ExitWfi,
       ExitToManager
  <2> QED
    BY <2>1, WakeStill DEF ExitTo, Goto, ExecFrame
<1>4. CASE WfiSpurious \/ RaiseLine \/ DeviceStep
  BY <1>4, WakeStill DEF WfiSpurious, RaiseLine, DeviceStep, SinkWake,
     TimerKick, TimerWake, cpuVars, WK!SpuriousWakeup, WK!Wake
<1>5. ASSUME NEW c \in Clients, ClientNext(c), UNCHANGED cpuVars
      PROVE  WakeInv'
  BY <1>5, WakeClient
<1>6. CASE UNCHANGED vars
  BY <1>6, WakeStill DEF vars
<1> QED
  BY <1>1, <1>2, <1>3, <1>4, <1>5, <1>6 DEF Next

(* After cont no wakeup meant for the pause is left to end a later WFI.    *)
THEOREM MonitorWakeNotLeft == Spec => []MonitorWakeForgotten
<1>1. Init => WakeInv
  BY ClientsAssumption DEF Init, MonitorInit, MachineInit, WakeInv, VmStates,
     Quitting, ClientStates, MonitorWakeForgotten
<1>2. WakeInv => MonitorWakeForgotten
  BY DEF WakeInv
<1> QED
  BY <1>1, <1>2, HandshakeInit, HandshakeStep, WakeStep, PTL DEF Spec
-----------------------------------------------------------------------------
(* Steps of the loop change the place in it, the exit request and the      *)
(* enable bit.                                                             *)
LEMMA TypeLoop ==
    ASSUME TypeOK, UNCHANGED Others, UNCHANGED <<resumeTo, needsWake, reason>>,
           vpc' \in Pcs, negAlign' \in BOOLEAN, ie' \in BOOLEAN
    PROVE  TypeOK'
BY DEF TypeOK, MonitorTypeOK, Others, monitorVars, clientVars, attachVars,
   wakerVars

(* Every step of the vCPU thread keeps the type invariant.                 *)
LEMMA TypeVcpu ==
    ASSUME TypeOK, VcpuStep
    PROVE  TypeOK'
<1> USE DEF TypeOK, MonitorTypeOK, VmStates, ClientStates, WK!WaiterStates,
        Pcs, WiringPcs, LoopPcs, PausePcs, WfiPcs, monitorVars, clientVars,
        attachVars, wakerVars, cpuVars, Goto, Others, OthersAndNeg
<1>1. CASE NewMachine
  <2>1. UNCHANGED <<monitorVars, clientVars, negAttached, resumeTo, needsWake>>
    BY <1>1 DEF NewMachine
  <2>2. /\ irqPending' \in BOOLEAN /\ stopped' \in BOOLEAN
        /\ monitorWake' \in BOOLEAN /\ ret' \in BOOLEAN
        /\ runFlag' \in BOOLEAN /\ negAlign' \in BOOLEAN
        /\ mip' \in BOOLEAN /\ ie' \in BOOLEAN
        /\ wkAttached' \in BOOLEAN /\ flagAttached' \in BOOLEAN
    BY <1>1, Zenon DEF NewMachine, FreshMachine
  <2>3. waiter' = "out" /\ dpc' = "idle" /\ reason' = "none" /\ vpc' = "wkCheck"
    BY <1>1 DEF NewMachine, FreshMachine
  <2> QED
    BY <2>1, <2>2, <2>3
<1>2. CASE SetWfiWakerCheck
  BY <1>2 DEF SetWfiWakerCheck, IsPauseRequested
<1>3. CASE SetWfiWaker
  <2>1. UNCHANGED <<monitorVars, clientVars, flagAttached, negAttached, runFlag,
                    negAlign, resumeTo, needsWake, mip, ie, dpc, reason>>
    BY <1>3 DEF SetWfiWaker
  <2>2. wkAttached' \in BOOLEAN /\ vpc' = "flagSet"
    BY <1>3, Zenon DEF SetWfiWaker
  <2>3. /\ irqPending' \in BOOLEAN /\ stopped' \in BOOLEAN
        /\ monitorWake' \in BOOLEAN /\ ret' \in BOOLEAN
    BY <1>3, Zenon DEF SetWfiWaker, WK!MonitorWake
  <2>4. waiter' \in WK!WaiterStates
    BY <1>3 DEF SetWfiWaker, WK!MonitorWake, WK!NotifyAll
  <2> QED
    BY <2>1, <2>2, <2>3, <2>4
<1>4. CASE SetStopFlag
  BY <1>4 DEF SetStopFlag
<1>5. CASE SetStopFlagReplay
  BY <1>5 DEF SetStopFlagReplay
<1>6. CASE SetNegAlignPtr
  BY <1>6 DEF SetNegAlignPtr
<1>7. CASE Head \/ HeadIrq
  BY <1>7 DEF Head, HeadIrq
<1>8. CASE Deliver
  <2>1. UNCHANGED Others /\ UNCHANGED <<resumeTo, needsWake, reason>>
    BY <1>8 DEF Deliver, HandleInterrupt
  <2>2. negAlign' \in BOOLEAN /\ ie' \in BOOLEAN
    BY <1>8, Zenon DEF Deliver, HandleInterrupt
  <2>3. vpc' \in Pcs
    BY <1>8 DEF Deliver, HandleInterrupt
  <2> QED
    BY <2>1, <2>2, <2>3, TypeLoop
<1>9. CASE SetExitRequest \/ ResetExitRequest
  <2>1. UNCHANGED Others /\ UNCHANGED <<resumeTo, needsWake, reason>>
    BY <1>9 DEF SetExitRequest, ResetExitRequest
  <2>2. negAlign' \in BOOLEAN /\ ie' \in BOOLEAN
    BY <1>9, Zenon DEF SetExitRequest, ResetExitRequest
  <2>3. vpc' \in Pcs
    BY <1>9 DEF SetExitRequest, ResetExitRequest
  <2> QED
    BY <2>1, <2>2, <2>3, TypeLoop
<1>10. CASE Cached \/ Bottom
  <2>1. UNCHANGED Others /\ UNCHANGED <<resumeTo, needsWake, reason>>
    BY <1>10 DEF Cached, Bottom, HandleInterrupt
  <2>2. negAlign' \in BOOLEAN /\ ie' \in BOOLEAN
    BY <1>10, Zenon DEF Cached, Bottom, HandleInterrupt
  <2>3. vpc' \in Pcs
    BY <1>10 DEF Cached, Bottom, HandleInterrupt
  <2> QED
    BY <2>1, <2>2, <2>3, TypeLoop
<1>11. CASE CachedIrq \/ BottomIrq
  BY <1>11 DEF CachedIrq, BottomIrq
<1>12. CASE StopCheck
  BY <1>12 DEF StopCheck
<1>13. CASE PauseSnapshot
  BY <1>13 DEF PauseSnapshot, ExecFrame
<1>14. CASE PauseQuitCheck \/ PauseReturn
  BY <1>14 DEF PauseQuitCheck, PauseReturn
<1>15. CASE PausePark
  BY <1>15 DEF PausePark, Park, NotifyBarrier
<1>16. CASE PauseWoken
  BY <1>16 DEF PauseWoken, ParkWoken
<1>17. CASE Wfi \/ WfiReturn
  BY <1>17 DEF Wfi, WfiReturn
<1>18. CASE WfiDone
  BY <1>18 DEF WfiDone, HandleInterrupt
<1>19. CASE WfiCall \/ WfiResume
  <2>1. WK!WaitLoop
    BY <1>19 DEF WfiCall, WfiResume, WK!WaitCall, WK!WaitResume
  <2>2. /\ irqPending' \in BOOLEAN /\ stopped' \in BOOLEAN
        /\ monitorWake' \in BOOLEAN /\ waiter' \in WK!WaiterStates
        /\ ret' \in BOOLEAN
    BY <2>1, Zenon DEF WK!WaitLoop, WK!Sleep, WK!ReturnIrq, WK!ReturnStopped,
       WK!ReturnMonitorWake, WK!ReturnExpired, WK!Return
  <2>3. vpc' = "wfiIn"
    BY <1>19 DEF WfiCall, WfiResume
  <2> QED
    BY <1>19, <2>2, <2>3 DEF WfiCall, WfiResume
<1>21. CASE ManagerReturn
  BY <1>21 DEF ManagerReturn
<1>22. CASE CycleEnd
  <2>1. cpc' \in [Clients -> ClientStates]
    BY <1>22 DEF CycleEnd, DropCpu
  <2>2. vpc' \in Pcs
    BY <1>22 DEF CycleEnd
  <2>3. negAttached' \in BOOLEAN
    BY <1>22, Zenon DEF CycleEnd
  <2>4. UNCHANGED <<monitorVars, svc, wkAttached, flagAttached, wakerVars,
                    runFlag, negAlign, mip, ie, dpc, resumeTo, needsWake, reason>>
    BY <1>22 DEF CycleEnd
  <2> QED
    BY <2>1, <2>2, <2>3, <2>4
<1> QED
  BY <1>1, <1>2, <1>3, <1>4, <1>5, <1>6, <1>7, <1>8, <1>9, <1>10,
     <1>11, <1>12, <1>13, <1>14, <1>15, <1>16, <1>17, <1>18, <1>19,
     <1>21, <1>22
  DEF VcpuStep, Wiring

(* A running block: the registers move on, the guest may acknowledge the   *)
(* line, shut the machine down or leave the block.                         *)
LEMMA TypeExec ==
    ASSUME TypeOK, ChainToNext \/ GuestAck \/ GuestShutdown \/ ExecExit
    PROVE  TypeOK'
<1> USE DEF TypeOK, MonitorTypeOK, VmStates, ClientStates, WK!WaiterStates,
        Pcs, WiringPcs, LoopPcs, PausePcs, WfiPcs, clientVars, attachVars,
        wakerVars, cpuVars, ExecFrame
<1>0. snapshot' \in {"none", "current", "outdated"} /\ UNCHANGED ExecFrame
  BY DEF ChainToNext, GuestAck, GuestShutdown, ExecExit, ExitBottom, ExitCached,
     ExitFault, ExitWfi, ExitToManager, ExitTo, Executes
<1>1. CASE ChainToNext
  BY <1>1, <1>0 DEF ChainToNext
<1>2. CASE GuestAck
  <2>1. UNCHANGED <<wakerVars, runFlag, negAlign, cpuVars, dpc>>
    BY <1>2 DEF GuestAck
  <2>2. mip' \in BOOLEAN
    BY <1>2, Zenon DEF GuestAck
  <2> QED
    BY <1>0, <2>1, <2>2
<1>3. CASE GuestShutdown
  <2>1. UNCHANGED <<irqPending, monitorWake, ret, negAlign, vpc, resumeTo,
                    needsWake, mip, ie, dpc>>
    BY <1>3 DEF GuestShutdown, WK!Stop
  <2>2. stopped' \in BOOLEAN /\ runFlag' \in BOOLEAN
    BY <1>3, Zenon DEF GuestShutdown, WK!Stop
  <2>3. reason' \in Reasons /\ waiter' \in WK!WaiterStates
    BY <1>3 DEF GuestShutdown, WK!Stop, WK!NotifyAll
  <2> QED
    BY <1>0, <2>1, <2>2, <2>3
<1>4. CASE ExecExit
  <2>1. PICK pc \in {"bottom", "cached", "head", "wfi", "ret"} : ExitTo(pc)
    BY <1>4 DEF ExecExit, ExitBottom, ExitCached, ExitFault, ExitWfi,
       ExitToManager
  <2>2. /\ UNCHANGED <<wakerVars, runFlag, negAlign, mip, dpc>>
        /\ UNCHANGED <<resumeTo, needsWake, reason>> /\ vpc' \in Pcs
    BY <2>1 DEF ExitTo, Goto
  <2>3. ie' \in BOOLEAN
    BY <1>4, Zenon DEF ExecExit, ExitBottom, ExitCached, ExitFault, ExitWfi,
       ExitToManager
  <2> QED
    BY <1>0, <2>2, <2>3
<1> QED
  BY <1>1, <1>2, <1>3, <1>4

(* The interrupt source and the condvar.                                   *)
LEMMA TypeDevice ==
    ASSUME TypeOK, WfiSpurious \/ RaiseLine \/ DeviceStep
    PROVE  TypeOK'
<1> USE DEF TypeOK, MonitorTypeOK, WK!WaiterStates, monitorVars, clientVars,
        attachVars, wakerVars, cpuVars
<1>1. UNCHANGED <<monitorVars, clientVars, attachVars, runFlag, cpuVars,
                  stopped, monitorWake, ret>>
  BY DEF WfiSpurious, WK!SpuriousWakeup, RaiseLine, DeviceStep, SinkWake,
     TimerKick, TimerWake, WK!Wake
<1>2. irqPending' \in BOOLEAN /\ negAlign' \in BOOLEAN /\ mip' \in BOOLEAN
  BY Zenon DEF WfiSpurious, WK!SpuriousWakeup, RaiseLine, DeviceStep, SinkWake,
     TimerKick, TimerWake, WK!Wake
<1>3. waiter' \in WK!WaiterStates /\ dpc' \in {"idle", "sinkWake", "kick", "wake"}
  BY DEF WfiSpurious, WK!SpuriousWakeup, RaiseLine, DeviceStep, SinkWake,
     TimerKick, TimerWake, WK!Wake, WK!NotifyAll
<1> QED
  BY <1>1, <1>2, <1>3

(* A client's command.                                                     *)
LEMMA TypeClient ==
    ASSUME TypeOK, NEW c \in Clients, ClientNext(c),
           UNCHANGED <<cpuVars, mip, dpc>>
    PROVE  TypeOK'
<1> USE DEF TypeOK, MonitorTypeOK, VmStates, WK!WaiterStates, ClientStates,
        monitorVars, clientVars, attachVars, wakerVars, cpuVars
<1>1. UNCHANGED <<attachVars, snapshot, irqPending, ret>>
  BY DEF ClientNext, ClientStep, RequestStop, RequestCont, RequestQuit,
     RequestStopWoken, QuitStopFlag, QuitResumeAndWake, QuitLoadPointer,
     QuitBreakChain, WakeForMonitor, ForgetMonitorWake, StopWaker,
     WK!MonitorWake, WK!ClearMonitorWake, WK!Stop
<1>2. innerHeld' \in BOOLEAN /\ quitRequested' \in BOOLEAN
  BY Zenon DEF ClientNext, ClientStep, RequestStop, RequestCont, RequestQuit,
     RequestStopWoken, QuitStopFlag, QuitResumeAndWake, QuitLoadPointer,
     QuitBreakChain, QuitReturn
<1>3. runFlag' \in BOOLEAN /\ negAlign' \in BOOLEAN
  BY Zenon DEF ClientNext, ClientStep, RequestStop, RequestCont, RequestQuit,
     RequestStopWoken, QuitStopFlag, QuitResumeAndWake, QuitLoadPointer,
     QuitBreakChain
<1>4. stopped' \in BOOLEAN /\ monitorWake' \in BOOLEAN
  BY Zenon DEF ClientNext, ClientStep, RequestStop, RequestCont, RequestQuit,
     RequestStopWoken, QuitStopFlag, QuitResumeAndWake, QuitLoadPointer,
     QuitBreakChain, WakeForMonitor, ForgetMonitorWake, StopWaker,
     WK!MonitorWake, WK!ClearMonitorWake, WK!Stop
<1>5. /\ vmState' \in VmStates /\ parker' \in {"out", "asleep", "notified"}
      /\ waiter' \in WK!WaiterStates /\ svc' \in Clients \cup {NoClient}
  BY DEF ClientNext, ClientStep, RequestStop, RequestCont, RequestQuit,
     RequestStopWoken, QuitStopFlag, QuitResumeAndWake, QuitLoadPointer,
     QuitBreakChain, QuitReturn, NotifyResume, WakeForMonitor,
     ForgetMonitorWake, StopWaker, WK!MonitorWake, WK!ClearMonitorWake,
     WK!Stop, WK!NotifyAll
<1>6. cpc' \in [Clients -> ClientStates]
  BY DEF ClientNext, ClientStep, RequestStop, RequestCont, RequestQuit,
     RequestStopWoken, QuitStopFlag, QuitResumeAndWake, QuitLoadPointer,
     QuitBreakChain, QuitReturn, NotifyBarrier
<1> QED
  BY <1>1, <1>2, <1>3, <1>4, <1>5, <1>6

(* The type invariant of RunControl holds in every reachable state.        *)
THEOREM TypeCorrect == Spec => []TypeOK
<1>1. Init => TypeOK
  <2>1. Init => cpc \in [Clients -> ClientStates]
    BY DEF Init, MonitorInit, ClientStates
  <2> QED
    BY <2>1, Zenon DEF Init, MonitorInit, MachineInit, TypeOK, MonitorTypeOK,
       VmStates, WK!WaiterStates, Pcs, WiringPcs
<1>2. TypeOK /\ [Next]_vars => TypeOK'
  <2>1. TypeOK /\ UNCHANGED vars => TypeOK'
    BY DEF TypeOK, MonitorTypeOK, vars, monitorVars, clientVars, attachVars,
       wakerVars
  <2> QED
    BY <2>1, TypeVcpu, TypeExec, TypeDevice, TypeClient DEF Next
<1> QED
  BY <1>1, <1>2, PTL DEF Spec

=============================================================================
