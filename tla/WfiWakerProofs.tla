--------------------------- MODULE WfiWakerProofs ---------------------------
(***************************************************************************)
(* Proofs about WfiWaker for every set of instants and every clock bound.  *)
(***************************************************************************)
EXTENDS WfiWaker, TLAPS

(* Every step of the waker and of its callers keeps the type invariant.    *)
LEMMA TypeStep == TypeOK /\ [Next]_vars => TypeOK'
<1> SUFFICES ASSUME TypeOK, [Next]_vars PROVE TypeOK'
  OBVIOUS
<1> USE InstantsAssumption DEF TypeOK, WaiterStates
<1>1. CASE Wake
  BY <1>1 DEF Wake, NotifyAll
<1>2. CASE MonitorWake
  BY <1>2 DEF MonitorWake, NotifyAll
<1>3. CASE ClearMonitorWake
  BY <1>3 DEF ClearMonitorWake
<1>4. CASE Stop
  BY <1>4 DEF Stop, NotifyAll
<1>5. ASSUME NEW d \in Instants, SetDeadline(d) PROVE TypeOK'
  BY <1>5 DEF SetDeadline, NotifyAll
<1>6. CASE ClearDeadline
  BY <1>6 DEF ClearDeadline
<1>7. CASE WaitLoop
  BY <1>7 DEF WaitLoop, ReturnIrq, ReturnStopped, ReturnMonitorWake,
     ReturnExpired, Sleep, Return
<1>8. CASE WaitTimedOut
  BY <1>8 DEF WaitTimedOut, Return
<1>9. CASE TimeOut
  BY <1>9 DEF TimeOut
<1>10. CASE SpuriousWakeup
  BY <1>10 DEF SpuriousWakeup
<1>11. CASE Tick
  BY <1>11 DEF Tick, wkVars
<1>12. CASE UNCHANGED vars
  BY <1>12 DEF vars
<1> QED
  BY <1>1, <1>2, <1>3, <1>4, <1>5, <1>6, <1>7, <1>8, <1>9, <1>10, <1>11, <1>12
     DEF Next, WaitCall, WaitResume

(* The type invariant of WfiWaker holds in every reachable state.          *)
THEOREM TypeCorrect == Spec => []TypeOK
<1>0. 0 \in Nat
  OBVIOUS
<1>1. Init => TypeOK
  BY <1>0, Zenon DEF Init, WakerInit, TypeOK, WaiterStates
<1> QED
  BY <1>1, TypeStep, PTL DEF Spec

-----------------------------------------------------------------------------
(* Both safety properties are inductive as they stand: the sleeper's view  *)
(* is fixed in the step that puts it to sleep, and each method that could  *)
(* falsify it signals the condvar in the same critical section.            *)
LEMMA SleeperStep ==
    ASSUME NoLostWakeup, SleepsOnCurrentDeadline, [Next]_vars
    PROVE  NoLostWakeup' /\ SleepsOnCurrentDeadline'
<1> USE DEF NoLostWakeup, SleepsOnCurrentDeadline, NothingLatched
<1>1. CASE Wake \/ MonitorWake \/ Stop
  BY <1>1 DEF Wake, MonitorWake, Stop, NotifyAll
<1>2. CASE ClearMonitorWake \/ ClearDeadline
  BY <1>2 DEF ClearMonitorWake, ClearDeadline
<1>3. ASSUME NEW d \in Instants, SetDeadline(d)
      PROVE  NoLostWakeup' /\ SleepsOnCurrentDeadline'
  BY <1>3 DEF SetDeadline, NotifyAll
<1>4. CASE WaitLoop
  <2>1. CASE Sleep
    BY <2>1 DEF Sleep
  <2>2. CASE ~Sleep
    BY <1>4, <2>2 DEF WaitLoop, ReturnIrq, ReturnStopped, ReturnMonitorWake,
       ReturnExpired, Return
  <2> QED
    BY <2>1, <2>2
<1>5. CASE WaitTimedOut \/ TimeOut \/ SpuriousWakeup
  BY <1>5 DEF WaitTimedOut, TimeOut, SpuriousWakeup, Return
<1>6. CASE Tick \/ UNCHANGED vars
  BY <1>6 DEF Tick, wkVars, vars
<1> QED
  BY <1>1, <1>2, <1>3, <1>4, <1>5, <1>6 DEF Next, WaitCall, WaitResume

(* No wake(), stop() or monitor_wake() is ever slept through.              *)
THEOREM WakeupsNotLost == Spec => []NoLostWakeup
<1>1. Init => NoLostWakeup /\ SleepsOnCurrentDeadline
  BY DEF Init, WakerInit, NoLostWakeup, SleepsOnCurrentDeadline
<1> QED
  BY <1>1, SleeperStep, PTL DEF Spec

(* A sleeper's timeout always comes from the deadline in force.            *)
THEOREM DeadlineNotOutdated == Spec => []SleepsOnCurrentDeadline
<1>1. Init => NoLostWakeup /\ SleepsOnCurrentDeadline
  BY DEF Init, WakerInit, NoLostWakeup, SleepsOnCurrentDeadline
<1> QED
  BY <1>1, SleeperStep, PTL DEF Spec
=============================================================================
