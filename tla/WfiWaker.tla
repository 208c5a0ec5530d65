------------------------------ MODULE WfiWaker ------------------------------
(***************************************************************************)
(* The wakeup primitive of a halted hart (core/src/wfi.rs).  WfiState is   *)
(* guarded by one mutex, so every method is one atomic step; the only      *)
(* place that gives the mutex up is the condition-variable wait inside     *)
(* wait(), which therefore is split where the thread sleeps.               *)
(*                                                                         *)
(* One hart thread calls wait(); device, timer, monitor and manager        *)
(* threads call the other methods at any time.  Instants are natural       *)
(* numbers read from the clock `now`.                                      *)
(***************************************************************************)
EXTENDS Naturals

CONSTANTS
    Instants,   \* the instants set_deadline may be given
    MaxTime,    \* bound on the clock
    NoDeadline  \* Option::None of an Option<Instant>

ASSUME InstantsAssumption ==
    /\ Instants \subseteq Nat
    /\ MaxTime \in Nat
    /\ NoDeadline \notin Nat

VARIABLES
    irqPending,     \* WfiState.irq_pending
    stopped,        \* WfiState.stopped
    monitorWake,    \* WfiState.monitor_wake
    deadline,       \* WfiState.deadline
    waiter,         \* where the hart thread is in wait()
    armed,          \* the deadline its wait_timeout was computed from
    ret,            \* what the last completed wait() returned
    now             \* Instant::now()

wkVars == <<irqPending, stopped, monitorWake, deadline, waiter, armed, ret>>
vars == <<irqPending, stopped, monitorWake, deadline, waiter, armed, ret, now>>

(***************************************************************************)
(* "out": not inside wait(); "asleep": in the wait set of the condvar;     *)
(* "notified": taken out of the wait set, not yet holding the mutex;       *)
(* "timedOut": the same, with result.timed_out() true.                     *)
(***************************************************************************)
WaiterStates == {"out", "asleep", "notified", "timedOut"}

TypeOK ==
    /\ irqPending \in BOOLEAN
    /\ stopped \in BOOLEAN
    /\ monitorWake \in BOOLEAN
    /\ deadline \in Nat \cup {NoDeadline}
    /\ waiter \in WaiterStates
    /\ armed \in Nat \cup {NoDeadline}
    /\ ret \in BOOLEAN
    /\ now \in Nat

WakerInit ==
    /\ irqPending = FALSE
    /\ stopped = FALSE
    /\ monitorWake = FALSE
    /\ deadline = NoDeadline
    /\ waiter = "out"
    /\ armed = NoDeadline
    /\ ret = FALSE

Init == WakerInit /\ now = 0

-----------------------------------------------------------------------------
(* Condvar::notify_all moves the sleeping thread out of the wait set. *)
NotifyAll == waiter' = IF waiter = "asleep" THEN "notified" ELSE waiter

(* A wake() that sets the flag and forgets to signal the condvar. *)
WakeNoNotify ==
    /\ irqPending' = TRUE
    /\ UNCHANGED <<stopped, monitorWake, deadline, waiter, armed, ret, now>>

Wake ==
    /\ irqPending' = TRUE
    /\ NotifyAll
    /\ UNCHANGED <<stopped, monitorWake, deadline, armed, ret, now>>

MonitorWake ==
    /\ monitorWake' = TRUE
    /\ NotifyAll
    /\ UNCHANGED <<irqPending, stopped, deadline, armed, ret, now>>

ClearMonitorWake ==
    /\ monitorWake' = FALSE
    /\ UNCHANGED <<irqPending, stopped, deadline, waiter, armed, ret, now>>

Stop ==
    /\ stopped' = TRUE
    /\ NotifyAll
    /\ UNCHANGED <<irqPending, monitorWake, deadline, armed, ret, now>>

(* A set_deadline() that leaves the sleeper on its old timeout. *)
SetDeadlineNoNotify(d) ==
    /\ deadline' = d
    /\ UNCHANGED <<irqPending, stopped, monitorWake, waiter, armed, ret, now>>

SetDeadline(d) ==
    /\ deadline' = d
    /\ NotifyAll
    /\ UNCHANGED <<irqPending, stopped, monitorWake, armed, ret, now>>

ClearDeadline ==
    /\ deadline' = NoDeadline
    /\ UNCHANGED <<irqPending, stopped, monitorWake, waiter, armed, ret, now>>

-----------------------------------------------------------------------------
Return(r) == waiter' = "out" /\ ret' = r /\ armed' = NoDeadline

(* One pass through the loop of wait(), made while holding the mutex. *)
ReturnIrq ==
    /\ irqPending
    /\ irqPending' = FALSE
    /\ Return(TRUE)
    /\ UNCHANGED <<stopped, monitorWake, deadline, now>>

ReturnStopped ==
    /\ ~irqPending /\ stopped
    /\ Return(FALSE)
    /\ UNCHANGED <<irqPending, stopped, monitorWake, deadline, now>>

ReturnMonitorWake ==
    /\ ~irqPending /\ ~stopped /\ monitorWake
    /\ monitorWake' = FALSE
    /\ Return(TRUE)
    /\ UNCHANGED <<irqPending, stopped, deadline, now>>

NothingLatched == ~irqPending /\ ~stopped /\ ~monitorWake

ReturnExpired ==
    /\ NothingLatched
    /\ deadline # NoDeadline
    /\ now >= deadline
    /\ deadline' = NoDeadline
    /\ Return(TRUE)
    /\ UNCHANGED <<irqPending, stopped, monitorWake, now>>

(* A wait() that sleeps without a timeout although a deadline is set. *)
SleepUntimed ==
    /\ NothingLatched
    /\ deadline # NoDeadline => now < deadline
    /\ waiter' = "asleep"
    /\ armed' = NoDeadline
    /\ UNCHANGED <<irqPending, stopped, monitorWake, deadline, ret, now>>

Sleep ==
    /\ NothingLatched
    /\ deadline # NoDeadline => now < deadline
    /\ waiter' = "asleep"
    /\ armed' = deadline
    /\ UNCHANGED <<irqPending, stopped, monitorWake, deadline, ret, now>>

WaitLoop ==
    \/ ReturnIrq
    \/ ReturnStopped
    \/ ReturnMonitorWake
    \/ ReturnExpired
    \/ Sleep

(* The hart thread calls wait(), or gets the mutex back after a notify.    *)
WaitCall == waiter = "out" /\ WaitLoop
WaitResume == waiter = "notified" /\ WaitLoop

(* wait_timeout returned with timed_out(): the deadline in force now is    *)
(* cleared, whichever one it is, and nothing else is looked at.            *)
WaitTimedOut ==
    /\ waiter = "timedOut"
    /\ deadline' = NoDeadline
    /\ Return(TRUE)
    /\ UNCHANGED <<irqPending, stopped, monitorWake, now>>

(* The condvar's own steps: its timer fires, or it wakes spuriously.       *)
TimeOut ==
    /\ waiter = "asleep"
    /\ armed # NoDeadline
    /\ now >= armed
    /\ waiter' = "timedOut"
    /\ UNCHANGED <<irqPending, stopped, monitorWake, deadline, armed, ret, now>>

SpuriousWakeup ==
    /\ waiter = "asleep"
    /\ waiter' = "notified"
    /\ UNCHANGED <<irqPending, stopped, monitorWake, deadline, armed, ret, now>>

Tick == now < MaxTime /\ now' = now + 1 /\ UNCHANGED wkVars

HartStep == WaitResume \/ WaitTimedOut \/ TimeOut

Next ==
    \/ Wake
    \/ MonitorWake
    \/ ClearMonitorWake
    \/ Stop
    \/ \E d \in Instants : SetDeadline(d)
    \/ ClearDeadline
    \/ WaitCall
    \/ WaitResume
    \/ WaitTimedOut
    \/ TimeOut
    \/ SpuriousWakeup
    \/ Tick

(* The host scheduler runs a thread that can run, and time passes.         *)
Spec == Init /\ [][Next]_vars /\ WF_vars(HartStep) /\ WF_vars(Tick)

-----------------------------------------------------------------------------
(***************************************************************************)
(* No lost wakeup: a hart in the wait set of the condvar has no latched    *)
(* wake(), stop() or monitor_wake().  This is the reason the module keeps  *)
(* all of WfiState under one mutex.                                        *)
(***************************************************************************)
NoLostWakeup == waiter = "asleep" => NothingLatched

(***************************************************************************)
(* A sleeping hart never runs on an outdated timeout: whenever a deadline  *)
(* is set, its wait_timeout was computed from that very deadline, because  *)
(* set_deadline() makes it recompute.                                      *)
(***************************************************************************)
SleepsOnCurrentDeadline ==
    waiter = "asleep" /\ deadline # NoDeadline => armed = deadline

(***************************************************************************)
(* wait() ends.  Once stop() was called the hart does not stay inside it;  *)
(* and a hart asleep with a deadline set leaves or has that deadline       *)
(* replaced or cleared: an expiry is never slept through.                  *)
(***************************************************************************)
WaitEnds ==
    /\ stopped ~> waiter = "out"
    /\ \A d \in Instants :
          waiter = "asleep" /\ deadline = d ~> waiter = "out" \/ deadline # d

(***************************************************************************)
(* What the comment on set_deadline says: it makes "an ongoing wait()      *)
(* recalculate its timeout".  So wait() itself drops a deadline only once  *)
(* that deadline has passed.                                               *)
(***************************************************************************)
WaitDropsOnlyExpired ==
    [][waiter = "timedOut" /\ waiter' = "out" /\ deadline # NoDeadline
        => now >= deadline]_vars
=============================================================================
