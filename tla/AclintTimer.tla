----------------------------- MODULE AclintTimer -----------------------------
(***************************************************************************)
(* The machine timer of one hart (hw/intc/src/aclint.rs): mtime,           *)
(* mtimecmp, the MTI line, and the background worker that raises it.  The  *)
(* hart thread writes the registers (MMIO or SBI set_timer) or resets the  *)
(* device; a worker thread polls deadline_ns.  They share only the atomics *)
(* deadline_ns and worker_active and the line, so a handler is split       *)
(* wherever it touches one of these or reads the clock again.              *)
(*                                                                         *)
(* One unit of time is one mtime tick.  A register write is abstracted to  *)
(* the 64-bit value it leaves; accesses of a wrong size change nothing.    *)
(* The worker's exit request and wakeup are RunControl's subject.          *)
(***************************************************************************)
EXTENDS Integers

CONSTANTS
    Workers,    \* slots for worker threads
    Values,     \* values written to mtime and mtimecmp
    Never,      \* u64::MAX: no compare value, no deadline
    Cap,        \* the 100 s limit on a scheduled delay
    MaxTime     \* bound on the clock

ASSUME TimeAssumption ==
    /\ Values \subseteq Nat /\ Cap \in Nat /\ MaxTime \in Nat
    /\ Never \in Nat
    /\ \A v \in Values : v + MaxTime + Cap < Never

VARIABLES
    now,            \* the host clock
    base, epoch,    \* AclintRegs.mtime_base and .epoch
    mtimecmp,       \* AclintRegs.mtimecmp[hart]
    line,           \* the MTI line
    deadline,       \* TimerState.deadline_ns[hart]
    workerActive,   \* TimerState.worker_active[hart]
    wfiDeadline,    \* the deadline given to the WfiWaker
    gpc,            \* place of the hart thread in a handler
    gval, gpend,    \* its locals: the value written; `pending`
    wpc, wdl,       \* each worker's place and its local `deadline`
    overtaken,      \* history: a cancel came after a worker's CAS, or a
                    \* delay was cut to Cap
    spawnFailed     \* history: the host refused a thread

regs == <<base, epoch, mtimecmp>>
hart == <<gpc, gval, gpend>>
workers == <<wpc, wdl>>
history == <<overtaken, spawnFailed>>
vars == <<now, regs, line, deadline, workerActive, wfiDeadline, hart, workers,
          history>>

(* A handler returns; its locals are gone.                                 *)
Return == gpc' = "idle" /\ gval' = 0 /\ gpend' = FALSE

Mtime == base + (now - epoch)

(* Places of a worker that owns worker_active.                             *)
Owning == {"load", "off", "check", "claim", "fire", "sleep"}
WorkerPcs == Owning \cup {"none", "recheck", "reclaim"}
HartPcs == {"idle", "cmp", "line", "sched", "store", "activate", "spawn", "wfi",
            "mtime", "update", "updateLine", "reset", "lower"}

TypeOK ==
    /\ now \in Nat /\ base \in Nat /\ epoch \in Nat /\ mtimecmp \in Nat
    /\ line \in BOOLEAN
    /\ deadline \in Nat
    /\ workerActive \in BOOLEAN
    /\ wfiDeadline \in Nat
    /\ gpc \in HartPcs /\ gval \in Nat /\ gpend \in BOOLEAN
    /\ wpc \in [Workers -> WorkerPcs]
    /\ wdl \in [Workers -> Nat]
    /\ overtaken \in BOOLEAN /\ spawnFailed \in BOOLEAN

Init ==
    /\ now = 0 /\ base = 0 /\ epoch = 0
    /\ mtimecmp = Never
    /\ line = FALSE
    /\ deadline = Never
    /\ workerActive = FALSE
    /\ wfiDeadline = Never
    /\ gpc = "idle" /\ gval = 0 /\ gpend = FALSE
    /\ wpc = [w \in Workers |-> "none"]
    /\ wdl = [w \in Workers |-> Never]
    /\ overtaken = FALSE /\ spawnFailed = FALSE

Tick ==
    /\ now < MaxTime
    /\ now' = now + 1
    /\ UNCHANGED <<regs, line, deadline, workerActive, wfiDeadline, hart,
                   workers, history>>

-----------------------------------------------------------------------------
(* cancel_timer(): a worker past its CAS is not stopped by it.             *)
CancelTimer ==
    /\ deadline' = Never
    /\ overtaken' = (overtaken \/ \E w \in Workers : wpc[w] = "fire")

(* A write that forgets to cancel the timer of the old value. *)
WriteMtimecmpNoCancel(v) ==
    /\ gpc = "idle"
    /\ gpc' = "cmp" /\ gval' = v
    /\ UNCHANGED <<now, regs, line, deadline, workerActive, wfiDeadline, gpend,
                   workers, history>>

(* write(mtimecmp): cancel, store and compare, drive the line, schedule a  *)
(* worker if the value lies ahead, tell the WfiWaker.                      *)
WriteMtimecmp(v) ==
    /\ gpc = "idle"
    /\ gpc' = "cmp" /\ gval' = v
    /\ CancelTimer
    /\ UNCHANGED <<now, regs, line, workerActive, wfiDeadline, gpend, workers,
                   spawnFailed>>

StoreMtimecmp ==
    /\ gpc = "cmp"
    /\ mtimecmp' = gval
    /\ gpend' = (Mtime >= gval)
    /\ gpc' = "line"
    /\ UNCHANGED <<now, base, epoch, line, deadline, workerActive, wfiDeadline,
                   gval, workers, history>>

DriveLine ==
    /\ gpc = "line"
    /\ line' = gpend
    /\ gpc' = IF gpend THEN "wfi" ELSE "sched"
    /\ UNCHANGED <<now, regs, deadline, workerActive, wfiDeadline, gval, gpend,
                   workers, history>>

(* schedule_timer() reads the clock again.                                 *)
ScheduleTimer ==
    /\ gpc = "sched"
    /\ IF mtimecmp = Never \/ mtimecmp <= Mtime
         THEN gpc' = "wfi" /\ UNCHANGED gval
         ELSE gpc' = "store" /\ gval' = mtimecmp - Mtime
    /\ UNCHANGED <<now, regs, line, deadline, workerActive, wfiDeadline, gpend,
                   workers, history>>

AtMost(d) == IF d < Cap THEN d ELSE Cap

StoreDeadline ==
    /\ gpc = "store"
    /\ deadline' = now + AtMost(gval)
    /\ overtaken' = (overtaken \/ gval > Cap)
    /\ gpc' = "activate"
    /\ UNCHANGED <<now, regs, line, workerActive, wfiDeadline, gval, gpend,
                   workers, spawnFailed>>

(* An activation that spawns without asking whether a worker is there. *)
ActivateAlways ==
    /\ gpc = "activate"
    /\ workerActive' = TRUE
    /\ gpc' = "spawn"
    /\ UNCHANGED <<now, regs, line, deadline, wfiDeadline, gval, gpend, workers,
                   history>>

Activate ==
    /\ gpc = "activate"
    /\ workerActive' = TRUE
    /\ gpc' = IF workerActive THEN "wfi" ELSE "spawn"
    /\ UNCHANGED <<now, regs, line, deadline, wfiDeadline, gval, gpend, workers,
                   history>>

Spawn ==
    /\ gpc = "spawn"
    /\ \E w \in Workers :
         wpc[w] = "none" /\ wpc' = [wpc EXCEPT ![w] = "load"]
    /\ gpc' = "wfi"
    /\ UNCHANGED <<now, regs, line, deadline, workerActive, wfiDeadline, gval,
                   gpend, wdl, history>>

SpawnFails ==
    /\ gpc = "spawn"
    /\ workerActive' = FALSE
    /\ spawnFailed' = TRUE
    /\ gpc' = "wfi"
    /\ UNCHANGED <<now, regs, line, deadline, wfiDeadline, gval, gpend, workers,
                   overtaken>>

(* An update_wfi_deadline() that takes the compare value for an instant. *)
UpdateWfiDeadlineRaw ==
    /\ gpc = "wfi"
    /\ wfiDeadline' = mtimecmp
    /\ Return
    /\ UNCHANGED <<now, regs, line, deadline, workerActive, workers, history>>

UpdateWfiDeadline ==
    /\ gpc = "wfi"
    /\ wfiDeadline' =
         IF mtimecmp = Never THEN Never
         ELSE IF mtimecmp <= Mtime THEN wfiDeadline
         ELSE now + AtMost(mtimecmp - Mtime)
    /\ Return
    /\ UNCHANGED <<now, regs, line, deadline, workerActive, workers, history>>

(* The hart's wait() ends at the deadline and clears it.                   *)
WfiExpires ==
    /\ gpc = "idle" /\ wfiDeadline <= now
    /\ wfiDeadline' = Never
    /\ UNCHANGED <<now, regs, line, deadline, workerActive, hart, workers,
                   history>>

-----------------------------------------------------------------------------
(* write(mtime): cancel, move the clock, update_mti().  Nothing is         *)
(* scheduled for the new distance to mtimecmp.                             *)
WriteMtime(v) ==
    /\ gpc = "idle"
    /\ gpc' = "mtime" /\ gval' = v
    /\ CancelTimer
    /\ UNCHANGED <<now, regs, line, workerActive, wfiDeadline, gpend, workers,
                   spawnFailed>>

StoreMtime ==
    /\ gpc = "mtime"
    /\ base' = gval /\ epoch' = now
    /\ gpc' = "update"
    /\ UNCHANGED <<now, mtimecmp, line, deadline, workerActive, wfiDeadline,
                   gval, gpend, workers, history>>

UpdateMti ==
    /\ gpc = "update"
    /\ gpend' = (Mtime >= mtimecmp)
    /\ gpc' = "updateLine"
    /\ UNCHANGED <<now, regs, line, deadline, workerActive, wfiDeadline, gval,
                   workers, history>>

UpdateMtiLine ==
    /\ gpc = "updateLine"
    /\ line' = gpend
    /\ Return
    /\ UNCHANGED <<now, regs, deadline, workerActive, wfiDeadline, workers, history>>

(* reset_runtime().                                                        *)
ResetRuntime ==
    /\ gpc = "idle"
    /\ gpc' = "reset"
    /\ CancelTimer
    /\ UNCHANGED <<now, regs, line, workerActive, wfiDeadline, gval, gpend,
                   workers, spawnFailed>>

ResetRegs ==
    /\ gpc = "reset"
    /\ base' = 0 /\ epoch' = now /\ mtimecmp' = Never
    /\ gpc' = "lower"
    /\ UNCHANGED <<now, line, deadline, workerActive, wfiDeadline, gval, gpend,
                   workers, history>>

LowerOutputs ==
    /\ gpc = "lower"
    /\ line' = FALSE
    /\ wfiDeadline' = Never
    /\ Return
    /\ UNCHANGED <<now, regs, deadline, workerActive, workers,
                   history>>

HartStep ==
    \/ StoreMtimecmp \/ DriveLine \/ ScheduleTimer \/ StoreDeadline
    \/ Activate \/ Spawn \/ UpdateWfiDeadline
    \/ StoreMtime \/ UpdateMti \/ UpdateMtiLine
    \/ ResetRegs \/ LowerOutputs

-----------------------------------------------------------------------------
(* timer_worker_loop().                                                    *)
WorkerFrame == <<now, regs, wfiDeadline, hart, history>>
At(w, pc) == wpc[w] = pc
GoTo(w, pc) == wpc' = [wpc EXCEPT ![w] = pc]
Forget(w) == wdl' = [wdl EXCEPT ![w] = Never]

Load(w) ==
    /\ At(w, "load")
    /\ wdl' = [wdl EXCEPT ![w] = deadline]
    /\ GoTo(w, IF deadline = Never THEN "off" ELSE "check")
    /\ UNCHANGED <<WorkerFrame, line, deadline, workerActive>>

(* A worker that leaves without looking again. *)
DeactivateAndReturn(w) ==
    /\ At(w, "off")
    /\ workerActive' = FALSE
    /\ GoTo(w, "none")
    /\ UNCHANGED <<WorkerFrame, line, deadline, wdl>>

(* No deadline: give up worker_active, then look again, since one may have *)
(* been stored while the flag was still set.                               *)
Deactivate(w) ==
    /\ At(w, "off")
    /\ workerActive' = FALSE
    /\ GoTo(w, "recheck")
    /\ UNCHANGED <<WorkerFrame, line, deadline, wdl>>

Recheck(w) ==
    /\ At(w, "recheck")
    /\ GoTo(w, IF deadline = Never THEN "none" ELSE "reclaim")
    /\ UNCHANGED <<WorkerFrame, line, deadline, workerActive, wdl>>

Reclaim(w) ==
    /\ At(w, "reclaim")
    /\ workerActive' = TRUE
    /\ GoTo(w, IF workerActive THEN "none" ELSE "load")
    /\ UNCHANGED <<WorkerFrame, line, deadline, wdl>>

Check(w) ==
    /\ At(w, "check")
    /\ GoTo(w, IF now >= wdl[w] THEN "claim" ELSE "sleep")
    /\ UNCHANGED <<WorkerFrame, line, deadline, workerActive, wdl>>

Claim(w) ==
    /\ At(w, "claim")
    /\ IF deadline = wdl[w]
         THEN deadline' = Never /\ GoTo(w, "fire")
         ELSE UNCHANGED deadline /\ GoTo(w, "load")
    /\ Forget(w)
    /\ UNCHANGED <<WorkerFrame, line, workerActive>>

(* A worker that asks for the exit and wakes the hart, and leaves the line. *)
FireQuiet(w) ==
    /\ At(w, "fire")
    /\ GoTo(w, "load")
    /\ UNCHANGED <<WorkerFrame, line, deadline, workerActive, wdl>>

Fire(w) ==
    /\ At(w, "fire")
    /\ line' = TRUE
    /\ GoTo(w, "load")
    /\ UNCHANGED <<WorkerFrame, deadline, workerActive, wdl>>

(* At most 1 ms, or until the deadline it has read.                        *)
WakeUp(w) ==
    /\ At(w, "sleep")
    /\ GoTo(w, "load")
    /\ Forget(w)
    /\ UNCHANGED <<WorkerFrame, line, deadline, workerActive>>

WorkerStep(w) ==
    \/ Load(w) \/ Deactivate(w) \/ Recheck(w) \/ Reclaim(w)
    \/ Check(w) \/ Claim(w) \/ Fire(w) \/ WakeUp(w)

Next ==
    \/ Tick
    \/ \E v \in Values \cup {Never} : WriteMtimecmp(v)
    \/ \E v \in Values : WriteMtime(v)
    \/ ResetRuntime
    \/ HartStep
    \/ SpawnFails
    \/ WfiExpires
    \/ \E w \in Workers : WorkerStep(w)

(* Host threads run and time passes.                                       *)
Spec ==
    /\ Init /\ [][Next]_vars
    /\ WF_vars(Tick) /\ WF_vars(HartStep)
    /\ \A w \in Workers : WF_vars(WorkerStep(w))
-----------------------------------------------------------------------------
(* At most one worker thread polls for a hart, however often mtimecmp is   *)
(* written ("Each hart uses at most one timer worker"); a second one can   *)
(* only be on its way out.                                                 *)
OneWorker ==
    \A w1, w2 \in Workers : wpc[w1] \in Owning /\ wpc[w2] \in Owning => w1 = w2

(* A stored deadline is never left without a thread that will see it: the  *)
(* worker's second look covers a deadline stored while the worker was      *)
(* giving up.                                                              *)
NoOrphanDeadline ==
    deadline # Never /\ ~spawnFailed =>
        \/ gpc \in {"activate", "spawn"}
        \/ \E w \in Workers : wpc[w] # "none"

(* Outside the handlers the line is up only if the compare value has been  *)
(* reached; the only exceptions are a worker that claimed its deadline     *)
(* just before it was cancelled, and a delay longer than the 100 s limit.  *)
LineHonest ==
    line /\ gpc = "idle" /\ ~overtaken => Mtime >= mtimecmp

(* A stored deadline that passes raises MTI: whichever worker claims it    *)
(* goes on to drive the line.  Only a register write or a reset that       *)
(* cancels it first, or a host that refuses the thread, prevents that      *)
(* (timer_worker_loop, cancel_timer).                                      *)
Cancelling == gpc \in {"cmp", "mtime", "reset"}
DeadlineServed == deadline <= now ~> line \/ Cancelling \/ spawnFailed

(* A hart that goes to WFI after programming the timer has a deadline no   *)
(* later than the moment mtime reaches mtimecmp, until it has slept it     *)
(* out.                                                                    *)
WfiDeadlineInTime ==
    gpc = "idle" /\ deadline # Never /\ Mtime < mtimecmp =>
        \/ wfiDeadline <= now + (mtimecmp - Mtime)
        \/ wfiDeadline = Never /\ overtaken

(* The timer fires: once mtime has reached mtimecmp the line is raised,    *)
(* unless a register is written first or the host refused the thread       *)
(* ("Schedule a background timer for `hart` that will assert MTI when the  *)
(* wall clock reaches `mtimecmp`").                                        *)
TimerFires ==
    gpc = "idle" /\ Mtime >= mtimecmp ~> line \/ gpc # "idle" \/ spawnFailed
=============================================================================
