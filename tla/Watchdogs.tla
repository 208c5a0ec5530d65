------------------------------ MODULE Watchdogs -----------------------------
(* The two watchdogs of hw/watchdog/src.  Each is a specification of its     *)
(* own, over the same two variables.                                         *)
EXTENDS Naturals

VARIABLES dev,     \* the device
          env      \* its surroundings

vars == <<dev, env>>

-----------------------------------------------------------------------------
(* The SBSA generic watchdog (hw/watchdog/src/lib.rs) on top of the          *)
(* countdown timer it owns.  A handler changes the registers under their     *)
(* lock and programs the timer after releasing it, so a refresh by the guest *)
(* and a timeout can overlap.                                                *)
CONSTANT Offsets        \* timeout values, 0 included

P == INSTANCE Ptimer WITH Counts <- {}, Periods <- {}, Policies <- {}, MaxNs <- 0

New == [en |-> FALSE, ws |-> 0, off |-> 0]
SbsaInit ==
  /\ dev = [r |-> New, t |-> P!New({}), line |-> FALSE]
  /\ env = [guest |-> "none",       \* timer update the guest's write still owes
            timeout |-> "none",     \* the same for the timeout being handled
            raise |-> FALSE,        \* that timeout still owes the interrupt
            tick |-> FALSE,         \* the timer is inside its callback
            raced |-> FALSE]        \* a write and a timeout overlapped
SbsaOverlap(e) == [e EXCEPT !.raced = @ \/ (e.guest # "none" /\ (e.timeout # "none" \/ e.raise))]

\* ---- the timer's transactions
Start(t, off) ==
  [t EXCEPT !.enabled = "periodic", !.limit = off, !.delta = off, !.period = 1]
StopTimer(t) == [t EXCEPT !.enabled = "disabled"]
\* update_timer: the registers are read again under their lock, then the timer is set
SbsaUpdateTimer(d) ==
  IF d.r.en /\ d.r.off # 0 THEN [d EXCEPT !.t = Start(d.t, d.r.off)]
  ELSE [d EXCEPT !.t = StopTimer(d.t)]
Do(op, d) ==
  CASE op = "update" -> SbsaUpdateTimer(d)
    [] op = "stop" -> [d EXCEPT !.t = StopTimer(d.t)]

\* ---- the guest
SbsaGuestIdle == env.guest = "none"
RefreshWrite ==
  /\ SbsaGuestIdle
  /\ dev' = [dev EXCEPT !.r.ws = 0]
  /\ env' = SbsaOverlap([env EXCEPT !.guest = "update"])
WriteWcs(en) ==
  /\ SbsaGuestIdle
  /\ dev' = [dev EXCEPT !.r.en = en, !.r.ws = 0, !.line = FALSE]
  /\ env' = SbsaOverlap([env EXCEPT !.guest = "update"])
WriteWor(o) ==
  /\ SbsaGuestIdle
  /\ dev' = [dev EXCEPT !.r.off = o, !.r.ws = 0, !.line = FALSE]
  /\ env' = SbsaOverlap([env EXCEPT !.guest = "update"])
GuestTimer ==
  /\ env.guest # "none"
  /\ dev' = Do(env.guest, dev)
  /\ env' = [env EXCEPT !.guest = "none"]
SbsaResetRuntime ==
  /\ SbsaGuestIdle
  /\ dev' = [dev EXCEPT !.r = New, !.line = FALSE]
  /\ env' = SbsaOverlap([env EXCEPT !.guest = "stop"])

\* ---- the clock
Quiet == env.timeout = "none" /\ ~env.raise
SbsaStepTimer ==
  /\ Quiet /\ ~env.tick
  /\ dev' = [dev EXCEPT !.t = IF P!Ticks(@) THEN P!Decremented(@) ELSE @]
  /\ env' = [env EXCEPT !.tick = P!Ticks(dev.t) /\ P!Expires(dev.t)]
SbsaHandleTimeout ==
  /\ env.tick /\ Quiet
  /\ IF ~dev.r.en THEN dev' = [dev EXCEPT !.t.delta = dev.t.limit] /\ env' = [env EXCEPT !.timeout = "none", !.tick = FALSE]
     ELSE /\ dev' = [dev EXCEPT !.r.ws = IF @ = 0 THEN 1 ELSE 2]
          /\ env' = SbsaOverlap([env EXCEPT !.timeout = IF dev.r.ws = 0 THEN "update" ELSE "stop",
                                        !.raise = dev.r.ws = 0])
\* back in tick(): a periodic timer takes its limit again
SbsaTimeoutTimer ==
  /\ env.timeout # "none"
  /\ LET d == Do(env.timeout, dev)
     IN dev' = [d EXCEPT !.t.delta = d.t.limit]
  /\ env' = [env EXCEPT !.timeout = "none", !.tick = FALSE]
SbsaRaiseIrq ==
  /\ env.raise /\ env.timeout = "none"
  /\ dev' = [dev EXCEPT !.line = TRUE]
  /\ env' = [env EXCEPT !.raise = FALSE]

SbsaNext ==
  \/ RefreshWrite \/ GuestTimer \/ SbsaResetRuntime
  \/ \E en \in BOOLEAN : WriteWcs(en)
  \/ \E o \in Offsets : WriteWor(o)
  \/ SbsaStepTimer \/ SbsaHandleTimeout \/ SbsaTimeoutTimer \/ SbsaRaiseIrq

-----------------------------------------------------------------------------
SbsaSettled == SbsaGuestIdle /\ Quiet /\ ~env.tick
\* An enabled watchdog with a timeout never stops counting before its second
\* stage, and stops there, unless a guest's write overlapped a timeout: a second
\* timeout may then stop the timer the refresh has just restarted
\* (lib.rs:129-135, 153-184, 194-251).
Counting ==
  SbsaSettled /\ ~env.raced /\ dev.r.en /\ dev.r.off # 0 =>
    P!Enabled(dev.t) = (dev.r.ws < 2) /\ (dev.r.ws < 2 => dev.t.delta > 0)

\* The first stage is announced: once it is reached the line is high until the
\* guest writes a register that lowers it (lib.rs:194-218).
FirstStageRaised == SbsaSettled /\ ~env.raced /\ dev.r.ws > 0 => dev.line

-----------------------------------------------------------------------------
(* The K230 watchdog (hw/watchdog/src/k230.rs) on top of the countdown       *)
(* timer.  As in the SBSA watchdog the timer and the line are driven after   *)
(* the register lock is released.                                            *)
CONSTANT Tops           \* timeouts the TORR field selects

Policy == {"no_immediate_trigger", "no_immediate_reload", "no_counter_round_down"}

Default == [en |-> FALSE, rmod |-> FALSE, stat |-> FALSE, pending |-> FALSE, timeout |-> 0, count |-> 99]
K230Init ==
  /\ dev = [r |-> Default, t |-> P!New(Policy), line |-> FALSE]
  /\ env = [guest |-> "none",       \* what the guest's write still has to do
            timeout |-> FALSE,      \* the timeout still has to restart the timer
            raise |-> FALSE,        \* ... and to raise the line
            tick |-> FALSE,         \* the timer is inside its callback
            raced |-> FALSE]        \* a write and a timeout overlapped

K230Overlap(e) == [e EXCEPT !.raced = @ \/ (e.guest # "none" /\ (e.timeout \/ e.raise))]
K230UpdateTimer(d) ==
  LET s == [d.t EXCEPT !.enabled = "disabled"]
  IN [d EXCEPT !.t = IF d.r.en /\ d.r.timeout > 0
                     THEN [s EXCEPT !.limit = d.r.count, !.delta = d.r.count, !.period = 1, !.enabled = "periodic"]
                     ELSE s]
ClearInterrupt(d) == [d EXCEPT !.r.stat = FALSE, !.r.pending = FALSE]

K230GuestIdle == env.guest = "none"
WriteCr(en, rmod) ==
  /\ K230GuestIdle
  /\ dev' = [dev EXCEPT !.r.en = en, !.r.rmod = rmod]
  /\ env' = K230Overlap([env EXCEPT !.guest = "timer"])
WriteTorr(top) ==
  /\ K230GuestIdle
  /\ dev' = [dev EXCEPT !.r.timeout = top, !.r.count = top]
  /\ env' = K230Overlap([env EXCEPT !.guest = "timer"])
WriteCrr ==
  /\ K230GuestIdle
  /\ dev' = [ClearInterrupt(dev) EXCEPT !.r.count = dev.r.timeout]
  /\ env' = K230Overlap([env EXCEPT !.guest = "lower, timer"])
ReadEoi ==
  /\ K230GuestIdle
  /\ dev' = ClearInterrupt(dev)
  /\ env' = K230Overlap([env EXCEPT !.guest = "lower"])
\* what the guest's write does after releasing the registers
GuestAfter ==
  /\ ~K230GuestIdle
  /\ LET l == IF env.guest \in {"lower", "lower, timer", "reset"} THEN [dev EXCEPT !.line = FALSE] ELSE dev
     IN dev' = CASE env.guest = "reset" -> [l EXCEPT !.t.enabled = "disabled"]
                 [] env.guest = "lower" -> l
                 [] OTHER -> K230UpdateTimer(l)
  /\ env' = [env EXCEPT !.guest = "none"]
K230ResetRuntime ==
  /\ K230GuestIdle
  /\ dev' = [dev EXCEPT !.r = Default]
  /\ env' = K230Overlap([env EXCEPT !.guest = "reset"])

K230StepTimer ==
  /\ ~env.tick
  /\ dev' = [dev EXCEPT !.t = IF P!Ticks(@) THEN P!Decremented(@) ELSE @]
  /\ env' = [env EXCEPT !.tick = P!Ticks(dev.t) /\ P!Expires(dev.t)]
K230HandleTimeout ==
  /\ env.tick /\ ~env.timeout /\ ~env.raise
  /\ IF ~dev.r.en THEN dev' = [dev EXCEPT !.t.delta = dev.t.limit] /\ env' = [env EXCEPT !.tick = FALSE]
     ELSE /\ dev' = [dev EXCEPT !.r.stat = @ \/ dev.r.rmod, !.r.pending = @ \/ dev.r.rmod, !.r.count = dev.r.timeout]
          /\ env' = K230Overlap([env EXCEPT !.timeout = TRUE, !.raise = dev.r.rmod])
K230TimeoutTimer ==
  /\ env.timeout
  /\ dev' = K230UpdateTimer(dev)
  /\ env' = [env EXCEPT !.timeout = FALSE, !.tick = env.raise]
K230RaiseIrq ==
  /\ env.raise /\ ~env.timeout
  /\ dev' = [dev EXCEPT !.line = TRUE]
  /\ env' = [env EXCEPT !.raise = FALSE, !.tick = FALSE]

K230Next ==
  \/ \E a, b \in BOOLEAN : WriteCr(a, b)
  \/ \E n \in Tops : WriteTorr(n)
  \/ WriteCrr \/ ReadEoi \/ GuestAfter \/ K230ResetRuntime
  \/ K230StepTimer \/ K230HandleTimeout \/ K230TimeoutTimer \/ K230RaiseIrq

-----------------------------------------------------------------------------
K230Settled == K230GuestIdle /\ ~env.tick
\* The line is high exactly while an interrupt is pending, unless a guest's
\* acknowledgement overlapped a timeout that raises the line after it
\* (k230.rs:193-212, 236-255).
LineHonest == K230Settled /\ ~env.raced => dev.line = dev.r.pending /\ dev.r.stat = dev.r.pending

\* Once a timeout is selected, the watchdog counts exactly while it is enabled,
\* and always has time left (k230.rs:146-183, 214-228).
CountsWhileEnabled ==
  K230Settled /\ dev.r.timeout > 0 => P!Enabled(dev.t) = dev.r.en /\ (dev.r.en => dev.t.delta > 0)
=============================================================================
