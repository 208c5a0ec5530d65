------------------------------- MODULE Ptimer -------------------------------
(* The countdown timer of hw/timer/src/lib.rs, the clock that drives it in   *)
(* pieces and the driver that programs it, from its own thread or from the   *)
(* expiry callback.  A step is one borrow of the state: drive_ptimer, step   *)
(* and tick take it anew for every read, and both tick() and reload() give   *)
(* it up for the callback and then act on what they find.  One drive and one *)
(* commit are in progress at a time.                                         *)
EXTENDS Naturals

CONSTANTS Counts,       \* values the driver programs as counter and limit
          Periods,      \* periods in ns, 0 included
          Policies,     \* the policy masks of the timers under study
          MaxNs         \* longest step of the clock
VARIABLES dev, env

vars == <<dev, env>>

New(p) ==
  [enabled |-> "disabled", limit |-> 0, delta |-> 0, period |-> 0, policy |-> p,
   tx |-> FALSE, reload |-> FALSE, residual |-> 0]
Idle == [at |-> "idle"]
Init ==
  /\ \E p \in Policies : dev = New(p)
  /\ env = [clock |-> Idle,        \* where the drive is, with its locals
            reloading |-> FALSE,   \* a commit is in the callback of reload()
            ns |-> 0,              \* time driven since the counter was loaded
            steady |-> FALSE,      \* nothing programmed since then
            mode |-> "disabled",   \* what run() or stop() last asked for
            zeroed |-> TRUE,       \* limit or period was zero at some time since then
            lost |-> FALSE]        \* it was asked during the callback of a one-shot expiry
Enabled(d) == d.enabled # "disabled"
Resting == env.clock = Idle /\ ~env.reloading
InOneShot == env.clock.at = "callback" /\ env.clock.mode = "oneshot"
Disturbed(e) ==
  [e EXCEPT !.steady = FALSE, !.zeroed = @ \/ dev'.limit = 0 \/ dev'.period = 0]
Asked(m) ==
  [Disturbed(env) EXCEPT !.mode = m, !.zeroed = dev.limit = 0 \/ dev.period = 0, !.lost = InOneShot]

NeedReloadIfEnabled(d) == Enabled(d) /\ "no_immediate_trigger" \notin d.policy
FlagReload(d) ==
  IF d.delta = 0 /\ NeedReloadIfEnabled(d) THEN [d EXCEPT !.reload = TRUE] ELSE d

\* ---- the driver's calls, from its thread or from a callback; the interface asks
\* for a transaction around them
Begin == ~dev.tx /\ dev' = [dev EXCEPT !.tx = TRUE] /\ UNCHANGED env
SetPeriod(p) == dev.tx /\ dev' = [dev EXCEPT !.period = p] /\ env' = Disturbed(env)
SetLimit(l, r) ==
  /\ dev.tx
  /\ dev' = FlagReload([dev EXCEPT !.limit = l, !.delta = IF r THEN l ELSE @])
  /\ env' = Disturbed(env)
SetCount(c) == dev.tx /\ dev' = FlagReload([dev EXCEPT !.delta = c]) /\ env' = Disturbed(env)
Run(mode) == dev.tx /\ dev' = FlagReload([dev EXCEPT !.enabled = mode]) /\ env' = Asked(mode)
Stop == dev.tx /\ dev' = [dev EXCEPT !.enabled = "disabled"] /\ env' = Asked("disabled")

\* reload(0) behind its callback
ReloadDelta(d) ==
  IF d.delta = 0 /\ "no_immediate_reload" \notin d.policy THEN d.limit ELSE d.delta
ReloadOne(d, delta) ==
  delta = 0 /\ \/ "continuous_trigger" \in d.policy /\ d.enabled = "periodic" /\ d.limit = 0
               \/ "no_immediate_trigger" \in d.policy
               \/ "no_immediate_reload" \in d.policy /\ d.enabled = "periodic" /\ d.limit # 0
Reload(d) ==
  LET delta == IF ReloadOne(d, ReloadDelta(d)) /\ d.period # 0 THEN 1 ELSE ReloadDelta(d)
  IN [d EXCEPT !.delta = delta,
               !.enabled = IF d.period = 0 \/ delta = 0 THEN "disabled" ELSE @]
ReloadTriggers(d) ==
  d.delta = 0 /\ {"no_immediate_trigger", "trigger_only_on_decrement"} \cap d.policy = {}
Committed(e, d) ==
  [e EXCEPT !.reloading = FALSE, !.ns = 0,
            !.steady = e.clock = Idle /\ d.delta = d.limit /\ d.delta # 0 /\ d.period # 0 /\ d.residual = 0]
Commit ==
  /\ dev.tx /\ ~env.reloading
  /\ LET d == [dev EXCEPT !.tx = FALSE, !.reload = FALSE]
     IN IF dev.reload /\ ReloadTriggers(dev)
        THEN dev' = d /\ env' = [env EXCEPT !.reloading = TRUE, !.steady = FALSE]
        ELSE dev' = (IF dev.reload THEN Reload(d) ELSE d) /\ env' = Committed(env, dev')
ReloadAfterCallback ==
  /\ env.reloading
  /\ dev' = Reload(dev)
  /\ env' = Committed(env, dev')

\* ---- the clock's thread
DrivePtimer(ns) ==
  /\ env.clock = Idle /\ dev.period > 0
  /\ env' = [env EXCEPT !.clock = [at |-> "enabled", ns |-> ns, period |-> dev.period]]
  /\ UNCHANGED dev
DriveEnabled ==
  /\ env.clock.at = "enabled"
  /\ env' = [env EXCEPT !.clock = IF Enabled(dev) THEN [@ EXCEPT !.at = "elapse"] ELSE Idle]
  /\ UNCHANGED dev
DriveResidualDropped(c) == c.ns % c.period
DriveResidual(c) == (dev.residual + c.ns) % c.period
\* the ticks that are due and the remainder that is kept
DriveElapse ==
  /\ env.clock.at = "elapse"
  /\ dev' = [dev EXCEPT !.residual = DriveResidual(env.clock)]
  /\ LET ticks == (dev.residual + env.clock.ns) \div env.clock.period
     IN env' = [env EXCEPT !.clock = IF ticks = 0 THEN Idle ELSE [at |-> "tick", todo |-> ticks],
                           !.ns = IF env.steady THEN @ + env.clock.ns ELSE @]
\* tick(): the conditions, and in a borrow of its own the decrement
Ticks(d) == Enabled(d) /\ d.period # 0 /\ d.delta # 0
TickCheck ==
  /\ env.clock.at = "tick"
  /\ env' = [env EXCEPT !.clock.at = IF Ticks(dev) THEN "decrement" ELSE "more"]
  /\ UNCHANGED dev
Decremented(d) == [d EXCEPT !.delta = IF @ = 0 THEN 0 ELSE @ - 1]
Expires(d) == Decremented(d).delta = 0
TickDecrement ==
  /\ env.clock.at = "decrement"
  /\ dev' = Decremented(dev)
  /\ env' = [env EXCEPT !.clock =
               IF Expires(dev) THEN [at |-> "callback", todo |-> @.todo, mode |-> dev.enabled]
               ELSE [@ EXCEPT !.at = "more"]]
AfterCallback(d) ==
  IF env.clock.mode = "oneshot" THEN [d EXCEPT !.enabled = "disabled"]
  ELSE [d EXCEPT !.delta = d.limit,
                 !.enabled = IF d.limit = 0 /\ "continuous_trigger" \notin d.policy THEN "disabled" ELSE @]
TickAfterCallback ==
  /\ env.clock.at = "callback"
  /\ dev' = AfterCallback(dev)
  /\ env' = [env EXCEPT !.clock = [at |-> "more", todo |-> @.todo],
                        !.ns = IF env.steady THEN @ - dev.limit * dev.period ELSE @]
\* the loop of step()
StepMore ==
  /\ env.clock.at = "more"
  /\ env' = [env EXCEPT !.clock = IF Enabled(dev) /\ @.todo > 1 THEN [at |-> "tick", todo |-> @.todo - 1]
                                  ELSE Idle]
  /\ UNCHANGED dev

Next ==
  \/ Begin \/ Commit \/ ReloadAfterCallback \/ Stop
  \/ \E m \in {"oneshot", "periodic"} : Run(m)
  \/ \E p \in Periods : SetPeriod(p)
  \/ \E c \in Counts : SetCount(c) \/ \E r \in BOOLEAN : SetLimit(c, r)
  \/ \E ns \in 1 .. MaxNs : DrivePtimer(ns)
  \/ DriveEnabled \/ DriveElapse \/ TickCheck \/ TickDecrement \/ TickAfterCallback \/ StepMore

-----------------------------------------------------------------------------
\* However the clock is cut into steps, a periodic timer left alone counts one
\* tick per full period driven since it was loaded and keeps the rest: no time is
\* lost between two calls of drive_ptimer (lib.rs:298-317).
NoTimeLost ==
  env.steady /\ Resting /\ dev.enabled = "periodic" /\ ~dev.tx =>
    /\ dev.limit = dev.delta + env.ns \div dev.period
    /\ dev.residual = env.ns % dev.period

\* A timer that is running can expire: after a commit it is not left enabled at
\* zero, where tick() ignores it, unless its policy forbids the trigger that
\* would have reloaded it or it is a continuous timer without a limit
\* (lib.rs:119-127, 228-266, 404-467).
RunningCanExpire ==
  Resting /\ ~dev.tx /\ Enabled(dev) /\ dev.delta = 0 =>
    \/ "no_immediate_trigger" \in dev.policy
    \/ "continuous_trigger" \in dev.policy /\ dev.limit = 0

\* The timer runs as it was last asked to, also when it was asked from the expiry
\* callback or while a tick was under way: a stop is final, and a periodic timer
\* that never had a zero limit or period keeps running.  The exception is a start
\* during the callback of a one-shot expiry, which tick() undoes after the
\* callback (lib.rs:199-215, 241-262).
RunsAsAsked ==
  /\ dev.enabled \in {env.mode, "disabled"}
  /\ Resting /\ env.mode = "periodic" /\ ~env.zeroed /\ ~env.lost => Enabled(dev)
=============================================================================
