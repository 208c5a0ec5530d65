------------------------------- MODULE Timers -------------------------------
(* The timer blocks of hw/timer/src beside the countdown timer.  Each is a   *)
(* specification of its own, over the same two variables.                    *)
EXTENDS Naturals

VARIABLES dev,     \* the device
          env      \* its surroundings

vars == <<dev, env>>

-----------------------------------------------------------------------------
(* The SiFive PWM block (hw/timer/src/sifive_pwm.rs).  The counter is not    *)
(* stored: while a channel is enabled it is the distance of the clock from   *)
(* tick_offset, while none is it is tick_offset itself, and every transition *)
(* converts one into the other.                                              *)
CONSTANTS Mod,          \* the counter is taken modulo Mod (PWMCOUNT_MASK + 1)
          CmpMod,       \* compare values and the scaled count, modulo CmpMod (PWMCMP_MASK + 1)
          Cmp,          \* the compare values that are programmed
          Chans,        \* the channels that are programmed; channel 0 is one of them
          Scales        \* values of the scale field


New ==
  [scale |-> 0, zerocmp |-> FALSE, en |-> {}, ip |-> {}, cmp |-> [c \in Chans |-> 0],
   now |-> 0, offset |-> 0, irq |-> {}, line |-> {}]
PwmInit ==
  /\ dev = New
  /\ env = [count |-> 0,        \* the counter as the guest understands it
            stale |-> {}]       \* channels acknowledged by a write that also changed the scale
HasPwmEnBits(en) == en # {}
Sub(a, b) == (a + Mod - b) % Mod

Pwmcount(d) == IF HasPwmEnBits(d.en) THEN Sub(d.now, d.offset) ELSE d.offset
Pwms(d) == (Pwmcount(d) \div 2^d.scale) % CmpMod
CheckIrqs(d) == {c \in Chans : Pwms(d) >= d.cmp[c]}

\* the tail of every register write
AfterWrite(d) ==
  LET s == CheckIrqs(d)
  IN [d EXCEPT !.irq = s, !.line = IF s # d.irq THEN s ELSE @]
WriteConfig(scale, zero, en, ip) ==
  LET flip == HasPwmEnBits(dev.en) # HasPwmEnBits(en)
      d == [dev EXCEPT !.offset = IF flip THEN Sub(dev.now, @) ELSE @,
                       !.irq = @ \cap ip, !.scale = scale, !.zerocmp = zero, !.en = en, !.ip = ip]
  IN /\ dev' = AfterWrite(d)
     /\ env' = [env EXCEPT !.stale = IF d.irq = CheckIrqs(d) THEN @ \cup (dev.line \ d.irq) ELSE {}]
SetCount(n) == IF HasPwmEnBits(dev.en) THEN Sub(dev.now, n) ELSE n
\* COUNT, and PWMS with the scale applied
WriteCount(n) ==
  LET d == [dev EXCEPT !.offset = SetCount(n)]
  IN /\ dev' = AfterWrite(d)
     /\ env' = [env EXCEPT !.count = n, !.stale = IF d.irq # CheckIrqs(d) THEN {} ELSE @]
WriteCmp(c, v) ==
  LET d == [dev EXCEPT !.cmp[c] = v]
  IN /\ dev' = AfterWrite(d)
     /\ env' = [env EXCEPT !.stale = IF d.irq # CheckIrqs(d) THEN {} ELSE @]

\* a step of the clock: carry, compare, then the reset on compare channel 0
Advance(d, n) == [d EXCEPT !.now = (@ + n) % Mod]
Carry(d) == HasPwmEnBits(d.en) /\ d.now < d.offset
AfterCarry(d) == IF Carry(d) THEN [d EXCEPT !.en = @ \ {"oneshot"}] ELSE d
Fired(d) == LET s == CheckIrqs(d) IN [d EXCEPT !.ip = @ \cup s, !.irq = s]
ZeroFires(d) == d.zerocmp /\ 0 \in d.irq
AfterZerocmp(d) ==
  IF ZeroFires(d)
  THEN [d EXCEPT !.en = @ \ {"oneshot"}, !.offset = IF HasPwmEnBits(dev.en) THEN d.now ELSE 0]
  ELSE d
Stopped(d) ==
  IF HasPwmEnBits(dev.en) /\ ~HasPwmEnBits(d.en) THEN [d EXCEPT !.offset = Sub(d.now, @)] ELSE d
PwmTick(n) ==
  LET a == AfterCarry(Advance(dev, n))
      \* a counter that the carry stopped is compared before its offset is converted
      f == Fired(a)
      z == Stopped(AfterZerocmp(f))
  IN /\ dev' = [z EXCEPT !.line = f.irq]
     /\ env' = [env EXCEPT !.stale = {},
                 !.count = IF ZeroFires(f) THEN 0
                           ELSE IF HasPwmEnBits(dev.en) THEN (@ + n) % Mod ELSE @]
\* the clock goes on, and the stopped counter reads as the time of the reset
PwmResetRuntime ==
  /\ dev' = [New EXCEPT !.now = dev.now, !.offset = dev.now]
  /\ env' = [env EXCEPT !.count = dev.now, !.stale = {}]

PwmNext ==
  \/ \E s \in Scales, z \in BOOLEAN, en \in {{}, {"oneshot"}, {"always"}}, ip \in {{}, Chans} :
       WriteConfig(s, z, en, ip)
  \/ \E n \in 0 .. Mod - 1 : WriteCount(n)
  \/ \E c \in Chans, v \in Cmp : WriteCmp(c, v)
  \/ \E n \in 1 .. 2 : PwmTick(n)
  \/ PwmResetRuntime

-----------------------------------------------------------------------------
\* Enabling, disabling, a one-shot that ends and a reset on compare never make
\* the counter jump: it counts the time spent enabled since it was last set
\* (sifive_pwm.rs:209-252, 330-374).
CountContinuous == Pwmcount(dev) = env.count

\* The output lines are the compare state the device last computed, except for a
\* channel acknowledged by the very configuration write that moved the counter
\* below its compare value: the acknowledgement hides the change and the line
\* stays high until the clock next moves (sifive_pwm.rs:341-387).
LinesFollowState == dev.line \ env.stale = dev.irq \ env.stale

-----------------------------------------------------------------------------
(* The SSE system counter and a timer that compares with it                  *)
(* (hw/timer/src/sse_counter.rs, sse_timer.rs).  The counter moves without   *)
(* the timer knowing; the timer looks at it when it is written or ticked.    *)
CONSTANTS Max,          \* bound on the counter
          Vals          \* values the driver programs


NewTimer ==
  [enable |-> FALSE, imask |-> FALSE, istatus |-> FALSE, cval |-> 0, aival |-> 0,
   auto |-> FALSE, clr |-> FALSE, reload |-> 0]
SseInit ==
  /\ dev = [c |-> [en |-> FALSE, double |-> FALSE, ticks |-> 0], t |-> NewTimer, line |-> FALSE]
  /\ env = [seen |-> 0,         \* the counter when the timer last looked at it
            due |-> 0,          \* the counter value of the automatic expiry the guest waits for
            owed |-> FALSE]     \* an automatic expiry the guest has not cleared

\* ---- the counter
WriteCntcr(en, double) ==
  dev' = [dev EXCEPT !.c.en = en, !.c.double = double] /\ UNCHANGED env
\* the scale register doubles the rate here
CounterTick(n) ==
  /\ dev.c.ticks + 2 * n <= Max
  /\ dev' = IF dev.c.en THEN [dev EXCEPT !.c.ticks = @ + (IF dev.c.double THEN 2 * n ELSE n)] ELSE dev
  /\ UNCHANGED env
SetCounter(v) == dev' = [dev EXCEPT !.c.ticks = v] /\ UNCHANGED env
CounterReset == dev' = [dev EXCEPT !.c = [en |-> FALSE, double |-> FALSE, ticks |-> 0]] /\ UNCHANGED env

\* ---- the timer
TimerStatus(t, c) == t.enable /\ IF t.auto THEN t.clr ELSE c >= t.cval
AutoHit(t, c) == t.auto /\ t.enable /\ c >= t.aival
AutoStep(t, c) ==
  IF AutoHit(t, c) THEN [t EXCEPT !.clr = TRUE, !.aival = c + t.reload] ELSE t
\* tick(): the automatic increment, the stored status, then the line
SseTick(t, e) ==
  LET c == dev.c.ticks
      a == AutoStep(t, c)
      s == TimerStatus(a, c)
      expired == t.enable /\ t.auto /\ c >= e.due
  IN /\ dev' = [dev EXCEPT !.t = [a EXCEPT !.istatus = s], !.line = s /\ ~a.imask]
     /\ env' = [seen |-> c, due |-> IF expired THEN c + t.reload ELSE e.due, owed |-> e.owed \/ expired]

\* the automatic value restarts when the timer or the mode is switched on
SwitchesOn(t) == t.enable /\ t.auto /\ ~(dev.t.enable /\ dev.t.auto)
Restart(t) == IF SwitchesOn(t) THEN [t EXCEPT !.aival = dev.c.ticks + t.reload] ELSE t
Awaited(t) == IF SwitchesOn(t) THEN [env EXCEPT !.due = dev.c.ticks + t.reload] ELSE env
WriteCtl(en, im) ==
  LET t == [dev.t EXCEPT !.enable = en, !.imask = im, !.istatus = FALSE]
  IN SseTick(Restart(t), Awaited(t))
\* the enable of the automatic mode, with its write-zero-to-clear flag
WriteAivalCtl(en, keep) ==
  LET t == [dev.t EXCEPT !.auto = en, !.clr = @ /\ keep]
  IN SseTick(Restart(t), [Awaited(t) EXCEPT !.owed = @ /\ keep])
WriteCval(v) == SseTick([dev.t EXCEPT !.cval = v], env)
WriteTval(n) == SseTick([dev.t EXCEPT !.cval = dev.c.ticks + n], env)
WriteReload(v) == SseTick([dev.t EXCEPT !.reload = v], env)
TimerTick == SseTick(dev.t, env)
SseResetRuntime ==
  /\ dev' = [dev EXCEPT !.t = NewTimer, !.line = FALSE]
  /\ env' = [env EXCEPT !.owed = FALSE, !.due = 0]

SseNext ==
  \/ \E a, b \in BOOLEAN : WriteCntcr(a, b) \/ WriteCtl(a, b) \/ WriteAivalCtl(a, b)
  \/ \E n \in 1 .. 2 : CounterTick(n)
  \/ \E v \in Vals : SetCounter(v) \/ WriteCval(v) \/ WriteTval(v) \/ WriteReload(v)
  \/ CounterReset \/ TimerTick \/ SseResetRuntime

-----------------------------------------------------------------------------
\* The line is the timer's condition at the moment the timer last looked at the
\* counter, and the stored status bit agrees with it: no register write leaves
\* an old level behind (sse_timer.rs:124-152, 207-277).
LineHonest ==
  \/ dev.line = (TimerStatus(dev.t, env.seen) /\ ~dev.t.imask) /\ dev.t.istatus = TimerStatus(dev.t, env.seen)
  \/ dev.t = NewTimer /\ ~dev.line

\* An automatic expiry is never lost: when the timer looks at a counter that has
\* reached the value the guest waits for, counted from when it switched the mode
\* on or from the expiry before, the flag is set and stays until the guest clears
\* it, whatever the counter and the other registers do (sse_timer.rs:137-143,
\* 240-271).
ExpiryKept == env.owed => dev.t.clr
=============================================================================
