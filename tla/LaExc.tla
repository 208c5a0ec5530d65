------------------------------- MODULE LaExc -------------------------------
(***************************************************************************)
(* Interrupts, timer and privilege of a LoongArch64 vCPU, between the      *)
(* threads that raise its lines and the execution loop that must notice    *)
(* them: the asynchronous line state and its condition variable, the       *)
(* ESTAT/ECFG/CRMD gates of the host and of the guest context, the exit    *)
(* request that breaks chains of translated blocks, the constant timer,    *)
(* IDLE, the local IPI registers, exception entry and return.              *)
(***************************************************************************)
EXTENDS Integers

CONSTANTS
    MaxOps,    \* bound on system instructions
    MaxRaise   \* bound on changes of the device lines

VARIABLES
    dev,       \* the vCPU structure, the asynchronous line state and the loop's position
    env        \* the device threads, the bounds, ghosts

vars == <<dev, env>>

Lines == {"swi", "hwi", "timer", "ipi"}
NewCtx == [plv |-> 0, ie |-> FALSE, pplv |-> 3, pie |-> TRUE, is |-> {}, ecfg |-> {"swi", "timer"},
           ten |-> FALSE, tper |-> FALSE, tval |-> 0]
TimerInit == 2     \* the initial value TCFG carries

-----------------------------------------------------------------------------
(* Which interrupt the vCPU would take.                                    *)
A(d) == IF d.vm THEN "g" ELSE "h"
MaskedLines(d, x) == d.c[x].is \cap d.c[x].ecfg
PendingInterrupt(d) == d.c[A(d)].ie /\ MaskedLines(d, A(d)) # {}
\* the loop asks the host's timer alone
Counts(c) == c.ten /\ c.tval # 0
TimerCounting(d) == Counts(d.c["h"])

SetExitRequest(d) == [d EXCEPT !.neg = TRUE]
WakeForInterruptRequest(d) == [d EXCEPT !.halted = FALSE, !.neg = TRUE]
WakeIfNew(was, d) == IF ~was /\ PendingInterrupt(d) THEN WakeForInterruptRequest(d) ELSE d

SetBit(d, x, line, on) ==
    LET n == [d EXCEPT !.c[x].is = IF on THEN @ \cup {line} ELSE @ \ {line}]
    IN  IF on /\ line \notin d.c[x].is THEN WakeForInterruptRequest(n) ELSE n
SetHwiPending(d, on) == IF d.pass THEN SetBit(d, "g", "hwi", on) ELSE SetBit(d, "h", "hwi", on)

\* the asynchronous state: lines set by device threads without the vCPU's lock
AsyncHasPending(d) == d.ahwi \/ d.aipi
AsyncPendingInterrupt(d) ==
    /\ d.c["h"].ie
    /\ (d.c["h"].is \cup (IF d.ahwi THEN {"hwi"} ELSE {}) \cup (IF d.aipi THEN {"ipi"} ELSE {})) \cap d.c["h"].ecfg # {}
ApplyToCpu(d) == SetBit(SetHwiPending(d, d.ahwi), "h", "ipi", d.aipi)

CpuPending(d) == PendingInterrupt(d) \/ AsyncPendingInterrupt(d)
HasPendingIrq(d) == MaskedLines(d, A(d)) # {} \/ AsyncHasPending(d) \/ TimerCounting(d)
ResetExitRequest(d) == LET n == ApplyToCpu(d) IN [n EXCEPT !.neg = HasPendingIrq(n)]

-----------------------------------------------------------------------------
(* Exceptions and the return from them.                                    *)
SetCrmd(d, plv, ie) == WakeIfNew(PendingInterrupt(d), [d EXCEPT !.c["h"].plv = plv, !.c["h"].ie = ie])
\* the guest's CRMD is a plain store
SetGuestCrmd(d, plv, ie) == [d EXCEPT !.c["g"].plv = plv, !.c["g"].ie = ie]
SetActiveCrmd(d, plv, ie) == IF d.vm THEN SetGuestCrmd(d, plv, ie) ELSE SetCrmd(d, plv, ie)

LeaveGuestMode(d) == IF d.vm THEN [d EXCEPT !.vm = FALSE, !.pvm = TRUE] ELSE d
Save(d, x) == [d EXCEPT !.c[x].pplv = d.c[x].plv, !.c[x].pie = d.c[x].ie]
EnterException(d, exits) ==
    LET n == IF exits THEN LeaveGuestMode(d) ELSE d
    IN  SetActiveCrmd(Save(n, A(n)), 0, FALSE)

HandleInterrupt(d) == LET n == ApplyToCpu(d) IN IF PendingInterrupt(n) THEN [EnterException(n, FALSE) EXCEPT !.taken = "hwi" \in MaskedLines(n, A(n))] ELSE n

EnterGuestMode(d) == [d EXCEPT !.vm = TRUE, !.pvm = FALSE]
HelperErtn(d) ==
    LET c == d.c[A(d)]
        n == SetActiveCrmd(d, c.pplv, c.pie)
    IN  IF ~d.vm /\ d.pvm THEN EnterGuestMode(n) ELSE n

-----------------------------------------------------------------------------
(* The constant timer: ticked by the instructions of each block that       *)
(* returns to the loop.                                                    *)
Expires(c, cycles) == Counts(c) /\ c.tval <= cycles
TickTimerValues(c, cycles) ==
    CASE ~Counts(c) -> c
      [] Counts(c) /\ ~Expires(c, cycles) -> [c EXCEPT !.tval = @ - cycles]
      [] Expires(c, cycles) /\ c.tper -> [c EXCEPT !.tval = TimerInit]
      [] OTHER -> [c EXCEPT !.tval = 0, !.ten = FALSE]
TickTimer(d, x, cycles) ==
    LET n == [d EXCEPT !.c[x] = TickTimerValues(@, cycles)]
    IN  IF Expires(d.c[x], cycles) THEN SetBit(n, x, "timer", TRUE) ELSE n
\* the guest's timer runs in guest mode only
TimerTick(d, cycles) ==
    LET n == TickTimer(d, "h", cycles) IN IF d.vm THEN TickTimer(n, "g", cycles) ELSE n

-----------------------------------------------------------------------------
(* CSR and IOCSR writes.                                                   *)
WriteEcfg(d, s) == WakeIfNew(PendingInterrupt(d), [d EXCEPT !.c[A(d)].ecfg = s])
WriteEstat(d, on) == WakeIfNew(PendingInterrupt(d), [d EXCEPT !.c[A(d)].is = IF on THEN @ \cup {"swi"} ELSE @ \ {"swi"}])
WriteTcfg(d, en, per) ==
    [d EXCEPT !.c[A(d)].ten = en, !.c[A(d)].tper = per, !.c[A(d)].tval = IF en THEN TimerInit ELSE @]
WriteTiclr(d) == SetBit(d, A(d), "timer", FALSE)
WriteGintc(d, pass, vip) == [d EXCEPT !.pass = pass, !.c["g"].is = IF vip THEN @ \cup {"hwi"} ELSE @ \ {"hwi"}]
UpdateIpiInterrupt(d) ==
    IF d.ipist /\ d.ipien THEN SetBit(d, "h", "ipi", TRUE) ELSE [d EXCEPT !.c["h"].is = @ \ {"ipi"}]
WriteIpi(d, st, en) == UpdateIpiInterrupt([d EXCEPT !.ipist = st, !.ipien = en])

\* PLV3 traps; a guest also traps on the CSRs only a host has
CheckPlvHost(d) == d.c["h"].plv = 3
CheckPlv(d) == d.c[A(d)].plv = 3

-----------------------------------------------------------------------------
\* a kernel, its user program, or a guest's user program under a hypervisor
Init ==
    /\ dev \in {[c |-> [h |-> IF vm THEN NewCtx ELSE [NewCtx EXCEPT !.plv = p, !.ie = (p = 3)], g |-> IF vm THEN [NewCtx EXCEPT !.plv = p] ELSE NewCtx], vm |-> vm, pvm |-> FALSE, pass |-> FALSE,
                 halted |-> FALSE, neg |-> FALSE,
                 ipist |-> FALSE, ipien |-> FALSE, ahwi |-> FALSE, aipi |-> FALSE, running |-> TRUE,
                 at |-> "top", locked |-> FALSE, taken |-> FALSE] : p \in {0, 3}, vm \in BOOLEAN}
    /\ env = [ops |-> MaxOps, raises |-> MaxRaise, wake |-> FALSE, notified |-> FALSE, armed |-> FALSE, gskew |-> FALSE]

\* cpu_exec_loop: choose between delivering, keeping and clearing the exit request
CheckInterrupts ==
    /\ dev.at = "top"
    /\ dev' = [dev EXCEPT !.at = IF CpuPending(dev) THEN "deliver" ELSE IF HasPendingIrq(dev) THEN "keep" ELSE "clear"]
    /\ UNCHANGED env
Deliver ==
    /\ dev.at = "deliver"
    /\ dev' = [HandleInterrupt(ResetExitRequest(dev)) EXCEPT !.at = "tb"]
    /\ env' = [env EXCEPT !.armed = FALSE, !.gskew = FALSE]
Keep == dev.at = "keep" /\ dev' = [SetExitRequest(dev) EXCEPT !.at = "tb"] /\ env' = [env EXCEPT !.armed = FALSE, !.gskew = FALSE]
Clear == dev.at = "clear" /\ dev' = [ResetExitRequest(dev) EXCEPT !.at = "tb"] /\ env' = [env EXCEPT !.armed = FALSE, !.gskew = FALSE]

\* the guarded jump at the end of a block: to the next block, or out
GotoTb(d) == [d EXCEPT !.at = IF d.neg THEN "left" ELSE "tb"]
ExitTb(d) == [d EXCEPT !.at = "left"]

\* a block of ordinary instructions that jumps to itself
Spin == dev.at = "tb" /\ dev' = GotoTb(dev) /\ UNCHANGED env

Op == dev.at = "tb" /\ env.ops > 0
Priv(d, n) == IF CheckPlv(d) THEN ExitTb(EnterException(d, FALSE)) ELSE n
HostOnly(d, n) == IF CheckPlv(d) THEN ExitTb(EnterException(d, FALSE)) ELSE IF d.vm THEN ExitTb(EnterException(d, TRUE)) ELSE n
Spend(armed, gskew) == env' = [env EXCEPT !.ops = @ - 1, !.armed = env.armed \/ armed, !.gskew = env.gskew \/ gskew]

CsrwrEcfg(s) == Op /\ dev' = Priv(dev, GotoTb(WriteEcfg(dev, s))) /\ Spend(FALSE, FALSE)
CsrwrCrmd(ie) == Op /\ dev' = Priv(dev, GotoTb(SetActiveCrmd(dev, 0, ie))) /\ Spend(FALSE, dev.vm)
CsrwrEstat(on) == Op /\ dev' = Priv(dev, GotoTb(WriteEstat(dev, on))) /\ Spend(FALSE, FALSE)
CsrwrTcfg(en, per) == Op /\ dev' = Priv(dev, GotoTb(WriteTcfg(dev, en, per))) /\ Spend(TRUE, FALSE)
CsrwrTiclr == Op /\ dev' = Priv(dev, GotoTb(WriteTiclr(dev))) /\ Spend(FALSE, FALSE)
CsrwrGintc(pass, vip) == Op /\ dev' = HostOnly(dev, GotoTb(WriteGintc(dev, pass, vip))) /\ Spend(FALSE, FALSE)
CsrwrGstat(pvm) == Op /\ dev' = HostOnly(dev, GotoTb([dev EXCEPT !.pvm = pvm])) /\ Spend(FALSE, FALSE)
IocsrwrIpi(st, en) == Op /\ dev' = Priv(dev, WriteIpi(dev, st, en)) /\ Spend(FALSE, FALSE)
Ertn == Op /\ dev' = Priv(dev, ExitTb(HelperErtn(dev))) /\ Spend(FALSE, FALSE)
Syscall == Op /\ dev' = ExitTb(EnterException(dev, FALSE)) /\ Spend(FALSE, FALSE)
Hvcl == Op /\ dev' = ExitTb(EnterException(dev, TRUE)) /\ Spend(FALSE, FALSE)
\* idle asks for the guest first, then for the privilege
Idle ==
    /\ Op
    /\ dev' = IF dev.vm THEN ExitTb(EnterException(dev, TRUE)) ELSE Priv(dev, [dev EXCEPT !.halted = TRUE, !.at = "idle"])
    /\ Spend(FALSE, FALSE)

\* on_tb_executed, then the checks before the next dispatch
Leave == dev.at = "left" /\ dev' = [TimerTick(ApplyToCpu(dev), 1) EXCEPT !.at = "post"] /\ UNCHANGED env
Post ==
    /\ dev.at = "post"
    /\ dev' = LET n == IF CpuPending(dev) THEN HandleInterrupt(dev) ELSE IF HasPendingIrq(dev) THEN SetExitRequest(dev) ELSE dev
              IN  [n EXCEPT !.at = IF dev.running THEN "top" ELSE "stopped"]
    /\ UNCHANGED env

\* handle_wfi: run the timer out, then sleep until a line or a stop
FastForward(d) == IF ~PendingInterrupt(d) /\ TimerCounting(d) THEN TimerTick(d, d.c["h"].tval) ELSE d
HandleWfi ==
    /\ dev.at = "idle"
    /\ dev' = LET n == FastForward([TimerTick(ApplyToCpu(dev), 1) EXCEPT !.halted = TRUE])
              IN  [n EXCEPT !.at = IF PendingInterrupt(n) THEN "wake" ELSE "wait1"]
    /\ UNCHANGED env
\* wait_for_irq_or_stop: the conditions are read under the lock the notifier takes
WaitCheck ==
    /\ dev.at = "wait1" /\ ~dev.locked
    /\ dev' = [dev EXCEPT !.at = IF AsyncHasPending(dev) THEN "woken" ELSE IF ~dev.running THEN "halt" ELSE "wait2", !.locked = ~AsyncHasPending(dev) /\ dev.running]
    /\ UNCHANGED env
WaitSleep == dev.at = "wait2" /\ dev' = [dev EXCEPT !.at = "wait", !.locked = FALSE] /\ env' = [env EXCEPT !.notified = FALSE]
WaitReturn == dev.at = "wait" /\ env.notified /\ dev' = [dev EXCEPT !.at = "wait1"] /\ env' = [env EXCEPT !.notified = FALSE]
Woken == dev.at = "woken" /\ dev' = [ApplyToCpu(dev) EXCEPT !.at = "wake"] /\ UNCHANGED env
WakeUp ==
    /\ dev.at = "wake"
    /\ dev' = LET n == [dev EXCEPT !.halted = FALSE] IN [IF PendingInterrupt(n) THEN HandleInterrupt(n) ELSE n EXCEPT !.at = "post"]
    /\ UNCHANGED env
WaitStopped == dev.at = "halt" /\ dev' = [dev EXCEPT !.halted = FALSE, !.at = "stopped"] /\ UNCHANGED env

\* the other threads: store the line or the stop flag, then wake_waiters
SetHwi(on) ==
    /\ env.raises > 0 /\ ~env.wake /\ dev.ahwi # on
    /\ dev' = [dev EXCEPT !.ahwi = on]
    /\ env' = [env EXCEPT !.raises = @ - 1, !.wake = TRUE]
SetIpi(on) ==
    /\ env.raises > 0 /\ ~env.wake /\ dev.aipi # on
    /\ dev' = [dev EXCEPT !.aipi = on]
    /\ env' = [env EXCEPT !.raises = @ - 1, !.wake = TRUE]
Stop ==
    /\ ~env.wake /\ dev.running
    /\ dev' = [dev EXCEPT !.running = FALSE]
    /\ env' = [env EXCEPT !.wake = TRUE]
WakeGuard == env.wake /\ ~dev.locked
WakeWaiters == WakeGuard /\ env' = [env EXCEPT !.wake = FALSE, !.notified = (dev.at = "wait")] /\ UNCHANGED dev

Instruction ==
    \/ \E s \in {{"hwi"}, Lines} : CsrwrEcfg(s)
    \/ \E ie \in BOOLEAN : CsrwrCrmd(ie)
    \/ \E on \in BOOLEAN : CsrwrEstat(on)
    \/ \E en, per \in BOOLEAN : CsrwrTcfg(en, per)
    \/ CsrwrTiclr
    \/ \E pass, vip \in BOOLEAN : CsrwrGintc(pass, vip)
    \/ \E pvm \in BOOLEAN : CsrwrGstat(pvm)
    \/ \E st, en \in BOOLEAN : IocsrwrIpi(st, en)
    \/ Ertn \/ Syscall \/ Hvcl \/ Idle

VCpu == CheckInterrupts \/ Deliver \/ Keep \/ Clear \/ Spin \/ Leave \/ Post
        \/ HandleWfi \/ WaitCheck \/ WaitSleep \/ WaitReturn \/ Woken \/ WakeUp \/ WaitStopped

Next ==
    \/ VCpu \/ Instruction
    \/ \E on \in BOOLEAN : SetHwi(on) \/ SetIpi(on)
    \/ Stop \/ WakeWaiters

Spec == Init /\ [][Next]_vars
\* every vCPU is a host thread and every notifier finishes its call
FairSpec == Spec /\ WF_vars(VCpu) /\ WF_vars(WakeWaiters)

-----------------------------------------------------------------------------
\* Inside translated code an interrupt the vCPU could take has its exit request set, so the next jump between
\* blocks returns to the loop.  The exception is a guest in guest mode that has set CRMD.IE since the loop was last
\* left: its CRMD is a plain store (csr.rs:285), and chained blocks run on with the interrupt pending.
PendingHasExit == dev.at = "tb" /\ PendingInterrupt(dev) /\ ~env.gskew => dev.neg

\* A counting timer of the host keeps the exit request set from the first return to the loop on: a chain of blocks
\* cannot outrun it.  A timer of the guest context has no such request (loongarch_cpu.rs:326 asks the host's
\* alone): blocks that chain to each other do not tick it.
CountingHasExit == dev.at = "tb" /\ TimerCounting(dev) /\ ~env.armed => dev.neg

\* An idle vCPU sleeps only while no line is raised and no stop is asked for, unless the notification is on its way.
SleepsOnlyQuiet == dev.at = "wait" => env.wake \/ env.notified \/ (~AsyncHasPending(dev) /\ dev.running)

\* A user program changes no interrupt, timer or virtualisation register: the instruction traps instead.
UserCannot ==
    dev.at = "tb" /\ dev.c[A(dev)].plv = 3 =>
        /\ dev'.c["h"].ecfg = dev.c["h"].ecfg /\ dev'.c["g"].ecfg = dev.c["g"].ecfg
        /\ \A x \in {"h", "g"} : <<dev'.c[x].ten, dev'.c[x].tper>> = <<dev.c[x].ten, dev.c[x].tper>>
        /\ <<dev'.pass, dev'.ipist, dev'.ipien, dev'.halted>> = <<dev.pass, dev.ipist, dev.ipien, dev.halted>>
        /\ "swi" \in dev.c["h"].is <=> "swi" \in dev'.c["h"].is

\* A device line raised and held while the vCPU runs with that line enabled is eventually delivered.
RaisedTaken ==
    [](dev.ahwi /\ env.raises = 0 /\ env.ops = 0 /\ ~dev.vm /\ ~dev.pass /\ dev.c["h"].ie /\ "hwi" \in dev.c["h"].ecfg /\ dev.running
       => <>(dev.taken \/ ~dev.running))
=============================================================================
