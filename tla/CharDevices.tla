----------------------------- MODULE CharDevices ----------------------------
(* The character devices of hw/char/src and the console input of             *)
(* hw/core/src/chardev.rs.  Each is a specification of its own, over the     *)
(* same two variables.                                                       *)
EXTENDS Naturals, Sequences, TLC, SequencesExt, FiniteSets

VARIABLES dev,     \* the device
          env      \* its surroundings

vars == <<dev, env>>

-----------------------------------------------------------------------------
(* The 16550 UART (hw/char/src/uart.rs).  The vCPU thread and the host input *)
(* thread each take the register lock for the access itself, take it again   *)
(* in update_irq to compute the level, and drive the line after releasing    *)
(* it, so their steps interleave.  Bytes are numbered in the order in which  *)
(* the receive FIFO accepts them.                                            *)
CONSTANTS FIFO_SIZE, MaxBytes

UartThread == {"vcpu", "host"}
UartOther(t) == CHOOSE u \in UartThread : u # t
Ier == SUBSET {"rx", "thr"}

UpdateMsr(d) == [d EXCEPT !.msr = IF d.loopback THEN "mcr" ELSE "chardev"]
UartNew == [ier |-> {}, fifo |-> FALSE, dlab |-> FALSE, loopback |-> FALSE, dr |-> FALSE, rx |-> <<>>,
        rbr |-> 0, thri |-> FALSE, iir |-> "none", irq |-> FALSE, msr |-> "chardev"]
UartInit ==
  /\ dev = UartNew @@ [line |-> FALSE]
  /\ env = [pc |-> [t \in UartThread |-> "idle"],   \* idle, loop, update, set0, set1
            head |-> 1,          \* the oldest byte accepted and neither read nor flushed
            next |-> 1,          \* the next byte accepted
            owed |-> FALSE,      \* a transmit interrupt the guest has not seen
            overlap |-> FALSE]   \* a level was computed while another waited to be driven

UartCond(d) == IF "rx" \in d.ier /\ d.dr THEN "rx"
           ELSE IF "thr" \in d.ier /\ d.thri THEN "thr" ELSE "none"
PushFront(d, ch) ==
  [d EXCEPT !.rx = IF Len(@) < FIFO_SIZE THEN <<ch>> \o @ ELSE @, !.dr = TRUE]
Push(d, ch) ==
  [d EXCEPT !.rx = IF Len(@) < FIFO_SIZE THEN Append(@, ch) ELSE @, !.dr = TRUE]
Pushed(e, d) == IF Len(d.rx) < FIFO_SIZE THEN [e EXCEPT !.next = @ + 1] ELSE e
UartGoto(e, t, p) == [e EXCEPT !.pc[t] = p]
UartIdle(t) == env.pc[t] = "idle"

-----------------------------------------------------------------------------
(* update_irq: compute under the register lock, then drive the line *)
UartUpdateIrq(t) ==
  /\ env.pc[t] = "update"
  /\ dev' = [dev EXCEPT !.iir = UartCond(dev), !.irq = UartCond(dev) # "none"]
  /\ env' = UartGoto([env EXCEPT !.overlap = env.pc[UartOther(t)] \in {"set0", "set1"}],
                 t, IF UartCond(dev) # "none" THEN "set1" ELSE "set0")
UartDriveLine(t) ==
  /\ env.pc[t] \in {"set0", "set1"}
  /\ dev' = [dev EXCEPT !.line = env.pc[t] = "set1"]
  /\ env' = UartGoto(env, t, "idle")

UartReceive(t) ==
  /\ UartIdle(t) /\ t = "host" /\ env.next <= MaxBytes
  /\ dev' = Push(dev, env.next)
  /\ env' = UartGoto(Pushed(env, dev), t, "update")

ReadRbr(t) ==
  /\ UartIdle(t) /\ t = "vcpu" /\ ~dev.dlab
  /\ dev' = IF dev.rx = <<>> THEN dev
            ELSE [dev EXCEPT !.rbr = Head(dev.rx), !.rx = Tail(@), !.dr = Len(dev.rx) > 1]
  /\ env' = UartGoto([env EXCEPT !.head = IF dev.rx = <<>> THEN @ ELSE @ + 1], t, "update")
\* read_rbr_nonblocking: nothing at all happens when no data is ready
ReadRbrNonblocking(t) ==
  /\ UartIdle(t) /\ t = "vcpu" /\ dev.dr /\ dev.rx # <<>>
  /\ dev' = [dev EXCEPT !.rbr = Head(dev.rx), !.rx = Tail(@), !.dr = Len(dev.rx) > 1]
  /\ env' = UartGoto([env EXCEPT !.head = @ + 1], t, "update")

ReadIirAlways(t) ==
  /\ UartIdle(t) /\ t = "vcpu" /\ dev.iir # "none"
  /\ dev' = [dev EXCEPT !.thri = FALSE]
  /\ env' = UartGoto([env EXCEPT !.owed = IF dev.iir = "thr" THEN FALSE ELSE @], t, "update")
ReadIir(t) ==
  /\ UartIdle(t) /\ t = "vcpu" /\ dev.iir = "thr"
  /\ dev' = [dev EXCEPT !.thri = FALSE]
  /\ env' = UartGoto([env EXCEPT !.owed = FALSE], t, "update")

WriteThr(t) ==
  /\ UartIdle(t) /\ t = "vcpu" /\ ~dev.dlab
  /\ dev' = [dev EXCEPT !.thri = TRUE]
  /\ env' = UartGoto([env EXCEPT !.owed = TRUE], t, IF dev.loopback THEN "loop" ELSE "update")
WriteThrLoop(t) ==
  /\ env.pc[t] = "loop" /\ env.next <= MaxBytes
  /\ dev' = Push(dev, env.next)
  /\ env' = UartGoto(Pushed(env, dev), t, "update")

\* changing the THR enable sets the pending flag from it: THRE is always set
WriteIer(t, ier) ==
  /\ UartIdle(t) /\ t = "vcpu" /\ ~dev.dlab
  /\ LET toggled == ("thr" \in ier) # ("thr" \in dev.ier)
     IN /\ dev' = [dev EXCEPT !.ier = ier, !.thri = IF toggled THEN "thr" \in ier ELSE @]
        /\ env' = UartGoto([env EXCEPT !.owed = IF toggled THEN "thr" \in ier ELSE @], t, "update")
WriteFcr(t, enable, clrRx, clrTx) ==
  /\ UartIdle(t) /\ t = "vcpu"
  /\ LET toggled == enable # dev.fifo
         rx == clrRx \/ toggled
         tx == clrTx \/ toggled
     IN /\ dev' = [dev EXCEPT !.fifo = enable, !.rx = IF rx THEN <<>> ELSE @, !.dr = IF rx THEN FALSE ELSE @,
                              !.thri = IF tx THEN TRUE ELSE @]
        /\ env' = UartGoto([env EXCEPT !.head = IF rx THEN env.next ELSE @, !.owed = IF tx THEN TRUE ELSE @],
                       t, "update")
UartWriteLcr(t, dlab) ==
  /\ UartIdle(t) /\ t = "vcpu"
  /\ dev' = [dev EXCEPT !.dlab = dlab] /\ UNCHANGED env
WriteMcr(t, loopback) ==
  /\ UartIdle(t) /\ t = "vcpu"
  /\ dev' = UpdateMsr([dev EXCEPT !.loopback = loopback]) /\ UNCHANGED env
UartResetRuntime(t) ==
  /\ UartIdle(t) /\ t = "vcpu"
  /\ dev' = UpdateMsr(UartNew) @@ [line |-> dev.line]
  /\ env' = UartGoto([env EXCEPT !.head = env.next, !.owed = FALSE,
                             !.overlap = env.pc[UartOther(t)] \in {"set0", "set1"}], t, "set0")

UartNext == \E t \in UartThread :
  \/ UartUpdateIrq(t) \/ UartDriveLine(t) \/ UartReceive(t)
  \/ ReadRbr(t) \/ ReadRbrNonblocking(t) \/ ReadIir(t) \/ WriteThr(t) \/ WriteThrLoop(t)
  \/ \E ier \in Ier : WriteIer(t, ier)
  \/ \E enable, clrRx, clrTx \in BOOLEAN : WriteFcr(t, enable, clrRx, clrTx)
  \/ \E b \in BOOLEAN : UartWriteLcr(t, b) \/ WriteMcr(t, b)
  \/ UartResetRuntime(t)

-----------------------------------------------------------------------------
\* LSR.DR is set exactly while the FIFO holds data, flushes and resets from the
\* vCPU racing the host's bytes included (uart.rs:365-374, 463-466, 504-514).
DataReadyHonest == dev.dr <=> dev.rx # <<>>

\* The FIFO holds exactly the accepted bytes that were neither read nor flushed,
\* in the order of arrival (uart.rs:368-370, 504-514).
InOrder == dev.rx = [i \in 1 .. (env.next - env.head) |-> env.head + i - 1]

\* A transmit-empty interrupt stays pending until the guest reads it from IIR or
\* disables it, whatever else is serviced in between (uart.rs:418-428, 447-456).
TransmitOwed == env.owed => dev.thri

\* With both threads idle the line is the level the registers call for, except
\* when one thread computed its level while the other still had an older one to
\* drive: update_irq releases the lock in between (uart.rs:380-402).
UartLineSettles ==
  (\A t \in UartThread : UartIdle(t)) /\ ~env.overlap => (dev.line <=> UartCond(dev) # "none")

-----------------------------------------------------------------------------
(* The PL011 UART (hw/char/src/pl011.rs).  A handler changes the registers   *)
(* under their lock and calls update_irqs, which takes it again and drives   *)
(* the lines with it held; receive() takes it a third time, before, to look  *)
(* at the loopback bit.  The receive ring has no bound check of its own.     *)
CONSTANTS DEPTH,        \* PL011_FIFO_DEPTH
          MaxCount,     \* bound on the receive count
          Enables       \* the IMSC values the guest writes


Pl011Reset(d) ==
  [d EXCEPT !.fen = FALSE, !.brk = FALSE, !.lbe = FALSE, !.rts = FALSE, !.ints = {}, !.enabled = {},
            !.rxfe = TRUE, !.rxff = FALSE, !.cts = FALSE, !.pos = 0, !.count = 0]
Pl011Init ==
  /\ dev = [fen |-> FALSE, brk |-> FALSE, lbe |-> FALSE, rts |-> FALSE, ints |-> {}, enabled |-> {},
            rxfe |-> TRUE, rxff |-> FALSE, cts |-> FALSE, pos |-> 0, count |-> 0,
            ring |-> [i \in 0 .. DEPTH - 1 |-> 0], line |-> FALSE]
  /\ env = [rx |-> "idle",       \* how far the input thread is in receive()
            due |-> {},         \* the threads that still have to call update_irqs
            lower |-> FALSE,    \* a reset still has to lower the lines
            q |-> <<>>,         \* what an unbounded FIFO would hold
            next |-> 0,         \* byte identities 0 and 1, in turn
            overrun |-> FALSE,  \* more bytes arrived than the FIFO holds
            acked |-> FALSE,    \* the guest cleared RX while data was waiting
            mixed |-> FALSE]    \* the waiting break was put with the other FIFO depth

FifoDepth(d) == IF d.fen THEN DEPTH ELSE 1

RxFifoPut(d, v) ==
  LET slot == (d.pos + d.count) % FifoDepth(d)
  IN [d EXCEPT !.ring[slot] = v, !.count = @ + 1, !.rxfe = FALSE,
               !.rxff = IF d.count + 1 = FifoDepth(d) THEN TRUE ELSE @,
               !.ints = IF d.count + 1 = 1 THEN @ \cup {"rx"} ELSE @]
RxFifoGet(d) ==
  LET count == IF d.count > 0 THEN d.count - 1 ELSE 0
  IN [d EXCEPT !.rxff = FALSE, !.count = count,
               !.pos = IF d.count > 0 THEN (@ + 1) % FifoDepth(d) ELSE @,
               !.rxfe = IF count = 0 THEN TRUE ELSE @,
               !.ints = IF count = 0 THEN @ \ {"rx"} ELSE @]
LoopbackMdmctrl(d) ==
  IF ~d.lbe THEN d
  ELSE [d EXCEPT !.cts = d.rts, !.ints = (@ \ {"cts"}) \cup (IF d.rts THEN {"cts"} ELSE {})]

\* the surroundings' view of one byte entering or leaving
Enqueued(e, d) ==
  [e EXCEPT !.q = Append(@, e.next), !.next = (@ + 1) % 2, !.overrun = @ \/ d.count >= FifoDepth(d),
            !.acked = IF d.count = 0 THEN FALSE ELSE @]
Flushed(e) == [e EXCEPT !.q = <<>>, !.overrun = FALSE, !.acked = FALSE, !.mixed = FALSE]

-----------------------------------------------------------------------------
\* receive and receive_break: dropped in loopback
Pl011Receive ==
  /\ env.rx = "idle" /\ ~dev.lbe
  /\ env' = [env EXCEPT !.rx = "put"]
  /\ UNCHANGED dev
ReceivePut ==
  /\ env.rx = "put" /\ dev.count < MaxCount
  /\ dev' = RxFifoPut(dev, env.next)
  /\ env' = [Enqueued(env, dev) EXCEPT !.rx = "update", !.due = @ \cup {"rx"}]
UpdateIrqs(t) ==
  /\ t \in env.due
  /\ dev' = [dev EXCEPT !.line = dev.ints \cap dev.enabled # {}]
  /\ env' = [env EXCEPT !.due = @ \ {t}, !.rx = IF t = "rx" THEN "idle" ELSE @]

\* the vCPU's accesses
CpuIdle == "cpu" \notin env.due /\ ~env.lower
Updates(e) == [e EXCEPT !.due = @ \cup {"cpu"}]
ReadDr ==
  /\ CpuIdle
  /\ dev' = RxFifoGet(dev)
  /\ env' = Updates([env EXCEPT !.q = IF @ = <<>> THEN @ ELSE Tail(@), !.mixed = FALSE])
ReadRxNonblocking == dev.count > 0 /\ ReadDr
WriteDr ==
  /\ CpuIdle
  /\ dev.lbe => dev.count < MaxCount
  /\ LET d == IF dev.lbe THEN RxFifoPut(dev, env.next) ELSE dev
     IN dev' = [d EXCEPT !.ints = @ \cup {"tx"}]
  /\ env' = Updates(IF dev.lbe THEN Enqueued(env, dev) ELSE env)
\* LCR_H: a FIFO toggle empties the ring; a break in loopback is received, with
\* the old depth; the lines are driven only for a break
Pl011WriteLcr(fen, brk) ==
  LET inject == brk /\ ~dev.brk
      d1 == IF fen = dev.fen THEN dev
            ELSE [dev EXCEPT !.rxfe = TRUE, !.rxff = FALSE, !.count = 0, !.pos = 0]
      e1 == IF fen = dev.fen THEN env ELSE Flushed(env)
      put == inject /\ dev.lbe
      d2 == IF put THEN RxFifoPut(d1, env.next) ELSE d1
      e2 == IF put THEN [Enqueued(e1, d1) EXCEPT !.mixed = fen # dev.fen] ELSE e1
  IN /\ CpuIdle
     /\ put => d1.count < MaxCount
     /\ dev' = [d2 EXCEPT !.fen = fen, !.brk = brk]
     /\ env' = IF inject THEN Updates(e2) ELSE e2
WriteCr(lbe, rts) ==
  /\ CpuIdle
  /\ dev' = LoopbackMdmctrl([dev EXCEPT !.lbe = lbe, !.rts = rts])
  /\ env' = Updates(env)
WriteImsc(S) == CpuIdle /\ dev' = [dev EXCEPT !.enabled = S] /\ env' = Updates(env)
WriteIcr(S) ==
  /\ CpuIdle
  /\ dev' = [dev EXCEPT !.ints = @ \ S]
  /\ env' = Updates([env EXCEPT !.acked = @ \/ ("rx" \in S /\ dev.count > 0)])
\* the lines are lowered after the registers were released
Pl011ResetRuntime ==
  /\ CpuIdle
  /\ dev' = Pl011Reset(dev)
  /\ env' = [Flushed(env) EXCEPT !.lower = TRUE]
LowerOutputs ==
  /\ env.lower
  /\ dev' = [dev EXCEPT !.line = FALSE]
  /\ env' = [env EXCEPT !.lower = FALSE]

Pl011Next ==
  \/ Pl011Receive \/ ReceivePut \/ \E t \in {"rx", "cpu"} : UpdateIrqs(t)
  \/ ReadDr \/ ReadRxNonblocking \/ WriteDr
  \/ \E fen, brk \in BOOLEAN : Pl011WriteLcr(fen, brk)
  \/ \E lbe, rts \in BOOLEAN : WriteCr(lbe, rts)
  \/ \E S \in Enables : WriteImsc(S)
  \/ \E i \in {"rx", "tx", "cts"} : WriteIcr({i})
  \/ Pl011ResetRuntime \/ LowerOutputs

-----------------------------------------------------------------------------
\* Until more bytes arrive than the FIFO holds, the ring is the queue of the
\* bytes received and not yet read, across FIFO switches (pl011.rs:159-188, 458-463).
RingIsQueue ==
  ~env.overrun => /\ dev.count = Len(env.q)
                  /\ \A i \in 1 .. Len(env.q) : dev.ring[(dev.pos + i - 1) % FifoDepth(dev)] = env.q[i]

\* Outside an overrun the guest's flags describe the FIFO: RXFE when empty,
\* RXFF when full; only a break injected by the very write that switches the FIFO
\* is flagged with the old depth (pl011.rs:164-183, 458-465).
FlagsHonest ==
  ~env.overrun /\ ~env.mixed => (dev.rxfe <=> dev.count = 0) /\ (dev.rxff <=> dev.count = FifoDepth(dev))

\* Waiting data always has the RX interrupt raised, unless the guest cleared it
\* itself while data was waiting (pl011.rs:168-170, 184-186).
ArrivalAnnounced == dev.count > 0 => "rx" \in dev.ints \/ env.acked

\* However the input thread and the vCPU overlap, once both have called
\* update_irqs the combined line is at the masked interrupt level
\* (pl011.rs:294-330, 368-495).
LineHonest == env.due = {} /\ ~env.lower => (dev.line <=> dev.ints \cap dev.enabled # {})

-----------------------------------------------------------------------------
(* The SiFive UART (hw/char/src/sifive_uart.rs): a receive array, a transmit *)
(* ring that drains into the backend while the transmitter is enabled, and   *)
(* an interrupt level computed under the lock and driven after releasing it. *)
CONSTANTS SIZE,         \* both FIFO sizes (SIFIVE_UART_{RX,TX}_FIFO_SIZE)
          Cnt           \* watermarks the guest writes

SifiveThread == {"vcpu", "host"}
SifiveOther(t) == CHOOSE u \in SifiveThread : u # t

Blank == [i \in 0 .. SIZE - 1 |-> 0]
SifiveReset(d) == [d EXCEPT !.full = FALSE, !.ie = {}, !.txen = FALSE, !.txcnt = 0, !.rxen = FALSE, !.rxcnt = 0,
                      !.rx = 0, !.ring = Blank, !.head = 0, !.num = 0]
SifiveInit ==
  /\ dev \in [full : {FALSE}, ie : {{}}, txen : {FALSE}, txcnt : {0}, rxen : {FALSE}, rxcnt : {0},
              rx : {0},                                \* rx_fifo_len
              ring : {Blank}, head : {0}, num : {0}, line : {FALSE},
              backend : BOOLEAN]
  /\ env = [pc |-> [t \in SifiveThread |-> "idle"],
            q |-> <<>>,         \* bytes accepted for transmission, not yet sent
            next |-> 0,
            stale |-> FALSE,    \* a TXCTRL write that does not recompute the level
            overlap |-> FALSE]

\* flush_tx holds the register lock while it drains the ring
Unlocked(t) == env.pc[SifiveOther(t)] # "flush"
SifiveIdle(t) == env.pc[t] = "idle" /\ Unlocked(t)
SifiveGoto(e, t, p) == [e EXCEPT !.pc[t] = p]
Ip(d) == (IF d.num < d.txcnt THEN {"tx"} ELSE {}) \cup (IF d.rx > d.rxcnt THEN {"rx"} ELSE {})
SifiveCond(d) == Ip(d) \cap d.ie # {}

TxFifoPush(d, b) ==
  IF d.num >= SIZE THEN d
  ELSE [d EXCEPT !.ring[(d.head + d.num) % SIZE] = b, !.num = @ + 1, !.full = @ \/ d.num + 1 >= SIZE]
\* a slot outside the window is never read before it is written: it is kept at 0
TxFifoPop(d) ==
  IF d.num = 0 THEN d ELSE
  [d EXCEPT !.ring[d.head] = 0, !.head = (@ + 1) % SIZE, !.num = @ - 1, !.full = FALSE]

-----------------------------------------------------------------------------
SifiveUpdateIrq(t) ==
  /\ env.pc[t] = "update" /\ Unlocked(t)
  /\ env' = SifiveGoto([env EXCEPT !.overlap = env.pc[SifiveOther(t)] \in {"set0", "set1"}, !.stale = FALSE],
                 t, IF SifiveCond(dev) THEN "set1" ELSE "set0")
  /\ UNCHANGED dev
SifiveDriveLine(t) ==
  /\ env.pc[t] \in {"set0", "set1"}
  /\ dev' = [dev EXCEPT !.line = env.pc[t] = "set1"]
  /\ env' = SifiveGoto(env, t, "idle")

\* flush_tx: one byte leaves the ring per step, in the backend's hands at once
FlushTx(t) ==
  /\ env.pc[t] = "flush"
  /\ IF ~dev.backend
     THEN dev' = [dev EXCEPT !.ring = Blank, !.head = 0, !.num = 0, !.full = FALSE] /\ env' = SifiveGoto([env EXCEPT !.q = <<>>], t, "update")
     ELSE /\ dev' = TxFifoPop(dev)
          /\ env' = SifiveGoto([env EXCEPT !.q = IF dev.num = 0 THEN @ ELSE Tail(@)],
                         t, IF dev.num > 1 THEN "flush" ELSE "update")
FlushFrom(e, t, d) == SifiveGoto(e, t, IF d.txen THEN "flush" ELSE "update")

SifiveReceive(t) ==
  /\ SifiveIdle(t) /\ t = "host"
  /\ dev' = IF dev.rxen /\ dev.rx < SIZE THEN [dev EXCEPT !.rx = @ + 1] ELSE dev
  /\ env' = SifiveGoto(env, t, "update")
ReadRxfifo(t) ==
  /\ SifiveIdle(t) /\ t = "vcpu" /\ dev.rx > 0
  /\ dev' = [dev EXCEPT !.rx = @ - 1]
  /\ env' = SifiveGoto(env, t, "update")
WriteTxfifo(t) ==
  /\ SifiveIdle(t) /\ t = "vcpu"
  /\ dev' = TxFifoPush(dev, env.next)
  /\ env' = FlushFrom(IF dev.num >= SIZE THEN env
                      ELSE [env EXCEPT !.q = Append(@, env.next), !.next = (@ + 1) % 2], t, dev)
WriteIe(t, ie) ==
  /\ SifiveIdle(t) /\ t = "vcpu"
  /\ dev' = [dev EXCEPT !.ie = ie]
  /\ env' = SifiveGoto(env, t, "update")
\* enabling the transmitter flushes; any other TXCTRL write recomputes nothing
WriteTxctrl(t, en, cnt) ==
  /\ SifiveIdle(t) /\ t = "vcpu"
  /\ dev' = [dev EXCEPT !.txen = en, !.txcnt = cnt]
  /\ env' = IF ~dev.txen /\ en THEN SifiveGoto(env, t, "flush")
            ELSE [env EXCEPT !.stale = @ \/ cnt # dev.txcnt]
WriteRxctrl(t, en, cnt) ==
  /\ SifiveIdle(t) /\ t = "vcpu"
  /\ dev' = [dev EXCEPT !.rxen = en, !.rxcnt = cnt]
  /\ env' = SifiveGoto(env, t, "update")
SifiveResetRuntime(t) ==
  /\ SifiveIdle(t) /\ t = "vcpu"
  /\ dev' = SifiveReset(dev)
  /\ env' = SifiveGoto([env EXCEPT !.q = <<>>, !.stale = FALSE,
                             !.overlap = env.pc[SifiveOther(t)] \in {"set0", "set1"}], t, "set0")

SifiveNext == \E t \in SifiveThread :
  \/ SifiveUpdateIrq(t) \/ SifiveDriveLine(t) \/ FlushTx(t) \/ SifiveReceive(t) \/ ReadRxfifo(t) \/ WriteTxfifo(t)
  \/ \E ie \in {{}, {"tx", "rx"}} : WriteIe(t, ie)
  \/ \E en \in BOOLEAN, cnt \in Cnt : WriteTxctrl(t, en, cnt) \/ WriteRxctrl(t, en, cnt)
  \/ SifiveResetRuntime(t)

-----------------------------------------------------------------------------
\* The ring always holds exactly the accepted bytes that are not yet sent, in
\* order: bytes written while the transmitter is off go out first when it is
\* switched on (sifive_uart.rs:108-131, 213-235).
TransmitOrder ==
  /\ dev.num = Len(env.q)
  /\ \A i \in 1 .. dev.num : dev.ring[(dev.head + i - 1) % SIZE] = env.q[i]

\* The FULL flag the guest polls is set exactly when a byte would be dropped
\* (sifive_uart.rs:109-118, 129).
FullHonest == dev.full <=> dev.num = SIZE

\* With both threads idle the line is the level the registers call for, except
\* after overlapping updates and after a TXCTRL write that changed only the
\* watermark (sifive_uart.rs:199-210, 309-316).
SifiveLineSettles ==
  (\A t \in SifiveThread : SifiveIdle(t)) /\ ~env.overlap /\ ~env.stale => (dev.line <=> SifiveCond(dev))

-----------------------------------------------------------------------------
(* The host-target interface (hw/char/src/riscv_htif.rs).  A command is      *)
(* written in two halves; the high half runs it after releasing the register *)
(* lock, so the host's input callback can come in between.                   *)
CONSTANTS Cmd           \* "putc", "getc", "exit", "syscall"

\* the low half is nonzero for the commands that carry a payload
Low(c) == IF c = "getc" THEN "zero" ELSE c

HtifNew == [tohost |-> "zero", allow |-> FALSE, fromhost |-> "zero", pending |-> FALSE]
HtifInit ==
  /\ dev = HtifNew
  /\ env = [running |-> "none",     \* the command being handled, outside the lock
            half |-> FALSE,         \* a low half was written since the last command
            exited |-> FALSE, unasked |-> FALSE]
Running == env.running # "none"

WriteTohostLow(c) ==
  /\ ~Running
  /\ dev' = IF dev.tohost = "zero" THEN [dev EXCEPT !.allow = TRUE, !.tohost = Low(c)]
            ELSE [dev EXCEPT !.allow = FALSE]
  /\ env' = [env EXCEPT !.half = @ \/ Low(c) # "zero"]
\* the high half selects the device and the command
WriteTohostHigh(c) ==
  /\ ~Running /\ dev.allow /\ dev.tohost = Low(c)
  /\ dev' = [dev EXCEPT !.tohost = c]
  /\ env' = [env EXCEPT !.running = c, !.half = FALSE]
HandleTohostWrite ==
  /\ Running
  /\ dev' = CASE env.running = "exit" -> dev
              [] env.running = "getc" -> [dev EXCEPT !.pending = TRUE, !.tohost = "zero"]
              [] OTHER -> [dev EXCEPT !.fromhost = env.running, !.tohost = "zero"]
  /\ env' = [env EXCEPT !.running = "none", !.exited = @ \/ env.running = "exit"]
\* the answer carries the tag of the request; a byte nobody asked for has none
HtifReceive ==
  /\ dev' = [dev EXCEPT !.fromhost = IF dev.pending THEN "getc byte" ELSE "untagged byte", !.pending = FALSE]
  /\ env' = [env EXCEPT !.unasked = ~dev.pending]
WriteFromhost ==
  /\ ~Running
  /\ dev' = [dev EXCEPT !.fromhost = "zero"] /\ UNCHANGED env
HtifResetRuntime ==
  /\ ~Running
  /\ dev' = HtifNew /\ env' = [env EXCEPT !.half = FALSE, !.exited = FALSE, !.unasked = FALSE]

HtifNext ==
  \/ \E c \in Cmd : WriteTohostLow(c) \/ WriteTohostHigh(c)
  \/ HandleTohostWrite \/ HtifReceive \/ WriteFromhost \/ HtifResetRuntime

-----------------------------------------------------------------------------
\* The command mailbox is busy only while a command is being run, while a low
\* half waits for its high half, or for good after an exit request: no finished
\* command leaves it occupied (riscv_htif.rs:139-177, 219-235).
MailboxFreed == dev.tohost # "zero" => Running \/ env.half \/ env.exited

\* A byte reaches the guest without the tag of its request only if none was
\* registered when it arrived (riscv_htif.rs:131-137, 160-164).
AnswersTagged == dev.fromhost = "untagged byte" => env.unasked

-----------------------------------------------------------------------------
(* The console input thread (hw/core/src/chardev.rs, StdioChardev): Ctrl+A   *)
(* prefixes a command, everything else goes to the serial port or, while the *)
(* monitor console is selected, to the monitor, if there is one.             *)
CONSTANTS Key, MaxTyped     \* Key includes "^A", "x", "c", "h"


StdioInit ==
  /\ \E set \in BOOLEAN :      \* is a monitor callback set
       dev = [escape |-> FALSE, mon |-> FALSE, alive |-> TRUE, monitor |-> set]
  /\ env = [typed |-> <<>>, sent |-> <<>>]

SendTo(ch) ==
  IF dev.mon /\ ~dev.monitor THEN env.sent
  ELSE Append(env.sent, [to |-> IF dev.mon THEN "monitor" ELSE "serial", ch |-> ch])
\* one byte read from stdin
KeyRead(ch) ==
  /\ dev.alive /\ Len(env.typed) < MaxTyped
  /\ LET cmd == dev.escape /\ ch \in {"x", "c", "h"}
         prefix == ch = "^A" /\ ~dev.escape
     IN /\ dev' = [dev EXCEPT !.escape = prefix,
                              !.mon = IF dev.escape /\ ch = "c" THEN ~@ ELSE @,
                              !.alive = ~(dev.escape /\ ch = "x")]
        /\ env' = [typed |-> Append(env.typed, ch),
                   sent |-> IF cmd \/ prefix THEN env.sent ELSE SendTo(ch)]

StdioNext == \E ch \in Key : KeyRead(ch)

-----------------------------------------------------------------------------
\* What was typed, read off the whole input at once: a key is escaped when an
\* odd run of Ctrl+A ends right before it.
Escaped(i) ==
  \E n \in 1 .. i - 1 : /\ n % 2 = 1
                        /\ \A j \in i - n .. i - 1 : env.typed[j] = "^A"
                        /\ (n = i - 1 \/ env.typed[i - n - 1] # "^A")
InMonitor(i) == {j \in 1 .. i - 1 : Escaped(j) /\ env.typed[j] = "c"}
Delivered(i) == IF Escaped(i) THEN env.typed[i] \notin {"x", "c", "h"} ELSE env.typed[i] # "^A"
Odd(S) == Cardinality(S) % 2 = 1

\* Every key is delivered exactly once, in order and to the console selected when
\* it was typed; only prefixes, commands and, where no monitor is attached, keys
\* typed to it are swallowed (chardev.rs:297-347, 353-370).
KeysDelivered ==
  LET ToMonitor(i) == Odd(InMonitor(i))
      at == SetToSortSeq({i \in 1 .. Len(env.typed) : Delivered(i) /\ (ToMonitor(i) => dev.monitor)}, <)
  IN env.sent = [k \in 1 .. Len(at) |->
       [to |-> IF ToMonitor(at[k]) THEN "monitor" ELSE "serial", ch |-> env.typed[at[k]]]]
=============================================================================
