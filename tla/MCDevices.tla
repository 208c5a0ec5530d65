------------------------------ MODULE MCDevices -----------------------------
(* Character, timer, clock, watchdog and I2C devices, each alone with its    *)
(* driver and its host side.                                                 *)
EXTENDS Integers

VARIABLES part,         \* which component this behaviour is about
          dev, env      \* its state and its surroundings

vars == <<part, dev, env>>

CharDevices == INSTANCE CharDevices WITH
  FIFO_SIZE <- 2, MaxBytes <- 3, DEPTH <- 2, MaxCount <- 3,
  Enables <- {{}, {"rx", "cts"}}, SIZE <- 2, Cnt <- {0, 1},
  Cmd <- {"putc", "getc", "exit", "syscall"},
  Key <- {"^A", "x", "c", "h", "k"}, MaxTyped <- 5
Ptimer == INSTANCE Ptimer WITH
  Counts <- {0, 2}, Periods <- {0, 2}, MaxNs <- 3,
  Policies <- {{}, {"no_immediate_trigger"}, {"no_immediate_reload"}, {"continuous_trigger", "trigger_only_on_decrement"}}
Timers == INSTANCE Timers WITH
  Mod <- 8, CmpMod <- 4, Cmp <- {2}, Chans <- {0, 1}, Scales <- {0, 1},
  Max <- 3, Vals <- {0, 2}
Watchdogs == INSTANCE Watchdogs WITH
  Offsets <- {0, 1, 2}, Tops <- {1, 2}
Rtcs == INSTANCE Rtcs WITH
  Half <- 2, Secs <- 2, Hours <- 2, Days <- 2, Months <- 2, YearDays <- 3,
  MaxTicks <- 4, MaxToy <- 18, Years <- {0, 1}, DateMaxDays <- 12000,
  StartDays <- {11322}, NVRAM_SIZE <- 8, Bcd <- {0, 89},
  HourBytes <- {82, 114}, Ptrs <- {0, 2, 4, 7}, DsMaxDays <- 20500
I2c == INSTANCE I2c WITH
  Addr <- 0 .. 2, Slave <- {"a", "b"},
  Layouts <- {[a |-> 1, b |-> 1], [a |-> 1, b |-> 2]}, Deaf <- {"b"},
  Master <- {1, 2}, Byte <- 3, Sizes <- {2, 3, 4}, Widths <- {1, 2},
  Temp <- 1 .. 3

Init ==
  \/ part = "uart" /\ CharDevices!UartInit
  \/ part = "pl011" /\ CharDevices!Pl011Init
  \/ part = "sifive_uart" /\ CharDevices!SifiveInit
  \/ part = "htif" /\ CharDevices!HtifInit
  \/ part = "stdio" /\ CharDevices!StdioInit
  \/ part = "ptimer" /\ Ptimer!Init
  \/ part = "pwm" /\ Timers!PwmInit
  \/ part = "sse" /\ Timers!SseInit
  \/ part = "gwdt" /\ Watchdogs!SbsaInit
  \/ part = "k230wdt" /\ Watchdogs!K230Init
  \/ part = "rtcs" /\ Rtcs!AlarmInit
  \/ part = "i2c" /\ I2c!BusInit
  \/ part = "eeproms" /\ I2c!RomInit
  \/ part = "tmp105" /\ I2c!TmpInit
  \/ part = "ls7a_rtc" /\ Rtcs!Ls7aInit
  \/ part = "calendar" /\ Rtcs!DateInit
  \/ part = "ds1338" /\ Rtcs!DsInit

Next ==
  /\ UNCHANGED part
  /\ \/ part = "uart" /\ CharDevices!UartNext
     \/ part = "pl011" /\ CharDevices!Pl011Next
     \/ part = "sifive_uart" /\ CharDevices!SifiveNext
     \/ part = "htif" /\ CharDevices!HtifNext
     \/ part = "stdio" /\ CharDevices!StdioNext
     \/ part = "ptimer" /\ Ptimer!Next
     \/ part = "pwm" /\ Timers!PwmNext
     \/ part = "sse" /\ Timers!SseNext
     \/ part = "gwdt" /\ Watchdogs!SbsaNext
     \/ part = "k230wdt" /\ Watchdogs!K230Next
     \/ part = "rtcs" /\ Rtcs!AlarmNext
     \/ part = "i2c" /\ I2c!BusNext
     \/ part = "eeproms" /\ I2c!RomNext
     \/ part = "tmp105" /\ I2c!TmpNext
     \/ part = "ls7a_rtc" /\ Rtcs!Ls7aNext
     \/ part = "calendar" /\ Rtcs!DateNext
     \/ part = "ds1338" /\ Rtcs!DsNext

Spec == Init /\ [][Next]_vars
-----------------------------------------------------------------------------
\* What goes through a FIFO, ring, mailbox or bus comes out once and in order,
\* and the flags the driver polls describe it; overruns and the overlaps of two
\* callers named below are the exceptions.
\* - The 16550 FIFO holds the accepted bytes in order.
\* - The 16550 reports data ready exactly while its FIFO holds data.
\* - The PL011 ring is the queue of unread bytes until it overruns.
\* - The PL011 FIFO flags describe the FIFO, but for an overrun and a break
\*   in the write that switches it.
\* - The SiFive transmit ring keeps accepted bytes in order.
\* - The SiFive FULL flag is set exactly when a byte would be dropped.
\* - A finished HTIF command frees the mailbox.
\* - An HTIF answer carries the tag of its request.
\* - Every key typed reaches the selected console once, but for keys typed to
\*   a monitor that is not there.
\* - No two I2C devices share an address unless attached at once.
\* - Every started I2C transfer is finished, and once, unless two masters'
\*   calls overlapped in end_transfer().
\* - The EEPROMs run through their memory in order.
QueuesInOrder ==
  /\ part = "uart" => CharDevices!InOrder
  /\ part = "uart" => CharDevices!DataReadyHonest
  /\ part = "pl011" => CharDevices!RingIsQueue
  /\ part = "pl011" => CharDevices!FlagsHonest
  /\ part = "sifive_uart" => CharDevices!TransmitOrder
  /\ part = "sifive_uart" => CharDevices!FullHonest
  /\ part = "htif" => CharDevices!MailboxFreed
  /\ part = "htif" => CharDevices!AnswersTagged
  /\ part = "stdio" => CharDevices!KeysDelivered
  /\ part = "i2c" => I2c!AddressesDistinct
  /\ part = "i2c" => I2c!StartsAreFinished
  /\ part = "eeproms" => I2c!Sequential

\* An interrupt the device owes is on its line, and no other, when the updates
\* in progress are done; the overlaps named below are the exceptions.
\* - A 16550 transmit interrupt stays pending until it is read or disabled.
\* - The 16550 line settles at the right level unless two updates overlapped.
\* - Waiting PL011 data has its interrupt raised until the guest clears it.
\* - However the threads overlap, the combined PL011 line is right once both
\*   have updated it.
\* - The SiFive line settles unless updates overlapped or TXCTRL changed the
\*   watermark.
\* - The PWM lines are the compare state last computed, but for a channel the
\*   same configuration write acknowledged and moved.
\* - The SSE timer line is its condition when it last looked at the counter.
\* - The K230 watchdog line is its pending interrupt, unless an
\*   acknowledgement overlapped a timeout.
\* - The TMP105 alert line shows the alarm.
\* - The LS7A clock line is its pending interrupt.
DeviceLinesTrue ==
  /\ part = "uart" => CharDevices!TransmitOwed
  /\ part = "uart" => CharDevices!UartLineSettles
  /\ part = "pl011" => CharDevices!ArrivalAnnounced
  /\ part = "pl011" => CharDevices!LineHonest
  /\ part = "sifive_uart" => CharDevices!SifiveLineSettles
  /\ part = "pwm" => Timers!LinesFollowState
  /\ part = "sse" => Timers!LineHonest
  /\ part = "k230wdt" => Watchdogs!LineHonest
  /\ part = "tmp105" => I2c!LineHonest
  /\ part = "ls7a_rtc" => Rtcs!LineHonest

\* A counter neither loses nor gains time, and an expiry or alarm stays until
\* software clears it, but for the uses named below.
\* - Driving a periodic timer in pieces loses no time.
\* - A running timer is not stuck at zero unless its policy or use says so.
\* - A timer runs as it was last asked to, its callback included, but for a
\*   start during a one-shot's callback, which tick() undoes (lib.rs:253).
\* - The PWM counter never jumps.
\* - An automatic SSE expiry stays flagged until cleared.
\* - An enabled SBSA watchdog counts until its second stage, unless a write
\*   overlapped a timeout.
\* - The first stage of the SBSA watchdog is announced.
\* - The K230 watchdog counts exactly while enabled.
\* - A PL031 alarm that was met stays until cleared.
\* - A running Goldfish alarm lies in the future, unless the guest just moved
\*   the time or the alarm's high half.
\* - The two halves of the Goldfish time are one instant.
\* - The TMP105 alarm has the hysteresis of its limits.
\* - The LS7A calendar counts on from what was written.
\* - A due LS7A match becomes the interrupt.
\* - The DS1338 shows the Gregorian date of its day count.
\* - Writing one DS1338 time field leaves the others.
TimeKept ==
  /\ part = "ptimer" => Ptimer!NoTimeLost
  /\ part = "ptimer" => Ptimer!RunningCanExpire
  /\ part = "ptimer" => Ptimer!RunsAsAsked
  /\ part = "pwm" => Timers!CountContinuous
  /\ part = "sse" => Timers!ExpiryKept
  /\ part = "gwdt" => Watchdogs!Counting
  /\ part = "gwdt" => Watchdogs!FirstStageRaised
  /\ part = "k230wdt" => Watchdogs!CountsWhileEnabled
  /\ part = "rtcs" => Rtcs!MetAlarmKept
  /\ part = "rtcs" => Rtcs!AlarmInFuture
  /\ part = "rtcs" => Rtcs!ReadsOneInstant
  /\ part = "tmp105" => I2c!Hysteresis
  /\ part = "ls7a_rtc" => Rtcs!CalendarCounts
  /\ part = "ls7a_rtc" => Rtcs!DueMatchFires
  /\ part = "calendar" => Rtcs!DateIsGregorian
  /\ part = "ds1338" => Rtcs!TimeOfDayKept
=============================================================================
