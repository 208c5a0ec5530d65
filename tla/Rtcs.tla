-------------------------------- MODULE Rtcs --------------------------------
(* The real-time clocks of hw/rtc/src: PL031 and Goldfish, LS7A, DS1338.     *)
(* Each is a specification of its own, over the same two variables.          *)
EXTENDS Integers

VARIABLES dev,     \* the device
          env      \* its surroundings

vars == <<dev, env>>

-----------------------------------------------------------------------------
(* Two alarm clocks: the PL031 (hw/rtc/src/pl031.rs), whose alarm is an      *)
(* equality, and the Goldfish clock (hw/rtc/src/goldfish_rtc.rs), whose      *)
(* 64-bit registers are read and written in halves.                          *)
CONSTANT Half           \* values of a half register; times are below Half * Half

Time == 0 .. Half * Half - 1

Pl031New == [dr |-> 0, mr |-> 0, im |-> FALSE, is |-> FALSE]
GoldfishNew == [tick |-> 0, alarm |-> 0, running |-> FALSE, pending |-> FALSE, enabled |-> FALSE, high |-> 0]
AlarmInit ==
  /\ dev = [p |-> Pl031New, pline |-> FALSE, g |-> GoldfishNew, gline |-> FALSE]
  /\ env = [now |-> 0, match |-> 0,  \* the PL031's time and alarm as the guest set them, time counted on
            met |-> FALSE,          \* they were equal since the guest last cleared the interrupt
            latched |-> 0,          \* the time whose low half the guest last read
            passed |-> FALSE]       \* the Goldfish time was set past a running alarm

\* ---- PL031
Alarm(p) == IF p.mr = p.dr THEN [p EXCEPT !.is = TRUE] ELSE p
Pl031(p) == dev' = [dev EXCEPT !.p = p, !.pline = p.is /\ p.im]
Reaches(now, match) == env' = [env EXCEPT !.now = now, !.match = match, !.met = @ \/ now = match]
PTick(n) ==
  /\ Pl031(Alarm([dev.p EXCEPT !.dr = (@ + n) % (Half * Half)]))
  /\ Reaches((env.now + n) % (Half * Half), env.match)
PWriteLr(v) == Pl031(Alarm([dev.p EXCEPT !.dr = v])) /\ Reaches(v, env.match)
PWriteMr(v) == Pl031(Alarm([dev.p EXCEPT !.mr = v])) /\ Reaches(env.now, v)
PWriteImsc(b) ==
  /\ dev' = [dev EXCEPT !.p.im = b, !.pline = dev.p.is /\ b]
  /\ UNCHANGED env
PWriteIcr ==
  /\ dev' = [dev EXCEPT !.p.is = FALSE, !.pline = FALSE]
  /\ env' = [env EXCEPT !.met = FALSE]
PReset ==
  /\ dev' = [dev EXCEPT !.p = Pl031New, !.pline = FALSE]
  /\ env' = [env EXCEPT !.now = 0, !.match = 0, !.met = FALSE]

\* ---- Goldfish
CheckAlarm(g) ==
  IF g.alarm <= g.tick /\ g.running THEN [g EXCEPT !.running = FALSE, !.pending = TRUE] ELSE g
Goldfish(g) == dev' = [dev EXCEPT !.g = g, !.gline = g.pending /\ g.enabled]
GTick(n) ==
  /\ dev.g.tick + n \in Time
  /\ Goldfish(CheckAlarm([dev.g EXCEPT !.tick = @ + n]))
  /\ env' = [env EXCEPT !.passed = FALSE]
GReadLow ==
  /\ dev' = [dev EXCEPT !.g.high = dev.g.tick \div Half]
  /\ env' = [env EXCEPT !.latched = dev.g.tick]
\* the halves of the time: no alarm check
GWriteTime(v) ==
  /\ \/ \E low \in 0 .. Half - 1 : v = (dev.g.tick \div Half) * Half + low
     \/ \E high \in 0 .. Half - 1 : v = high * Half + (dev.g.tick % Half)
  /\ dev' = [dev EXCEPT !.g.tick = v]
  /\ env' = [env EXCEPT !.passed = TRUE]
\* the low half arms the alarm, the high half does not
GWriteAlarmLow(low) ==
  /\ Goldfish(CheckAlarm([dev.g EXCEPT !.alarm = (@ \div Half) * Half + low, !.running = TRUE]))
  /\ env' = [env EXCEPT !.passed = FALSE]
GWriteAlarmHigh(high) ==
  /\ dev' = [dev EXCEPT !.g.alarm = high * Half + (@ % Half)]
  /\ env' = [env EXCEPT !.passed = TRUE]
GWriteEnabled(b) == Goldfish([dev.g EXCEPT !.enabled = b]) /\ UNCHANGED env
GClearAlarm == Goldfish([dev.g EXCEPT !.running = FALSE]) /\ UNCHANGED env
GClearInterrupt == Goldfish([dev.g EXCEPT !.pending = FALSE]) /\ UNCHANGED env
GReset ==
  /\ dev' = [dev EXCEPT !.g = [GoldfishNew EXCEPT !.tick = dev.g.tick], !.gline = FALSE]
  /\ env' = [env EXCEPT !.latched = 0]

Pl031Next ==
  \/ PWriteIcr \/ PReset
  \/ \E b \in BOOLEAN : PWriteImsc(b)
  \/ \E n \in 1 .. 2 : PTick(n)
  \/ \E v \in Time : PWriteLr(v) \/ PWriteMr(v)
GoldfishNext ==
  \/ GReadLow \/ GClearAlarm \/ GClearInterrupt \/ GReset
  \/ \E b \in BOOLEAN : GWriteEnabled(b)
  \/ \E n \in 1 .. 2 : GTick(n)
  \/ \E v \in Time : GWriteTime(v)
  \/ \E v \in 0 .. Half - 1 : GWriteAlarmLow(v) \/ GWriteAlarmHigh(v)
\* the two clocks do not interact: a behaviour exercises one of them
AlarmNext ==
  \/ dev.g = GoldfishNew /\ Pl031Next
  \/ dev.p = Pl031New /\ ~dev.pline /\ GoldfishNext

-----------------------------------------------------------------------------
\* A time that came to equal the alarm, by counting or by a write of either, stays
\* flagged until the guest clears it, and the line shows it whenever it is unmasked.  (An advance that jumps over the match value does
\* not meet it: pl031.rs:66-76, 187-218.)
MetAlarmKept == (env.met => dev.p.is) /\ dev.pline = (dev.p.is /\ dev.p.im)

\* A running Goldfish alarm lies in the future: it is turned into an interrupt as
\* soon as it is due, unless the guest just moved the time or the high half of
\* the alarm, which are not checked (goldfish_rtc.rs:61-68, 116-122, 172-199).
AlarmInFuture == dev.g.running /\ ~env.passed => dev.g.alarm > dev.g.tick

\* Reading the low half and then the high half of the Goldfish time gives one
\* instant, however much time passes between the two (goldfish_rtc.rs:152-157).
ReadsOneInstant == dev.g.high = env.latched \div Half

-----------------------------------------------------------------------------
(* The LS7A real-time clock (hw/rtc/src/ls7a_rtc.rs): the calendar counter   *)
(* with its mixed-radix register, the tick counter, and their matches.       *)
CONSTANTS Secs, Hours, Days, Months,  \* radices (60, 24, 31, 12); minutes count like seconds
          YearDays,                   \* days of a year (365)
          MaxTicks, MaxToy,           \* bounds on the two counters
          Years


Epoch == [sec |-> 0, hour |-> 0, day |-> 1, mon |-> 1]
Ls7aInit ==
  /\ dev = [toy |-> 0, rtc |-> 0, toyen |-> FALSE, rtcen |-> FALSE, toymatch |-> 0, rtcmatch |-> 0,
            year |-> 0, pending |-> FALSE, line |-> FALSE]
  /\ env = [date |-> Epoch,      \* the date last written, counted on second by second
            known |-> FALSE,     \* it was written with the year register at zero
            moved |-> FALSE]     \* the tick counter was written, or enabled, since the clock moved
Cycle == Secs * Hours * Days * Months

\* the fields of the calendar register; match values are seconds plus one, 0 is off
EncodeToy(toy) ==
  LET mins == toy \div Secs
      days == mins \div Hours
  IN [sec |-> toy % Secs, hour |-> mins % Hours, day |-> (days % Days) + 1, mon |-> ((days \div Days) % Months) + 1]
DecodeToyWrite0(f) ==
  f.sec + f.hour * Secs + (f.day - 1) * Hours * Secs + (f.mon - 1) * Days * Hours * Secs
    + dev.year * YearDays * Hours * Secs
Field == [sec : 0 .. Secs - 1, hour : 0 .. Hours - 1, day : 1 .. Days, mon : 1 .. Months]

\* the next second of a calendar, by its carries
NextSecond(f) ==
  LET s == f.sec = Secs - 1
      h == s /\ f.hour = Hours - 1
      d == h /\ f.day = Days
  IN [sec |-> IF s THEN 0 ELSE f.sec + 1,
      hour |-> IF h THEN 0 ELSE IF s THEN f.hour + 1 ELSE f.hour,
      day |-> IF d THEN 1 ELSE IF h THEN f.day + 1 ELSE f.day,
      mon |-> IF ~d THEN f.mon ELSE IF f.mon = Months THEN 1 ELSE f.mon + 1]

ToyEnabled == dev.toyen
RtcEnabled == dev.rtcen
CheckToyMatches(d) ==
  IF d.toyen /\ d.toymatch # 0 /\ d.toy % Cycle = d.toymatch - 1
  THEN [d EXCEPT !.pending = TRUE, !.toymatch = 0] ELSE d
CheckRtcMatches(d) ==
  IF d.rtcen /\ d.rtcmatch # 0 /\ d.rtc >= d.rtcmatch
  THEN [d EXCEPT !.pending = TRUE, !.rtcmatch = 0] ELSE d
Tick(n) ==
  /\ dev.rtc + n <= MaxTicks /\ dev.toy + n <= MaxToy
  /\ LET d == CheckRtcMatches(CheckToyMatches([dev EXCEPT !.toy = @ + n, !.rtc = @ + n]))
     IN dev' = [d EXCEPT !.line = @ \/ d.pending]
  /\ env' = [env EXCEPT !.moved = FALSE,
                        !.date = CASE ~env.known -> Epoch
                                   [] n = 1 -> NextSecond(@)
                                   [] n = 2 -> NextSecond(NextSecond(@))]
WriteToy0(f) ==
  /\ ToyEnabled
  /\ dev' = [dev EXCEPT !.toy = DecodeToyWrite0(f)]
  /\ env' = [env EXCEPT !.known = dev.year = 0, !.date = IF dev.year = 0 THEN f ELSE Epoch]
WriteToy1(y) == ToyEnabled /\ dev' = [dev EXCEPT !.year = y] /\ UNCHANGED env
WriteToyMatch(m) == ToyEnabled /\ dev' = [dev EXCEPT !.toymatch = m] /\ UNCHANGED env
WriteCtrl(t, r) ==
  dev' = [dev EXCEPT !.toyen = t, !.rtcen = r] /\ env' = [env EXCEPT !.moved = TRUE]
\* the new value is taken relative to the counter
WriteRtc(v) ==
  /\ RtcEnabled /\ v >= dev.rtc
  /\ dev' = [dev EXCEPT !.rtc = v - dev.rtc]
  /\ env' = [env EXCEPT !.moved = TRUE]
WriteRtcMatch(m) ==
  /\ RtcEnabled
  /\ dev' = [dev EXCEPT !.rtcmatch = m]
  /\ env' = [env EXCEPT !.moved = TRUE]
ResetRuntime ==
  /\ dev' = [dev EXCEPT !.toymatch = 0, !.rtcmatch = 0, !.toyen = FALSE, !.rtcen = FALSE,
                        !.pending = FALSE, !.line = FALSE]
  /\ UNCHANGED env

Ls7aNext ==
  \/ \E n \in 1 .. 2 : Tick(n)
  \/ \E f \in Field : WriteToy0(f)
  \/ \E y \in Years : WriteToy1(y)
  \/ \E m \in {0, 3} : WriteToyMatch(m) \/ WriteRtcMatch(m)
  \/ \E v \in {0, 2} : WriteRtc(v)
  \/ \E a, b \in BOOLEAN : WriteCtrl(a, b)
  \/ ResetRuntime

-----------------------------------------------------------------------------
\* The calendar reads back as written and counts on from there as a calendar of
\* equal months does, second by second through every carry.  (With a year other than zero it does not: the year is
\* added as 365 days and read back in months of 31: ls7a_rtc.rs:128-163.)
CalendarCounts ==
  env.known => EncodeToy(dev.toy) = env.date

\* Once the clock has moved, no tick match that is due is left armed: it has been
\* turned into the interrupt (ls7a_rtc.rs:192-213, 262-275).
DueMatchFires == dev.rtcen /\ dev.rtcmatch # 0 /\ ~env.moved => dev.rtc < dev.rtcmatch

\* The line is the pending interrupt (ls7a_rtc.rs:243-259, 270-275).
LineHonest == dev.line = dev.pending

-----------------------------------------------------------------------------
(* The conversion of a day count into a date (hw/rtc/src/ds1338.rs), run     *)
(* over one day after the other.                                             *)
CONSTANT DateMaxDays        \* last day converted, counted from 1970-01-01


IsLeap(y) == (y % 4 = 0 /\ y % 100 # 0) \/ y % 400 = 0
MonthDays(y) == <<31, IF IsLeap(y) THEN 29 ELSE 28, 31, 30, 31, 30, 31, 31, 30, 31, 30, 31>>

\* the two loops of days_to_date: whole years, then whole months
RECURSIVE YearOf(_, _), MonthOf(_, _, _)
YearOf(days, y) ==
  LET n == IF IsLeap(y) THEN 366 ELSE 365
  IN IF days < n THEN [year |-> y, days |-> days] ELSE YearOf(days - n, y + 1)
MonthOf(days, m, y) ==
  IF m > 12 \/ days < MonthDays(y)[m] THEN [mon |-> m, days |-> days]
  ELSE MonthOf(days - MonthDays(y)[m], m + 1, y)
DaysToDate(days) ==
  LET y == YearOf(days, 1970)
      m == MonthOf(y.days, 1, y.year)
  IN [year |-> y.year, mon |-> m.mon, mday |-> m.days + 1]

DateInit == dev = 0 /\ env = 0
\* set_time with the next day
SetTime == dev < DateMaxDays /\ dev' = dev + 1 /\ UNCHANGED env
DateNext == SetTime

-----------------------------------------------------------------------------
\* The days before a year and before a month, as the calendar defines them.
YearStart(y) == 365 * (y - 1970) + ((y - 1) \div 4 - 1969 \div 4) - ((y - 1) \div 100 - 19) + ((y - 1) \div 400 - 4)
RECURSIVE MonthStart(_, _)
MonthStart(m, y) == IF m = 1 THEN 0 ELSE MonthStart(m - 1, y) + MonthDays(y)[m - 1]
\* The date shown is the Gregorian date of the day counted, leap years and
\* century rules included: it is a valid date and the calendar takes it back to
\* the same day (ds1338.rs:110-138).
DateIsGregorian ==
  LET d == DaysToDate(dev)
  IN /\ d.mon \in 1 .. 12 /\ d.mday \in 1 .. MonthDays(d.year)[d.mon]
     /\ YearStart(d.year) + MonthStart(d.mon, d.year) + d.mday - 1 = dev

-----------------------------------------------------------------------------
(* The DS1338 clock on the I2C bus (hw/rtc/src/ds1338.rs).  The time is one  *)
(* number of seconds; its registers are computed from it when a read starts, *)
(* and a write to one of them recomposes the number from all fields.         *)
CONSTANTS StartDays,        \* days since 1970-01-01 the clock may start on
          NVRAM_SIZE,       \* registers and RAM (64)
          Bcd,              \* BCD bytes written to seconds and minutes
          HourBytes,        \* bytes written to the hours register
          Ptrs,             \* register numbers the driver selects
          DsMaxDays


ToBcd(v) == LET w == IF v >= 100 THEN 99 ELSE v IN (w \div 10) * 16 + (w % 10)
FromBcd(b) == ((b \div 16) % 16) * 10 + (b % 16)
\* the seven time registers
Captured(offset) ==
  LET days == offset \div 86400
      d == DaysToDate(days)
  IN <<ToBcd(offset % 60), ToBcd((offset \div 60) % 60), ToBcd((offset \div 3600) % 24),
       ((days + 4) % 7) + 1, ToBcd(d.mday), ToBcd(d.mon), ToBcd((d.year - 2000) % 256)>>
Hour(b) ==
  IF (b \div 64) % 2 = 1
  THEN LET t == FromBcd(b % 32) + (IF (b \div 32) % 2 = 1 THEN 12 ELSE 0)
       IN IF t % 12 = 0 THEN t - 12 ELSE t
  ELSE FromBcd(b % 64)

DsInit ==
  \E d \in StartDays :
    /\ dev = [offset |-> d * 86400, ptr |-> 0, addr |-> FALSE, regs |-> <<>>]
    /\ env = [s |-> 0, m |-> 0, h |-> 0]     \* the time of day last written
\* reading wraps into the time registers, which are then captured again
IncRegptr(d) ==
  LET p == (d.ptr + 1) % NVRAM_SIZE
  IN [d EXCEPT !.ptr = p, !.regs = IF p = 0 THEN Captured(d.offset) ELSE @]
StartRecv == dev' = [dev EXCEPT !.regs = Captured(dev.offset)] /\ UNCHANGED env
StartSend == dev' = [dev EXCEPT !.addr = TRUE] /\ UNCHANGED env
SendPointer(p) == dev.addr /\ dev' = [dev EXCEPT !.addr = FALSE, !.ptr = p] /\ UNCHANGED env
Recv == dev' = IncRegptr(dev) /\ UNCHANGED env
\* recompose the time from its fields
Compose(s, m, h, days) == s + 60 * m + 3600 * h + 86400 * days
Write(s, m, h, days) == dev' = IncRegptr([dev EXCEPT !.offset = Compose(s, m, h, days)])
S == dev.offset % 60
M == (dev.offset \div 60) % 60
H == (dev.offset \div 3600) % 24
D == dev.offset \div 86400
SendSeconds(b) ==
  ~dev.addr /\ dev.ptr = 0 /\ Write(FromBcd(b % 128), M, H, D) /\ env' = [env EXCEPT !.s = FromBcd(b)]
SendMinutes(b) ==
  ~dev.addr /\ dev.ptr = 1 /\ Write(S, FromBcd(b % 128), H, D) /\ env' = [env EXCEPT !.m = FromBcd(b)]
SendHours(b) ==
  /\ ~dev.addr /\ dev.ptr = 2 /\ Write(S, M, Hour(b), D)
  /\ env' = [env EXCEPT !.h = IF b < 64 THEN FromBcd(b)
                              ELSE (FromBcd(b % 32) % 12) + (IF b >= 96 THEN 12 ELSE 0)]
\* the date registers, which take every month to have 31 days and every year 365
SendDate(b) ==
  LET days == CASE dev.ptr = 3 -> D
                [] dev.ptr = 4 -> D + FromBcd(b % 64) - ((D % 31) + 1)
                [] dev.ptr = 5 -> D + (FromBcd(b % 32) - (((D \div 31) % 12) + 1)) * 31
                [] dev.ptr = 6 -> D + (FromBcd(b) + 2000 - (1970 + D \div 365)) * 365
      nonneg == IF days > 0 THEN days ELSE 0
  IN /\ ~dev.addr /\ dev.ptr \in 3 .. 6 /\ nonneg <= DsMaxDays
     /\ Write(S, M, H, nonneg) /\ UNCHANGED env
\* the control register and the RAM behind it
SendRam == ~dev.addr /\ dev.ptr >= 7 /\ dev' = IncRegptr(dev) /\ UNCHANGED env

DsNext ==
  \/ StartRecv \/ StartSend \/ Recv \/ SendRam
  \/ \E p \in Ptrs : SendPointer(p)
  \/ \E b \in Bcd : SendSeconds(b) \/ SendMinutes(b)
  \/ \E b \in HourBytes : SendHours(b)
  \/ SendDate(1)

-----------------------------------------------------------------------------
\* Writing the seconds, the minutes or the hours, in 12- or 24-hour form and in
\* any order, changes that field alone, whatever is done to the date
\* (ds1338.rs:158-232).
TimeOfDayKept == <<S, M, H>> = <<env.s, env.m, env.h>>
=============================================================================
