--------------------------------- MODULE I2c --------------------------------
(* The I2C bus of hw/i2c/src and the devices on it: EEPROMs, TMP105 of       *)
(* hw/sensor/src.  Each is a specification of its own, over the same two     *)
(* variables.                                                                *)
EXTENDS Naturals, Sequences, SequencesExt

VARIABLES dev,     \* the device
          env      \* its surroundings

vars == <<dev, env>>

-----------------------------------------------------------------------------
(* The I2C bus (hw/i2c/src/lib.rs) with several masters.  A step is one     *)
(* critical section: the broadcast flag has a lock of its own, start_transfer*)
(* holds the list of addressed devices from the old transfer's end to the    *)
(* start events, and end_transfer lets go of it between telling the devices  *)
(* and clearing it.                                                          *)
CONSTANTS Addr,         \* addresses in use; 0 is the broadcast address
          Slave,        \* devices that may be attached
          Layouts,      \* the addresses they may have
          Deaf,         \* devices that refuse a transfer
          Master        \* threads that use the bus


Idle == [at |-> "idle"]
BusInit ==
  /\ \E l \in Layouts : dev = [slaves |-> <<>>, current |-> <<>>, broadcast |-> FALSE, addr |-> l]
  /\ env = [pc |-> [m \in Master |-> Idle],  \* where each master is in its call
            busy |-> {},            \* devices between a start and a finish event
            attaching |-> {},       \* attach calls that have passed their check
            twice |-> FALSE,        \* ... two of which overlapped
            cut |-> FALSE,          \* a start came between the two halves of an end_transfer
            doubled |-> FALSE,      \* ... or another end_transfer did
            ghost |-> FALSE]        \* a device was told to finish that was not started
AddrOf(s) == dev.addr[s]
Goto(e, m, to) == [e EXCEPT !.pc[m] = to]
\* some other master is between the halves of end_transfer
InGap(m) == \E n \in Master \ {m} : env.pc[n].at = "clear"

\* ---- attach, in two critical sections, and detach
AttachCheck(s) ==
  /\ s \notin env.attaching /\ s \notin ToSet(dev.slaves)
  /\ AddrOf(s) # 0 => \A t \in ToSet(dev.slaves) : AddrOf(t) # AddrOf(s)
  /\ UNCHANGED dev
  /\ env' = [env EXCEPT !.attaching = @ \cup {s}, !.twice = @ \/ env.attaching # {}]
AttachPush(s) ==
  /\ s \in env.attaching
  /\ dev' = [dev EXCEPT !.slaves = Append(@, s)]
  /\ env' = [env EXCEPT !.attaching = @ \ {s}]
Detach(a) ==
  /\ \E i \in 1 .. Len(dev.slaves) : AddrOf(dev.slaves[i]) = a
  /\ LET i == CHOOSE j \in 1 .. Len(dev.slaves) :
                AddrOf(dev.slaves[j]) = a /\ \A k \in 1 .. j - 1 : AddrOf(dev.slaves[k]) # a
     IN dev' = [dev EXCEPT !.slaves = RemoveAt(@, i)]
  /\ UNCHANGED env

\* ---- transfers
ScanBus(a) ==
  LET found == SelectSeq(dev.slaves, LAMBDA s : AddrOf(s) = a \/ a = 0)
  IN IF a = 0 \/ found = <<>> THEN found ELSE <<found[1]>>
FinishAll(e, ds) ==
  [e EXCEPT !.busy = @ \ ToSet(ds), !.ghost = @ \/ \E d \in ToSet(ds) : d \notin e.busy]
StartTransfer(m, a) ==
  /\ env.pc[m] = Idle
  /\ dev' = [dev EXCEPT !.broadcast = a = 0]
  /\ env' = Goto(env, m, [at |-> "scan", addr |-> a])
\* a directed transfer that is refused goes on to end_transfer, the list released
StartDevices(m, a) ==
  /\ env.pc[m] = [at |-> "scan", addr |-> a]
  /\ dev' = [dev EXCEPT !.current = ScanBus(a)]
  /\ LET refused == a # 0 /\ ToSet(dev'.current) \cap Deaf # {}
     IN env' = [Goto(FinishAll(env, dev.current), m, IF refused THEN [at |-> "finish"] ELSE Idle)
                 EXCEPT !.busy = @ \cup ToSet(dev'.current), !.cut = @ \/ InGap(m)]
EndTransferFinish(m) ==
  /\ env.pc[m].at \in {"idle", "finish"}
  /\ UNCHANGED dev
  /\ env' = [Goto(FinishAll(env, dev.current), m, [at |-> "clear"]) EXCEPT !.doubled = @ \/ InGap(m)]
EndTransferClear(m) ==
  /\ env.pc[m].at = "clear"
  /\ dev' = [dev EXCEPT !.current = <<>>]
  /\ env' = Goto(env, m, [at |-> "flag"])
EndTransferFlag(m) ==
  /\ env.pc[m].at = "flag"
  /\ dev' = [dev EXCEPT !.broadcast = FALSE]
  /\ env' = Goto(env, m, Idle)

BusNext ==
  \/ \E s \in Slave : AttachCheck(s) \/ AttachPush(s)
  \/ \E a \in Addr : Detach(a)
  \/ \E m \in Master : \/ \E a \in Addr : StartTransfer(m, a) \/ StartDevices(m, a)
                      \/ EndTransferFinish(m) \/ EndTransferClear(m) \/ EndTransferFlag(m)

-----------------------------------------------------------------------------
\* No two attached devices answer to the same address, unless two attach calls
\* passed their check before either was added (lib.rs:101-112).
AddressesDistinct ==
  \A i, j \in 1 .. Len(dev.slaves) :
    i # j /\ AddrOf(dev.slaves[i]) = AddrOf(dev.slaves[j]) => AddrOf(dev.slaves[i]) = 0 \/ env.twice

\* A device that was told of a transfer is told of its end before the bus forgets
\* it, a device that refuses included, unless one master started a transfer
\* between the two halves of another's end_transfer; and it is told once, unless
\* two calls of end_transfer overlapped (lib.rs:155-209).
StartsAreFinished ==
  /\ ~env.cut /\ (\A m \in Master : env.pc[m].at # "clear") => env.busy = ToSet(dev.current)
  /\ env.ghost => env.cut \/ env.doubled

-----------------------------------------------------------------------------
(* The two EEPROMs on the I2C bus: the AT24C part with a pointer of one or   *)
(* two address bytes (hw/i2c/src/eeprom_at24c.rs) and the SMBus part whose   *)
(* command byte is the pointer (hw/i2c/src/smbus_eeprom.rs).  The backing    *)
(* store may be read-only.                                                   *)
CONSTANTS Byte,         \* bus bytes are 0 .. Byte - 1 (256 in the code)
          Sizes,        \* sizes of the EEPROMs under study
          Widths        \* address widths

Bytes == 0 .. Byte - 1

\* validate_config accepts these; the SMBus part clips its size to the command range
RomInit ==
  \E size \in Sizes, w \in Widths, kind \in {"at24c", "smbus"}, ro \in BOOLEAN :
    LET n == IF kind = "smbus" /\ size > Byte THEN Byte ELSE size
    IN /\ dev = [kind |-> kind, size |-> n, width |-> IF kind = "smbus" THEN 1 ELSE w,
                 ptr |-> 0, addr |-> <<>>, mem |-> [a \in 0 .. n - 1 |-> 0], ro |-> ro]
       /\ env = [mode |-> "idle",      \* the transfer in progress
                 at |-> 0]             \* the offset the next data byte concerns

OffsetOf(d) == d.ptr % d.size
\* the pointer is taken from the address bytes, most significant first
Pointer(addr) == IF Len(addr) = 1 THEN addr[1] ELSE addr[1] * Byte + addr[2]
LoadPointer(d, addr) ==
  IF d.kind = "smbus" THEN addr[1] ELSE Pointer(addr) % d.size
IncrementPointer(d) ==
  IF d.kind = "smbus" THEN (d.ptr + 1) % Byte ELSE (d.ptr + 1) % d.size

Start(recv) ==
  /\ dev' = IF recv THEN dev ELSE [dev EXCEPT !.addr = <<>>]
  /\ env' = [env EXCEPT !.mode = IF recv THEN "recv" ELSE "send"]
SendAddress(b) ==
  /\ env.mode = "send" /\ Len(dev.addr) < dev.width
  /\ LET addr == Append(dev.addr, b)
         whole == Len(addr) = dev.width
     IN /\ dev' = [dev EXCEPT !.addr = addr, !.ptr = IF whole THEN LoadPointer(dev, addr) ELSE @]
        /\ env' = [env EXCEPT !.at = IF whole THEN Pointer(addr) % dev.size ELSE @]
\* a refused write leaves the pointer where it was
SendData(b) ==
  /\ env.mode = "send" /\ Len(dev.addr) = dev.width
  /\ IF dev.ro THEN UNCHANGED vars
     ELSE /\ dev' = [dev EXCEPT !.mem[OffsetOf(dev)] = b, !.ptr = IncrementPointer(dev)]
          /\ env' = [env EXCEPT !.at = (@ + 1) % dev.size]
Recv ==
  /\ env.mode = "recv"
  /\ dev' = [dev EXCEPT !.ptr = IncrementPointer(dev)]
  /\ env' = [env EXCEPT !.at = (@ + 1) % dev.size]

RomNext ==
  \/ \E r \in BOOLEAN : Start(r)
  \/ \E b \in Bytes : SendAddress(b)
  \/ \E b \in {0, 1} : SendData(b)
  \/ Recv

-----------------------------------------------------------------------------
\* Both parts run through their memory in order, one byte after the other from
\* the address last given in full, wrapping at the end.  The SMBus pointer wraps
\* with the command byte, so there the size must divide the command range
\* (eeprom_at24c.rs:121-176, smbus_eeprom.rs:94-142).
Sequential == dev.kind = "at24c" \/ Byte % dev.size = 0 => OffsetOf(dev) = env.at

-----------------------------------------------------------------------------
(* The TMP105 thermometer (hw/sensor/src/tmp105.rs): the alarm with its      *)
(* hysteresis, the registers written byte by byte over I2C, and the alert    *)
(* line that is driven after the state is released.                          *)
CONSTANTS Temp          \* temperatures and limits


Default ==
  [len |-> 0, pointer |-> "temperature", b0 |-> 0, shutdown |-> FALSE, thermostat |-> FALSE, high |-> FALSE,
   temp |-> 0, low |-> 2, hi |-> 3, alarm |-> FALSE, falling |-> FALSE]
Level(d) == d.alarm # ~d.high
TmpInit ==
  /\ dev = [d |-> Default, line |-> Level(Default)]
  /\ env = [thermo |-> FALSE]    \* interrupt mode has been used since the last reset

UpdateAlarm(d, oneshot) ==
  IF d.shutdown /\ ~oneshot THEN d
  ELSE IF d.falling /\ d.temp < d.low THEN [d EXCEPT !.alarm = d.thermostat, !.falling = FALSE]
  ELSE IF ~d.falling /\ d.temp >= d.hi THEN [d EXCEPT !.alarm = TRUE, !.falling = TRUE]
  ELSE d
\* every handler ends by driving the line
Settle(d) ==
  /\ dev' = [d |-> d, line |-> Level(d)]
  /\ env' = [env EXCEPT !.thermo = @ \/ d.thermostat]

SetTemperature(t) == Settle(UpdateAlarm([dev.d EXCEPT !.temp = t], FALSE))
\* any bus event; a read transfer acknowledges the alarm in interrupt mode
Event(recv) ==
  Settle([dev.d EXCEPT !.len = 0, !.b0 = IF recv THEN 0 ELSE @,
                       !.alarm = @ /\ ~(recv /\ dev.d.thermostat)])
SendPointer(p) ==
  /\ dev.d.len = 0
  /\ dev' = [dev EXCEPT !.d.pointer = p, !.d.len = 1] /\ UNCHANGED env
\* the configuration takes effect with its first byte, a limit with its second
SendConfig(sd, th, hi, oneshot) ==
  /\ dev.d.len \in 1 .. 2 /\ dev.d.pointer = "config"
  /\ Settle(UpdateAlarm([dev.d EXCEPT !.len = @ + 1, !.shutdown = sd, !.thermostat = th, !.high = hi], oneshot))
SendLimit(b) ==
  /\ dev.d.len \in 1 .. 2 /\ dev.d.pointer \in {"t_low", "t_high"}
  /\ LET d == [dev.d EXCEPT !.len = @ + 1, !.b0 = IF dev.d.len = 1 THEN b ELSE @]
         l == IF d.pointer = "t_low" THEN [d EXCEPT !.low = d.b0] ELSE [d EXCEPT !.hi = d.b0]
     IN Settle(UpdateAlarm(IF d.len >= 3 THEN l ELSE d, FALSE))
SendIgnored ==
  /\ dev.d.len \in 1 .. 2 /\ dev.d.pointer = "temperature"
  /\ Settle([dev.d EXCEPT !.len = @ + 1])
ResetRuntime ==
  /\ dev' = [d |-> Default, line |-> Level(Default)]
  /\ env' = [thermo |-> FALSE]

TmpNext ==
  \/ \E t \in Temp : SetTemperature(t) \/ SendLimit(t)
  \/ \E r \in BOOLEAN : Event(r)
  \/ \E p \in {"temperature", "config", "t_low", "t_high"} : SendPointer(p)
  \/ \E a, b, c, o \in BOOLEAN : SendConfig(a, b, c, o)
  \/ SendIgnored \/ ResetRuntime

-----------------------------------------------------------------------------
\* In comparator mode the alarm has the hysteresis of the two limits: while the
\* sensor converts, a raised alarm means the temperature is not below the low
\* limit, and no alarm that it is below the high one, whatever order the
\* temperature, the limits and the mode are changed in, as long as the limits are
\* not inverted.  (Interrupt mode leaves
\* an alarm behind that comparator mode does not clear: tmp105.rs:232-256.)
Hysteresis ==
  ~env.thermo /\ ~dev.d.shutdown /\ dev.d.low <= dev.d.hi =>
    /\ dev.d.alarm => dev.d.temp >= dev.d.low
    /\ ~dev.d.alarm => dev.d.temp < dev.d.hi

\* Every handler that can change the alarm or the polarity leaves the alert line
\* at the level they ask for (tmp105.rs:94-113, 173-218).
LineHonest == dev.line = Level(dev.d)
=============================================================================
