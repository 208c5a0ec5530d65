----------------------------- MODULE LaLocalIntc ----------------------------
(* The LoongArch controllers beside the cascade: inter-processor interrupts  *)
(* and the local I/O controller.  Each is a specification of its own, over   *)
(* the same two variables.                                                   *)
EXTENDS Integers, FiniteSets

VARIABLES dev,     \* the device
          env      \* its surroundings

vars == <<dev, env>>

-----------------------------------------------------------------------------
(* LoongArch inter-processor interrupts: hw/intc/src/ipi.rs and the IOCSR    *)
(* bus in front of it (hw/loongarch/src/iocsr.rs).  A mailbox word is two    *)
(* bytes; an ANY_SEND on the bus reads and writes it under two locks.        *)
CONSTANTS Cpu,          \* CPUs that exist
          Target,       \* CPU numbers a send may name
          Vec,          \* IPI vectors
          Data          \* byte values

Byte == {0, 1}
NoSend == [to |-> -1, keep |-> {}, data |-> 0, old |-> [b \in Byte |-> 0]]

IpiInit ==
  /\ dev = [status |-> [c \in Cpu |-> {}], enable |-> [c \in Cpu |-> {}],
            mail |-> [c \in Cpu |-> [b \in Byte |-> 0]], line |-> {}]
  /\ env = [owed |-> [c \in Cpu |-> {}],            \* vectors sent and not cleared
            stale |-> {},                           \* enable written since the last update
            any |-> [c \in Cpu |-> NoSend],         \* ANY_SEND between its read and its write
            want |-> [c \in Cpu |-> [b \in Byte |-> 0]],
            torn |-> FALSE]                         \* two senders to one mailbox overlapped

IpiUpdateOutputs(d) == [d EXCEPT !.line = {c \in Cpu : d.status[c] \cap d.enable[c] # {}}]
Merge(old, keep, data) == [b \in Byte |-> IF b \in keep THEN old[b] ELSE data]

-----------------------------------------------------------------------------
WriteSet(c, S) ==
  /\ dev' = IpiUpdateOutputs([dev EXCEPT !.status[c] = @ \cup S])
  /\ env' = [env EXCEPT !.owed[c] = @ \cup S, !.stale = {}]
WriteClear(c, S) ==
  /\ dev' = IpiUpdateOutputs([dev EXCEPT !.status[c] = @ \ S])
  /\ env' = [env EXCEPT !.owed[c] = @ \ S, !.stale = {}]
\* An enable write only stores; the line is recomputed at the next status change.
WriteEnable(c, E) ==
  /\ dev' = [dev EXCEPT !.enable[c] = E]
  /\ env' = [env EXCEPT !.stale = @ \cup {c}]

\* Writes of the send registers; a target that does not exist is ignored.
WriteIpiSend(t, v) ==
  IF t \in Cpu
  THEN /\ dev' = IpiUpdateOutputs([dev EXCEPT !.status[t] = @ \cup {v}])
       /\ env' = [env EXCEPT !.owed[t] = @ \cup {v}, !.stale = {}]
  ELSE UNCHANGED vars
Racing(t) == \E s \in Cpu : env.any[s].to = t
WriteIpiData(t, keep, data) ==
  IF t \in Cpu
  THEN /\ dev' = [dev EXCEPT !.mail[t] = Merge(@, keep, data)]
       /\ env' = [env EXCEPT !.want[t] = Merge(@, keep, data), !.torn = @ \/ Racing(t)]
  ELSE UNCHANGED vars

\* VirtIocsrBus::write_any_send(): the old word is read, then the merge written.
AnySendRead(s, t, keep, data) ==
  /\ t \in Cpu /\ env.any[s].to = -1
  /\ env' = [env EXCEPT !.any[s] = [to |-> t, keep |-> keep, data |-> data, old |-> dev.mail[t]],
                        !.torn = @ \/ Racing(t)]
  /\ UNCHANGED dev
AnySendWrite(s) ==
  LET a == env.any[s]
  IN /\ a.to # -1
     /\ dev' = [dev EXCEPT !.mail[a.to] = Merge(a.old, a.keep, a.data)]
     /\ env' = [env EXCEPT !.any[s] = NoSend, !.want[a.to] = Merge(@, a.keep, a.data)]

IpiNext ==
  \/ \E c \in Cpu, S \in SUBSET Vec : WriteSet(c, S) \/ WriteClear(c, S) \/ WriteEnable(c, S)
  \/ \E t \in Target, v \in Vec : WriteIpiSend(t, v)
  \/ \E t \in Target, keep \in SUBSET Byte, data \in Data : WriteIpiData(t, keep, data)
  \/ \E s \in Cpu, t \in Target, keep \in SUBSET Byte, data \in Data : AnySendRead(s, t, keep, data)
  \/ \E s \in Cpu : AnySendWrite(s)

-----------------------------------------------------------------------------
\* A vector sent to a CPU stays in its status until that CPU clears it, and a
\* clear of other vectors does not take it along (ipi.rs:202-209 and 236-245).
IpiStaysPending == \A c \in Cpu : env.owed[c] \subseteq dev.status[c]

\* A CPU's line agrees with status and enable except after an enable write,
\* which deliberately leaves it to the next status change (ipi.rs:193-201).
LineHonest ==
  \A c \in Cpu \ env.stale : c \in dev.line <=> dev.status[c] \cap dev.enable[c] # {}

\* Every mailbox byte a send did not mask out arrives and every masked byte is
\* kept, unless an ANY_SEND overlapped another send to the same CPU
\* (ipi.rs:247-268; iocsr.rs:80-98 reads and writes under separate locks).
MailArrives == ~env.torn => dev.mail = env.want

-----------------------------------------------------------------------------
(* The Loongson local I/O interrupt controller (hw/intc/src/liointc.rs).     *)
(* parent_state caches the last level driven on each of the core x pin       *)
(* lines, and a line is driven only when the cached level changes.           *)
CONSTANTS Irq, Core, Ip, Maps   \* Maps: [cores, ips] a mapper byte can select

Parent == Core \X Ip

LioInit ==
  /\ dev = [mapper |-> [i \in Irq |-> [cores |-> {}, ips |-> {}]], isr |-> {}, ien |-> {},
            percore |-> [c \in Core |-> {}], pin |-> {}, parent |-> {}]
  /\ env = {}           \* the levels on the wires

LioUpdateOutputs(d) ==
  LET isr == d.pin \cap d.ien
      percore == [c \in Core |-> {i \in isr : c \in d.mapper[i].cores}]
      perip == [p \in Ip |-> {i \in isr : p \in d.mapper[i].ips}]
      parent == {x \in Parent : percore[x[1]] # {} /\ perip[x[2]] # {}}
  IN /\ dev' = [d EXCEPT !.isr = isr, !.percore = percore, !.parent = parent]
     /\ env' = (env \ (d.parent \ parent)) \cup (parent \ d.parent)

SetIrq(i, level) == LioUpdateOutputs([dev EXCEPT !.pin = IF level THEN @ \cup {i} ELSE @ \ {i}])
WriteMapper(i, m) == LioUpdateOutputs([dev EXCEPT !.mapper[i] = m])
WriteIen(S, set) == LioUpdateOutputs([dev EXCEPT !.ien = IF set THEN @ \cup S ELSE @ \ S])
ResetRuntime ==
  /\ dev' = [dev EXCEPT !.isr = {}, !.ien = {}, !.percore = [c \in Core |-> {}], !.pin = {}, !.parent = {}]
  /\ env' = {}

LioNext ==
  \/ \E i \in Irq, level \in BOOLEAN : SetIrq(i, level)
  \/ \E i \in Irq, m \in Maps : WriteMapper(i, m)
  \/ \E S \in SUBSET Irq, set \in BOOLEAN : WriteIen(S, set)
  \/ ResetRuntime

-----------------------------------------------------------------------------
\* The cached level of every parent line is the level on the wire, resets
\* included: a stale cache would swallow the next edge (liointc.rs:149-161).
CacheMatchesWire == dev.parent = env

\* An asserted, enabled input reaches every line its mapper selects, after
\* every access (liointc.rs:123-162).
EveryParentDriven ==
  \A i \in dev.pin \cap dev.ien : dev.mapper[i].cores \X dev.mapper[i].ips \subseteq env
=============================================================================
