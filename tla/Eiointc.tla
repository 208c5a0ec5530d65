------------------------------ MODULE Eiointc -------------------------------
(* The LoongArch extended I/O interrupt controller (hw/intc/src/eiointc.rs): *)
(* each input is routed to one CPU and one of its hardware interrupts; the   *)
(* per-CPU status is rebuilt from the inputs by every change except an ack.  *)
EXTENDS Naturals, FiniteSets

CONSTANTS Irq,          \* inputs
          GroupOf(_),   \* irq / 32: the inputs that share an ipmap byte
          Cpu,          \* 0 .. number of connected CPUs - 1
          CoreBytes,    \* values written to coremap
          IpBytes       \* values written to ipmap
VARIABLES dev, env      \* registers and lines; inputs acked since the last rebuild

vars == <<dev, env>>
Group == {GroupOf(i) : i \in Irq}

New == [enable |-> {}, isr |-> {}, core |-> [c \in Cpu |-> {}],
        coremap |-> [i \in Irq |-> 0], ipmap |-> [g \in Group |-> 0], line |-> {}]
Init == dev = New /\ env = {}

\* The lowest bit set, 0 when there is none or it is out of range.
Bit(raw, b) == (raw \div 2^b) % 2 = 1
DecodeOneHot(raw, max) ==
  LET B == {b \in 0 .. max - 1 : Bit(raw, b)} IN IF B = {} THEN 0 ELSE CHOOSE b \in B : \A c \in B : b <= c
DecodedCpuForIrq(d, i) ==
  LET c == (d.coremap[i] \div 16) * 4 + DecodeOneHot(d.coremap[i] % 16, 4)
  IN IF c \in Cpu THEN c ELSE 0
DecodedHwiForIrq(d, i) == DecodeOneHot(d.ipmap[GroupOf(i)], 4)

RebuildCoreIsr(d) ==
  [d EXCEPT !.core = [c \in Cpu |-> {i \in d.isr \cap d.enable : DecodedCpuForIrq(d, i) = c}]]
HwiBitsForCpu(d, c) == {DecodedHwiForIrq(d, i) : i \in d.core[c]}
UpdateOutputs(d) == [d EXCEPT !.line = UNION {{<<c, h>> : h \in HwiBitsForCpu(d, c)} : c \in Cpu}]

SetIrqOf(d, i, level) ==
  UpdateOutputs(RebuildCoreIsr([d EXCEPT !.isr = IF level THEN @ \cup {i} ELSE @ \ {i}]))
WriteEnable(d, E) == UpdateOutputs(RebuildCoreIsr([d EXCEPT !.enable = E]))
WriteCoremap(d, i, v) == UpdateOutputs(RebuildCoreIsr([d EXCEPT !.coremap[i] = v]))
WriteIpmap(d, g, v) == UpdateOutputs(RebuildCoreIsr([d EXCEPT !.ipmap[g] = v]))

\* A CPU's write of its status bits acks the ones routed to it.
Mine(d, c, S) == {i \in S : DecodedCpuForIrq(d, i) = c}
ClearCoreIsr(d, c, S) == UpdateOutputs([d EXCEPT !.core[c] = @ \ Mine(d, c, S)])
AckOf(d, i) == UpdateOutputs([d EXCEPT !.core = [c \in Cpu |-> @[c] \ {i}]])

-----------------------------------------------------------------------------
Next ==
  \/ \E i \in Irq, level \in BOOLEAN : dev' = SetIrqOf(dev, i, level) /\ env' = {}
  \/ \E E \in SUBSET Irq : dev' = WriteEnable(dev, E) /\ env' = {}
  \/ \E i \in Irq, v \in CoreBytes : dev' = WriteCoremap(dev, i, v) /\ env' = {}
  \/ \E g \in Group, v \in IpBytes : dev' = WriteIpmap(dev, g, v) /\ env' = {}
  \/ \E c \in Cpu, S \in SUBSET Irq : dev' = ClearCoreIsr(dev, c, S) /\ env' = env \cup Mine(dev, c, S)
  \/ \E i \in Irq : dev' = AckOf(dev, i) /\ env' = env \cup {i}

-----------------------------------------------------------------------------
\* An input is shown to one CPU only, the one coremap names now, and only
\* while it is enabled and asserted; an asserted enabled input that was not
\* acked is shown (eiointc.rs:251-271): rerouting neither duplicates nor loses.
ShownToOneCpu ==
  \A i \in Irq : LET shown == {c \in Cpu : i \in dev.core[c]}
    IN /\ shown \subseteq {DecodedCpuForIrq(dev, i)}
       /\ shown # {} => i \in dev.isr \cap dev.enable
       /\ i \in dev.isr \cap dev.enable /\ i \notin env => shown # {}

\* Each CPU line is up exactly when an input shown to that CPU maps to it,
\* after every access (eiointc.rs:205-217 and 278-298).
LinesFollow ==
  dev.line = {<<c, DecodedHwiForIrq(dev, i)>> : <<c, i>> \in {x \in Cpu \X Irq : x[2] \in dev.core[x[1]]}}
=============================================================================
