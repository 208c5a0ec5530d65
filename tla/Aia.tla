--------------------------------- MODULE Aia --------------------------------
(* The RISC-V advanced interrupt architecture: hw/intc/src/aplic.rs and      *)
(* imsic.rs.  Each is a specification of its own, over the same two          *)
(* variables.                                                                *)
EXTENDS Naturals, FiniteSets

VARIABLES dev,     \* the device
          env      \* its surroundings

vars == <<dev, env>>

-----------------------------------------------------------------------------
(* The RISC-V APLIC (hw/intc/src/aplic.rs), wired (direct) or MSI mode.      *)
(* Every register bank has a lock of its own, taken and dropped once per     *)
(* access, so a device thread in set_irq() and the thread of the vCPU (or of *)
(* the reset) interleave between any two lock takes.  A step is one lock     *)
(* take; a bank only the vCPU's thread writes is read by that thread in the  *)
(* step that uses it.  env holds what the two threads remember between steps *)
(* and three histories that no step reads.                                   *)
CONSTANTS Shapes        \* the devices to build and what is written to them:
                        \* [msimode, irqs, harts, modes, prios, thresholds]



AplicThread == {"device", "cpu"}
AplicIdle == [at |-> "idle"]

AplicInit ==
  \E s \in Shapes :
    /\ dev = [shape |-> s, msimode |-> s.msimode, ie |-> FALSE,
              sm |-> [i \in s.irqs |-> "inactive"],
              input |-> {}, pending |-> {}, enabled |-> {},
              target |-> [i \in s.irqs |-> [hart |-> 0, prio |-> IF s.msimode THEN 0 ELSE 1]],
              idelivery |-> {}, iforce |-> {}, ithreshold |-> [h \in s.harts |-> 0], line |-> {}]
    /\ env = [pc |-> [t \in AplicThread |-> AplicIdle],
              owed |-> {},    \* sources with an edge the guest has not been told of
              torn |-> {},    \* sources whose last change overlapped a claim, a sourcecfg write or a reset
              raced |-> {}]   \* harts whose last line update overlapped another one or a reset

Irqs == DOMAIN dev.sm
Harts == DOMAIN dev.ithreshold
AplicPlace(t) == env.pc[t].at
AplicQuiet == \A t \in AplicThread : AplicPlace(t) = "idle"
AplicGoto(t, frame) == env' = [env EXCEPT !.pc[t] = frame]
Put(S, x, on) == IF on THEN S \cup {x} ELSE S \ {x}
First(S) == CHOOSE x \in S : \A y \in S : x <= y

SourceActive(i) == dev.sm[i] # "inactive"
Level(i) == dev.sm[i] \in {"high", "low"}
IrqRectifiedVal(i) == SourceActive(i) /\ ((i \in dev.input) # (dev.sm[i] \in {"low", "fall"}))

\* What idc_topi() may return under a threshold, and the line idc_update() wants.
Claimable(h, thr) ==
  {i \in dev.pending \cap dev.enabled :
     dev.target[i].hart = h /\ (thr # 0 => dev.target[i].prio < thr)}
Topi(h, thr) ==
  IF Claimable(h, thr) = {} THEN 0
  ELSE CHOOSE i \in Claimable(h, thr) : \A j \in Claimable(h, thr) :
         dev.target[i].prio < dev.target[j].prio \/ (dev.target[i].prio = dev.target[j].prio /\ i <= j)

-----------------------------------------------------------------------------
(* idc_update() of the harts still to do, one after the other.  The device's *)
(* thread reads the threshold, scans, reads domaincfg and the hart's         *)
(* registers, and then drives the line from what it read.  The vCPU's thread *)
(* alone writes all of these but the state, so its reads are one step.       *)
Driving(t, h) == AplicPlace(t) \in {"topi", "domain", "regs", "drive"} /\ env.pc[t].h = h
AplicResetting == AplicPlace("cpu") \in {"r_domain", "r_source", "r_state", "r_target", "r_idc", "r_cfg"}
UpdateFrame(harts) == IF harts \cap Harts = {} THEN AplicIdle ELSE [at |-> "idc", todo |-> harts \cap Harts]
StartUpdate(t, h, frame) ==
  env' = [env EXCEPT !.pc[t] = frame,
                     !.raced = Put(@, h, AplicResetting \/ \E u \in AplicThread \ {t} : Driving(u, h))]

IdcThreshold ==
  /\ AplicPlace("device") = "idc"
  /\ LET f == env.pc["device"] h == First(f.todo)
     IN StartUpdate("device", h, [at |-> "topi", todo |-> f.todo \ {h}, h |-> h, thr |-> dev.ithreshold[h]])
  /\ UNCHANGED dev
IdcTopi ==
  /\ AplicPlace("device") = "topi"
  /\ LET f == env.pc["device"]
     IN AplicGoto("device", [at |-> "domain", todo |-> f.todo, h |-> f.h, top |-> Topi(f.h, f.thr) # 0])
  /\ UNCHANGED dev
IdcDomain ==
  /\ AplicPlace("device") = "domain"
  /\ LET f == env.pc["device"]
     IN AplicGoto("device", [at |-> "regs", todo |-> f.todo, h |-> f.h, top |-> f.top, ie |-> dev.ie])
  /\ UNCHANGED dev
IdcRegs ==
  /\ AplicPlace("device") = "regs"
  /\ LET f == env.pc["device"]
     IN AplicGoto("device", [at |-> "drive", todo |-> f.todo, h |-> f.h,
                        up |-> f.ie /\ f.h \in dev.idelivery /\ (f.h \in dev.iforce \/ f.top)])
  /\ UNCHANGED dev
IdcReadOwn ==
  /\ AplicPlace("cpu") = "idc"
  /\ LET f == env.pc["cpu"] h == First(f.todo) top == Topi(h, dev.ithreshold[h]) # 0
     IN StartUpdate("cpu", h, [at |-> "drive", todo |-> f.todo \ {h}, h |-> h,
                               up |-> dev.ie /\ h \in dev.idelivery /\ (h \in dev.iforce \/ top)])
  /\ UNCHANGED dev
IdcDrive(t) ==
  /\ AplicPlace(t) = "drive"
  /\ dev' = [dev EXCEPT !.line = Put(@, env.pc[t].h, env.pc[t].up)]
  /\ AplicGoto(t, UpdateFrame(env.pc[t].todo))
IdcUpdate == IdcThreshold \/ IdcTopi \/ IdcDomain \/ IdcRegs \/ IdcReadOwn \/ \E t \in AplicThread : IdcDrive(t)

(* msi_irq_update() of the sources still to do.                              *)
SendFrame(irqs) == IF irqs = {} THEN AplicIdle ELSE [at |-> "msi", todo |-> irqs]

MsiDomain(t) ==
  /\ AplicPlace(t) = "msi"
  /\ LET i == First(env.pc[t].todo) rest == env.pc[t].todo \ {i}
     IN AplicGoto(t, IF dev.ie THEN [at |-> "msi_state", todo |-> rest, irq |-> i] ELSE SendFrame(rest))
  /\ UNCHANGED dev
MsiState(t) ==
  /\ AplicPlace(t) = "msi_state"
  /\ LET f == env.pc[t]
     IN AplicGoto(t, IF f.irq \in dev.pending \cap dev.enabled THEN [f EXCEPT !.at = "msi_clear"]
                ELSE SendFrame(f.todo))
  /\ UNCHANGED dev
MsiClear(t) ==
  /\ AplicPlace(t) = "msi_clear"
  /\ dev' = [dev EXCEPT !.pending = @ \ {env.pc[t].irq}]
  /\ AplicGoto(t, [env.pc[t] EXCEPT !.at = "msi_send"])
\* The message tells the guest of every edge of the source so far.
MsiSend(t) ==
  /\ AplicPlace(t) = "msi_send"
  /\ env' = [env EXCEPT !.pc[t] = SendFrame(@.todo), !.owed = @ \ {env.pc[t].irq}]
  /\ UNCHANGED dev
MsiIrqUpdate(t) == MsiDomain(t) \/ MsiState(t) \/ MsiClear(t) \/ MsiSend(t)

\* What every register write ends with.
PostWriteFrame == IF dev.msimode THEN SendFrame(Irqs) ELSE UpdateFrame(Harts)

-----------------------------------------------------------------------------
(* set_irq() on the device's thread.                                         *)
Changing(i) == AplicPlace("device") \in {"state", "latch", "input"} /\ env.pc["device"].irq = i
Handling(i) == AplicResetting \/ (AplicPlace("cpu") \in {"c_state", "c_clear", "c_repend", "s_clear", "s_disable", "s_read", "s_pend"}
                             /\ env.pc["cpu"].irq = i)

SetIrq(i, level) ==
  /\ AplicPlace("device") = "idle"
  /\ env' = [env EXCEPT !.pc["device"] = [at |-> "state", irq |-> i, level |-> level, sm |-> dev.sm[i]],
                        !.torn = Put(@, i, Handling(i))]
  /\ UNCHANGED dev
SetIrqState ==
  /\ AplicPlace("device") = "state"
  /\ LET f == env.pc["device"]
         edge == \/ f.sm = "rise" /\ f.level /\ f.irq \notin dev.input
                 \/ f.sm = "fall" /\ ~f.level /\ f.irq \in dev.input
         on == edge \/ (f.sm = "high" /\ f.level) \/ (f.sm = "low" /\ ~f.level)
         latch == on /\ f.irq \notin dev.pending
     IN env' = [env EXCEPT !.pc["device"] = [at |-> IF latch THEN "latch" ELSE "input", irq |-> f.irq,
                                             level |-> f.level, update |-> latch],
                           !.owed = IF edge THEN @ \cup {f.irq} ELSE @]
  /\ UNCHANGED dev
SetIrqLatch ==
  /\ AplicPlace("device") = "latch"
  /\ dev' = [dev EXCEPT !.pending = @ \cup {env.pc["device"].irq}]
  /\ AplicGoto("device", [env.pc["device"] EXCEPT !.at = "input"])
SetIrqInput ==
  /\ AplicPlace("device") = "input"
  /\ LET f == env.pc["device"]
     IN /\ dev' = [dev EXCEPT !.input = Put(@, f.irq, f.level)]
        /\ AplicGoto("device", IF ~f.update THEN AplicIdle
                          ELSE IF dev.msimode THEN SendFrame({f.irq})
                          ELSE [at |-> "target", irq |-> f.irq])
SetIrqTarget ==
  /\ AplicPlace("device") = "target"
  /\ AplicGoto("device", UpdateFrame({dev.target[env.pc["device"].irq].hart}))
  /\ UNCHANGED dev

-----------------------------------------------------------------------------
(* Register writes, each a store and then the updates.                       *)
AplicCpuIdle == AplicPlace("cpu") = "idle"
Store(d) == AplicCpuIdle /\ dev' = d /\ AplicGoto("cpu", PostWriteFrame)

WriteDomaincfgQuiet(on) == AplicCpuIdle /\ dev' = [dev EXCEPT !.ie = on] /\ UNCHANGED env
WriteDomaincfg(on) == Store([dev EXCEPT !.ie = on])
WriteSetie(i, on) == Store(IF SourceActive(i) THEN [dev EXCEPT !.enabled = Put(@, i, on)] ELSE dev)
WriteTarget(i, h, p) ==
  /\ SourceActive(i)
  /\ Store([dev EXCEPT !.target[i] = [hart |-> h, prio |-> IF dev.msimode \/ p # 0 THEN p ELSE 1]])
\* Where a message goes and what a genmsi write sends is left out; the updates
\* these writes end with are not.
WriteMsicfgaddr == dev.msimode /\ Store(dev)
WriteGenmsi == dev.msimode /\ Store(dev)
WriteIdc(h, d) ==
  /\ ~dev.msimode /\ AplicCpuIdle
  /\ dev' = d
  /\ AplicGoto("cpu", UpdateFrame({h}))
WriteIdelivery(h, on) == WriteIdc(h, [dev EXCEPT !.idelivery = Put(@, h, on)])
WriteIforce(h, on) == WriteIdc(h, [dev EXCEPT !.iforce = Put(@, h, on)])
WriteIthreshold(h, v) == WriteIdc(h, [dev EXCEPT !.ithreshold[h] = v])

\* setip and clrip: a level source obeys only in MSI mode, and is set only
\* when its input was at its active level at the check.
WriteSetip(i, on) ==
  LET ignored == \/ ~SourceActive(i)
                 \/ Level(i) /\ ~dev.msimode
                 \/ on /\ dev.sm[i] = "low" /\ i \in dev.input
                 \/ on /\ dev.sm[i] = "high" /\ i \notin dev.input
  IN /\ AplicCpuIdle
     /\ AplicGoto("cpu", IF ignored THEN PostWriteFrame ELSE [at |-> "p_set", irq |-> i, on |-> on])
     /\ UNCHANGED dev
SetPendingRaw ==
  /\ AplicPlace("cpu") = "p_set"
  /\ LET f == env.pc["cpu"]
     IN /\ dev' = [dev EXCEPT !.pending = Put(@, f.irq, f.on)]
        /\ env' = [env EXCEPT !.pc["cpu"] = PostWriteFrame, !.owed = IF f.on THEN @ ELSE @ \ {f.irq}]

\* sourcecfg: an inactive source loses its pending and then its enable bit;
\* another is pending when its input is active.
WriteSourcecfg(i, sm) ==
  /\ AplicCpuIdle
  /\ dev' = [dev EXCEPT !.sm[i] = sm]
  /\ env' = [env EXCEPT !.pc["cpu"] = [at |-> IF sm = "inactive" THEN "s_clear" ELSE "s_read", irq |-> i],
                        !.torn = IF Changing(i) THEN @ \cup {i} ELSE @]
SourceClear ==
  /\ AplicPlace("cpu") = "s_clear"
  /\ dev' = [dev EXCEPT !.pending = @ \ {env.pc["cpu"].irq}]
  /\ env' = [env EXCEPT !.pc["cpu"].at = "s_disable", !.owed = @ \ {env.pc["cpu"].irq}]
SourceDisable ==
  /\ AplicPlace("cpu") = "s_disable"
  /\ dev' = [dev EXCEPT !.enabled = @ \ {env.pc["cpu"].irq}]
  /\ AplicGoto("cpu", PostWriteFrame)
SourceRead ==
  /\ AplicPlace("cpu") = "s_read"
  /\ AplicGoto("cpu", IF IrqRectifiedVal(env.pc["cpu"].irq) THEN [env.pc["cpu"] EXCEPT !.at = "s_pend"]
                 ELSE PostWriteFrame)
  /\ UNCHANGED dev
SourcePend ==
  /\ AplicPlace("cpu") = "s_pend"
  /\ dev' = [dev EXCEPT !.pending = @ \cup {env.pc["cpu"].irq}]
  /\ AplicGoto("cpu", PostWriteFrame)

(* A read of claimi.  A spurious one clears iforce; a level source whose     *)
(* input was still active becomes pending again.                             *)
Claimi(h) ==
  /\ ~dev.msimode /\ AplicCpuIdle
  /\ LET i == Topi(h, dev.ithreshold[h])
     IN IF i = 0 THEN AplicGoto("cpu", [at |-> "c_force", h |-> h])
        ELSE env' = [env EXCEPT !.pc["cpu"] = [at |-> "c_state", h |-> h, irq |-> i],
                                !.torn = IF Changing(i) THEN @ \cup {i} ELSE @]
  /\ UNCHANGED dev
ClaimSpurious ==
  /\ AplicPlace("cpu") = "c_force"
  /\ dev' = [dev EXCEPT !.iforce = @ \ {env.pc["cpu"].h}]
  /\ AplicGoto("cpu", UpdateFrame({env.pc["cpu"].h}))
ClaimState ==
  /\ AplicPlace("cpu") = "c_state"
  /\ LET f == env.pc["cpu"]
     IN AplicGoto("cpu", [at |-> "c_clear", h |-> f.h, irq |-> f.irq, repend |-> Level(f.irq) /\ IrqRectifiedVal(f.irq)])
  /\ UNCHANGED dev
ClaimClear ==
  /\ AplicPlace("cpu") = "c_clear"
  /\ LET f == env.pc["cpu"]
     IN /\ dev' = [dev EXCEPT !.pending = @ \ {f.irq}]
        /\ env' = [env EXCEPT !.pc["cpu"] = IF f.repend THEN [at |-> "c_repend", h |-> f.h, irq |-> f.irq]
                                            ELSE UpdateFrame({f.h}),
                              !.owed = @ \ {f.irq}]
ClaimRepend ==
  /\ AplicPlace("cpu") = "c_repend"
  /\ dev' = [dev EXCEPT !.pending = @ \cup {env.pc["cpu"].irq}]
  /\ AplicGoto("cpu", UpdateFrame({env.pc["cpu"].h}))

(* reset_runtime(): the lines first, then one bank after the other, with the *)
(* vCPU stopped and the device's thread running.                             *)
AplicResetLower ==
  /\ AplicCpuIdle
  /\ dev' = [dev EXCEPT !.line = {}]
  /\ env' = [env EXCEPT !.pc["cpu"] = [at |-> "r_domain"],
                        !.torn = {i \in Irqs : i \in @ \/ Changing(i)},
                        !.raced = {h \in Harts : Driving("device", h)}]
ResetBank(at, next, d) ==
  /\ AplicPlace("cpu") = at
  /\ dev' = d
  /\ AplicGoto("cpu", [at |-> next])
ResetDomain == ResetBank("r_domain", "r_source", [dev EXCEPT !.ie = FALSE])
ResetSource == ResetBank("r_source", "r_state", [dev EXCEPT !.sm = [i \in Irqs |-> "inactive"]])
AplicResetState ==
  /\ AplicPlace("cpu") = "r_state"
  /\ dev' = [dev EXCEPT !.input = {}, !.pending = {}, !.enabled = {}]
  /\ env' = [env EXCEPT !.pc["cpu"] = [at |-> "r_target"], !.owed = {}]
ResetTarget ==
  ResetBank("r_target", "r_idc",
            [dev EXCEPT !.target = [i \in Irqs |-> [hart |-> 0, prio |-> IF dev.msimode THEN 0 ELSE 1]]])
ResetIdc ==
  ResetBank("r_idc", "r_cfg",
            [dev EXCEPT !.idelivery = {}, !.iforce = {}, !.ithreshold = [h \in Harts |-> 0]])
ResetCfg == ResetBank("r_cfg", "idle", dev)

AplicNext ==
  \/ IdcUpdate
  \/ \E t \in AplicThread : MsiIrqUpdate(t)
  \/ \E i \in Irqs, level \in BOOLEAN : SetIrq(i, level)
  \/ SetIrqState \/ SetIrqLatch \/ SetIrqInput \/ SetIrqTarget
  \/ \E on \in BOOLEAN : WriteDomaincfg(on)
  \/ \E i \in Irqs, sm \in dev.shape.modes : WriteSourcecfg(i, sm)
  \/ SourceClear \/ SourceDisable \/ SourceRead \/ SourcePend
  \/ \E i \in Irqs, on \in BOOLEAN : WriteSetip(i, on) \/ WriteSetie(i, on)
  \/ SetPendingRaw \/ WriteMsicfgaddr \/ WriteGenmsi
  \/ \E i \in Irqs, h \in Harts \cup {Cardinality(Harts)}, p \in dev.shape.prios : WriteTarget(i, h, p)
  \/ \E h \in Harts, on \in BOOLEAN : WriteIdelivery(h, on) \/ WriteIforce(h, on)
  \/ \E h \in Harts, v \in dev.shape.thresholds : WriteIthreshold(h, v)
  \/ \E h \in Harts : Claimi(h)
  \/ ClaimSpurious \/ ClaimState \/ ClaimClear \/ ClaimRepend
  \/ AplicResetLower \/ ResetDomain \/ ResetSource \/ AplicResetState \/ ResetTarget \/ ResetIdc \/ ResetCfg


-----------------------------------------------------------------------------
\* In wired mode, when both threads are done, each hart's line is up exactly
\* when the domain and the hart deliver and something is claimable or forced.
\* The one exception is a hart whose latest idc_update() overlapped another
\* one, or a reset: idc_update() drives what it read before it took the line
\* (aplic.rs:560-576) and reset_runtime() lowers the lines first
\* (aplic.rs:280).  The next update that runs alone puts the line right.
AplicLineHonest ==
  AplicQuiet /\ ~dev.msimode =>
    \A h \in Harts \ env.raced : h \in dev.line <=>
      dev.ie /\ h \in dev.idelivery /\ (h \in dev.iforce \/ Claimable(h, dev.ithreshold[h]) # {})

\* An edge is not lost, whatever runs between set_irq()'s test of the pending
\* bit and its store: when both threads are done it is pending, or it was
\* claimed, sent or given up by the guest after it came (aplic.rs:223-256).
EdgeNotLost == AplicQuiet => env.owed \subseteq dev.pending

\* In wired mode a level source at its active level is pending when both
\* threads are done, whatever was claimed, cleared or reconfigured.  The one
\* exception is a source whose latest set_irq() overlapped a claim, a
\* sourcecfg write or a reset: idc_claimi() decides to pend it again from the
\* input it read before clearing the bit (aplic.rs:589-598), while set_irq()
\* has already found the bit set.
LevelStaysPending ==
  AplicQuiet /\ ~dev.msimode =>
    \A i \in Irqs \ env.torn : Level(i) /\ IrqRectifiedVal(i) => i \in dev.pending

\* In MSI mode no enabled pending source of an enabled domain is left unsent
\* when both threads are done, although each thread tests domaincfg, then the
\* state, under locks it has dropped when it acts (aplic.rs:477-487).
MsiNotStuck == AplicQuiet /\ dev.msimode /\ dev.ie => dev.pending \cap dev.enabled = {}

-----------------------------------------------------------------------------
(* The RISC-V IMSIC (hw/intc/src/imsic.rs): interrupt files of one hart, one *)
(* page per privilege level.  Messages arrive on a device's thread while the *)
(* hart's thread accesses its registers; a step is one lock take, and the    *)
(* lock of the outputs is held from the lowering of a line to its raising.   *)
(* The copy of the line that update_outputs() keeps in the slot of identity  *)
(* 0, which no code reads, is left out.                                      *)
CONSTANTS Page,         \* 0 .. num_pages - 1
          NumIrqs,      \* num_irqs: identities 1 .. NumIrqs - 1
          Thresholds    \* values of eithreshold

Id == 1 .. NumIrqs - 1
ImsicThread == {"device", "cpu"}
ImsicIdle == [at |-> "idle"]

ImsicInit ==
  /\ dev = [eidelivery |-> {}, eithreshold |-> [p \in Page |-> 0],
            pending |-> [p \in Page |-> {}], enabled |-> [p \in Page |-> {}], line |-> {}]
  /\ env = [pc |-> [t \in ImsicThread |-> ImsicIdle], sent |-> [p \in Page |-> {}],
            raced |-> {}]   \* pages whose latest line update overlapped a reset

ImsicPlace(t) == env.pc[t].at
ImsicQuiet == \A t \in ImsicThread : ImsicPlace(t) = "idle"
ImsicGoto(t, frame) == env' = [env EXCEPT !.pc[t] = frame]
Updating(p) == [at |-> "lower", page |-> p]
ImsicResetting == ImsicPlace("cpu") \in {"r_delivery", "r_threshold", "r_state"}

MaxIrq(p) ==
  IF dev.eithreshold[p] # 0 /\ dev.eithreshold[p] <= NumIrqs THEN dev.eithreshold[p] ELSE NumIrqs
Live(p, max) == {i \in dev.pending[p] \cap dev.enabled[p] : i < max}
Topei(p, max) == IF Live(p, max) = {} THEN 0 ELSE CHOOSE i \in Live(p, max) : \A j \in Live(p, max) : i <= j

-----------------------------------------------------------------------------
(* update_outputs(): the line under the outputs lock, with eidelivery locked *)
(* too while topei() reads the threshold and the state.                      *)
Locked(t) == \E u \in ImsicThread \ {t} : ImsicPlace(u) \in {"threshold", "scan"}

LowerLine(t) ==
  /\ ImsicPlace(t) = "lower" /\ ~Locked(t)
  /\ dev' = [dev EXCEPT !.line = @ \ {env.pc[t].page}]
  /\ env' = [env EXCEPT !.pc[t] = IF @.page \in dev.eidelivery THEN [@ EXCEPT !.at = "threshold"] ELSE ImsicIdle,
                        !.raced = IF ImsicResetting THEN @ \cup {env.pc[t].page} ELSE @ \ {env.pc[t].page}]
ReadThreshold(t) ==
  /\ ImsicPlace(t) = "threshold"
  /\ ImsicGoto(t, [at |-> "scan", page |-> env.pc[t].page, max |-> MaxIrq(env.pc[t].page)])
  /\ UNCHANGED dev
RaiseLine(t) ==
  /\ ImsicPlace(t) = "scan"
  /\ LET p == env.pc[t].page up == Topei(p, env.pc[t].max) # 0
     IN dev' = IF up THEN [dev EXCEPT !.line = @ \cup {p}] ELSE dev
  /\ ImsicGoto(t, ImsicIdle)
UpdateOutputs(t) == LowerLine(t) \/ ReadThreshold(t) \/ RaiseLine(t)

-----------------------------------------------------------------------------
\* An MSI write: the page register marks the identity pending.
Write(p, v) ==
  /\ ImsicPlace("device") = "idle"
  /\ v \in Id
  /\ dev' = [dev EXCEPT !.pending[p] = @ \cup {v}]
  /\ env' = [env EXCEPT !.pc["device"] = Updating(p), !.sent[p] = @ \cup {v}]

ImsicCpuIdle == ImsicPlace("cpu") = "idle"
EideliveryRmw(p, on) ==
  /\ ImsicCpuIdle /\ ~Locked("cpu")
  /\ dev' = [dev EXCEPT !.eidelivery = IF on THEN @ \cup {p} ELSE @ \ {p}]
  /\ ImsicGoto("cpu", Updating(p))
EithresholdRmw(p, v) ==
  /\ ImsicCpuIdle
  /\ dev' = [dev EXCEPT !.eithreshold[p] = v]
  /\ ImsicGoto("cpu", Updating(p))

\* A write of topei claims the identity the same access read, under a lock
\* taken again.
TopeiRmw(p) ==
  /\ ImsicCpuIdle
  /\ LET i == Topei(p, MaxIrq(p))
     IN ImsicGoto("cpu", IF i = 0 THEN Updating(p) ELSE [at |-> "take", page |-> p, id |-> i])
  /\ UNCHANGED dev
TakeIdentity ==
  /\ ImsicPlace("cpu") = "take"
  /\ LET f == env.pc["cpu"]
     IN /\ dev' = [dev EXCEPT !.pending[f.page] = @ \ {f.id}]
        /\ env' = [env EXCEPT !.pc["cpu"] = Updating(f.page), !.sent[f.page] = @ \ {f.id}]

\* Bits of eip and eie, under the write mask; clearing a pending bit is the
\* guest giving the identity up.
EixRmw(p, pend, mask, val) ==
  LET new(S) == (S \ mask) \cup (mask \cap val)
  IN /\ ImsicCpuIdle
     /\ IF pend
        THEN /\ dev' = [dev EXCEPT !.pending[p] = new(@)]
             /\ env' = [env EXCEPT !.pc["cpu"] = Updating(p), !.sent[p] = @ \ (mask \ val)]
        ELSE /\ dev' = [dev EXCEPT !.enabled[p] = new(@)]
             /\ ImsicGoto("cpu", Updating(p))

\* reset_runtime(): the lines first, then one bank after the other, with the
\* hart stopped and messages still arriving.
ImsicResetLower ==
  /\ ImsicCpuIdle /\ ~Locked("cpu")
  /\ dev' = [dev EXCEPT !.line = {}]
  /\ ImsicGoto("cpu", [at |-> "r_delivery"])
ResetDelivery ==
  /\ ImsicPlace("cpu") = "r_delivery" /\ ~Locked("cpu")
  /\ dev' = [dev EXCEPT !.eidelivery = {}]
  /\ ImsicGoto("cpu", [at |-> "r_threshold"])
ResetThreshold ==
  /\ ImsicPlace("cpu") = "r_threshold"
  /\ dev' = [dev EXCEPT !.eithreshold = [p \in Page |-> 0]]
  /\ ImsicGoto("cpu", [at |-> "r_state"])
ImsicResetState ==
  /\ ImsicPlace("cpu") = "r_state"
  /\ dev' = [dev EXCEPT !.pending = [p \in Page |-> {}], !.enabled = [p \in Page |-> {}]]
  /\ env' = [env EXCEPT !.pc["cpu"] = ImsicIdle, !.sent = [p \in Page |-> {}]]

ImsicNext ==
  \/ \E t \in ImsicThread : UpdateOutputs(t)
  \/ \E p \in Page, v \in 0 .. NumIrqs : Write(p, v)
  \/ \E p \in Page, on \in BOOLEAN : EideliveryRmw(p, on)
  \/ \E p \in Page, v \in Thresholds : EithresholdRmw(p, v)
  \/ \E p \in Page : TopeiRmw(p)
  \/ TakeIdentity
  \/ \E p \in Page, pend \in BOOLEAN, mask, val \in SUBSET Id : EixRmw(p, pend, mask, val)
  \/ ImsicResetLower \/ ResetDelivery \/ ResetThreshold \/ ImsicResetState


-----------------------------------------------------------------------------
\* When both threads are done the page's line follows its registers, whatever
\* messages and accesses overlapped: update_outputs() reads what it drives
\* under the lock of the outputs (imsic.rs:237-255).  The one exception is a
\* message whose update ran inside a reset, which lowers the lines before it
\* clears eidelivery (imsic.rs:107-112); the next update puts the line right.
ImsicLineHonest ==
  ImsicQuiet => \A p \in Page \ env.raced :
    p \in dev.line <=> p \in dev.eidelivery /\ Live(p, MaxIrq(p)) # {}

\* A message is not lost: an identity written to a page stays pending there
\* until the guest takes it through topei or clears its bit, and taking one
\* identity takes no other (imsic.rs:291-310 and 399-423).
MessageStaysPending == \A p \in Page : env.sent[p] \subseteq dev.pending[p]
=============================================================================
