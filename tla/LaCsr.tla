------------------------------- MODULE LaCsr -------------------------------
(***************************************************************************)
(* The LoongArch64 control and status registers as csrrd, csrwr, csrxchg   *)
(* and their gcsr forms reach them: the write masks, the registers whose   *)
(* read or write is not a plain load or store, and the two register files  *)
(* of host and guest.  A register is the set of its bits that are 1; the   *)
(* bits are two the masks open ("a", "b") and two they may close.          *)
(***************************************************************************)
EXTENDS Naturals

CONSTANTS Vals,   \* the register values software writes
          Masks,  \* the masks of csrxchg
          MaxOps  \* bound on instructions

VARIABLES dev,    \* h and g (the register files), vm, the privilege of each
          env     \* the last access, for the properties

vars == <<dev, env>>

Bits == {"a", "b", "c", "k"}
\* one register for each way of behaving
Csrs == {"prmd", "era", "estat", "asid", "pgdl", "pgdh", "pgd", "badv", "tlbrera", "tlbrbadv", "tcfg", "tval", "ticlr", "llbctl", "gstat", "gintc", "save"}
IsHypervisor(n) == n \in {"gstat", "gintc"}
ValidGcsr(n) == ~IsHypervisor(n)

\* csr_write_mask: which bits of a register software may change
CsrWriteMask(n) ==
    CASE n \in {"era", "badv", "tlbrera", "tlbrbadv", "save"} -> Bits
      [] n \in {"prmd", "estat", "pgdl", "pgdh", "gstat", "gintc", "asid"} -> {"a", "b"}
      [] n = "tcfg" -> {"a", "b", "c"}
      [] n \in {"ticlr", "llbctl"} -> {"a"}
      [] n \in {"pgd", "tval"} -> {}
GcsrWriteMask(n) == IF ~ValidGcsr(n) \/ n \in {"tval", "pgd"} THEN {} ELSE CsrWriteMask(n)

\* PGD follows the top bit of the address that faulted (of the refill, while one is in progress),
\* ASID reports its width, TICLR reads as zero, GSTAT its identifier width
FaultAddress(f) == IF "a" \in f["tlbrera"] THEN f["tlbrbadv"] ELSE f["badv"]
Pgd(f) == IF "k" \in FaultAddress(f) THEN f["pgdh"] ELSE f["pgdl"]
CsrReadHost(f, n) ==
    CASE n = "pgd" -> Pgd(f)
      [] n \in {"asid", "gstat"} -> f[n] \cup {"k"}
      [] n = "ticlr" -> {}
      [] OTHER -> f[n]
CsrReadGuest(f, n) ==
    CASE ~ValidGcsr(n) -> {}
      [] n = "pgd" -> Pgd(f)
      [] n = "asid" -> f[n] \cup {"k"}
      [] n = "ticlr" -> {}
      [] OTHER -> f[n]
CsrRead(f, x, n) == IF x = "h" THEN CsrReadHost(f, n) ELSE CsrReadGuest(f, n)

\* bit "c" of ESTAT is the timer line, bit "c" of LLBCTL the reservation; of TCFG, "a" enables, "b" makes periodic
\* and the others are the initial value, which TVAL takes when the timer is armed
SetTcfg(f, v, arms) == [f EXCEPT !["tcfg"] = v, !["tval"] = IF arms /\ "a" \in v THEN v \ {"a", "b"} ELSE @]
WriteRaw(f, n, v, arms) ==
    CASE n \in {"estat", "asid"} -> [f EXCEPT ![n] = (@ \ {"a", "b"}) \cup (v \cap {"a", "b"})]
      [] n = "ticlr" -> IF "a" \in v THEN [f EXCEPT !["estat"] = @ \ {"c"}] ELSE f
      [] n = "tcfg" -> SetTcfg(f, v, arms)
      [] OTHER -> [f EXCEPT ![n] = v]
CsrWriteRaw(d, n, v) ==
    CASE n = "llbctl" -> IF "a" \in v THEN [d EXCEPT !.h["llbctl"] = @ \ {"c"}] ELSE d
      [] n = "gstat" -> [d EXCEPT !.h["gstat"] = v \cap {"a", "b"}]
      [] n = "gintc" -> [d EXCEPT !.h["gintc"] = v \cap {"b"}, !.g["estat"] = IF "a" \in v THEN @ \cup {"c"} ELSE @ \ {"c"}]
      [] n \notin {"llbctl", "gstat", "gintc"} -> [d EXCEPT !.h = WriteRaw(d.h, n, v, TRUE)]
GcsrWriteRaw(d, n, v) == IF ~ValidGcsr(n) \/ n = "pgd" THEN d ELSE [d EXCEPT !.g = WriteRaw(d.g, n, v, d.vm)]

Mix(old, v, mask) == (old \ mask) \cup (v \cap mask)
File(d, x) == IF x = "h" THEN d.h ELSE d.g
Raw(d, x, n, v) == IF x = "h" THEN CsrWriteRaw(d, n, v) ELSE GcsrWriteRaw(d, n, v)
MaskOf(x, n) == IF x = "h" THEN CsrWriteMask(n) ELSE GcsrWriteMask(n)
WriteMasked(d, x, n, v, mask) == IF mask = {} THEN d ELSE Raw(d, x, n, Mix(CsrRead(File(d, x), x, n), v, mask))
CsrWrite(d, x, n, v) == WriteMasked(d, x, n, v, MaskOf(x, n))
CsrXchg(d, x, n, v, mask) == WriteMasked(d, x, n, v, MaskOf(x, n) \cap mask)

-----------------------------------------------------------------------------
(* The instructions.  csr* reaches the active file, gcsr* the guest file.  *)
Active(d) == IF d.vm THEN "g" ELSE "h"
CheckPlv(d) == (IF d.vm THEN d.gplv ELSE d.plv) = 3
CheckGuestCsr(d, n) == d.vm /\ ~ValidGcsr(n)
NoAccess == [ops |-> 0, op |-> "none", x |-> "h", n |-> "era", v |-> {}, mask |-> {}, got |-> {}]
\* a trap of user code, or a guest's exit to its hypervisor for a register it does not have
Trap(d, exit) == IF exit \/ ~d.vm THEN [d EXCEPT !.vm = FALSE, !.plv = 0] ELSE [d EXCEPT !.gplv = 0]

TrapsUser == CheckPlv(dev) /\ dev' = Trap(dev, FALSE) /\ env' = [NoAccess EXCEPT !.ops = MaxOps]
LeavesGuest(n) == ~CheckPlv(dev) /\ CheckGuestCsr(dev, n) /\ dev' = Trap(dev, TRUE) /\ env' = [NoAccess EXCEPT !.ops = MaxOps]
Guarded(n, ok) == TrapsUser \/ LeavesGuest(n) \/ (~CheckPlv(dev) /\ ~CheckGuestCsr(dev, n) /\ ok)
GuardedG(ok) == TrapsUser \/ (~CheckPlv(dev) /\ ok)

Did(op, x, n, v, mask) == env' = [ops |-> env.ops + 1, op |-> op, x |-> x, n |-> n, v |-> v, mask |-> mask, got |-> CsrRead(File(dev, x), x, n)]

Csrrd(n) == Guarded(n, UNCHANGED dev /\ Did("rd", Active(dev), n, {}, {}))
Csrwr(n, v) == Guarded(n, dev' = CsrWrite(dev, Active(dev), n, v) /\ Did("wr", Active(dev), n, v, Bits))
Csrxchg(n, v, mask) == Guarded(n, dev' = CsrXchg(dev, Active(dev), n, v, mask) /\ Did("xchg", Active(dev), n, v, mask))
Gcsrrd(n) == GuardedG(UNCHANGED dev /\ Did("rd", "g", n, {}, {}))
Gcsrwr(n, v) == GuardedG(dev' = CsrWrite(dev, "g", n, v) /\ Did("wr", "g", n, v, Bits))
Gcsrxchg(n, v, mask) == GuardedG(dev' = CsrXchg(dev, "g", n, v, mask) /\ Did("xchg", "g", n, v, mask))

\* a register file with some hardware state in it: a timer line, a reservation, a faulting address
Start == [n \in Csrs |-> CASE n \in {"estat", "llbctl"} -> {"c"} [] n = "badv" -> {"k"} [] n = "pgdl" -> {"a"} [] OTHER -> {}]

Init ==
    /\ dev \in {[h |-> Start, g |-> Start, vm |-> vm, plv |-> IF vm THEN 0 ELSE p, gplv |-> p] : vm \in BOOLEAN, p \in {0, 3}}
    /\ env = NoAccess

Next ==
    /\ env.ops < MaxOps
    /\ \E n \in Csrs :
        \/ Csrrd(n) \/ Gcsrrd(n)
        \/ \E v \in Vals : Csrwr(n, v) \/ Gcsrwr(n, v)
        \/ \E v \in Vals, mask \in Masks : Csrxchg(n, v, mask) \/ Gcsrxchg(n, v, mask)

Spec == Init /\ [][Next]_vars

-----------------------------------------------------------------------------
\* A write or exchange changes, of every register of both files as software reads it, only bits of that register
\* which both its mask and the instruction's mask open.  Beyond itself a register reaches only what Linked
\* names: TICLR the timer line, TCFG the count of the timer it arms (the guest's only from guest mode), the fault
\* address and the two roots PGD, GINTC the lines of the guest, and the host's LLBCTL its reservation.
Linked(x, n, y, m) ==
    CASE n = "ticlr" /\ y = x /\ m = "estat" -> {"c"}
      [] n = "tcfg" /\ y = x /\ m = "tval" /\ (x = "h" \/ dev.vm) -> Bits
      [] n \in {"badv", "tlbrera", "tlbrbadv", "pgdl", "pgdh"} /\ y = x /\ m = "pgd" -> Bits
      [] n = "gintc" /\ y = "g" /\ m = "estat" -> {"c"}
      [] n = "llbctl" /\ x = "h" /\ y = "h" /\ m = "llbctl" -> {"c"}
      [] OTHER -> {}
OnlyMasked ==
    env'.op \in {"wr", "xchg"} =>
        \A y \in {"h", "g"}, m \in Csrs :
            LET was == CsrRead(File(dev, y), y, m)
                now == CsrRead(File(dev', y), y, m)
                own == IF y = env'.x /\ m = env'.n THEN MaskOf(y, m) \cap env'.mask ELSE {}
            IN  was = now \/ ((was \ now) \cup (now \ was)) \subseteq (own \cup Linked(env'.x, env'.n, y, m))

\* The bits software may write read back as it wrote them, whatever was accessed before, and an armed timer counts
\* from the value that then reads back.  TICLR and LLBCTL are commands and read back nothing; the low byte of GINTC
\* ("a") goes to the guest's lines and reads back as zero (csr.rs:410), so that an exchange which does not name
\* it lowers those lines.
ReadBack ==
    LET x == env'.x
        n == env'.n
        now(m) == CsrRead(File(dev', x), x, m)
    IN  env'.op \in {"wr", "xchg"} /\ n \notin {"ticlr", "llbctl"} =>
            /\ \A b \in (MaskOf(x, n) \cap env'.mask) \ (IF n = "gintc" THEN {"a"} ELSE {}) : b \in now(n) <=> b \in env'.v
            /\ n = "tcfg" /\ "a" \in now("tcfg") /\ (x = "h" \/ dev.vm) => now("tval") = now("tcfg") \ {"a", "b"}
=============================================================================
