------------------------------- MODULE LaMmu -------------------------------
(***************************************************************************)
(* The LoongArch64 address translation of a vCPU: the main and the set-    *)
(* associative TLB, the direct-mapped windows, the two contexts of the     *)
(* virtualisation extension (host CSRs and guest CSRs, each with its TLB), *)
(* the TLB instructions, the page walk of the refill handler, the address  *)
(* exceptions and their return, and the fast TLB the generated code reads. *)
(*                                                                         *)
(* Addresses are page numbers: 0 .. 7 are mapped pages, 8 .. 15 the segment*)
(* a direct-mapped window can claim.  A page size is its exponent above    *)
(* 4 KiB plus one, 0 standing for a register never written.                *)
(***************************************************************************)
EXTENDS Integers, Sequences, FiniteSets

CONSTANTS
    Sets,      \* STLB_SETS, one way
    Vas,       \* the pages the program touches
    MaxOps,    \* bound on system instructions
    MaxAccess  \* bound on memory accesses

VARIABLES
    dev,       \* the vCPU: c (host and guest context), vm, pvm, gid, usetgid, tgid
    env        \* the program: ops left, the refill handler, ghosts

vars == <<dev, env>>

Slots == 0 .. Sets                 \* the STLB sets, then one MTLB entry
Mtlb == Sets
Ctx == {"h", "g"}
Accs == {"load", "store", "fetch"}
RamPages == 0 .. 5                 \* the physical pages above are devices
NoTag == -1
Mmio == -1

Pte(ppn, v, d, plv, nx) == [ppn |-> ppn, v |-> v, d |-> d, plv |-> plv, nr |-> FALSE, nx |-> nx, rplv |-> FALSE, g |-> FALSE]
\* the page table entries software can build, by number
Ptes == <<Pte(1, TRUE, TRUE, 3, FALSE), Pte(2, TRUE, FALSE, 0, FALSE), Pte(3, TRUE, FALSE, 0, TRUE),
          Pte(4, TRUE, TRUE, 3, FALSE), Pte(6, TRUE, TRUE, 3, FALSE),
          [Pte(2, TRUE, FALSE, 3, TRUE) EXCEPT !.g = TRUE], [Pte(3, TRUE, TRUE, 0, FALSE) EXCEPT !.g = TRUE],
          Pte(0, FALSE, FALSE, 0, FALSE)>>
ZeroPte == 8
NoEntry == [valid |-> FALSE, vppn |-> 0, ps |-> 0, asid |-> 0, gid |-> 0, g |-> FALSE, lo |-> <<ZeroPte, ZeroPte>>]
NoFast == [load |-> NoTag, store |-> NoTag, fetch |-> NoTag, addend |-> 0]
EmptyFast == [i \in 0 .. 1 |-> NoFast]

\* The page tables a kernel can have in memory: level 2 index -> level 1 table or huge page, level 1 -> pairs of PTEs.
HugePte == 4
SmallTable == [i \in 0 .. 1 |-> <<1, 2 + i>>]
Directory == [i \in 0 .. 1 |-> IF i = 0 THEN [huge |-> FALSE, level |-> 0] ELSE [huge |-> TRUE, level |-> 0]]
NoTable == [huge |-> FALSE, level |-> 9]      \* an address that reads as zero

-----------------------------------------------------------------------------
(* Which context translates, and for which guest.                          *)
A(d) == IF d.vm THEN "g" ELSE "h"
WillReturnToGuest(d) == ~d.vm /\ d.pvm
TargetGid(d) == IF d.vm THEN d.gid ELSE IF d.usetgid THEN d.tgid ELSE IF WillReturnToGuest(d) THEN d.gid ELSE 0

FlushFastTlb(d) == [d EXCEPT !.c = [x \in Ctx |-> [d.c[x] EXCEPT !.fast = EmptyFast]]]
InvalidateTlbTranslations(d) == FlushFastTlb(d)

SetCrmdNoFlush(d, x, m) == [d EXCEPT !.c[x] = [@ EXCEPT !.plv = m.plv, !.da = m.da, !.pg = m.pg]]
SetCrmd(d, x, m) ==
    LET n == SetCrmdNoFlush(d, x, m)
    IN  IF n.c[x] # d.c[x] THEN FlushFastTlb(n) ELSE n

-----------------------------------------------------------------------------
(* The lookups of mmu.rs.                                                  *)
StlbSetIndex(va, ps) == ((va % 8) \div 2^ps) % Sets
VppnMask(va, ps) == va - (va % 2^ps)
Odd(va, ps) == (va \div 2^(ps - 1)) % 2

CheckPte(p, va, ps, acc, plv) ==
    CASE ~p.v -> [r |-> "Invalid", pa |-> 0]
      [] p.v /\ acc = "fetch" /\ p.nx -> [r |-> "ExecProtect", pa |-> 0]
      [] p.v /\ acc = "load" /\ p.nr -> [r |-> "ReadProtect", pa |-> 0]
      [] p.v /\ ~(acc = "fetch" /\ p.nx) /\ ~(acc = "load" /\ p.nr)
         /\ ((~p.rplv /\ plv > p.plv) \/ (p.rplv /\ plv # p.plv)) -> [r |-> "PrivViolation", pa |-> 0]
      [] p.v /\ acc = "store" /\ ~p.d /\ ~(~p.rplv /\ plv > p.plv) /\ ~(p.rplv /\ plv # p.plv) -> [r |-> "Dirty", pa |-> 0]
      [] OTHER -> [r |-> "Hit", pa |-> p.ppn - (p.ppn % 2^(ps - 1)) + (va % 2^(ps - 1))]

EntryCovers(e, va, asid, gid) ==
    /\ e.valid
    /\ VppnMask(va, e.ps) = VppnMask(e.vppn * 2, e.ps)
    /\ e.g \/ e.asid = asid
    /\ e.gid = gid

CheckEntry(e, va, acc, plv) == CheckPte(Ptes[e.lo[1 + Odd(va, e.ps)]], va, e.ps, acc, plv)

\* tlb_lookup: the main TLB first, then the set of the common page size
TlbLookup(c, va, gid, acc, plv) ==
    CASE EntryCovers(c.tlb[Mtlb], va, c.asid, gid) -> CheckEntry(c.tlb[Mtlb], va, acc, plv)
      [] ~EntryCovers(c.tlb[Mtlb], va, c.asid, gid) /\ c.stlbps # 0
         /\ EntryCovers(c.tlb[StlbSetIndex(va, c.stlbps)], va, c.asid, gid) -> CheckEntry(c.tlb[StlbSetIndex(va, c.stlbps)], va, acc, plv)
      [] OTHER -> [r |-> "Miss", pa |-> 0]

\* one window, open to PLV0, over the upper segment
DmwMatch(c, va) == c.dmw /\ c.plv = 0 /\ va >= 8
DirectMap(c, va) == (c.da /\ ~c.pg) \/ DmwMatch(c, va)

LookupAddressWith(c, va, gid, acc) ==
    CASE DirectMap(c, va) -> [r |-> "Hit", pa |-> va % 8]
      [] ~DirectMap(c, va) /\ ~c.pg -> [r |-> "Miss", pa |-> 0]
      [] OTHER -> TlbLookup(c, va, gid, acc, c.plv)

HostStage(d, gpa, acc) == TlbLookup(d.c["h"], gpa, TargetGid(d), acc, 0)

TwoStages(d, first, acc) ==
    IF first.r # "Hit" THEN [r |-> first.r, pa |-> 0, host |-> FALSE]
    ELSE LET second == HostStage(d, first.pa, acc) IN [r |-> second.r, pa |-> IF second.r = "Hit" THEN second.pa ELSE first.pa, host |-> TRUE]

TranslateDetail(d, va, acc) ==
    LET first == LookupAddressWith(d.c[A(d)], va, TargetGid(d), acc)
    IN  IF d.vm THEN TwoStages(d, first, acc) ELSE [r |-> first.r, pa |-> first.pa, host |-> FALSE]

-----------------------------------------------------------------------------
(* The fast TLB: one entry per index, one tag per kind of access.          *)
FastIndex(va) == va % 2
FastHit(d, va, acc) == LET f == d.c[A(d)].fast[FastIndex(va)] IN f[acc] = va /\ f.addend # Mmio
FastAddend(pa) == IF pa \in RamPages THEN pa ELSE Mmio

SamePageOrEmpty(f, va) == \A acc \in Accs : f[acc] \in {NoTag, va}
FillFastEntry(f, va, acc, addend) ==
    [IF SamePageOrEmpty(f, va) THEN f ELSE NoFast EXCEPT ![acc] = IF addend = Mmio THEN NoTag ELSE va, !.addend = addend]
FillFastTlb(d, va, acc, pa) ==
    LET x == A(d) IN [d EXCEPT !.c[x].fast[FastIndex(va)] = FillFastEntry(@, va, acc, FastAddend(pa))]

-----------------------------------------------------------------------------
(* Exceptions.  ep is the saved privilege of the ordinary return, rplv     *)
(* that of the refill return; tlbr is bit 0 of TLBRERA.                    *)
ExceptionExitsGuest(ecode) == ecode \in {"GSPR", "HVC", "GCM"}
LeaveGuestMode(d) == IF d.vm THEN FlushFastTlb([d EXCEPT !.vm = FALSE, !.pvm = TRUE]) ELSE d

EnterGuestException(d, ecode, badv) ==
    LET c == d.c["g"]
    IN  IF ecode = "TLBR"
        THEN [d EXCEPT !.c["g"] = [c EXCEPT !.tlbr = TRUE, !.rplv = c.plv, !.badv = badv, !.plv = 0, !.pg = FALSE, !.da = TRUE]]
        ELSE [d EXCEPT !.c["g"] = [c EXCEPT !.ep = c.plv, !.plv = 0]]

EnterHostException(d, ecode, badv) ==
    LET c == d.c["h"]
    IN  IF ecode = "TLBR"
        THEN SetCrmd([d EXCEPT !.c["h"].tlbr = TRUE, !.c["h"].rplv = c.plv, !.c["h"].badv = badv], "h", [plv |-> 0, da |-> TRUE, pg |-> FALSE])
        ELSE SetCrmd([d EXCEPT !.c["h"].ep = c.plv], "h", [plv |-> 0, da |-> c.da, pg |-> c.pg])

EnterException(d, ecode, badv) ==
    IF d.vm /\ ~ExceptionExitsGuest(ecode) THEN EnterGuestException(d, ecode, badv)
    ELSE EnterHostException(LeaveGuestMode(d), ecode, badv)

EcodeOf(r, acc) ==
    CASE r = "Miss" -> "TLBR"
      [] r = "Invalid" -> IF acc = "load" THEN "PIL" ELSE IF acc = "store" THEN "PIS" ELSE "PIF"
      [] r = "Dirty" -> "PME"
      [] r = "PrivViolation" -> "PPI"
      [] r = "ReadProtect" -> "PNR"
      [] r = "ExecProtect" -> "PNX"

AddressException(d, va, acc, t) ==
    IF t.host /\ d.vm THEN EnterException(d, "GCM", va)
    ELSE LET x == A(d)
             n == IF t.r = "Miss" THEN [d EXCEPT !.c[x].rehi = va - (va % 2)] ELSE d
         IN  EnterException(n, EcodeOf(t.r, acc), va)

ErtnGuest(d) ==
    LET c == d.c["g"]
    IN  IF c.tlbr THEN SetCrmd([d EXCEPT !.c["g"].tlbr = FALSE], "g", [plv |-> c.rplv, da |-> FALSE, pg |-> TRUE])
        ELSE SetCrmd(d, "g", [plv |-> c.ep, da |-> c.da, pg |-> c.pg])

EnterGuestMode(d) == FlushFastTlb([d EXCEPT !.vm = TRUE, !.pvm = FALSE])

ErtnHost(d) ==
    LET c == d.c["h"]
        n == SetCrmd(d, "h", [plv |-> c.ep, da |-> c.da, pg |-> c.pg])
    IN  IF c.tlbr THEN SetCrmd([d EXCEPT !.c["h"].tlbr = FALSE], "h", [plv |-> c.rplv, da |-> FALSE, pg |-> TRUE])
        ELSE IF d.pvm THEN EnterGuestMode(n) ELSE n

HelperErtn(d) == IF d.vm THEN ErtnGuest(d) ELSE ErtnHost(d)

-----------------------------------------------------------------------------
(* The TLB instructions.                                                   *)
EntryFromCsrs(d, ehi, lo, ps) ==
    [valid |-> TRUE, vppn |-> ehi \div 2, ps |-> ps, asid |-> d.c[A(d)].asid, gid |-> TargetGid(d), g |-> Ptes[lo[1]].g /\ Ptes[lo[2]].g, lo |-> lo]

WriteEntry(d, i, e) == InvalidateTlbTranslations([d EXCEPT !.c[A(d)].tlb[i] = e])

\* tlbwr: the slot is TLBIDX of the host context, the rest comes from the active one
TlbWriteNoFlush(d, i, ne, ehi, lo, ps) == [d EXCEPT !.c[A(d)].tlb[i] = IF ne THEN NoEntry ELSE EntryFromCsrs(d, ehi, lo, ps)]
TlbWrite(d, i, ne, ehi, lo, ps) == WriteEntry(d, i, IF ne THEN NoEntry ELSE EntryFromCsrs(d, ehi, lo, ps))

TlbFill(d, ehi, lo, ps) ==
    WriteEntry(d, IF ps = d.c[A(d)].stlbps THEN StlbSetIndex(ehi, ps) ELSE Mtlb, EntryFromCsrs(d, ehi, lo, ps))

EntryMatchesVa(e, va, asid, gid) ==
    /\ e.valid /\ e.gid = gid /\ (e.g \/ e.asid = asid)
    /\ VppnMask(va % 8, e.ps) = VppnMask((e.vppn * 2) % 8, e.ps)

\* the index found, or Sets + 1
TlbSearch(d, ehi) ==
    LET c == d.c[A(d)]
        set == IF c.stlbps = 0 THEN Mtlb ELSE StlbSetIndex(ehi, c.stlbps)
    IN  IF EntryMatchesVa(c.tlb[Mtlb], ehi, c.asid, TargetGid(d)) THEN Mtlb
        ELSE IF EntryMatchesVa(c.tlb[set], ehi, c.asid, TargetGid(d)) THEN set ELSE Sets + 1

SetAsidLow(d, a) ==
    IF d.vm THEN [d EXCEPT !.c["g"].asid = a]
    ELSE IF d.c["h"].asid = a THEN d ELSE InvalidateTlbTranslations([d EXCEPT !.c["h"].asid = a])

\* tlbrd: a valid entry of this guest gives its ASID, anything else ASID 0
TlbRead(d, i) ==
    LET e == d.c[A(d)].tlb[i]
    IN  SetAsidLow(d, IF ~e.valid \/ (d.vm /\ e.gid # TargetGid(d)) THEN 0 ELSE e.asid)

Drop(d, x, Sel(_, _)) ==
    [d EXCEPT !.c[x].tlb = [i \in Slots |-> IF Sel(i, d.c[x].tlb[i]) THEN [d.c[x].tlb[i] EXCEPT !.valid = FALSE] ELSE d.c[x].tlb[i]]]
SameArray(i, j) == IF i = Mtlb THEN j = Mtlb ELSE j = i

TlbClear(d, i) ==
    LET sel(j, e) == SameArray(i, j) /\ e.valid /\ e.gid = TargetGid(d) /\ ~e.g /\ e.asid = d.c[A(d)].asid
    IN  InvalidateTlbTranslations(Drop(d, A(d), sel))
TlbFlush(d, i) == LET sel(j, e) == SameArray(i, j) IN InvalidateTlbTranslations(Drop(d, A(d), sel))

InvSelected(op, e, gid, asid, va) ==
    CASE op \in {0, 1} -> TRUE
      [] op = 2 -> e.g /\ e.gid = gid
      [] op = 3 -> ~e.g /\ e.gid = gid
      [] op = 4 -> ~e.g /\ e.gid = gid /\ e.asid = asid
      [] op = 5 -> ~e.g /\ EntryMatchesVa(e, va, asid, gid)
      [] op = 6 -> EntryMatchesVa(e, va, asid, gid)


\* 9 stands for every opcode of the virtualisation extension: both contexts lose everything
Invtlb(d, op, asid, va) ==
    LET all(j, e) == TRUE
        sel(j, e) == InvSelected(op, e, TargetGid(d), asid, va)
    IN  InvalidateTlbTranslations(IF op = 9 THEN Drop(Drop(d, "h", all), "g", all) ELSE Drop(d, A(d), sel))

-----------------------------------------------------------------------------
(* The page walk the refill handler asks for.                              *)
Level2(va) == (va \div 4) % 2
Level1(va) == (va \div 2) % 2

\* a guest walk reads its tables through the host stage, and a failed stage reads as zero
ReadPageWalk(d, v, none) == IF d.vm /\ HostStage(d, 0, "load").r # "Hit" THEN none ELSE v

\* lddir of a huge entry only stamps the level on it
Lddir(d, base, level) ==
    IF base.huge THEN (IF base.level # 0 THEN base ELSE [base EXCEPT !.level = level])
    ELSE ReadPageWalk(d, IF level = 2 THEN Directory[Level2(d.c[A(d)].badv)] ELSE [huge |-> FALSE, level |-> 1], NoTable)

\* the odd half lies one half-page further: entry 5 is entry 4 plus two pages
HugeHalf(odd) == HugePte + odd
LdpteValue(d, base, odd) ==
    IF base.huge THEN HugeHalf(odd)
    ELSE ReadPageWalk(d, IF base.level = 1 THEN SmallTable[Level1(d.c[A(d)].badv)][1 + odd] ELSE ZeroPte, ZeroPte)
LdpteSize(base) == IF base.huge THEN base.level + 1 ELSE 1

-----------------------------------------------------------------------------
(* The program.                                                            *)
PairOfPtes == <<1, 5>>
GlobalPtes == <<6, 7>>

HostEntry == [NoEntry EXCEPT !.valid = TRUE, !.ps = 1, !.g = TRUE, !.lo = PairOfPtes]
NewCtx == [plv |-> 0, da |-> FALSE, pg |-> TRUE, asid |-> 0, stlbps |-> 1, dmw |-> FALSE, tlbr |-> FALSE, rplv |-> 0, ep |-> 3,
           badv |-> 0, rehi |-> 0, tlb |-> [i \in Slots |-> NoEntry], fast |-> EmptyFast]

Idle == [at |-> 0, base |-> NoTable, lo |-> <<ZeroPte, ZeroPte>>]

\* a host kernel about to run its user program, or a hypervisor running a guest kernel
Init ==
    /\ dev \in {[c |-> [x \in Ctx |-> IF x = "h" THEN [NewCtx EXCEPT !.tlb[Mtlb] = [HostEntry EXCEPT !.gid = g]] ELSE NewCtx],
                 vm |-> g = 1, pvm |-> FALSE, gid |-> g, usetgid |-> FALSE, tgid |-> 0] : g \in 0 .. 1}
    /\ env = [ops |-> MaxOps, acc |-> MaxAccess, walk |-> Idle, skew |-> FALSE, inv |-> <<>>, retry |-> NoTag]

Kernel == dev.c[A(dev)].plv = 0 /\ env.walk.at = 0
Spend(skew) == env' = [env EXCEPT !.ops = @ - 1, !.skew = skew, !.inv = <<>>, !.retry = NoTag]
SysOp == Kernel /\ env.ops > 0
\* what a flush leaves: no fast entry anywhere
Clean(d) == \A x \in Ctx : d.c[x].fast = EmptyFast

\* software only touches the upper segment where it is mapped directly
Access(va, acc) ==
    LET t == TranslateDetail(dev, va, acc)
    IN  /\ env.walk.at = 0 /\ env.acc > 0
        /\ va < 8 \/ DirectMap(dev.c[A(dev)], va)
        /\ dev' = IF FastHit(dev, va, acc) THEN dev
                  ELSE IF t.r = "Hit" THEN FillFastTlb(dev, va, acc, t.pa) ELSE AddressException(dev, va, acc, t)
        /\ env' = [env EXCEPT !.acc = @ - 1, !.inv = <<>>, !.retry = NoTag,
                              !.skew = IF Clean(dev') THEN FALSE ELSE env.skew \/ (t.r = "Miss" /\ dev.vm /\ dev'.vm /\ ~FastHit(dev, va, acc)),
                              !.walk = IF t.r = "Miss" /\ ~t.host /\ ~FastHit(dev, va, acc) THEN [Idle EXCEPT !.at = 1] ELSE env.walk]

\* the refill handler: lddir, lddir, ldpte even, ldpte odd, tlbfill, ertn
Handler(at) == env.walk.at = at
WalkDir(at, level) ==
    /\ Handler(at)
    /\ env' = [env EXCEPT !.walk = [@ EXCEPT !.at = at + 1, !.base = Lddir(dev, IF at = 1 THEN [huge |-> FALSE, level |-> 2] ELSE env.walk.base, level)]]
    /\ UNCHANGED dev
WalkPte(at, odd) ==
    /\ Handler(at)
    /\ env' = [env EXCEPT !.walk = [@ EXCEPT !.at = at + 1, !.lo[1 + odd] = LdpteValue(dev, env.walk.base, odd)]]
    /\ UNCHANGED dev
WalkFill ==
    /\ Handler(5)
    /\ dev' = TlbFill(dev, dev.c[A(dev)].rehi, env.walk.lo, LdpteSize(env.walk.base))
    /\ env' = [env EXCEPT !.walk.at = 6, !.skew = FALSE]
WalkErtn ==
    /\ Handler(6)
    /\ dev' = HelperErtn(dev)
    /\ env' = [env EXCEPT !.walk = Idle, !.retry = dev.c[A(dev)].badv]

Ertn == SysOp /\ ~dev.c[A(dev)].tlbr /\ dev' = HelperErtn(dev) /\ Spend(~Clean(dev') /\ env.skew)
Syscall == env.walk.at = 0 /\ env.ops > 0 /\ dev' = EnterException(dev, "SYS", 0)
           /\ Spend(~Clean(dev') /\ (env.skew \/ (dev.vm /\ dev.c["g"].plv # 0)))
Hvcl == SysOp /\ dev.vm /\ dev' = EnterException(dev, "HVC", 0) /\ Spend(FALSE)

CsrCrmd(paged) ==
    /\ SysOp /\ ~dev.c[A(dev)].tlbr
    /\ dev' = SetCrmd(dev, A(dev), [plv |-> 0, da |-> ~paged, pg |-> paged]) /\ Spend(~Clean(dev') /\ env.skew)
\* ASID, STLBPS and DMW of the active context: translations are dropped when the value changes
CsrTranslation(f, v) ==
    /\ SysOp
    /\ dev' = IF dev.c[A(dev)][f] = v THEN dev ELSE InvalidateTlbTranslations([dev EXCEPT !.c[A(dev)][f] = v])
    /\ Spend(~Clean(dev') /\ env.skew)
\* GTLBC and GSTAT do not exist for a guest
CsrGtlbc(use, tgid) ==
    /\ SysOp
    /\ LET n == [dev EXCEPT !.usetgid = use, !.tgid = tgid]
       IN  dev' = IF dev.vm THEN EnterException(dev, "GSPR", 0) ELSE IF n = dev THEN dev ELSE InvalidateTlbTranslations(n)
    /\ Spend(~Clean(dev') /\ env.skew)
CsrGstat(pvm, gid) ==
    /\ SysOp
    /\ LET n == [dev EXCEPT !.pvm = pvm, !.gid = gid]
       IN  dev' = IF dev.vm THEN EnterException(dev, "GSPR", 0) ELSE IF gid = dev.gid THEN n ELSE InvalidateTlbTranslations(n)
    /\ Spend(~Clean(dev') /\ (env.skew \/ TargetGid(dev') # TargetGid(dev)))

Tlbwr(i, ne, ehi, lo, ps) == SysOp /\ dev' = TlbWrite(dev, i, ne, ehi, lo, ps) /\ Spend(FALSE)
Tlbfill(ehi, lo, ps) == SysOp /\ dev' = TlbFill(dev, ehi, lo, ps) /\ Spend(FALSE)
Tlbrd(i) == SysOp /\ dev' = TlbRead(dev, i) /\ Spend(~Clean(dev') /\ (env.skew \/ (dev.vm /\ dev' # dev)))
Tlbclr(i) == SysOp /\ dev' = TlbClear(dev, i) /\ Spend(FALSE)
Tlbflush(i) == SysOp /\ dev' = TlbFlush(dev, i) /\ Spend(FALSE)
InvtlbInsn(op, asid, va) ==
    /\ SysOp
    /\ dev' = Invtlb(dev, op, asid, va)
    /\ env' = [env EXCEPT !.ops = @ - 1, !.skew = FALSE, !.inv = <<op, asid, va>>, !.retry = NoTag]

Next ==
    \/ \E va \in Vas, acc \in Accs : Access(va, acc)
    \/ WalkDir(1, 2) \/ WalkDir(2, 1) \/ WalkPte(3, 0) \/ WalkPte(4, 1) \/ WalkFill \/ WalkErtn
    \/ Ertn \/ Syscall \/ Hvcl
    \/ \E paged \in BOOLEAN : CsrCrmd(paged)
    \/ \E a \in 0 .. 1 : CsrTranslation("asid", a)
    \/ \E p \in 1 .. 2 : CsrTranslation("stlbps", p)
    \/ \E w \in BOOLEAN : CsrTranslation("dmw", w)
    \/ \E use \in BOOLEAN : CsrGtlbc(use, 1)
    \/ \E pvm \in BOOLEAN, gid \in 0 .. 1 : CsrGstat(pvm, gid)
    \/ \E i \in {0, Mtlb}, ne \in BOOLEAN, lo \in {PairOfPtes, GlobalPtes} : Tlbwr(i, ne, 0, lo, 1)
    \/ \E ehi \in {0, 4}, ps \in 1 .. 2 : Tlbfill(ehi, GlobalPtes, ps)
    \/ \E i \in Slots : Tlbrd(i) \/ Tlbclr(i) \/ Tlbflush(i)
    \/ \E op \in 0 .. 4 \cup {9} : InvtlbInsn(op, 0, 0)
    \/ \E op \in 5 .. 6, va \in Vas \cap 0 .. 7 : InvtlbInsn(op, 0, va)

Spec == Init /\ [][Next]_vars

-----------------------------------------------------------------------------
\* A page the fast TLB answers for is one the full translation, as the CSRs and the TLBs stand now, grants for
\* that access with that same physical page; the paths that change a guest's translation without a flush are marked.
FastTlbHonest ==
    \A va \in Vas, acc \in Accs :
        FastHit(dev, va, acc) /\ ~env.skew =>
            LET t == TranslateDetail(dev, va, acc) IN t.r = "Hit" /\ t.pa = dev.c[A(dev)].fast[FastIndex(va)].addend

\* tlbsrch finds an entry for exactly the mapped pages whose access would not be a refill.
SearchAgrees ==
    \A va \in 0 .. 7 :
        (TlbSearch(dev, va) = Sets + 1) <=> (TlbLookup(dev.c[A(dev)], va, TargetGid(dev), "load", 0).r = "Miss")

\* After the refill handler has walked the tables, filled and returned, the page is no longer a refill
\* and execution is back at the privilege and in the paging mode of the access.
RefillResumes ==
    env.retry # NoTag =>
        /\ LookupAddressWith(dev.c[A(dev)], env.retry, TargetGid(dev), "load").r # "Miss"
        /\ dev.c[A(dev)].pg /\ ~dev.c[A(dev)].da /\ dev.c[A(dev)].plv = dev.c[A(dev)].rplv

\* What invtlb does to a translation, told by lookups alone.  An entry serves an ASID and a page when a lookup
\* that finds only that entry does not miss, and is shared when it serves an ASID no entry is filled for.  After the
\* instruction a translation its opcode names is served no more and every other one is; no page is left in the
\* fast TLB; entries of another guest go only with everything, and the other context's only with opcode 9.
Stranger == 9
Serves(d, i, asid, va) ==
    LET c == d.c[A(d)]
    IN  TlbLookup([c EXCEPT !.asid = asid, !.tlb = [j \in Slots |-> IF j = i THEN c.tlb[i] ELSE NoEntry]], va, TargetGid(d), "load", 0).r # "Miss"
Shared(d, i) == \E va \in 0 .. 7 : Serves(d, i, Stranger, va)
Named(d, i, op, asid, va) ==
    CASE op \in {0, 1, 9} -> TRUE
      [] op = 2 -> Shared(d, i)
      [] op = 3 -> ~Shared(d, i)
      [] op = 4 -> ~Shared(d, i) /\ \E w \in 0 .. 7 : Serves(d, i, asid, w)
      [] op = 5 -> ~Shared(d, i) /\ Serves(d, i, asid, va)
      [] op = 6 -> Serves(d, i, asid, va)
InvtlbExact ==
    env'.inv # <<>> /\ env.ops > env'.ops =>
        LET op == env'.inv[1]
            x == A(dev)
        IN  /\ \A i \in Slots, asid \in 0 .. 1, va \in 0 .. 7 :
                   Serves(dev', i, asid, va) <=> Serves(dev, i, asid, va) /\ ~Named(dev, i, op, env'.inv[2], env'.inv[3])
            /\ \A va \in Vas, acc \in Accs : ~FastHit(dev', va, acc)
            /\ \A i \in Slots : op \in 2 .. 6 /\ dev.c[x].tlb[i].gid # TargetGid(dev) => dev'.c[x].tlb[i] = dev.c[x].tlb[i]
            /\ \A y \in Ctx \ {x} : op # 9 => dev'.c[y].tlb = dev.c[y].tlb
=============================================================================
