---------------------------- MODULE SoftMmuPath ----------------------------
(***************************************************************************)
(* The host code of a guest load or store with the software TLB            *)
(* (accel/src/x86_64/emitter.rs, emit_qemu_ld_mmio and emit_qemu_st_mmio): *)
(* save the scratch registers, test for a page crossing, look the page up, *)
(* then either access memory in line or call the RISC-V helper under a     *)
(* page table (system/src/cpus.rs, guest/riscv/src/riscv/mmu.rs).  The     *)
(* allocator may have put the operands in any register, the scratch ones   *)
(* included.  dev holds the TLB, physical memory and cpu.dirty_pages; env  *)
(* what the last access did and should have done, and two histories: the   *)
(* code frames stored to since the pages were last collected, and those    *)
(* among them whose dirty TLB entry was refilled since.  A page has Page   *)
(* bytes, a byte the values 0..3; page vpn is in Frames[vpn + 1], or not   *)
(* mapped when that is 0.  Frames 1..Ram are host memory, the ones above   *)
(* a device's registers.  Operands are pairs of operand registers, MemOps  *)
(* sizes in bytes with whether a load extends the sign.                    *)
(***************************************************************************)
EXTENDS Integers, Sequences
CONSTANTS Page, Frames, Ram, Code, Entries, Operands, MemOps
VARIABLES dev, env

vars == <<dev, env>>

Regs == {"rax", "r10", "r11", "rcx"}
Scratch == {"rax", "r10", "r11"}
CallerSaved == Regs
None == -99                     \* TLB_INVALID_TAG, TLB_MMIO_ADDEND
Vpn(a) == a \div Page
Pages == Len(Frames)
Frame(vpn) == IF vpn < Pages THEN Frames[vpn + 1] ELSE 0
Addrs == 0 .. ((Pages * Page) - 1)
PhysAddrs == Page .. ((Ram + 2) * Page) - 1

\* mmu.rs tlb_index, on three-bit page numbers.
TlbIndex(vpn) == ((vpn % 2) + ((vpn \div 4) % 2)) % Entries

-----------------------------------------------------------------------------
(* The inline lookup. *)

\* Saves, and the page-crossing test, which leaves the offset in rax.
Prologue(r, addr, val) ==
  [r |-> r, scratch |-> r[addr], scratch8 |-> IF val = "none" THEN 0 ELSE r[val],
   saved |-> [x \in Scratch |-> r[x]]]

CrossPageSlowCheckOff(m, size) == size > 1 /\ m.scratch % Page > Page
CrossPageSlowCheck(m, size) == size > 1 /\ m.scratch % Page > Page - size
AfterCheck(m, size) ==
  IF size > 1 THEN [m EXCEPT !.r["rax"] = m.scratch % Page] ELSE m

\* The entry is found from the address register as it is now, the tag from
\* the saved address.
Lookup(m, addr) ==
  LET idx == TlbIndex(Vpn(m.r[addr]))
  IN  [m EXCEPT !.r["r10"] = idx, !.r["r11"] = 0, !.r["rax"] = Vpn(m.scratch)]
TagHits(tag, m) == tag = Vpn(m.scratch)
InHost(e) == e.addend # None

\* Restores; a load keeps its result when it is in one of them.
RestoreScratch(m, keep) ==
  [m EXCEPT !.r = [x \in Regs |-> IF x \in Scratch \ {keep} THEN m.saved[x] ELSE m.r[x]]]

\* A helper call leaves the caller-saved registers undefined: they are saved
\* to the frame around it.
Junk == -7
SaveCallerRegs(m) == m.r
CallHelper(m) == [m EXCEPT !.r = [x \in Regs |-> IF x \in CallerSaved THEN Junk ELSE m.r[x]]]
RestoreCallerRegs(m, saved) ==
  [m EXCEPT !.r = [x \in Regs |-> IF x \in CallerSaved THEN saved[x] ELSE m.r[x]]]

-----------------------------------------------------------------------------
(* Physical memory, and the helpers. *)

Bytes(mem, pa, size) == IF size = 1 THEN mem[pa] ELSE mem[pa] + 4 * mem[pa + 1]
Written(mem, pa, v, size) ==
  [b \in PhysAddrs |-> IF b = pa THEN v % 4
                       ELSE IF size = 2 /\ b = pa + 1 THEN (v \div 4) % 4 ELSE mem[b]]
SignExtend(v, size, sign) ==
  LET n == IF size = 1 THEN 4 ELSE 16 IN IF sign /\ 2 * v >= n THEN v - n ELSE v

IsRam(pa) == pa \div Page \in 1..Ram
\* The helper translates the address of the first byte only.
Translate(a) == Page * Frame(Vpn(a)) + (a % Page)
IsPhysBacked(pa, size) ==
  IF IsRam(pa) THEN IsRam(pa + size - 1) ELSE Vpn(pa + size - 1) = Vpn(pa)
HelperFaults(a, size) == Frame(Vpn(a)) = 0 \/ ~IsPhysBacked(Translate(a), size)

\* translate_miss: the tags follow the permissions of the page, readable and
\* writable here, and its D bit, which a write sets; dirty is not touched.
\* fill_addend: the distance to host memory, or the mark of a device.
Fill(tlb, a, d) ==
  IF Frame(Vpn(a)) = 0 THEN tlb
  ELSE [tlb EXCEPT ![TlbIndex(Vpn(a))] =
          [read |-> Vpn(a), write |-> IF d THEN Vpn(a) ELSE None, phys |-> Frame(Vpn(a)),
           addend |-> IF IsRam(Translate(a)) THEN Translate(a) - a ELSE None,
           dirty |-> @.dirty]]

\* write_phys_sized: a page with translated code is noted.
NoteCodePage(pages, pa) ==
  IF IsRam(pa) /\ Vpn(pa) \in Code THEN pages \union {Vpn(pa)} ELSE pages

\* take_dirty_pages: those, and the pages of the dirty entries.
DirtyPages(d) ==
  d.pages \union { d.tlb[i].phys : i \in { e \in DOMAIN d.tlb : /\ d.tlb[e].dirty
                                                               /\ d.tlb[e].addend # None } }

NoEntry == [read |-> None, write |-> None, phys |-> 0, addend |-> 0, dirty |-> FALSE]
Memory == [b \in PhysAddrs |-> b % 4]
Markers == [x \in Regs |-> CASE x = "rax" -> 101 [] x = "r10" -> 110 [] x = "r11" -> 111
                             [] x = "rcx" -> 102]

Quiet == [at |-> "idle", changed |-> {}, fault |-> FALSE, should |-> FALSE, torn |-> FALSE,
          got |-> 0, want |-> 0, mem |-> Memory]

Init ==
  /\ dev = [tlb |-> [i \in 0..(Entries - 1) |-> NoEntry], mem |-> Memory, pages |-> {}]
  /\ env = [last |-> Quiet, stored |-> {}, lost |-> {}]

-----------------------------------------------------------------------------
(* What an access should do: every byte is in the frame of its own page. *)

ShouldFault(a, size) == \E k \in 0..(size - 1) : Frame(Vpn(a + k)) = 0
ShouldRead(mem, a, size) ==
  IF ShouldFault(a, size) THEN 0
  ELSE mem[Translate(a)] + (IF size = 2 THEN 4 * mem[Translate(a + 1)] ELSE 0)
ShouldWrite(mem, a, v, size) ==
  IF ShouldFault(a, size) THEN mem
  ELSE [b \in PhysAddrs |-> IF b = Translate(a) THEN v % 4
                            ELSE IF size = 2 /\ b = Translate(a + 1) THEN v \div 4 ELSE mem[b]]

\* A crossing into a page that does not follow the first one in memory.
Torn(a, size) ==
  LET f == Frame(Vpn(a))
  IN  /\ Vpn(a + size - 1) # Vpn(a)
      /\ f # 0
      /\ Frame(Vpn(a + size - 1)) # f + 1 \/ f = Ram

Changed(before, after, dst) == { x \in Regs \ {dst} : after[x] # before[x] }

\* The frames whose dirty entry a refill gave to another frame.
Taken(tlb, tlb2) ==
  { tlb[i].phys : i \in { e \in DOMAIN tlb : tlb[e].dirty /\ tlb2[e].phys # tlb[e].phys } }

-----------------------------------------------------------------------------
(* The two accesses, with the registers at the join. *)

LoadFast(m, dst, v) == RestoreScratch([m EXCEPT !.r[dst] = v], dst)
LoadSlow(m, dst, v) ==
  LET back == RestoreCallerRegs(CallHelper(m), SaveCallerRegs(m))
      kept == RestoreScratch(back, dst)
  IN  [kept EXCEPT !.r[dst] = v]

\* d: the page's D bit, which is the guest's to set and clear.
QemuLd(dst, addr, a, size, sign, d) ==
  LET r == [Markers EXCEPT ![addr] = a]
      p == Prologue(r, addr, "none")
      m == Lookup(AfterCheck(p, size), addr)
      e == dev.tlb[m.r["r10"]]
      cross == CrossPageSlowCheck(p, size)
      fast == ~cross /\ TagHits(e.read, m) /\ InHost(e)
      fault == ~fast /\ HelperFaults(a, size)
      pa == IF fast THEN p.scratch + e.addend ELSE Translate(a)
      v == IF fault THEN 0 ELSE SignExtend(Bytes(dev.mem, pa, size), size, sign)
      out == IF fast THEN LoadFast(m, dst, v)
             ELSE LoadSlow(IF cross THEN AfterCheck(p, size) ELSE m, dst, v)
      tlb == IF fast THEN dev.tlb ELSE Fill(dev.tlb, a, d)
  IN  /\ dev' = [dev EXCEPT !.tlb = tlb]
      /\ env' = [env EXCEPT !.last =
                   [at |-> "done", changed |-> Changed(r, out.r, dst), fault |-> fault,
                    should |-> ShouldFault(a, size), torn |-> Torn(a, size), got |-> out.r[dst],
                    want |-> SignExtend(ShouldRead(dev.mem, a, size), size, sign), mem |-> dev.mem],
                   !.lost = @ \union (Taken(dev.tlb, tlb) \cap env.stored)]

StoreFast(m) == RestoreScratch(m, "none")
StoreSlow(m) == RestoreScratch(RestoreCallerRegs(CallHelper(m), SaveCallerRegs(m)), "none")

\* The inline store marks its entry.
DirtyEntry(tlb, i) == [tlb EXCEPT ![i].dirty = TRUE]

QemuSt(val, addr, a, v, size) ==
  LET r == [[Markers EXCEPT ![val] = v] EXCEPT ![addr] = a]
      p == Prologue(r, addr, val)
      m == Lookup(AfterCheck(p, size), addr)
      i == m.r["r10"]
      e == dev.tlb[i]
      cross == CrossPageSlowCheck(p, size)
      fast == ~cross /\ TagHits(e.write, m) /\ InHost(e)
      out == IF fast THEN StoreFast(m) ELSE StoreSlow(IF cross THEN AfterCheck(p, size) ELSE m)
      fault == ~fast /\ HelperFaults(a, size)
      pa == IF fast THEN p.scratch + e.addend ELSE Translate(a)
      tlb == IF fast THEN DirtyEntry(dev.tlb, i) ELSE Fill(dev.tlb, a, TRUE)
  IN  /\ dev' = [tlb |-> tlb,
                 mem |-> IF fault THEN dev.mem ELSE Written(dev.mem, pa, p.scratch8, size),
                 pages |-> IF fast \/ fault THEN dev.pages ELSE NoteCodePage(dev.pages, pa)]
      /\ env' = [last |-> [at |-> "done", changed |-> Changed(r, out.r, "none"), fault |-> fault,
                           should |-> ShouldFault(a, size), torn |-> Torn(a, size),
                           got |-> 0, want |-> 0, mem |-> ShouldWrite(dev.mem, a, r[val], size)],
                 stored |-> env.stored \union (IF fault THEN {} ELSE {Vpn(pa)} \cap Code),
                 lost |-> (env.lost \union (Taken(dev.tlb, tlb) \cap env.stored))
                            \ (IF fault THEN {} ELSE {Vpn(pa)})]

Load ==
  /\ env.last.at = "idle"
  /\ \E o \in Operands, a \in Addrs, op \in MemOps, d \in BOOLEAN :
       QemuLd(o[1], o[2], a, op[1], op[2], d)

Store ==
  /\ env.last.at = "idle"
  /\ \E o \in Operands, a \in Addrs, op \in MemOps : QemuSt(o[1], o[2], a, 13, op[1])

\* The next instruction; memory is put back to bound the run.
Proceed ==
  /\ env.last.at = "done"
  /\ dev' = [dev EXCEPT !.mem = Memory]
  /\ env' = [env EXCEPT !.last = Quiet]

\* sfence.vma: the tags go, and nothing else of an entry.
Flush ==
  /\ env.last.at = "idle"
  /\ dev' = [dev EXCEPT !.tlb = [i \in DOMAIN @ |-> [@[i] EXCEPT !.read = None, !.write = None]]]
  /\ UNCHANGED env

\* The way out of a block collects the pages and drops their code.
TakeDirtyPages ==
  /\ env.last.at = "idle"
  /\ dev' = [dev EXCEPT !.pages = {}, !.tlb = [i \in DOMAIN @ |-> [@[i] EXCEPT !.dirty = FALSE]]]
  /\ env' = [env EXCEPT !.stored = {}, !.lost = {}]

Next == Load \/ Store \/ Proceed \/ Flush \/ TakeDirtyPages

Spec == Init /\ [][Next]_vars

-----------------------------------------------------------------------------
\* An access leaves every register as it was but the one it loads, on both
\* paths and for every choice of operand registers; it faults exactly when a
\* page it touches is not mapped, and otherwise loads what the guest has at the
\* address, sign-extended as asked, or stores the operand there and nothing
\* else.  A crossing into a page that does not follow the first in memory is
\* the exception: the helper translates the first address alone (cpus.rs:1216).
AccessRight ==
  LET l == env.last
  IN  /\ l.changed = {}
      /\ l.at = "done" /\ ~l.torn =>
           /\ l.fault <=> l.should
           /\ l.got = l.want
           /\ dev.mem = l.mem

\* A page with translated code that was stored to, in line or by the helper, is
\* among the pages the next way out of the block collects, whatever was loaded,
\* refilled and flushed in between; the exception is a page whose dirty entry
\* was refilled for another one, which keeps the mark (mmu.rs:489).
StoresLeaveDirty == env.stored \ env.lost \subseteq DirtyPages(dev)
=============================================================================
