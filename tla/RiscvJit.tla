------------------------------ MODULE RiscvJit ------------------------------
(***************************************************************************)
(* The RISC-V vCPU and its translation blocks: lookup, translation,        *)
(* chaining and indirect-jump caching (accel/src/exec/exec_loop.rs), the   *)
(* tracking of stores to code pages through the software TLB               *)
(* (guest/riscv/src/riscv/mmu.rs, system/src/cpus.rs, the store sequence   *)
(* of accel/src/x86_64/emitter.rs), FENCE.I, SFENCE.VMA, satp writes and   *)
(* the recovery from a full store (system/src/lib.rs).                     *)
(*                                                                         *)
(* There is one RISC-V vCPU thread, so a step is everything it does from   *)
(* one block exit to the next point where the guest chooses.  The content  *)
(* of a physical page is its version, the number of stores made to it.     *)
(***************************************************************************)
EXTENDS TbStore

CONSTANTS
    Succ,       \* [Pcs -> [Exits -> Pcs]]: where a block's direct jumps go
    Beyond,     \* [Pcs -> Pcs]: the next virtual page
    Guests,     \* the guests to look at: records with the fields
                \*   ops    what the guest does besides computing and jumping
                \*   maps   its address spaces, functions [Pcs -> Pages]
                \*   entry  [Pcs -> TLB entry numbers]: tlb_index()
                \*   cross  pcs whose last instruction reaches into Beyond
                \*   maxGen bound on global_gen
    MaxVersion  \* bound on the stores to one page

ASSUME JitAssumption ==
    \A g \in Guests :
        /\ g.ops \subseteq {"store", "load", "helperTrap", "fault", "satp",
                              "sfence"}
        /\ g.maps \subseteq [Pcs -> Pages]
        /\ g.cross \subseteq Pcs

VARIABLES
    guest,      \* the guest; it never changes
    store,      \* the TbStore
    vmap,       \* the page table in force
    version,    \* content of each physical page
    tlb,        \* software TLB: tag (a page of Pcs or None), page, dirty
    helperDirty,\* RiscvCpu.dirty_pages
    jumpCache,  \* PerCpuState.jump_cache
    hint,       \* next_tb_hint
    pc,         \* RiscvCpu.pc
    running,    \* the block being executed; None in the dispatch loop
    fenced      \* history: content of each page at the last FENCE.I

vars == <<guest, store, vmap, version, tlb, helperDirty, jumpCache, hint, pc,
          running, fenced>>

TlbIndex(v) == guest.entry[v]
Entries == {TlbIndex(v) : v \in Pcs}
TlbEmpty == [e \in Entries |-> [tag |-> None, page |-> None, dirty |-> FALSE]]
NoJumpCache == [v \in Pcs |-> None]

TypeOK ==
    /\ Len(store.tbs) <= MaxTbs
    /\ \A i \in Indices(store) :
         /\ store.tbs[i].pc \in Pcs /\ store.tbs[i].page \in Pages \cup {None}
         /\ store.tbs[i].dest \in [Exits -> {None} \cup Indices(store)]
         /\ store.tbs[i].exitTarget \in {None} \cup Indices(store)
         /\ store.tbs[i].gen <= store.gen
    /\ guest \in Guests /\ vmap \in guest.maps
    /\ version \in [Pages -> 0..MaxVersion]
    /\ \A e \in Entries :
         tlb[e] \in [tag : Pcs \cup {None}, page : Pages \cup {None},
                     dirty : BOOLEAN]
    /\ helperDirty \subseteq Pages
    /\ jumpCache \in [Pcs -> {None} \cup Indices(store)]
    /\ hint \in {None} \cup Indices(store)
    /\ running \in {None} \cup Indices(store)
    /\ pc \in Pcs

Init ==
    /\ guest \in Guests
    /\ store = StoreInit
    /\ vmap \in guest.maps
    /\ version = [p \in Pages |-> 0]
    /\ tlb = TlbEmpty
    /\ helperDirty = {}
    /\ jumpCache = NoJumpCache
    /\ hint = None
    /\ pc \in Pcs
    /\ running = None
    /\ fenced = version

-----------------------------------------------------------------------------
(* A refill that clears the dirty flag. *)
RefillClean(t, v) ==
    [t EXCEPT ![TlbIndex(v)] = [tag |-> v, page |-> vmap[v], dirty |-> FALSE]]

(* Software TLB.  A refill rewrites tag and page of the entry; a flush     *)
(* clears the tags; neither looks at `dirty`.                              *)
Refill(t, v) ==
    [t EXCEPT ![TlbIndex(v)].tag = v, ![TlbIndex(v)].page = vmap[v]]
TlbFlush(t) == [e \in Entries |-> [t[e] EXCEPT !.tag = None]]
TlbHit(t, v) == t[TlbIndex(v)].tag = v

(* take_dirty_pages(): pages noted by the helper and by the TLB entries.   *)
DirtyPages ==
    helperDirty \cup {tlb[e].page : e \in {x \in Entries : tlb[x].dirty}}
TakeDirty(t) == [e \in Entries |-> [t[e] EXCEPT !.dirty = FALSE]]

-----------------------------------------------------------------------------
(* The part of the state the lookup and translation functions work on.     *)
Exec(st, t, jc, i) == [st |-> st, tlb |-> t, jc |-> jc, idx |-> i]

(* gen_code(): walk to the block's page (and the next one), which refills  *)
(* the TLB, and read them; then stamp, register and publish the block.     *)
Spans(v) ==
    {vmap[v]} \cup (IF v \in guest.cross THEN {vmap[Beyond[v]]} ELSE {})
FetchRefill(t, v) ==
    IF v \in guest.cross THEN Refill(Refill(t, v), Beyond[v]) ELSE Refill(t, v)

(* A block that is not registered under its page. *)
TranslatedUnmarked(st, v) ==
    LET i == Len(st.tbs) + 1
        st1 == Alloc(st, v)
        st2 == [st1 EXCEPT !.tbs[i].page = vmap[v],
                           !.tbs[i].code = [p \in Spans(v) |-> version[p]],
                           !.tbs[i].gen = st.gen]
    IN  Insert(st2, i)

Translated(st, v) ==
    LET i == Len(st.tbs) + 1
        st1 == Alloc(st, v)
        st2 == [st1 EXCEPT !.tbs[i].page = vmap[v],
                           !.tbs[i].code = [p \in Spans(v) |-> version[p]],
                           !.tbs[i].gen = st.gen]
    IN  Insert(MarkCodePage(st2, vmap[v], i), i)

(* tb_gen_code(), where CanAlloc holds.                                    *)
GenCode(st, t, jc, v) ==
    LET i == Len(st.tbs) + 1
    IN  Exec(Translated(st, v), FetchRefill(t, v), [jc EXCEPT ![v] = i], i)

AllocFaulting(st, v) ==
    LET i == Len(st.tbs) + 1 IN [Alloc(st, v) EXCEPT !.tbs[i].invalid = TRUE]

(* tb_find(): jump cache, then hash table, then translation.  A page that  *)
(* the TLB does not know is always translated again.                       *)
Matches(st, i, v, page) ==
    /\ i # None /\ Live(st, i)
    /\ st.tbs[i].pc = v /\ st.tbs[i].page = page

Find(st, t, jc, v) ==
    LET page == t[TlbIndex(v)].page
        found == Lookup(st, v)
    IN  CASE TlbHit(t, v) /\ Matches(st, jc[v], v, page) ->
               Exec(st, t, jc, jc[v])
          [] TlbHit(t, v) /\ ~Matches(st, jc[v], v, page)
               /\ Matches(st, found, v, page) ->
               Exec(st, t, [jc EXCEPT ![v] = found], found)
          [] OTHER -> GenCode(st, t, jc, v)

(* Find may have to translate; it can unless the store is full.            *)
FindHits(st, t, jc, v) ==
    LET page == t[TlbIndex(v)].page
    IN  /\ TlbHit(t, v)
        /\ Matches(st, jc[v], v, page) \/ Matches(st, Lookup(st, v), v, page)
CanFind(st, t, jc, v) == FindHits(st, t, jc, v) \/ CanAlloc(st)

(* ExitReason::BufferFull: run_riscv_cpu starts the store afresh.          *)
BufferFull(st, t) ==
    /\ store' = Flush(InvalidateAll(st))
    /\ jumpCache' = NoJumpCache
    /\ tlb' = t
    /\ hint' = None

-----------------------------------------------------------------------------
(* The dispatch loop enters a block: the hint, unchecked, or tb_find.      *)
EnterHint ==
    /\ running = None /\ hint # None
    /\ running' = hint
    /\ hint' = None
    /\ UNCHANGED <<guest, store, vmap, version, tlb, helperDirty, jumpCache,
                   pc, fenced>>

EnterFound ==
    /\ running = None /\ hint = None
    /\ CanFind(store, tlb, jumpCache, pc)
    /\ LET x == Find(store, tlb, jumpCache, pc)
       IN  /\ store' = x.st /\ tlb' = x.tlb /\ jumpCache' = x.jc
           /\ running' = x.idx
    /\ UNCHANGED <<guest, vmap, version, helperDirty, hint, pc, fenced>>

EnterFull ==
    /\ running = None /\ hint = None
    /\ ~CanFind(store, tlb, jumpCache, pc)
    /\ store.gen < guest.maxGen
    /\ BufferFull(store, tlb)
    /\ UNCHANGED <<guest, vmap, version, helperDirty, pc, running, fenced>>

(* gen_code() fails: the fetch faults, an invalid block is left behind and *)
(* the trap is taken.                                                      *)
EnterFault ==
    /\ "fault" \in guest.ops
    /\ running = None /\ hint = None
    /\ ~FindHits(store, tlb, jumpCache, pc) /\ CanAlloc(store)
    /\ store' = AllocFaulting(store, pc)
    /\ pc' \in Pcs
    /\ UNCHANGED <<guest, vmap, version, tlb, helperDirty, jumpCache, hint,
                   running, fenced>>

-----------------------------------------------------------------------------
(* Inside a block.  The fast path stores through the TLB entry and marks   *)
(* it; the helper walks the page table, refills the entry and notes the    *)
(* page if it holds code.                                                  *)
StoreFast(v) ==
    /\ "store" \in guest.ops
    /\ running # None /\ TlbHit(tlb, v)
    /\ version[tlb[TlbIndex(v)].page] < MaxVersion
    /\ version' = [version EXCEPT ![tlb[TlbIndex(v)].page] = @ + 1]
    /\ tlb' = [tlb EXCEPT ![TlbIndex(v)].dirty = TRUE]
    /\ UNCHANGED <<guest, store, vmap, helperDirty, jumpCache, hint, pc,
                   running, fenced>>

StoreHelper(v) ==
    /\ "store" \in guest.ops
    /\ running # None
    /\ version[vmap[v]] < MaxVersion
    /\ tlb' = Refill(tlb, v)
    /\ version' = [version EXCEPT ![vmap[v]] = @ + 1]
    /\ helperDirty' = IF IsCodePage(store, vmap[v])
                      THEN helperDirty \cup {vmap[v]} ELSE helperDirty
    /\ UNCHANGED <<guest, store, vmap, jumpCache, hint, pc, running, fenced>>

LoadHelper(v) ==
    /\ "load" \in guest.ops
    /\ running # None
    /\ tlb' = Refill(tlb, v)
    /\ UNCHANGED <<guest, store, vmap, version, helperDirty, jumpCache, hint,
                   pc, running, fenced>>

(* A patched goto_tb jumps from block to block.                            *)
Chain(s) ==
    /\ running # None
    /\ store.tbs[running].dest[s] # None
    /\ running' = store.tbs[running].dest[s]
    /\ pc' = Succ[store.tbs[running].pc][s]
    /\ UNCHANGED <<guest, store, vmap, version, tlb, helperDirty, jumpCache,
                   hint, fenced>>

(* A helper raises an exception and longjmps to the top of the loop: the   *)
(* dirty pages are not drained.                                            *)
HelperTrap ==
    /\ "helperTrap" \in guest.ops
    /\ running # None
    /\ running' = None
    /\ pc' \in Pcs
    /\ UNCHANGED <<guest, store, vmap, version, tlb, helperDirty, jumpCache,
                   hint, fenced>>

-----------------------------------------------------------------------------
(* Every other way out of a block drains the dirty pages first.            *)
Drained ==
    IF DirtyPages = {} THEN store
    ELSE FoldSet(LAMBDA p, st : IF IsCodePage(st, p)
                                THEN InvalidatePhysPage(st, p) ELSE st,
                 store, DirtyPages)
DrainedJumpCache == IF DirtyPages = {} THEN jumpCache ELSE NoJumpCache

Drain == tlb' = TakeDirty(tlb) /\ helperDirty' = {}
ExitFrame == <<guest, vmap, version, fenced>>

(* A goto_tb exit that is not patched, or that the exit request broke.     *)
ExitSlot(s) ==
    LET v == Succ[store.tbs[running].pc][s]
        st == Drained
        t == TakeDirty(tlb)
        jc == DrainedJumpCache
        x == Find(st, t, jc, v)
    IN
    /\ running # None
    /\ pc' = v
    /\ running' = None
    /\ IF CanFind(st, t, jc, v)
         THEN /\ store' = AddJump(x.st, running, s, x.idx)
              /\ tlb' = x.tlb /\ jumpCache' = x.jc
              /\ hint' = x.idx
         ELSE store.gen < guest.maxGen /\ BufferFull(st, t)
    /\ helperDirty' = {}
    /\ UNCHANGED ExitFrame

(* An indirect jump.  A live exit_target of the right pc is taken as it is *)
(* unless an interrupt is pending; otherwise tb_find's answer becomes the  *)
(* exit_target.                                                            *)
ExitTargetHits(st, i, v) ==
    LET t == st.tbs[i].exitTarget
    IN  t # None /\ Live(st, t) /\ st.tbs[t].pc = v

ExitCached(v) ==
    LET st == Drained IN
    /\ running # None /\ ExitTargetHits(st, running, v)
    /\ pc' = v
    /\ running' = None
    /\ store' = st /\ jumpCache' = DrainedJumpCache
    /\ Drain
    /\ hint' \in {None, st.tbs[running].exitTarget}
    /\ UNCHANGED ExitFrame

ExitIndirect(v) ==
    LET st == Drained
        t == TakeDirty(tlb)
        jc == DrainedJumpCache
        x == Find(st, t, jc, v)
    IN
    /\ running # None /\ ~ExitTargetHits(st, running, v)
    /\ pc' = v
    /\ running' = None
    /\ IF CanFind(st, t, jc, v)
         THEN /\ store' = [x.st EXCEPT !.tbs[running].exitTarget = x.idx]
              /\ tlb' = x.tlb /\ jumpCache' = x.jc
              /\ hint' = x.idx
         ELSE store.gen < guest.maxGen /\ BufferFull(st, t)
    /\ helperDirty' = {}
    /\ UNCHANGED ExitFrame

(* Either exit when the fetch at the destination faults.                   *)
ExitFault(v) ==
    LET st == Drained IN
    /\ "fault" \in guest.ops
    /\ running # None
    /\ ~FindHits(st, TakeDirty(tlb), DrainedJumpCache, v)
    /\ CanAlloc(st)
    /\ store' = AllocFaulting(st, v)
    /\ jumpCache' = DrainedJumpCache
    /\ Drain
    /\ hint' = None
    /\ running' = None
    /\ pc' \in Pcs
    /\ UNCHANGED ExitFrame

(* An interrupt taken between two blocks drops the hint.                   *)
InterruptKeepingHint ==
    /\ running = None
    /\ pc' \in Pcs
    /\ UNCHANGED <<guest, store, vmap, version, tlb, helperDirty, jumpCache,
                   hint, running, fenced>>

Interrupt ==
    /\ running = None
    /\ hint' = None
    /\ pc' \in Pcs
    /\ UNCHANGED <<guest, store, vmap, version, tlb, helperDirty, jumpCache,
                   running, fenced>>

(* ECALL, EBREAK, xRET, WFI, UNDEF and memory faults.                      *)
ExitTrap ==
    /\ running # None
    /\ store' = Drained /\ jumpCache' = DrainedJumpCache
    /\ Drain
    /\ hint' = None
    /\ running' = None
    /\ pc' \in Pcs
    /\ UNCHANGED ExitFrame

(* FENCE.I that trusts the drain to have invalidated what was written. *)
ExitFenceIDrainOnly ==
    /\ running # None /\ store.gen < guest.maxGen
    /\ store' = Drained
    /\ jumpCache' = NoJumpCache
    /\ Drain
    /\ hint' = None
    /\ running' = None
    /\ pc' \in Pcs
    /\ fenced' = version
    /\ UNCHANGED <<guest, vmap, version>>

(* FENCE.I.  take_dirty_pages() has just been called by the drain, so this *)
(* second call returns nothing and the exit invalidates everything.        *)
ExitFenceI ==
    /\ running # None /\ store.gen < guest.maxGen
    /\ store' = InvalidateAll(Drained)
    /\ jumpCache' = NoJumpCache
    /\ Drain
    /\ hint' = None
    /\ running' = None
    /\ pc' \in Pcs
    /\ fenced' = version
    /\ UNCHANGED <<guest, vmap, version>>

(* SFENCE.VMA that flushes the TLB and not the blocks. *)
ExitSfenceTlbOnly ==
    /\ "sfence" \in guest.ops
    /\ running # None /\ store.gen < guest.maxGen
    /\ vmap' \in guest.maps
    /\ store' = Drained
    /\ jumpCache' = NoJumpCache
    /\ tlb' = TlbFlush(TakeDirty(tlb)) /\ helperDirty' = {}
    /\ hint' = None
    /\ running' = None
    /\ pc' \in Pcs
    /\ UNCHANGED <<guest, version, fenced>>

(* SFENCE.VMA after a change of the page table.                            *)
ExitSfence ==
    /\ "sfence" \in guest.ops
    /\ running # None /\ store.gen < guest.maxGen
    /\ vmap' \in guest.maps
    /\ store' = InvalidateAll(Drained)
    /\ jumpCache' = NoJumpCache
    /\ tlb' = TlbFlush(TakeDirty(tlb)) /\ helperDirty' = {}
    /\ hint' = None
    /\ running' = None
    /\ pc' \in Pcs
    /\ UNCHANGED <<guest, version, fenced>>

(* A write to satp: the TLB is flushed, the blocks stay.                   *)
ExitSatp ==
    /\ "satp" \in guest.ops
    /\ running # None
    /\ vmap' \in guest.maps
    /\ store' = Drained /\ jumpCache' = DrainedJumpCache
    /\ tlb' = TlbFlush(TakeDirty(tlb)) /\ helperDirty' = {}
    /\ hint' = None
    /\ running' = None
    /\ pc' \in Pcs
    /\ UNCHANGED <<guest, version, fenced>>

Next ==
    \/ EnterHint \/ EnterFound \/ EnterFull \/ EnterFault
    \/ \E v \in Pcs : StoreFast(v) \/ StoreHelper(v) \/ LoadHelper(v)
                      \/ ExitCached(v) \/ ExitIndirect(v) \/ ExitFault(v)
    \/ \E s \in Exits : Chain(s) \/ ExitSlot(s)
    \/ HelperTrap \/ Interrupt \/ ExitTrap
    \/ ExitFenceI \/ ExitSfence \/ ExitSatp

Spec == Init /\ [][Next]_vars

-----------------------------------------------------------------------------
(* FENCE.I is complete: no block runs, however it was reached (dispatch,   *)
(* hint, patched jump, exit_target), whose code is older than the last     *)
(* FENCE.I, although TLB conflicts, page-crossing instructions and helper  *)
(* exceptions make the drain of exec_loop.rs miss pages.                   *)
FenceOrdersFetch ==
    running # None =>
        \A p \in DOMAIN store.tbs[running].code :
            store.tbs[running].code[p] >= fenced[p]

(* The block that runs is the block of the current pc, although hints,     *)
(* exit_target and patched jumps are followed without looking at pc again, *)
(* and indices are reused after the store was flushed.                     *)
RunsCurrentPc ==
    running # None => /\ running \in Indices(store)
                      /\ store.tbs[running].pc = pc

(* Unchaining is complete: a patched jump leads to a block that has not    *)
(* been invalidated and that knows of the jump, also after its slot was    *)
(* patched over and after a block that had been invalidated while it ran   *)
(* was chained.                                                            *)
PatchedJumpsKnown ==
    \A i \in Indices(store), s \in Exits :
        LET d == store.tbs[i].dest[s] IN
        d # None => ~store.tbs[d].invalid /\ <<i, s>> \in store.tbs[d].jmpList

(* The store helper and the drain only look at pages whose count is not    *)
(* zero, and the count saturates and is cleared by invalidate_all(): every *)
(* live block below 4 GiB is on the list of its page, and the page counts  *)
(* as code.                                                                *)
LiveBlocksTracked ==
    \A i \in Indices(store) :
        Live(store, i) /\ store.tbs[i].page \notin Untracked =>
        /\ IsCodePage(store, store.tbs[i].page)
        /\ i \in ToSet(store.heads[store.tbs[i].page])

(* exec_loop.rs, on the drain: "invalidate the affected TBs immediately",  *)
(* which "provides the Ziccid guarantee (I-cache coherence for instruction *)
(* data) unconditionally": a block entered from the dispatch loop has been *)
(* translated from what its pages hold.                                    *)
DispatchCoherent ==
    [][(running = None /\ running' # None) =>
         LET tb == store'.tbs[running'] IN
         \A p \in DOMAIN tb.code : tb.code[p] = version[p]]_vars

(* The same for a guest the drain is right about: no two pages share a TLB *)
(* entry, no instruction crosses a page, no helper raises an exception.    *)
PlainGuest(g) ==
    /\ \A v, w \in Pcs : g.entry[v] = g.entry[w] => v = w
    /\ g.cross = {} /\ "helperTrap" \notin g.ops

DispatchCoherentIfPlain ==
    [][(PlainGuest(guest) /\ running = None /\ running' # None) =>
         LET tb == store'.tbs[running'] IN
         \A p \in DOMAIN tb.code \ Untracked : tb.code[p] = version[p]]_vars

(* cpus.rs, on satp: "TB correctness relies on phys_pc validation in       *)
(* tb_find": the block that runs is on the page its address is mapped to.  *)
RunsMappedPage == running # None => store.tbs[running].page = vmap[pc]

(* For a guest that follows every change of the page table by SFENCE.VMA   *)
(* that is so, although nothing but the generation number stops the old    *)
(* blocks and their patched jumps.                                         *)
RunsMappedPageIfFenced == "satp" \notin guest.ops => RunsMappedPage
=============================================================================
