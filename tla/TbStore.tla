------------------------------- MODULE TbStore -------------------------------
(***************************************************************************)
(* The translation-block store (accel/src/exec/tb_store.rs) and the        *)
(* chaining of blocks (tb_add_jump in accel/src/exec/exec_loop.rs), as     *)
(* operators on a record that holds the store's state:                     *)
(*                                                                         *)
(*   tbs        the blocks, in order of allocation; a block's index is its *)
(*              name, 0 stands for None                                    *)
(*   hash       the bucket chain, newest first; buckets are merged into    *)
(*              one, since a lookup compares pc anyway                     *)
(*   heads      the per-page lists, newest first                           *)
(*   codePages  the per-page reference counts                              *)
(*   gen        global_gen                                                 *)
(*                                                                         *)
(* A block's `code` says which version of each page it was translated from *)
(* (the generated host code); `page` is the page of its phys_pc, the only  *)
(* one it is registered under.  dest[s] stands for the patched jump        *)
(* instruction of exit slot s as well as for jmp_dest[s]: the code changes *)
(* both under the same lock.                                               *)
(***************************************************************************)
EXTENDS Naturals, Sequences, FiniteSets, SequencesExt

CONSTANTS
    Pcs,        \* block addresses; each stands for a virtual page of its own
    Pages,      \* physical pages
    Untracked,  \* pages from CODE_REFCOUNT_PAGES on (above 4 GiB)
    Exits,      \* goto_tb exit slots: {0, 1} in the code
    MaxTbs,     \* MAX_TBS
    RefMax      \* where a page's reference count saturates: 255

ASSUME StoreAssumption ==
    /\ MaxTbs \in Nat \ {0} /\ RefMax \in Nat \ {0}
    /\ Exits \subseteq {0, 1} /\ Untracked \subseteq Pages

None == 0

StoreInit ==
    [tbs |-> <<>>, hash |-> <<>>, heads |-> [p \in Pages |-> <<>>],
     codePages |-> [p \in Pages |-> 0], gen |-> 1]

Indices(st) == 1..Len(st.tbs)

(* `!invalid && gen == global_gen`, the test every path makes.             *)
Live(st, i) == ~st.tbs[i].invalid /\ st.tbs[i].gen = st.gen

-----------------------------------------------------------------------------
(* alloc(): a block that is not filled in yet.  gen 0 is reserved for it.  *)
CanAlloc(st) == Len(st.tbs) < MaxTbs
NewTb(pc) ==
    [pc |-> pc, page |-> None, code |-> <<>>, gen |-> 0,
     invalid |-> FALSE, dest |-> [s \in Exits |-> None], jmpList |-> {},
     exitTarget |-> None]
Alloc(st, pc) ==
    [st EXCEPT !.tbs = [i \in 1..(Len(@) + 1) |->
                          IF i \in DOMAIN @ THEN @[i] ELSE NewTb(pc)]]

(* lookup(): the first live block of that pc.                              *)
Lookup(st, pc) ==
    LET hits == SelectSeq(st.hash, LAMBDA i : Live(st, i) /\ st.tbs[i].pc = pc)
    IN  IF hits = <<>> THEN None ELSE Head(hits)

Insert(st, i) == [st EXCEPT !.hash = <<i>> \o @]

(* mark_code_page(): count up, saturating, and prepend to the page's list. *)
MarkCodePage(st, page, i) ==
    IF page \in Untracked THEN st
    ELSE [st EXCEPT !.codePages[page] = IF @ < RefMax THEN @ + 1 ELSE @,
                    !.heads[page] = <<i>> \o @]

IsCodePage(st, page) == st.codePages[page] > 0

-----------------------------------------------------------------------------
(* invalidate(): flag, page count and list, incoming and outgoing edges,   *)
(* hash chain.                                                             *)
ResetIncoming(tbs, i) ==
    [j \in DOMAIN tbs |->
        [tbs[j] EXCEPT !.dest = [s \in Exits |->
            IF <<j, s>> \in tbs[i].jmpList THEN None ELSE @[s]]]]

ForgetOutgoing(tbs, i) ==
    [j \in DOMAIN tbs |->
        IF j = i THEN [tbs[j] EXCEPT !.dest = [s \in Exits |-> None]]
        ELSE [tbs[j] EXCEPT !.jmpList =
                @ \ {<<i, s>> : s \in {t \in Exits : tbs[i].dest[t] = j}}]]

(* invalidate() that leaves the jumps into the block patched. *)
InvalidateKeepingJumps(st, i) ==
    LET page == st.tbs[i].page IN
    [st EXCEPT
        !.tbs = [ForgetOutgoing(@, i) EXCEPT ![i].invalid = TRUE,
                                             ![i].jmpList = {}],
        !.codePages[page] = IF @ > 0 THEN @ - 1 ELSE 0,
        !.heads[page] = Remove(@, i),
        !.hash = Remove(@, i)]

Invalidate(st, i) ==
    LET page == st.tbs[i].page
        unlinked == ForgetOutgoing(
                      [ResetIncoming(st.tbs, i) EXCEPT ![i].jmpList = {}], i)
    IN  [st EXCEPT
            !.tbs = [unlinked EXCEPT ![i].invalid = TRUE],
            !.codePages[page] = IF @ > 0 THEN @ - 1 ELSE 0,
            !.heads[page] = Remove(@, i),
            !.hash = Remove(@, i)]

(* invalidate_all(): one generation up, counts cleared; nothing unlinked.  *)
InvalidateAll(st) ==
    [st EXCEPT !.gen = @ + 1, !.codePages = [p \in Pages |-> 0]]

(* invalidate_phys_page(): the live blocks of the page's list or, if there *)
(* are none and the count is not zero, of the whole store.                 *)
InvalidatePhysPage(st, page) ==
    LET listed == SelectSeq(st.heads[page], LAMBDA i : Live(st, i))
        scanned == IF IsCodePage(st, page)
                   THEN SelectSeq([i \in Indices(st) |-> i], LAMBDA i :
                                    Live(st, i) /\ st.tbs[i].page = page)
                   ELSE <<>>
    IN  FoldLeft(Invalidate, st, IF listed # <<>> THEN listed ELSE scanned)

(* flush(): everything is dropped and the indices start again.             *)
Flush(st) == [StoreInit EXCEPT !.gen = st.gen]

-----------------------------------------------------------------------------
(* tb_add_jump(): chain exit s of src to dst.  A slot that already jumps   *)
(* elsewhere is patched over; the old destination keeps its jmp_list.      *)
AddJump(st, src, s, dst) ==
    IF ~Live(st, dst) \/ st.tbs[src].dest[s] = dst
    THEN st
    ELSE [st EXCEPT !.tbs[src].dest[s] = dst,
                    !.tbs[dst].jmpList = @ \cup {<<src, s>>}]
=============================================================================
