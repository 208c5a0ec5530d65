------------------------------ MODULE FlatView ------------------------------
(***************************************************************************)
(* The memory map (memory/src): a tree of regions (region.rs), its         *)
(* flattening into sorted disjoint ranges (flat_view.rs) and the accesses  *)
(* that an AddressSpace dispatches through the ranges (address_space.rs).  *)
(*                                                                         *)
(* A region is a record; a block is the function of its bytes.  dev.root   *)
(* is the tree, dev.flat the cached view, dev.blocks the contents of the   *)
(* RAM and ROM blocks.                                                     *)
(***************************************************************************)
EXTENDS Integers, Sequences, FiniteSets, SequencesExt
CONSTANTS Space,        \* number of guest physical addresses
          MaxSubs,      \* bound: subregions attached at once
          Sizes         \* access sizes
VARIABLES dev, env

vars == <<dev, env>>

Addrs == 0 .. (Space - 1)
None == [addr |-> 0, size |-> 0, kind |-> "none", name |-> "none", ofs |-> 0]

-----------------------------------------------------------------------------
(* region.rs: constructors, add and remove. *)
Region(name, kind, size) ==
  [name |-> name, kind |-> kind, size |-> size, prio |-> 0, on |-> TRUE,
   subs |-> <<>>, target |-> <<>>, off |-> 0]
Container(name, size, subs) == [Region(name, "container", size) EXCEPT !.subs = subs]
Alias(name, target, off, size) ==
  [Region(name, "alias", size) EXCEPT !.target = <<target>>, !.off = off]
Disabled(r) == [r EXCEPT !.on = FALSE]

\* The subregions a board may attach: overlapping RAM, ROM and devices with
\* and without a priority, a disabled one, an alias into the RAM, an alias
\* window over a container, and a container.
Pair == Container("pair", 4, <<[r |-> Region("rom", "rom", 2), off |-> 0],
                               [r |-> Region("io", "io", 2), off |-> 1]>>)
Menu ==
  {[r |-> Region("ram", "ram", 4), off |-> 0, prio |-> -1],
   [r |-> Region("rom", "rom", 2), off |-> 1, prio |-> -1],
   [r |-> Region("io", "io", 2), off |-> 1, prio |-> 1],
   [r |-> Disabled(Region("io", "io", 3)), off |-> 2, prio |-> 2],
   [r |-> Alias("high", Region("ram", "ram", 4), 1, 2), off |-> 3, prio |-> 1],
   [r |-> Alias("window", Alias("inner", Pair, 1, 3), 0, 2), off |-> 2, prio |-> -1],
   [r |-> Pair, off |-> 2, prio |-> 1]}

AddSubregion(root, m) ==
  [root EXCEPT !.subs = Append(@, [r |-> IF m.prio < 0 THEN m.r ELSE [m.r EXCEPT !.prio = m.prio],
                                   off |-> m.off])]

\* The first child with that offset and name.
Position(root, off, name) ==
  SelectInSeq(root.subs, LAMBDA s : s.off = off /\ s.r.name = name)
RemoveSubregion(root, i) == [root EXCEPT !.subs = RemoveAt(@, i)]

-----------------------------------------------------------------------------
(* flat_view.rs: leaves with absolute addresses, in the order of the walk. *)
MaxOf(a, b) == IF a > b THEN a ELSE b
MinOf(a, b) == IF a < b THEN a ELSE b
Raw(r, base, size, prio, ofs) ==
  [addr |-> base, size |-> size, prio |-> prio, kind |-> r.kind, name |-> r.name, ofs |-> ofs]
Leaf(r) == r.kind \in {"ram", "rom", "io"}

RECURSIVE CollectAlias(_, _, _, _, _)
CollectAlias(t, base, aliasOff, aliasSize, prio) ==
  CASE ~t.on -> <<>>
    [] t.on /\ Leaf(t) -> <<Raw(t, base, aliasSize, prio, aliasOff)>>
    [] t.on /\ t.kind = "alias" ->
         CollectAlias(t.target[1], base, aliasOff + t.off, aliasSize, prio)
    [] t.on /\ t.kind = "container" ->
         LET winEnd == aliasOff + aliasSize
             clipped(s) ==
               LET end == s.off + s.r.size
                   from == MaxOf(s.off, aliasOff)
               IN  IF end <= aliasOff \/ s.off >= winEnd THEN <<>>
                   ELSE CollectAlias(s.r, base + (from - aliasOff), from - s.off,
                                     MinOf(end, winEnd) - from, prio)
         IN  FoldLeft(LAMBDA acc, s : acc \o clipped(s), <<>>, t.subs)

RECURSIVE Collect(_, _, _)
Collect(r, base, inherited) ==
  LET prio == MaxOf(r.prio, inherited)
      own == CASE Leaf(r) -> <<Raw(r, base, r.size, prio, 0)>>
               [] r.kind = "alias" -> CollectAlias(r.target[1], base, r.off, r.size, prio)
               [] r.kind = "container" -> <<>>
  IN  IF ~r.on THEN <<>>
      ELSE FoldLeft(LAMBDA acc, s : acc \o Collect(s.r, base + s.off, prio), own, r.subs)

\* Rust's sort_by is stable.
StableSort(s, Less(_, _)) ==
  LET rank(i) == 1 + Cardinality({j \in DOMAIN s : Less(s[j], s[i])
                                                    \/ (~Less(s[i], s[j]) /\ j < i)})
  IN  [k \in DOMAIN s |-> s[CHOOSE i \in DOMAIN s : rank(i) = k]]

PushFragment(out, raw, start, end) ==
  Append(out, [addr |-> start, size |-> end - start, kind |-> raw.kind, name |-> raw.name,
               ofs |-> raw.ofs + (start - raw.addr)])

\* The parts of raw that no range inserted before it covers.
InsertRange(resolved, raw) ==
  LET end == raw.addr + raw.size
      overlaps == StableSort(SelectSeq(resolved, LAMBDA r : r.addr < end /\ r.addr + r.size > raw.addr),
                             LAMBDA a, b : a.addr < b.addr)
      step(acc, o) ==
        IF acc.cur >= end THEN acc
        ELSE [out |-> IF acc.cur < o.addr
                        THEN PushFragment(acc.out, raw, acc.cur, MinOf(o.addr, end)) ELSE acc.out,
              cur |-> MaxOf(acc.cur, o.addr + o.size)]
      last == FoldLeft(step, [out |-> resolved, cur |-> raw.addr], overlaps)
  IN  IF last.cur < end THEN PushFragment(last.out, raw, last.cur, end) ELSE last.out

\* Insertion in address order only: a later region of higher priority loses.
FromRegion(root) ==
  LET raw == StableSort(Collect(root, 0, 0),
                        LAMBDA a, b : a.prio > b.prio \/ (a.prio = b.prio /\ a.addr < b.addr))
  IN  StableSort(FoldLeft(InsertRange, <<>>, raw), LAMBDA a, b : a.addr < b.addr)

Lookup(flat, a) ==
  LET idx == Cardinality({i \in DOMAIN flat : flat[i].addr <= a})
  IN  IF idx = 0 THEN None
      ELSE IF a < flat[idx].addr + flat[idx].size THEN flat[idx] ELSE None

-----------------------------------------------------------------------------
(* address_space.rs. *)
IsMapped(flat, a, size) ==
  LET fr == Lookup(flat, a) IN fr.kind # "none" /\ a + size <= fr.addr + fr.size

\* The bytes of an access; a device is a block that takes writes too.
ReadBytes(d, a, size) ==
  LET fr == Lookup(d.flat, a)
      at == fr.ofs + (a - fr.addr)
  IN  [i \in 0 .. (size - 1) |->
         IF fr.kind = "none" THEN 0 ELSE d.blocks[fr.name][at + i]]

WriteBytes(d, a, size, v) ==
  LET fr == Lookup(d.flat, a)
      at == fr.ofs + (a - fr.addr)
  IN  IF fr.kind \in {"none", "rom"} THEN d.blocks
      ELSE [d.blocks EXCEPT ![fr.name] =
              [o \in DOMAIN @ |-> IF o \in at .. (at + size - 1) THEN v[o - at] ELSE @[o]]]

-----------------------------------------------------------------------------
Blocks == {"ram", "rom", "io"}
BlockSize == Space
Empty == Container("root", Space, <<>>)

\* AddressSpace::new.
Init ==
  /\ dev = [root |-> Empty, flat |-> FromRegion(Empty),
            blocks |-> [b \in Blocks |-> [o \in 0 .. (BlockSize - 1) |-> 0]]]
  /\ env = [synced |-> TRUE, store |-> <<>>]

\* root_mut().add_subregion*; the caller owes an update_flat_view.
Add ==
  /\ env.store = <<>>
  /\ Len(dev.root.subs) < MaxSubs
  /\ \E m \in Menu : dev' = [dev EXCEPT !.root = AddSubregion(@, m)]
  /\ env' = [env EXCEPT !.synced = FALSE]

UpdateFlatView ==
  /\ ~env.synced
  /\ dev' = [dev EXCEPT !.flat = FromRegion(dev.root)]
  /\ env' = [env EXCEPT !.synced = TRUE]

\* remove_subregion rebuilds the view itself.
Detach ==
  /\ env.store = <<>>
  /\ \E m \in Menu :
       LET i == Position(dev.root, m.off, m.r.name)
       IN  /\ i # 0
           /\ LET root == RemoveSubregion(dev.root, i)
              IN  dev' = [dev EXCEPT !.root = root, !.flat = FromRegion(root)]
  /\ env' = [env EXCEPT !.synced = TRUE]

\* One store by the guest, through the view (a bound: one per behaviour).
Store ==
  /\ env.store = <<>>
  /\ env.synced
  /\ \E a \in Addrs, size \in Sizes :
       /\ IsMapped(dev.flat, a, size)
       /\ dev' = [dev EXCEPT !.blocks = WriteBytes(dev, a, size, [i \in 0 .. (size - 1) |-> 1])]
       /\ env' = [env EXCEPT !.store = <<a, size>>]

Next == Add \/ UpdateFlatView \/ Detach \/ Store

Spec == Init /\ [][Next]_vars

-----------------------------------------------------------------------------
(* The map the tree stands for: who owns an address. *)
RECURSIVE Covers(_, _, _, _)
\* The leaves of r, seen at base through the window [lo, hi), that cover a,
\* each with its priority, the start of its visible part and its path.
Covers(r, base, lo, hi) ==
  IF ~r.on THEN {}
  ELSE CASE Leaf(r) -> {[name |-> r.name, kind |-> r.kind, start |-> MaxOf(base, lo),
                         end |-> MinOf(base + r.size, hi), ofs |-> 0 - base, path |-> <<>>]}
         [] r.kind = "alias" -> Covers(r.target[1], base - r.off, MaxOf(lo, base), MinOf(hi, base + r.size))
         [] r.kind = "container" ->
              UNION {{[c EXCEPT !.path = <<i>> \o @] :
                        c \in Covers(r.subs[i].r, base + r.subs[i].off, lo, hi)} :
                     i \in DOMAIN r.subs}

\* A subregion's priority is its own; containers in the menu have none.
Claims(root, a) ==
  {c \in UNION {{[c EXCEPT !.path = <<i>> \o @] @@ [prio |-> MaxOf(0, root.subs[i].r.prio)] :
                   c \in Covers(root.subs[i].r, root.subs[i].off, 0, Space)} :
                i \in DOMAIN root.subs} :
     c.start <= a /\ a < c.end}

Earlier(p, q) ==
  \E k \in 1 .. MinOf(Len(p), Len(q)) : p[k] < q[k] /\ \A j \in 1 .. (k - 1) : p[j] = q[j]
Beats(c, d) ==
  \/ c.prio > d.prio
  \/ c.prio = d.prio /\ c.start < d.start
  \/ c.prio = d.prio /\ c.start = d.start /\ Earlier(c.path, d.path)
Owner(root, a) ==
  LET cs == Claims(root, a)
  IN  IF cs = {} THEN <<"none", 0>>
      ELSE LET c == CHOOSE c \in cs : \A d \in cs \ {c} : Beats(c, d)
           IN  <<c.name, c.ofs + a>>

Found(flat, a) ==
  LET fr == Lookup(flat, a)
  IN  IF fr.kind = "none" THEN <<"none", 0>> ELSE <<fr.name, fr.ofs + (a - fr.addr)>>

\* After FlatView::from_region every address resolves to the byte of the
\* enabled leaf of highest priority over it (then lowest start, then first
\* attached), through any nesting of aliases and containers, and reads it.
LookupFindsOwner ==
  env.synced =>
    \A a \in Addrs :
      LET o == Owner(dev.root, a)
      IN  /\ Found(dev.flat, a) = o
          /\ ReadBytes(dev, a, 1)[0] = IF o[1] = "none" THEN 0 ELSE dev.blocks[o[1]][o[2]]

\* A store that is_mapped accepts changes the bytes the tree gives to the addresses it names, all of them and no
\* other, through aliases and overlaps; a ROM keeps its bytes, and no other step changes a block.
MappedStoreExact ==
  LET stored == IF env.store = <<>> /\ env'.store # <<>>
                  THEN {Owner(dev.root, env'.store[1] + i) : i \in 0 .. (env'.store[2] - 1)} ELSE {}
  IN  \A b \in Blocks : \A o \in 0 .. (BlockSize - 1) :
        dev'.blocks[b][o] = IF b # "rom" /\ <<b, o>> \in stored THEN 1 ELSE dev.blocks[b][o]
=============================================================================
