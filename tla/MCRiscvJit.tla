----------------------------- MODULE MCRiscvJit -----------------------------
(***************************************************************************)
(* Small instances of RiscvJit: two blocks on two virtual pages that jump  *)
(* to each other, for guests of different habits, with a TLB that is too   *)
(* small for both pages or not.                                            *)
(***************************************************************************)
EXTENDS RiscvJit

TwoPcs == {1, 2}
OtherPc == [v \in TwoPcs |-> [s \in {0, 1} |-> 3 - v]]
NextPage == [v \in TwoPcs |-> 3 - v]
PageSymmetry == Permutations(Pages)

Shared == [v \in TwoPcs |-> 0]
Separate == [v \in TwoPcs |-> v]
AnyMap == [TwoPcs -> Pages]
OneMap == {f \in AnyMap : f[1] # f[2]}
Guest(ops, maps, entry, cross, maxGen) ==
    [ops |-> ops, maps |-> maps, entry |-> entry, cross |-> cross,
     maxGen |-> maxGen]

\* Code that patches code, at its worst.
Patcher == Guest({"store", "helperTrap"}, OneMap, Shared, {1}, 3)
\* Code that patches code, without what the drain misses.
PlainPatcher == Guest({"store", "load"}, OneMap, Separate, {}, 2)
\* Kernels that change their page tables.
Fencing == Guest({"load", "fault", "sfence"}, AnyMap, Separate, {}, 3)
Switching(maps) == Guest({"load", "satp"}, maps, Separate, {}, 2)

AllGuests == {Patcher, PlainPatcher, Fencing, Switching(OneMap)}
Conflicting == {Guest({"store"}, OneMap, Shared, {}, 2)}
SwitchingOnly == {Switching(AnyMap)}
=============================================================================
