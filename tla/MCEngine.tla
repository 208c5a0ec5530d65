------------------------------ MODULE MCEngine ------------------------------
(* The translation engine's passes on small blocks, and the memory access    *)
(* path.                                                                     *)
EXTENDS Integers, Sequences

VARIABLES part,         \* which component this behaviour is about
          dev, env      \* its state and its surroundings

vars == <<part, dev, env>>

IrOptimize == INSTANCE IrOptimize WITH
  W <- 1, Globals <- {"g", "h"}, Ebbs <- {"t"}, Consts <- {0, 3},
  Values <- {0, 3}, BinaryOps <- {"And", "Xor"}, UnaryOps <- {"ExtI32I64"},
  Types <- {"I64"}, MovTo <- {"g", "h", "t"}
Fold == INSTANCE IrOptimize WITH
  W <- 2, Globals <- {"g"}, Ebbs <- {"t"}, Consts <- {0, 1, 8, 15},
  Values <- {0, 1, 15},
  BinaryOps <- {"Add", "Sub", "Mul", "And", "Or", "Xor", "AndC", "Shl", "Shr", "Sar", "RotL", "RotR"},
  UnaryOps <- {"Neg", "Not", "ExtI32I64", "ExtUI32I64", "ExtrlI64I32", "ExtrhI64I32"},
  Types <- {"I32", "I64"}, MovTo <- {"g"}
RegAlloc == INSTANCE RegAlloc WITH
  AllocGlobals <- {"g"}, Ebbs <- {"s", "t"}, Order <- <<"ax", "cx", "dx">>,
  Ops <- {"Sub", "Shl", "SetCond", "ExtI32I64", "QemuLd"},
  Squares <- FALSE, LiveGlobals <- {"g"}, Locals <- {"t"}, MaxOps <- 3
Calls == INSTANCE RegAlloc WITH
  AllocGlobals <- {"g", "h"}, Ebbs <- {"s"}, Order <- <<"ax", "cx", "dx">>,
  Ops <- {"Shl"}, Squares <- FALSE, LiveGlobals <- {"g"}, Locals <- {"t"},
  MaxOps <- 3
SoftMmuPath == INSTANCE SoftMmuPath WITH
  Page <- 2, Frames <- <<2, 3, 4, 0>>, Ram <- 3, Code <- {}, Entries <- 2,
  Operands <- {"rax", "r10", "r11", "rcx"} \X {"rax", "r10", "r11", "rcx"},
  MemOps <- {<<1, TRUE>>, <<2, FALSE>>}
DirtyPath == INSTANCE SoftMmuPath WITH
  Page <- 2, Frames <- <<2, 4, 1, 3>>, Ram <- 3, Code <- {2}, Entries <- 2,
  Operands <- {<<"rcx", "r10">>}, MemOps <- {<<1, TRUE>>, <<2, TRUE>>}

Init ==
  \/ part = "optimize" /\ IrOptimize!Init
  \/ part = "fold" /\ Fold!Init
  \/ part = "regalloc" /\ RegAlloc!AllocInit
  \/ part = "calls" /\ Calls!AllocInit
  \/ part = "liveness" /\ RegAlloc!LiveInit
  \/ part = "softmmu_path" /\ SoftMmuPath!Init
  \/ part = "dirty_pages" /\ DirtyPath!Init

Next ==
  /\ UNCHANGED part
  /\ \/ part = "optimize" /\ IrOptimize!Next
     \/ part = "fold" /\ Fold!Next
     \/ part = "regalloc" /\ RegAlloc!AllocNext
     \/ part = "calls" /\ Calls!AllocNext
     \/ part = "liveness" /\ RegAlloc!LiveNext
     \/ part = "softmmu_path" /\ SoftMmuPath!Next
     \/ part = "dirty_pages" /\ DirtyPath!Next

Spec == Init /\ [][Next]_vars
-----------------------------------------------------------------------------
\* The optimizer's output computes what the translator asked for, as long as
\* the block does not read a stale copy (below).
\* - Constants and copies the optimizer records are true until an operation
\*   reads a copy whose source was rewritten, which set_const() and
\*   set_copy() do not drop (optimize.rs:226).
\* - Optimized code computes what the translator asked for, up to the first
\*   such read.
\* - Constant folding computes what the host instruction would.
SameProgram ==
  /\ part = "optimize" => IrOptimize!KnowledgeHolds
  /\ part = "optimize" => IrOptimize!SameProgram
  /\ part = "fold" => Fold!SameProgram

\* Liveness marks a value dead at its last use, an emitted instruction finds
\* each operand where the allocator put it, and a memory access reads and
\* writes what it should and leaves every other register alone; two cases of
\* the access path are excepted below.
\* - An argument is marked dead exactly at the last use of its value.
\* - Every emitted instruction finds its operands in its registers.
\* - A temporary is where the register allocator believes it is.
\* - The arguments of a call reach their registers although they overlap.
\* - A memory access, in line or by its helper, disturbs no register but its
\*   result and reads or writes what the page table maps, but for a crossing
\*   into a page that does not follow the first in memory (cpus.rs:1216).
\* - A page of code that was stored to is collected at the next way out of
\*   the block, unless a refill took its dirty TLB entry.
OperandsInPlace ==
  /\ part = "liveness" => RegAlloc!DeadIffUnneeded
  /\ part = "regalloc" => RegAlloc!OperandsInPlace
  /\ part = "regalloc" => RegAlloc!Located
  /\ part = "calls" => Calls!OperandsInPlace
  /\ part = "softmmu_path" => SoftMmuPath!AccessRight
  /\ part = "dirty_pages" => DirtyPath!StoresLeaveDirty
=============================================================================
