------------------------------ MODULE AtomicTb ------------------------------
(***************************************************************************)
(* Guest atomics of several vCPUs: the lock the execution loop takes       *)
(* around a translation block that contains an atomic instruction          *)
(* (accel/src/exec/exec_loop.rs, AtomicTbLock of exec/mod.rs), the direct  *)
(* jumps that chain one block to the next without the loop, and the        *)
(* atomics themselves: inline load and store on LoongArch                  *)
(* (guest/loongarch .. trans/mod.rs, helpers.rs), helpers under a mutex on *)
(* RISC-V (system/src/cpus.rs).                                            *)
(*                                                                         *)
(* vCPU 1 adds 1 to a shared word with an AMO, vCPU 2 with LL/SC, again    *)
(* and again, a plain block in between.  dev.mem is the word, env.done how *)
(* many additions have completed.                                          *)
(***************************************************************************)
EXTENDS Integers, FiniteSets
CONSTANT MaxDone,      \* bound: completed additions
         MaxFaults     \* bound: page faults in an atomic
VARIABLES dev, env

vars == <<dev, env>>

Cpus == {1, 2}
Tbs == {"plain", "amo", "ll", "sc"}
ContainsAtomic(tb) == tb # "plain"

\* Where the guest program goes after a block.
First(c) == IF c = 1 THEN "amo" ELSE "ll"
Succ(c, tb, ok) ==
  CASE tb = "plain" -> First(c)
    [] tb = "amo" -> "plain"
    [] tb = "ll" -> "sc"
    [] tb = "sc" -> IF ok THEN "plain" ELSE "ll"

Cpu0(c) == [at |-> "loop", tb |-> "plain", tmp |-> 0, llbit |-> FALSE, resval |-> 0, ok |-> FALSE]
Init ==
  /\ dev = [lock |-> FALSE, held |-> [c \in Cpus |-> FALSE], mutex |-> 0,
            chain |-> {}, mem |-> 0, cpu |-> [c \in Cpus |-> Cpu0(c)]]
  /\ \E isa \in {"riscv", "loongarch"} :
       env = [isa |-> isa, done |-> 0, faults |-> 0, unlocked |-> FALSE]

\* Entering a block: its first step.
Enter(d, c, tb) == [d EXCEPT !.cpu[c].tb = tb, !.cpu[c].at = tb]

-----------------------------------------------------------------------------
(* The execution loop. *)

\* tb_find and, for an atomic block, the spin on the lock.
Dispatch(c) ==
  /\ dev.cpu[c].at = "loop"
  /\ dev' = IF ContainsAtomic(dev.cpu[c].tb) THEN [dev EXCEPT !.cpu[c].at = "spin"]
            ELSE Enter(dev, c, dev.cpu[c].tb)
  /\ UNCHANGED env

Locked(d, c) == [d EXCEPT !.lock = TRUE, !.held[c] = TRUE]
LockAcquire(c) ==
  /\ dev.cpu[c].at = "spin"
  /\ ~dev.lock
  /\ dev' = Enter(Locked(dev, c), c, dev.cpu[c].tb)
  /\ UNCHANGED env

\* atomic_lock_held = false; drop(atomic_guard).
Unlocked(d, c) ==
  IF d.held[c] THEN [d EXCEPT !.held[c] = FALSE, !.lock = FALSE] ELSE d

\* The setjmp return: the guard's destructor was skipped.
AfterLongjmpKeep(d, c) == [d EXCEPT !.cpu[c].at = "loop"]
AfterLongjmp(d, c) == [Unlocked(d, c) EXCEPT !.cpu[c].at = "loop"]

\* The end of a block: a patched jump goes straight to the next one.
Chained(c) ==
  LET d == dev.cpu[c]
      dst == Succ(c, d.tb, d.ok)
  IN  /\ d.at = "end"
      /\ <<d.tb, dst>> \in dev.chain
      /\ dev' = Enter(dev, c, dst)
      /\ env' = [env EXCEPT !.unlocked = @ \/ (ContainsAtomic(dst) /\ ~dev.held[c])]

\* No jump yet, or an exit request is set: back to the loop, which patches the
\* jump and takes the next block.
TbAddJump(d, src, dst) == [d EXCEPT !.chain = @ \cup {<<src, dst>>}]
Leave(c) ==
  LET d == dev.cpu[c]
      dst == Succ(c, d.tb, d.ok)
  IN  /\ d.at = "end"
      /\ dev' = [TbAddJump(Unlocked(dev, c), d.tb, dst) EXCEPT !.cpu[c].at = "loop",
                                                               !.cpu[c].tb = dst]
      /\ UNCHANGED env

-----------------------------------------------------------------------------
(* The blocks. *)
Finish(d, c) == [d EXCEPT !.cpu[c].at = "end", !.cpu[c].tmp = 0]
Plain(c) ==
  /\ dev.cpu[c].at = "plain"
  /\ dev' = Finish(dev, c)
  /\ UNCHANGED env

\* LoongArch amadd: a load and a store of the translated code.
InlineAmoLoad(c) ==
  /\ env.isa = "loongarch" /\ dev.cpu[c].at = "amo" /\ env.done < MaxDone
  /\ dev' = [dev EXCEPT !.cpu[c].tmp = dev.mem, !.cpu[c].at = "amo_st"]
  /\ UNCHANGED env
InlineAmoStore(c) ==
  /\ env.isa = "loongarch" /\ dev.cpu[c].at = "amo_st"
  /\ dev' = Finish([dev EXCEPT !.mem = dev.cpu[c].tmp + 1], c)
  /\ env' = [env EXCEPT !.done = @ + 1]

\* RISC-V machina_amo_op: the same under the mutex.
AmoLock(d, c) == [d EXCEPT !.mutex = c]
AmoHelperLock(c) ==
  /\ env.isa = "riscv" /\ dev.cpu[c].at = "amo" /\ dev.mutex = 0 /\ env.done < MaxDone
  /\ dev' = [AmoLock(dev, c) EXCEPT !.cpu[c].tmp = dev.mem, !.cpu[c].at = "amo_wr"]
  /\ UNCHANGED env
AmoHelperStore(c) ==
  /\ env.isa = "riscv" /\ dev.cpu[c].at = "amo_wr"
  /\ dev' = Finish([dev EXCEPT !.mem = dev.cpu[c].tmp + 1, !.mutex = 0], c)
  /\ env' = [env EXCEPT !.done = @ + 1]

\* ll.w, machina_lr_op: the value and the reservation.
LoadReserved(c) ==
  /\ dev.cpu[c].at = "ll" /\ env.done < MaxDone
  /\ env.isa = "riscv" => dev.mutex = 0
  /\ dev' = Finish([dev EXCEPT !.cpu[c].llbit = TRUE, !.cpu[c].resval = dev.mem], c)
  /\ UNCHANGED env

\* sc.w, machina_sc_op: the word must still hold the value read.
ScCheck(d, c) == d.cpu[c].llbit /\ d.mem = d.cpu[c].resval
ScTest(c) ==
  /\ dev.cpu[c].at = "sc"
  /\ env.isa = "riscv" => dev.mutex = 0
  /\ dev' = IF ScCheck(dev, c)
              THEN [dev EXCEPT !.cpu[c].at = "sc_wr", !.cpu[c].llbit = FALSE,
                               !.mutex = IF env.isa = "riscv" THEN c ELSE @]
              ELSE Finish([dev EXCEPT !.cpu[c].llbit = FALSE, !.cpu[c].ok = FALSE,
                                      !.cpu[c].resval = 0], c)
  /\ UNCHANGED env
ScWrite(c) ==
  /\ dev.cpu[c].at = "sc_wr"
  /\ dev' = Finish([dev EXCEPT !.mem = dev.cpu[c].resval + 1, !.cpu[c].ok = TRUE,
                               !.cpu[c].resval = 0, !.mutex = IF env.isa = "riscv" THEN 0 ELSE @], c)
  /\ env' = [env EXCEPT !.done = @ + 1]

\* A page fault before the access: RISC-V helpers leave by longjmp, LoongArch
\* code by the fault exit of the block; the handler runs, the access again.
Fault(c) ==
  /\ dev.cpu[c].at \in {"amo", "ll", "sc"}
  /\ env.faults < MaxFaults
  /\ LET d == [dev EXCEPT !.cpu[c].llbit = IF env.isa = "riscv" THEN FALSE ELSE @,
                          !.cpu[c].tb = "plain"]
     IN  dev' = IF env.isa = "riscv" THEN AfterLongjmp(d, c)
                ELSE [Unlocked(d, c) EXCEPT !.cpu[c].at = "loop"]
  /\ env' = [env EXCEPT !.faults = @ + 1]

Step(c) ==
  \/ Dispatch(c) \/ LockAcquire(c) \/ Chained(c) \/ Leave(c) \/ Plain(c)
  \/ InlineAmoLoad(c) \/ InlineAmoStore(c) \/ AmoHelperLock(c) \/ AmoHelperStore(c)
  \/ LoadReserved(c) \/ ScTest(c) \/ ScWrite(c) \/ Fault(c)
Next == \E c \in Cpus : Step(c)

Spec == Init /\ [][Next]_vars

-----------------------------------------------------------------------------
InBlock(c) == dev.cpu[c].at \notin {"loop", "spin"}
InAtomic(c) == InBlock(c) /\ ContainsAtomic(dev.cpu[c].tb)

\* The block lock has at most one holder, is taken exactly while its holder
\* is in translated code, and no fault, longjmp or chained exit leaves it
\* taken: a vCPU in the loop never holds it.
LockNotLeaked ==
  /\ dev.lock = (\E c \in Cpus : dev.held[c])
  /\ Cardinality({c \in Cpus : dev.held[c]}) <= 1
  /\ \A c \in Cpus : dev.held[c] => InBlock(c)

\* On RISC-V no completed AMO or store-conditional is lost, whether its block
\* was entered from the loop or by a chained jump.
RiscvNoLostUpdate == env.isa = "riscv" => dev.mem = env.done

\* On LoongArch an update is lost only after a chained jump entered an atomic
\* block without the lock.
InlineLostOnlyUnlocked == dev.mem # env.done => env.unlocked

\* Translated atomic blocks are serialized: two vCPUs are never inside atomic
\* blocks at once (the purpose stated for AtomicTbLock).
AtomicTbsSerialized == \A c, e \in Cpus : InAtomic(c) /\ InAtomic(e) => c = e
=============================================================================
