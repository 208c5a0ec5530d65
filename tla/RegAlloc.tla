------------------------------ MODULE RegAlloc ------------------------------
(* Liveness analysis (accel/src/liveness.rs) and the register allocation     *)
(* that relies on it (accel/src/regalloc.rs).  Each is a specification of    *)
(* its own, over the same two variables.                                     *)
EXTENDS Naturals, Sequences

VARIABLES dev,     \* the device
          env      \* its surroundings

vars == <<dev, env>>

-----------------------------------------------------------------------------
(***************************************************************************)
(* Liveness analysis (accel/src/liveness.rs): one backward walk over the   *)
(* operations of a block marks each argument that is not used again, and   *)
(* each global among them to be written back.  dev.ops grows by one        *)
(* operation a step, so every block of up to MaxOps operations is met.     *)
(***************************************************************************)
CONSTANTS LiveGlobals, Locals, MaxOps

LiveTemps == LiveGlobals \union Locals

\* An operation: its outputs and inputs, and whether it ends a basic block.
Op(o, i, e) == [outs |-> o, ins |-> i, bb_end |-> e]

(* live[n]: temp_state when the walk has passed operation n, going down. *)

AtBbEnd(op, live) == IF op.bb_end THEN live \union LiveGlobals ELSE live

AfterOutputs(op, live) == live \ { op.outs[i] : i \in DOMAIN op.outs }

LiveBefore(op, live) ==
  AfterOutputs(op, AtBbEnd(op, live)) \union { op.ins[i] : i \in DOMAIN op.ins }

LiveAfter(ops) ==
  LET n == Len(ops)
      f[k \in 0..n] == IF k = 0 THEN LiveGlobals ELSE LiveBefore(ops[n + 1 - k], f[k - 1])
  IN  [j \in 1..n |-> f[n - j]]

\* LifeData: the dead outputs and inputs, and the inputs to be synchronised.
LifeOf(ops) ==
  LET after == LiveAfter(ops)
      live(j) == AtBbEnd(ops[j], after[j])
      mid(j) == AfterOutputs(ops[j], live(j))
      first(j, i) == \A k \in 1..(i - 1) : ops[j].ins[k] # ops[j].ins[i]
  IN  [j \in 1..Len(ops) |->
         [dead_out |-> { i \in DOMAIN ops[j].outs : ops[j].outs[i] \notin live(j) },
          dead_in  |-> { i \in DOMAIN ops[j].ins : ops[j].ins[i] \notin mid(j) /\ first(j, i) },
          sync     |-> { i \in DOMAIN ops[j].ins : /\ ops[j].ins[i] \notin mid(j) /\ first(j, i)
                                                   /\ ops[j].ins[i] \in LiveGlobals }]]

LiveInit == dev = [ops |-> <<>>] /\ env = "translating"

Emit ==
  /\ Len(dev.ops) < MaxOps
  /\ \E o \in { <<x>> : x \in LiveTemps } \union {<<>>}, i \in { <<x, y>> : x, y \in LiveTemps }, e \in BOOLEAN :
       /\ e => o = <<>>
       /\ dev' = [ops |-> Append(dev.ops, Op(o, i, e))]
  /\ UNCHANGED env

NextBlock ==
  /\ Len(dev.ops) = MaxOps
  /\ dev' = [ops |-> <<>>]
  /\ UNCHANGED env

LiveNext == Emit \/ NextBlock


-----------------------------------------------------------------------------
\* The value x has after operation j is looked at later: an operation reads
\* it before one writes it, or it is a global that reaches a block end.
Needed(ops, j, x) ==
  \E k \in (j + 1)..(Len(ops) + 1) :
    /\ \A m \in (j + 1)..(k - 1) : x \notin { ops[m].outs[i] : i \in DOMAIN ops[m].outs }
    /\ \/ k = Len(ops) + 1 /\ x \in LiveGlobals
       \/ k <= Len(ops) /\ x \in { ops[k].ins[i] : i \in DOMAIN ops[k].ins }
       \/ k <= Len(ops) /\ ops[k].bb_end /\ x \in LiveGlobals

\* An argument is marked dead exactly when the value it names is never looked
\* at again; an input that is also written by its operation dies there.
DeadIffUnneeded ==
  LET life == LifeOf(dev.ops)
      ops == dev.ops
      gone(j, x) == \/ x \in { ops[j].outs[i] : i \in DOMAIN ops[j].outs }
                    \/ ~Needed(ops, j, x) /\ ~(ops[j].bb_end /\ x \in LiveGlobals)
  IN  \A j \in 1..Len(ops) :
        /\ \A i \in DOMAIN ops[j].outs :
             i \in life[j].dead_out <=> ~Needed(ops, j, ops[j].outs[i])
        /\ \A i \in DOMAIN ops[j].ins :
             (\E k \in life[j].dead_in : ops[j].ins[k] = ops[j].ins[i]) <=> gone(j, ops[j].ins[i])
        /\ \A i \in life[j].dead_in : ops[j].ins[i] \in LiveGlobals => i \in life[j].sync

-----------------------------------------------------------------------------
(***************************************************************************)
(* The register allocator of accel/src/regalloc.rs with the constraints of *)
(* accel/src/constraint.rs and x86_64/constraints.rs.  It walks the        *)
(* operations of a block once, forward, and emits host code as it goes, so *)
(* the model runs the emitted code in the same step.                       *)
(*                                                                         *)
(* Values are abstracted to where they came from: a host location holds    *)
(* the set of temporaries whose current value it is.  A write of t takes t *)
(* out of every other location, a copy joins two.  dev.t is ctx.temps,     *)
(* dev.r2t and dev.free RegAllocState; R, M and F are the contents of the  *)
(* host registers, of the globals' home memory and of the stack frame;     *)
(* ok turns FALSE when an instruction reads a register that does not hold  *)
(* its operand.  Order lists the allocatable registers by number, a few of *)
(* the thirteen; the arguments of a call go to dx and cx.                  *)
(***************************************************************************)
CONSTANTS AllocGlobals, Ebbs, Order, Ops, Squares


None == "none"
Env == "env"                     \* the fixed temporary, at home in bp
Const == "k"                     \* a constant temporary
AllocTemps == AllocGlobals \union Ebbs \union {Env, Const}
Allocatable == { Order[i] : i \in DOMAIN Order }
CallerSaved == {"ax", "cx", "dx"}
Host == Allocatable \union {"bp"}
Scratch == "r11"

\* RegSet::first: the lowest numbered register of a set.
First(S) == Order[CHOOSE i \in DOMAIN Order :
                    Order[i] \in S /\ \A j \in 1..(i - 1) : Order[j] \notin S]

IsGlobalOrFixed(x) == x \in AllocGlobals \union {Env}

-----------------------------------------------------------------------------
(* Constraints: inputs, then outputs. *)

R(regs) == [regs |-> regs, alias |-> FALSE, new |-> FALSE]
Alias(regs) == [regs |-> regs, alias |-> TRUE, new |-> FALSE]
New(regs) == [regs |-> regs, alias |-> FALSE, new |-> TRUE]

\* The shapes of operations; an output that is an alias takes the register
\* of input 1.
O1I1(o, i) == [o |-> <<R(o)>>, i |-> <<R(i)>>]
O1I2(o, i, j) == [o |-> <<R(o)>>, i |-> <<R(i), R(j)>>]
O1I1Alias(o) == [o |-> <<Alias(o)>>, i |-> <<Alias(o)>>]
O1I2Alias(o, j) == [o |-> <<Alias(o)>>, i |-> <<Alias(o), R(j)>>]
O1I2AliasFixedAnywhere(o, reg) ==
  [o |-> <<Alias(o \union {reg})>>, i |-> <<Alias(o \union {reg}), R({reg})>>]
O1I2AliasFixed(o, reg) == [o |-> <<Alias(o)>>, i |-> <<Alias(o), R({reg})>>]
O0I2(i, j) == [o |-> <<>>, i |-> <<R(i), R(j)>>]
N1I2(o, i, j) == [o |-> <<New(o)>>, i |-> <<R(i), R(j)>>]
O2I2Fixed(o0, o1, j) == [o |-> <<Alias({o0}), R({o1})>>, i |-> <<Alias({o0}), R(j)>>]

OpConstraint(opc) ==
  LET A == Allocatable
  IN  CASE opc \in {"Add", "AndC"}      -> O1I2(A, A, A)
        [] opc = "Sub"                  -> O1I2Alias(A, A)
        [] opc = "Neg"                  -> O1I1Alias(A)
        [] opc = "Shl"                  -> O1I2AliasFixed(A \ {"cx"}, "cx")
        [] opc = "SetCond"              -> N1I2(A, A, A)
        [] opc = "MulS2"                -> O2I2Fixed("ax", "dx", A \ {"ax", "dx"})
        [] opc \in {"ExtI32I64", "ExtUI32I64", "Ld", "QemuLd"} -> O1I1(A, A)
        [] opc \in {"QemuSt", "BrCond"} -> O0I2(A, A)

CallClobber(opc) == opc \in {"QemuLd", "QemuSt"}

-----------------------------------------------------------------------------
(* RegAllocState. *)

FreeReg(d, reg) ==
  [d EXCEPT !.r2t[reg] = None,
            !.free = IF reg \in Allocatable THEN @ \union {reg} ELSE @]
Assign(d, reg, x) == [d EXCEPT !.r2t[reg] = x, !.free = @ \ {reg}]

InReg(d, x, reg) == [d EXCEPT !.t[x].vt = "Reg", !.t[x].reg = reg]
InMem(d, x) == [d EXCEPT !.t[x].vt = "Mem", !.t[x].reg = None, !.t[x].coh = TRUE]

\* The emitted moves, loads and stores.
OutMov(d, dst, src) == [d EXCEPT !.R[dst] = d.R[src]]
OutSt(d, x, reg) == IF x \in AllocGlobals THEN [d EXCEPT !.M[x] = d.R[reg]]
                                     ELSE [d EXCEPT !.F[x] = d.R[reg]]
OutLd(d, x, reg) == [d EXCEPT !.R[reg] = IF x \in AllocGlobals THEN d.M[x] ELSE d.F[x]]

TempSync(d, x) ==
  IF d.t[x].coh \/ d.t[x].reg = None THEN d
  ELSE IF x \in AllocGlobals \/ d.t[x].alloc THEN OutSt(d, x, d.t[x].reg) ELSE d

EvictReg(d, reg) ==
  LET x == d.r2t[reg]
  IN  IF x = None THEN d
      ELSE IF IsGlobalOrFixed(x)
        THEN FreeReg(InMem(TempSync(d, x), x), reg)
        ELSE InMem(FreeReg(OutSt([d EXCEPT !.t[x].alloc = TRUE], x, reg), reg), x)

\* A register of required not in forbidden: a free one, else one evicted.
Pick(free, required, cand) ==
  IF cand \intersect free # {} THEN First(cand \intersect free)
  ELSE First(IF cand # {} THEN cand ELSE required \intersect Allocatable)
Vacate(d, reg, cand) ==
  [reg |-> reg, d |-> IF reg \in cand \intersect d.free THEN d ELSE EvictReg(d, reg)]
RegAlloc(d, required, forbidden) ==
  LET cand == (required \intersect Allocatable) \ forbidden
  IN  Vacate(d, Pick(d.free, required, cand), cand)

\* x in the register just allocated: from its old one, a constant, or memory.
LoadInto(a, d, x) ==
  LET taken == InReg(Assign(a.d, a.reg, x), x, a.reg)
  IN  CASE d.t[x].vt = "Reg"
             -> InReg(Assign(FreeReg(OutMov(a.d, a.reg, d.t[x].reg), d.t[x].reg), a.reg, x), x, a.reg)
        [] d.t[x].vt = "Const" -> [taken EXCEPT !.R[a.reg] = {x}]
        [] d.t[x].vt = "Mem" /\ (x \in AllocGlobals \/ d.t[x].alloc)
             -> [OutLd(taken, x, a.reg) EXCEPT !.t[x].coh = TRUE]
        [] d.t[x].vt = "Mem" /\ ~(x \in AllocGlobals \/ d.t[x].alloc)
             -> [taken EXCEPT !.t[x].coh = TRUE]
Loaded(a, d, x) == [reg |-> a.reg, d |-> LoadInto(a, d, x)]

TempLoadTo(d, x, required, forbidden) ==
  LET e == d.t[x]
  IN  CASE e.vt = "Reg" /\ e.reg \in required \ forbidden -> [reg |-> e.reg, d |-> d]
        [] e.vt = "Dead" -> [reg |-> None, d |-> [d EXCEPT !.ok = FALSE]]
        [] OTHER -> Loaded(RegAlloc(d, required, forbidden), d, x)

SyncGlobals(d) ==
  LET dirty == { x \in AllocGlobals : d.t[x].vt = "Reg" /\ ~d.t[x].coh }
  IN  [d EXCEPT !.M = [x \in AllocGlobals |-> IF x \in dirty THEN d.R[d.t[x].reg] ELSE @[x]],
                !.t = [x \in AllocTemps |-> IF x \in dirty THEN [@[x] EXCEPT !.coh = TRUE] ELSE @[x]]]

\* A dead local: its slot is that of the next temporary from now on.
Dead == [vt |-> "Dead", reg |-> None, coh |-> FALSE, alloc |-> FALSE]
Forget(C, x) == [l \in DOMAIN C |-> C[l] \ {x}]
ForgetAll(d, x) == [d EXCEPT !.R = Forget(@, x), !.M = Forget(@, x), !.F = Forget(@, x)]

TempDead(d, x) ==
  IF IsGlobalOrFixed(x) THEN d
  ELSE LET f == IF d.t[x].reg # None THEN FreeReg(d, d.t[x].reg) ELSE d
       IN  ForgetAll([f EXCEPT !.t[x] = Dead], x)

TempDeadInput(d, x) ==
  IF IsGlobalOrFixed(x) THEN d
  ELSE LET reg == d.t[x].reg
           f == IF reg # None /\ d.r2t[reg] = x THEN FreeReg(d, reg) ELSE d
       IN  ForgetAll([f EXCEPT !.t[x] = Dead], x)

\* The temporaries in S (globals) fall back to memory.
ClobberCallerSaved(d, out) ==
  LET regs == { reg \in CallerSaved :
                  d.r2t[reg] # None /\ d.r2t[reg] # out /\ IsGlobalOrFixed(d.r2t[reg]) }
      xs == { d.r2t[reg] : reg \in regs }
  IN  [d EXCEPT !.t = [x \in AllocTemps |-> IF x \in xs THEN [@[x] EXCEPT !.vt = "Mem", !.reg = None, !.coh = TRUE]
                                       ELSE @[x]],
                !.r2t = [reg \in Host |-> IF reg \in regs THEN None ELSE @[reg]],
                !.free = @ \union regs]

\* A label: nothing but the fixed temporary stays in a register.
BbBoundary(d) ==
  LET freed == { d.t[x].reg : x \in AllocTemps \ {Env} } \ {None}
  IN  [d EXCEPT
         !.r2t = [reg \in Host |-> IF reg \in freed THEN None ELSE @[reg]],
         !.free = @ \union (freed \intersect Allocatable),
         !.t = [x \in AllocTemps |->
                  CASE x \in AllocGlobals -> [@[x] EXCEPT !.vt = "Mem", !.reg = None, !.coh = TRUE]
                    [] x = Const     -> [@[x] EXCEPT !.vt = "Const", !.reg = None]
                    [] x \in Ebbs    -> Dead
                    [] OTHER         -> @[x]],
         !.R = [reg \in Host \union {Scratch} |-> @[reg] \ Ebbs],
         !.M = [x \in AllocGlobals |-> @[x] \ Ebbs],
         !.F = [x \in Ebbs \union {Const} |-> @[x] \ Ebbs]]

-----------------------------------------------------------------------------
(* One operation. *)

\* The instructions of the backend: every operand register holds its operand,
\* the destructive ones write where they read, the count of a shift is in cx,
\* a wide multiplication reads ax and writes dx:ax whatever was allocated;
\* ExtUI32I64 emits nothing when the registers are the same.
Emitted(d, opc, args, ir, or) ==
  LET reads(n) == args[n] \in d.R[ir[n]]
  IN  CASE opc \in {"Sub", "Neg", "Shl"} ->
             /\ args[1] \in d.R[or[1]]
             /\ opc = "Sub" => reads(2)
             /\ opc = "Shl" => args[2] \in d.R["cx"]
        [] opc = "MulS2" -> args[1] \in d.R["ax"] /\ reads(2)
        [] opc = "ExtUI32I64" -> reads(1) /\ or[1] # ir[1]
        [] OTHER -> \A n \in DOMAIN args : reads(n)

\* The value of dst is new, and in reg.
Defines(d, dst, reg) ==
  LET f == ForgetAll(d, dst) IN [f EXCEPT !.R[reg] = {dst}]

\* The output: an alias takes its input's register, copied away when the
\* input lives on.
CopyAway(copy, src, reg) ==
  [reg |-> reg,
   d |-> [Assign(OutMov(copy.d, copy.reg, reg), copy.reg, src) EXCEPT !.t[src].reg = copy.reg]]
GiveTo(got, dst) ==
  [reg |-> got.reg,
   d |-> [InReg(Assign(got.d, got.reg, dst), dst, got.reg) EXCEPT !.t[dst].coh = FALSE]]
AllocOutput(d, c, dst, src, ir, reusable, inputs, outputs) ==
  GiveTo(CASE c.alias /\ reusable -> [reg |-> ir[1], d |-> d]
           [] c.alias /\ ~reusable ->
                CopyAway(RegAlloc(d, Allocatable, inputs \union outputs), src, ir[1])
           [] ~c.alias -> RegAlloc(d, c.regs, outputs \union IF c.new THEN inputs ELSE {}),
         dst)

\* Where the loaded inputs are: loading the second may have moved the first.
Now(d, args, rs) ==
  [i \in DOMAIN args |-> IF d.t[args[i]].vt = "Reg" THEN d.t[args[i]].reg ELSE rs[i]]

LoadSecond(l, x, regs) ==
  LET m == TempLoadTo(l.d, x, regs, {l.reg}) IN [d |-> m.d, rs |-> <<l.reg, m.reg>>]
LoadInputs(l, ct, args) ==
  IF Len(args) > 1 THEN LoadSecond(l, args[2], ct.i[2].regs)
  ELSE [d |-> l.d, rs |-> <<l.reg>>]

\* The outputs in turn; an input that dies here may give up its register.
NextOutput(o, ct, dst, args, ir, reusable, held) ==
  LET p == AllocOutput(o.d, ct.o[Len(o.rs) + 1], dst, args[1], ir, reusable, held,
                       { o.rs[i] : i \in DOMAIN o.rs })
  IN  [d |-> p.d, rs |-> Append(o.rs, p.reg)]
FirstOutput(o, ct, dsts, args, ir, reusable, held) ==
  IF dsts = <<>> THEN o ELSE NextOutput(o, ct, dsts[1], args, ir, reusable, held)
SecondOutput(o, ct, dsts, args, ir, held) ==
  IF Len(dsts) < 2 THEN o ELSE NextOutput(o, ct, dsts[2], args, ir, FALSE, held)
AllocOutputs(l, ct, dsts, args, dead) ==
  LET ir == Now(l.d, args, l.rs)
      held == { ir[i] : i \in { j \in DOMAIN args : l.d.t[args[j]].vt = "Reg" } }
      reusable == ct.i[1].alias /\ args[1] \in dead \ (AllocGlobals \union {Env, Const})
  IN  SecondOutput(FirstOutput([d |-> l.d, rs |-> <<>>], ct, dsts, args, ir, reusable, held),
                   ct, dsts, args, ir, held)

\* The instruction, with the inputs where they are by now.
Executed(o, opc, dsts, args, ir) ==
  [d |-> [o.d EXCEPT !.ok = @ /\ Emitted(o.d, opc, args, Now(o.d, args, ir), o.rs)],
   rs |-> o.rs]
Written(o, opc, dsts) ==
  CASE dsts = <<>> -> o.d
    [] Len(dsts) = 1 -> Defines(o.d, dsts[1], o.rs[1])
    [] opc = "MulS2" -> Defines(Defines(o.d, dsts[1], "ax"), dsts[2], o.rs[2])

InputDies(d, i, args, dead) ==
  IF i \in DOMAIN args /\ args[i] \in dead THEN TempDeadInput(d, args[i]) ELSE d
OutputDies(d, i, dsts, dead) ==
  IF i \in DOMAIN dsts /\ dsts[i] \in dead THEN TempDead(d, dsts[i]) ELSE d

\* The fixed temporary goes home after it was read in another register.
ReleaseFixed(h, reg) == IF h.r2t[reg] = Env THEN FreeReg(h, reg) ELSE h
Rehome(d, args, reg) ==
  IF args[1] # Env THEN d ELSE ReleaseFixed(Assign(InReg(d, Env, "bp"), "bp", Env), reg)

\* A global whose value dies here is written back all the same.
SyncInput(d, i, args, dead) ==
  IF i \in DOMAIN args /\ args[i] \in dead \intersect AllocGlobals
    THEN [TempSync(d, args[i]) EXCEPT !.t[args[i]].coh = TRUE] ELSE d

\* RegallocOp: inputs, outputs, the instruction, then what dies.
Complete(l, ct, opc, dsts, args, dead) ==
  LET w == Written(Executed(AllocOutputs(l, ct, dsts, args, dead), opc, dsts, args,
                            Now(l.d, args, l.rs)),
                   opc, dsts)
      k == Rehome(InputDies(InputDies(w, 1, args, dead), 2, args, dead), args, l.rs[1])
      o == OutputDies(OutputDies(k, 1, dsts, dead), 2, dsts, dead)
  IN  SyncInput(SyncInput(o, 1, args, dead), 2, args, dead)
RegallocOp(d, opc, dsts, args, dead) ==
  LET ct == OpConstraint(opc)
  IN  Complete(LoadInputs(TempLoadTo(d, args[1], ct.i[1].regs, {}), ct, args),
               ct, opc, dsts, args, dead)

\* The main pass around an operation that may call a helper out of line.
GenOp(d, opc, dsts, args, dead) ==
  IF CallClobber(opc)
    THEN ClobberCallerSaved(RegallocOp(SyncGlobals(d), opc, dsts, args, dead),
                            IF dsts = <<>> THEN None ELSE dsts[1])
    ELSE RegallocOp(d, opc, dsts, args, dead)

\* A move: the source is loaded and may die, then the destination gets a
\* register of its own, or the one the source left.
MovTo(a, l, dst, src, dead) ==
  LET f == ForgetAll([InReg(a.d, dst, a.reg) EXCEPT !.t[dst].coh = FALSE], dst)
      gone == IF src \in dead /\ src \in Ebbs THEN {src} ELSE {}
      from == (IF a.reg = l.reg THEN f.R[l.reg] ELSE {}) \union (l.d.R[l.reg] \ {dst})
  IN  [Assign(f, a.reg, dst) EXCEPT !.R[a.reg] = (from \ gone) \union {dst},
                                    !.ok = @ /\ src \in l.d.R[l.reg]]
MovFrom(l, dst, src, dead) ==
  MovTo(RegAlloc(IF src \in dead THEN TempDead(l.d, src) ELSE l.d, Allocatable, {}),
        l, dst, src, dead)
GenMov(d, dst, src, dead) == MovFrom(TempLoadTo(d, src, Allocatable, {}), dst, src, dead)

\* BrCond, SetLabel, and the exits.
Compared(l, args) ==
  [l.d EXCEPT !.ok = @ /\ \A i \in 1..2 : args[i] \in l.d.R[l.rs[i]]]
BothDead(d, args, dead) ==
  LET k == IF args[1] \in dead THEN TempDead(d, args[1]) ELSE d
  IN  IF args[2] \in dead /\ args[2] # args[1] THEN TempDead(k, args[2]) ELSE k
GenBrCond(d, args, dead) ==
  SyncGlobals(BothDead(
    Compared(LoadSecond(TempLoadTo(d, args[1], Allocatable, {}), args[2], Allocatable), args),
    args, dead))

-----------------------------------------------------------------------------
(* A call: its arguments are moved in parallel to dx and cx. *)

Target == <<"dx", "cx">>

SpillLocals(d) ==
  LET ev(e, reg) == IF e.r2t[reg] # None /\ ~IsGlobalOrFixed(e.r2t[reg]) THEN EvictReg(e, reg) ELSE e
  IN  ev(ev(ev(d, "ax"), "cx"), "dx")

\* Moves whose target is not the source of the other go first; a cycle goes
\* through r11.
ParallelMoves(d, src) ==
  LET mv(e, i) == OutMov(e, Target[i], src[i])
      need == { i \in 1..2 : src[i] # None /\ src[i] # Target[i] }
      blocked(i) == \E j \in need \ {i} : src[j] = Target[i]
  IN  IF need = {} THEN d
      ELSE IF need = {1} THEN mv(d, 1)
      ELSE IF need = {2} THEN mv(d, 2)
      ELSE IF ~blocked(1) THEN mv(mv(d, 1), 2)
      ELSE IF ~blocked(2) THEN mv(mv(d, 2), 1)
      ELSE OutMov(mv(OutMov(d, Scratch, src[1]), 2), Target[1], Scratch)

LoadPending(d, args, src) ==
  LET ld(e, i) == IF src[i] # None THEN e
                  ELSE IF e.t[args[i]].vt = "Const" THEN [e EXCEPT !.R[Target[i]] = {args[i]}]
                  ELSE OutLd(e, args[i], Target[i])
  IN  ld(ld(d, 1), 2)

\* The helper reads its arguments and every global from memory.
Called(m, args) ==
  [m EXCEPT !.ok = /\ @
                   /\ \A i \in 1..2 : args[i] \in m.R[Target[i]]
                   /\ \A x \in AllocGlobals : x \in m.M[x]]
PassArgs(s, args) ==
  LET src == [i \in 1..2 |-> IF s.t[args[i]].vt = "Reg" THEN s.t[args[i]].reg ELSE None]
  IN  Called(LoadPending(ParallelMoves(s, src), args, src), args)

\* It clobbers the caller-saved registers and may write globals, which are
\* all in memory after it.
AfterCall(d, writes) ==
  LET inregs == { x \in AllocGlobals : d.t[x].vt = "Reg" }
      regs == { d.t[x].reg : x \in inregs }
  IN  [d EXCEPT
        !.free = @ \union { reg \in CallerSaved : d.r2t[reg] # None } \union regs,
        !.r2t = [reg \in Host |-> IF reg \in CallerSaved \union regs THEN None ELSE @[reg]],
        !.t = [x \in AllocTemps |->
                 IF x \in inregs THEN [@[x] EXCEPT !.vt = "Mem", !.reg = None, !.coh = TRUE]
                 ELSE @[x]],
        !.R = [reg \in Host \union {Scratch} |->
                 IF reg \in CallerSaved \union {Scratch} THEN {} ELSE @[reg] \ writes],
        !.F = [x \in Ebbs \union {Const} |-> @[x] \ writes],
        !.M = [x \in AllocGlobals |-> IF x \in writes THEN {x} ELSE @[x] \ writes]]

Returns(c, dst) ==
  Defines([InReg(Assign(c, "ax", dst), dst, "ax") EXCEPT !.t[dst].coh = FALSE], dst, "ax")

RegallocCall(d, dst, args, dead, writes) ==
  LET m == PassArgs(SpillLocals(SyncGlobals(d)), args)
      k == InputDies(InputDies(m, 1, args, dead), 2, args, dead)
  IN  OutputDies(Returns(AfterCall(k, writes), dst), 1, <<dst>>, dead)

-----------------------------------------------------------------------------
(* Blocks: what a translator may emit. *)

Start ==
  [t |-> [x \in AllocTemps |->
            CASE x \in AllocGlobals -> [vt |-> "Mem", reg |-> None, coh |-> TRUE, alloc |-> FALSE]
              [] x = Const     -> [vt |-> "Const", reg |-> None, coh |-> FALSE, alloc |-> FALSE]
              [] x = Env       -> [vt |-> "Reg", reg |-> "bp", coh |-> FALSE, alloc |-> FALSE]
              [] OTHER         -> Dead],
   r2t |-> [reg \in Host |-> IF reg = "bp" THEN Env ELSE None],
   free |-> Allocatable,
   R |-> [reg \in Host \union {Scratch} |-> IF reg = "bp" THEN {Env} ELSE {}],
   M |-> [x \in AllocGlobals |-> {x}],
   F |-> [x \in Ebbs \union {Const} |-> {}],
   ok |-> TRUE]

AllocInit == dev = Start /\ env = [branch |-> FALSE]

Live(x) == dev.t[x].vt # "Dead"
Inputs == { x \in AllocTemps \ {Env} : Live(x) }

\* The flags of the liveness pass: a value may die with its last use, that of a
\* global when the global is written next, which only regalloc_op() looks at.
Dying(args) == SUBSET ({ args[i] : i \in DOMAIN args } \intersect Ebbs)
DyingOrSync(args) == SUBSET ({ args[i] : i \in DOMAIN args } \intersect (Ebbs \union AllocGlobals))

\* Only what the allocator will read again is kept of the contents; a local
\* is stored whenever it is evicted, so its flags matter in memory only.
Kept(d) ==
  [d EXCEPT !.t = [x \in AllocTemps |->
                     IF x \in Ebbs \union {Const} /\ d.t[x].vt # "Mem"
                       THEN [@[x] EXCEPT !.coh = FALSE, !.alloc = FALSE] ELSE @[x]],
            !.R = [reg \in Host \union {Scratch} |-> { x \in @[reg] : d.t[x].reg = reg }],
            !.M = [x \in AllocGlobals |-> @[x] \intersect {x}],
            !.F = [x \in Ebbs \union {Const} |->
                     IF d.t[x].vt = "Mem" THEN @[x] \intersect {x} ELSE {}]]

Step(d) == dev' = Kept(d) /\ UNCHANGED env

Compute ==
  \E opc \in Ops, dst \in Ebbs, x, y \in Inputs :
    /\ ~Live(dst)
    /\ \E unary \in {opc \in {"Neg", "ExtI32I64", "ExtUI32I64", "QemuLd"}} :
         LET args == IF unary THEN <<x>> ELSE <<x, y>>
         IN  /\ unary => x = y
             /\ \E dead \in DyingOrSync(args) : Step(GenOp(dev, opc, <<dst>>, args, dead))

Multiply ==
  \E lo, hi \in Ebbs, x, y \in Inputs :
    /\ lo # hi
    /\ x # y \/ Squares
    /\ ~Live(lo) /\ ~Live(hi)
    /\ \E dead \in DyingOrSync(<<x, y>>), unused \in SUBSET {lo} :
         Step(GenOp(dev, "MulS2", <<lo, hi>>, <<x, y>>, dead \union unused))

LoadEnv ==
  \E dst \in Ebbs : ~Live(dst) /\ Step(GenOp(dev, "Ld", <<dst>>, <<Env>>, {}))

Store ==
  \E x, y \in Inputs : \E dead \in DyingOrSync(<<x, y>>) :
    Step(GenOp(dev, "QemuSt", <<>>, <<x, y>>, dead))

Mov ==
  \E dst \in AllocGlobals, src \in Inputs :
    /\ dst # src
    /\ ~env.branch
    /\ \E dead \in Dying(<<src>>) : Step(GenMov(dev, dst, src, dead))

Call ==
  \E dst \in Ebbs, x, y \in Inputs :
    /\ ~Live(dst)
    /\ \E dead \in Dying(<<x, y>>), unused \in SUBSET {dst}, writes \in {{}, AllocGlobals} :
         Step(RegallocCall(dev, dst, <<x, y>>, dead \union unused, writes))

BrCond ==
  \E x, y \in Inputs :
    /\ ~env.branch
    /\ \E dead \in Dying(<<x, y>>) :
         dev' = Kept(GenBrCond(dev, <<x, y>>, dead))
    /\ env' = [branch |-> TRUE]

\* The fall-through path leaves the block, so what reaches the label is the
\* branch; locals do not live across it.
SetLabel(d) == BbBoundary(SyncGlobals(d))
Label ==
  /\ env.branch
  /\ dev' = Kept(SetLabel(dev))
  /\ env' = [branch |-> FALSE]

\* ExitTb, GotoTb: the globals are in memory for the next block.
ExitTb(d) == SyncGlobals(d)
Exit ==
  /\ ~env.branch
  /\ dev' = LET e == ExitTb(dev)
            IN  [Start EXCEPT !.M = [x \in AllocGlobals |-> e.M[x] \intersect {x}], !.ok = e.ok]
  /\ UNCHANGED env

AllocNext ==
  \/ Compute
  \/ Multiply
  \/ LoadEnv
  \/ Store
  \/ Mov
  \/ Call
  \/ BrCond
  \/ Label
  \/ Exit


-----------------------------------------------------------------------------
\* Every instruction the allocator emits finds its operands in the registers
\* it names, whatever was evicted, moved or spilled to make room.
OperandsInPlace == dev.ok

\* Where the allocator believes a temporary is, it is: the register or the
\* memory recorded for it holds its current value, and a global recorded as
\* coherent is in memory.
Located ==
  \A x \in AllocTemps :
    /\ dev.t[x].vt = "Reg" => x \in dev.R[dev.t[x].reg] /\ dev.r2t[dev.t[x].reg] = x
    /\ dev.t[x].vt = "Mem" => x \in (IF x \in AllocGlobals THEN dev.M[x] ELSE dev.F[x])
    /\ x \in AllocGlobals /\ dev.t[x].coh => x \in dev.M[x]
=============================================================================
