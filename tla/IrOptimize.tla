----------------------------- MODULE IrOptimize -----------------------------
(***************************************************************************)
(* The optimizer of accel/src/optimize.rs: one forward pass that knows of  *)
(* each temporary whether it is a constant or a copy, propagates copies    *)
(* into the inputs of an operation, folds and simplifies it.  The pass     *)
(* looks at one operation at a time, so the model runs it in step with     *)
(* two executions of the translation block: env.ref of the operations the  *)
(* translator emitted and env.opt of what the optimizer left.  Vars are    *)
(* the temporaries an operation writes: the globals (guest registers),     *)
(* written by Mov or by a sign extension, and the short-lived ones.  What  *)
(* an operation computes is IrOps.                                         *)
(*                                                                         *)
(* set_const() and set_copy() leave alone what other temporaries are       *)
(* recorded as copies of, unlike invalidate_one().  After a Mov from a     *)
(* guest register (bytepick.d by no bytes) and a Mov to that register the  *)
(* record is out of date; env.stale holds such temporaries.  An operation  *)
(* that reads one is given the new value of the register in place of the   *)
(* old one: the two executions are compared up to the first such read.     *)
(***************************************************************************)
EXTENDS Integers, Bitwise
CONSTANTS W, Globals, Ebbs, Consts, Values, BinaryOps, UnaryOps, Types, MovTo
VARIABLES dev, env

vars == <<dev, env>>
Ir == INSTANCE IrOps

Vars == Globals \union Ebbs
Binary == {"Add", "Sub", "Mul", "And", "Or", "Xor", "AndC",
           "Shl", "Shr", "Sar", "RotL", "RotR"}
None == "none"

\* An operand: a temporary, or a constant temporary and its value.
V(v) == [var |-> v, val |-> 0]
C(n) == [var |-> None, val |-> n]

NoInfo == [is_const |-> FALSE, val |-> 0, copy_of |-> None]

Info(d, o) == IF o.var = None
                THEN [is_const |-> TRUE, val |-> o.val, copy_of |-> None]
                ELSE d.info[o.var]

-----------------------------------------------------------------------------
(* Evaluation of constants. *)

TypeMask(ty, x) == x % 2^Ir!Bits(ty)

EvalCond(cond, ty, a, b) ==
  LET x == TypeMask(ty, a)
      y == TypeMask(ty, b)
      i64(z) == Ir!Signed(Ir!D, z)
  IN  CASE cond = "Eq"  -> x = y
        [] cond = "Ne"  -> x # y
        [] cond = "Lt"  -> i64(x) < i64(y)
        [] cond = "Ge"  -> i64(x) >= i64(y)
        [] cond = "Le"  -> i64(x) <= i64(y)
        [] cond = "Gt"  -> i64(x) > i64(y)
        [] cond = "Ltu" -> x < y
        [] cond = "Geu" -> x >= y
        [] cond = "Leu" -> x <= y
        [] cond = "Gtu" -> x > y
        [] cond = "TstEq" -> (x & y) = 0
        [] cond = "TstNe" -> (x & y) # 0

\* A shift amount is taken modulo the width of the type.
Amount(ty, b) == b % Ir!Bits(ty)

RotateLeft(n, x, k) == Ir!Unsigned(n, x * 2^k) + (x \div 2^(n - k))

Sar(ty, a, sh) ==
  LET n == Ir!Bits(ty)
  IN  Ir!Unsigned(Ir!D, Ir!Signed(n, a) \div 2^sh)

EvalBinary(opc, ty, a, b) ==
  LET n == Ir!Bits(ty)
      sh == Amount(ty, b)
  IN  TypeMask(ty,
        CASE opc = "Add"  -> a + b
          [] opc = "Sub"  -> a - b
          [] opc = "Mul"  -> a * b
          [] opc = "And"  -> a & b
          [] opc = "Or"   -> a | b
          [] opc = "Xor"  -> a ^^ b
          [] opc = "AndC" -> a & Ir!Ones(Ir!D, b)
          [] opc = "Shl"  -> a * 2^sh
          [] opc = "Shr"  -> a \div 2^sh
          [] opc = "Sar"  -> Sar(ty, a, sh)
          [] opc = "RotL" -> RotateLeft(n, a, sh)
          [] opc = "RotR" -> RotateLeft(n, a, (n - sh) % n))

EvalUnary(opc, ty, a) ==
  CASE opc = "Neg" -> TypeMask(ty, 0 - a)
    [] opc = "Not" -> TypeMask(ty, Ir!Ones(Ir!D, a))

EvalExt(opc, a) ==
  CASE opc = "ExtI32I64"   -> Ir!Unsigned(Ir!D, Ir!Signed(W, a % 2^W))
    [] opc = "ExtUI32I64"  -> a % 2^W
    [] opc = "ExtrlI64I32" -> a % 2^W
    [] opc = "ExtrhI64I32" -> (a \div 2^W) % 2^W

-----------------------------------------------------------------------------
(* Operations and rewriting. *)

Op(opc, ty, dst, args) == [opc |-> opc, ty |-> ty, dst |-> dst, args |-> args]
ToMov(op, src) == Op("Mov", op.ty, op.dst, <<src>>)
ToConst(op, n) == ToMov(op, C(TypeMask(op.ty, n)))

\* Simplifications with one constant operand; the operation itself when none
\* applies.
TrySimplify(op, ai, bi) ==
  LET ones == Ir!AllOnes(op.ty)
      a == TypeMask(op.ty, ai.val)
      b == TypeMask(op.ty, bi.val)
      opc == op.opc
      bc(n) == bi.is_const /\ b = n
      ac(n) == ai.is_const /\ a = n
  IN  CASE bc(0) /\ opc \in {"Add", "Sub", "Or", "Xor", "Shl", "Shr", "Sar", "RotL", "RotR"}
             -> ToMov(op, op.args[1])
        [] bc(0) /\ opc \in {"Mul", "And"}  -> ToConst(op, 0)
        [] bc(1) /\ opc = "Mul"             -> ToMov(op, op.args[1])
        [] bc(ones) /\ opc = "And"          -> ToMov(op, op.args[1])
        [] bc(ones) /\ opc = "Or"           -> ToConst(op, ones)
        [] bc(ones) /\ opc = "AndC"         -> ToConst(op, 0)
        [] ac(0) /\ opc = "Add"             -> ToMov(op, op.args[2])
        [] ac(0) /\ opc = "Sub"             -> Op("Neg", op.ty, op.dst, <<op.args[2]>>)
        [] ac(0) /\ opc \in {"Mul", "And"}  -> ToConst(op, 0)
        [] ac(ones) /\ opc = "Or"           -> ToConst(op, ones)
        [] OTHER                            -> op

FoldBinary(op, ai, bi) ==
  LET s == TrySimplify(op, ai, bi)
      same == op.args[1] = op.args[2] /\ op.args[1].var # None
  IN  IF ai.is_const /\ bi.is_const
        THEN ToConst(op, EvalBinary(op.opc, op.ty, TypeMask(op.ty, ai.val),
                                    TypeMask(op.ty, bi.val)))
      ELSE IF s # op THEN s
      ELSE IF same /\ op.opc \in {"And", "Or"} THEN ToMov(op, op.args[1])
      ELSE IF same /\ op.opc \in {"Xor", "Sub"} THEN ToConst(op, 0)
      ELSE op

FoldUnary(op, si) ==
  IF ~si.is_const THEN op
  ELSE IF op.opc \in {"Neg", "Not"}
    THEN ToConst(op, EvalUnary(op.opc, op.ty, si.val))
    ELSE ToMov(Op(op.opc, IF op.opc \in {"ExtI32I64", "ExtUI32I64"} THEN "I64" ELSE "I32",
                  op.dst, op.args),
               C(EvalExt(op.opc, si.val)))

-----------------------------------------------------------------------------
(* What the pass knows. *)

ResolveCopy(d, o) ==
  IF o.var # None /\ d.info[o.var].copy_of # None THEN V(d.info[o.var].copy_of) ELSE o

Propagate(d, op) == [op EXCEPT !.args = [i \in DOMAIN op.args |-> ResolveCopy(d, op.args[i])]]

\* dst is written: what was a copy of it no longer is.
InvalidateNothing(d, v) == d
InvalidateOne(d, v) ==
  [d EXCEPT !.info = [u \in Vars |->
     IF u = v THEN NoInfo
     ELSE IF d.info[u].copy_of = v THEN [d.info[u] EXCEPT !.copy_of = None] ELSE d.info[u]]]

SetConst(d, v, n) ==
  [d EXCEPT !.info[v] = [is_const |-> TRUE, val |-> n, copy_of |-> None]]

SetCopy(d, v, src) ==
  LET si == Info(d, src)
  IN  [d EXCEPT !.info[v] =
         IF si.is_const THEN [is_const |-> TRUE, val |-> si.val, copy_of |-> None]
                        ELSE [@ EXCEPT !.is_const = FALSE, !.val = 0, !.copy_of = src.var]]

ResetCopies(d) == [d EXCEPT !.info = [u \in Vars |-> [d.info[u] EXCEPT !.copy_of = None]]]

FoldMov(d, op) ==
  LET si == Info(d, op.args[1])
  IN  IF si.is_const THEN SetConst(d, op.dst, TypeMask(op.ty, si.val))
                     ELSE SetCopy(d, op.dst, op.args[1])

\* One operation of the pass: the operation it becomes and the new knowledge.
Optimize(d, op0) ==
  LET op == Propagate(d, op0)
      ai == Info(d, op.args[1])
      folded == IF op.opc \in Binary THEN FoldBinary(op, ai, Info(d, op.args[2]))
                ELSE IF op.opc = "Mov" THEN op ELSE FoldUnary(op, ai)
      isConst == folded # op /\ folded.opc = "Mov" /\ folded.args[1].var = None
  IN  [op |-> folded,
       d  |-> IF op.opc = "Mov" THEN FoldMov(d, op)
              ELSE IF isConst THEN SetConst(d, op.dst, folded.args[1].val)
              ELSE InvalidateOne(d, op.dst)]

\* A conditional branch on constants becomes a jump or nothing.
FoldBrcond(d, ty, cond, a, b) ==
  LET x == ResolveCopy(d, a)
      y == ResolveCopy(d, b)
      ai == Info(d, x)
      bi == Info(d, y)
  IN  IF ai.is_const /\ bi.is_const
        THEN [kind |-> "fixed", taken |-> EvalCond(cond, ty, ai.val, bi.val), args |-> <<x, y>>]
        ELSE [kind |-> "test", taken |-> FALSE, args |-> <<x, y>>]

-----------------------------------------------------------------------------
(* Execution. *)

Val(m, o) == IF o.var = None THEN o.val ELSE m[o.var]

Compute(m, op) ==
  LET a == Val(m, op.args[1])
      b == Val(m, op.args[2])
  IN  CASE op.opc = "Mov" -> a
        [] op.opc = "Neg" -> Ir!Neg(op.ty, a)
        [] op.opc = "Not" -> Ir!Complement(op.ty, a)
        [] op.opc = "ExtI32I64" -> Ir!ExtI32I64(a)
        [] op.opc \in {"ExtUI32I64", "ExtrlI64I32"} -> Ir!ExtUI32I64(a)
        [] op.opc = "ExtrhI64I32" -> Ir!ExtrhI64I32(a)
        [] op.opc = "AndC" -> Ir!AndC(op.ty, a, b)
        [] op.opc \in {"Add", "Sub", "Mul", "And", "Or", "Xor"} -> Ir!Arith(op.opc, op.ty, a, b)
        [] op.opc \in {"Shl", "Shr", "Sar"} -> Ir!Shift(op.opc, op.ty, a, b)
        [] op.opc \in {"RotL", "RotR"} -> Ir!Rotate(op.opc, op.ty, a, b)

\* The upper half of a 32-bit temporary is read by nothing: kept zero here.
Exec(m, op) ==
  [m EXCEPT ![op.dst] = IF op.opc \in {"ExtI32I64", "ExtUI32I64"} THEN Compute(m, op)
                        ELSE Ir!Trunc(op.ty, Compute(m, op))]

Init ==
  /\ dev = [info |-> [v \in Vars |-> NoInfo]]
  /\ \E m \in [Globals -> Values] :
       LET e == [v \in Vars |-> IF v \in Globals THEN m[v] ELSE 0]
       IN  env = [ref |-> e, opt |-> e, ref_skips |-> FALSE, opt_skips |-> FALSE, open |-> FALSE,
                 copied |-> FALSE, stale |-> {}, misled |-> FALSE]

Operands == { V(v) : v \in Vars } \union { C(n) : n \in Consts }

\* A short-lived temporary is written once in a block: its slot is free for a
\* new one when nothing is known to be its copy.
Fresh(e) == \A v \in Vars : dev.info[v].copy_of # e

Reads(args) == { args[i].var : i \in DOMAIN args }

\* The temporaries still recorded as copies of something written since, once v
\* is written and the pass knows d.
StaleAfter(d, v) ==
  { u \in Vars \ {v} : /\ d.info[u].copy_of # None
                      /\ (u \in env.stale \/ d.info[u].copy_of = v) }

Do(op) ==
  LET r == Optimize(dev, op)
  IN  /\ dev' = r.d
      /\ env' = [env EXCEPT !.ref = Exec(@, op), !.opt = Exec(@, r.op),
                            !.copied = @ \/ (op.opc = "Mov" /\ op.args[1].var \in Globals),
                            !.stale = StaleAfter(r.d, op.dst),
                            !.misled = Reads(op.args) \cap env.stale # {}]

\* The computation of a guest instruction, into a temporary.  A variable that is
\* known to be constant stands for a constant: one of the operands is a variable.
EmitBinary ==
  \E opc \in BinaryOps, ty \in Types, e \in Ebbs, a, b \in Operands :
    /\ a.var # None \/ b.var # None
    /\ Fresh(e)
    /\ ~env.open
    /\ V(e) \notin {a, b}
    /\ Do(Op(opc, ty, e, <<a, b>>))

EmitUnary ==
  \E opc \in UnaryOps, ty \in Types, e \in Ebbs, a \in Operands :
    /\ Fresh(e)
    /\ ~env.open
    /\ V(e) # a
    /\ Do(Op(opc, ty, e, <<a>>))

\* A 32-bit result sign-extended into the guest register (gen_set_gpr_sx32).
EmitSetGprSx32 ==
  \E g \in Globals, a \in Operands :
    /\ ~env.open
    /\ Do(Op("ExtI32I64", "I64", g, <<a>>))

\* A result moved to the guest register, or a guest register taken as it is:
\* into a temporary (bytepick.d) or another register (the address of lr).
EmitMov ==
  \E v \in MovTo, a \in Operands :
    /\ v \in Globals \/ (a.var \in Globals /\ Fresh(v))
    /\ a # V(v)
    /\ ~env.open
    /\ Do(Op("Mov", "I64", v, <<a>>))

\* A load or a helper call writes a value the pass knows nothing of; a call
\* also ends what is known of copies.
EmitOpaque ==
  \E e \in Ebbs, n \in Values, call \in BOOLEAN :
    /\ Fresh(e)
    /\ ~env.open
    /\ LET d == InvalidateOne(dev, e)
       IN  dev' = IF call THEN ResetCopies(d) ELSE d
    /\ env' = [env EXCEPT !.ref[e] = n, !.opt[e] = n, !.stale = StaleAfter(dev', e)]

\* A conditional branch forward over an exit of the block.
EmitBrcond ==
  \E cond \in {"Eq", "Lt", "Ltu"}, a, b \in Operands :
    LET f == FoldBrcond(dev, "I64", cond, a, b)
    IN  /\ ~env.open
        /\ env' = [env EXCEPT !.open = TRUE, !.misled = Reads(<<a, b>>) \cap env.stale # {},
                     !.ref_skips = Ir!Cond(cond, "I64", Val(env.ref, a), Val(env.ref, b)),
                     !.opt_skips = IF f.kind = "fixed" THEN f.taken
                                   ELSE Ir!Cond(cond, "I64", Val(env.opt, f.args[1]),
                                                             Val(env.opt, f.args[2]))]
        /\ UNCHANGED dev

\* The label: the block goes on only where the branch was taken.  A new label
\* is a join of two paths, so no copy is known there.  The executions that
\* left the block start again with the next one.
EmitLabel ==
  /\ env.open
  /\ dev' = IF env.ref_skips THEN ResetCopies(dev) ELSE [info |-> [v \in Vars |-> NoInfo]]
  /\ env' = [env EXCEPT !.open = FALSE, !.ref_skips = FALSE, !.opt_skips = FALSE, !.stale = {},
                        !.copied = @ /\ env.ref_skips]

\* The next translation block starts with nothing known.
NextBlock ==
  /\ ~env.open
  /\ dev' = [info |-> [v \in Vars |-> NoInfo]]
  /\ env' = [env EXCEPT !.copied = FALSE, !.stale = {}]

Next ==
  /\ ~env.misled
  /\ \/ EmitBinary
     \/ EmitUnary
     \/ EmitSetGprSx32
     \/ EmitMov
     \/ EmitOpaque
     \/ EmitBrcond
     \/ EmitLabel
     \/ NextBlock

Spec == Init /\ [][Next]_vars

-----------------------------------------------------------------------------
\* The code the optimizer leaves computes what the translator asked for: the
\* guest registers and temporaries hold the same values, and the same branches
\* are taken, after every operation of every block, until an operation reads a
\* temporary whose record set_const() or set_copy() left stale (optimize.rs:226).
SameProgram ==
  \/ env.misled
  \/ env.ref = env.opt /\ env.ref_skips = env.opt_skips

\* What the pass believes is true of the execution: a temporary recorded as a
\* constant holds it, and one recorded as a copy equals its source unless the
\* source was written since; that happens only in a block that copied a guest
\* register with Mov.
KnowledgeHolds ==
  \/ env.misled
  \/ \A v \in Vars :
       /\ dev.info[v].is_const => env.ref[v] = dev.info[v].val
       /\ dev.info[v].copy_of # None =>
            env.ref[v] = env.ref[dev.info[v].copy_of] \/ v \in env.stale
       /\ v \in env.stale => env.copied
=============================================================================
