------------------------------- MODULE LaFp -------------------------------
(***************************************************************************)
(* The LoongArch floating-point instructions: each checks that the unit is *)
(* enabled, computes a result and its exceptions (with SoftFloat, or with  *)
(* the host's arithmetic for comparisons, maxima and conversions to        *)
(* integers), and finishes by updating FCSR0 and either trapping or        *)
(* writing its destination.  A register holds LW + LW bits, a single       *)
(* precision number in the lower half and ones above it.                   *)
(***************************************************************************)
EXTENDS SoftFloat, FiniteSets

CONSTANTS S, D,         \* the single and double formats; D fills a register
          LW,           \* the bits of a word: half a register, and of an S
          Singles,      \* single operands, the encodings Init puts in registers
          Doubles,      \* double operands
          Controls,     \* rounding modes and enabled exceptions Init starts from
          Writes,       \* values software moves into FCSR0
          Pairs,        \* operands of the runs of several instructions
          MaxOps        \* instructions of such a run

VARIABLES dev,   \* the CPU: f, fcc, r (a general register), fcsr, fpe (EUEN.FPE), pc, exc, era
          env    \* the last instruction, and what software may expect of FCSR0

vars == <<dev, env>>

Vector == 99
Taken == 50
Causes == {"NV", "DZ", "OF", "UF", "NX"}
Ones == 2^(2 * LW) - 2^LW
NanboxS(bits) == Ones + bits
Low(x) == x % 2^LW
Fmt(fmt) == IF fmt = "s" THEN S ELSE D
Opnd(fmt, x) == IF fmt = "s" THEN Low(x) ELSE x
Boxed(fmt, v) == IF fmt = "s" THEN NanboxS(v) ELSE v
SignedBits(x, w) == IF x >= 2^(w - 1) THEN x - 2^w ELSE x

LoongarchRoundMode(rm) == <<"NearEven", "ToZero", "Up", "Down">>[rm + 1]
SoftEnv(rm) == [rm |-> LoongarchRoundMode(rm), before |-> FALSE, dn |-> FALSE]

-----------------------------------------------------------------------------
(* FCSR0 and the end of an instruction.                                    *)
\* the fields the subregister idx of FCSR0 names
SubregisterMask(idx) == <<{"en", "rm", "fl", "ca"}, {"en"}, {"fl", "ca"}, {"rm"}>>[idx + 1]
ReadFcsr(fcsr, idx) == [k \in SubregisterMask(idx) |-> fcsr[k]]
WriteFcsr(fcsr, idx, v) == [k \in DOMAIN fcsr |-> IF k \in SubregisterMask(idx) THEN v[k] ELSE fcsr[k]]

EnterException(d, code) == [d EXCEPT !.exc = code, !.era = d.pc, !.pc = Vector]
CheckFpe(d) == EnterException(d, "fpd")
UpdateFcsrCause(fcsr, flags) == [fcsr EXCEPT !.ca = flags]
Accrue(fcsr, flags) == [fcsr EXCEPT !.fl = @ \cup flags]

NextInsn(d) == [d EXCEPT !.pc = @ + 1]
\* a trapping instruction keeps its cause and accrues nothing
FinishLate(d, e, flags) ==
    IF d.fcsr.en \cap flags # {}
    THEN EnterException([e EXCEPT !.fcsr = UpdateFcsrCause(@, flags)], "fpe")
    ELSE NextInsn([e EXCEPT !.fcsr = Accrue(UpdateFcsrCause(@, flags), flags)])
Finish(d, e, flags) ==
    IF d.fcsr.en \cap flags # {}
    THEN EnterException([d EXCEPT !.fcsr = UpdateFcsrCause(@, flags)], "fpe")
    ELSE NextInsn([e EXCEPT !.fcsr = Accrue(UpdateFcsrCause(@, flags), flags)])
FinishFpr(d, fd, word, flags) == Finish(d, [d EXCEPT !.f[fd] = word], flags)
FinishFcc(d, bit, flags) == Finish(d, [d EXCEPT !.fcc = bit], flags)
FinishSoft(d, fd, fmt, r) == FinishFpr(d, fd, Boxed(fmt, r.v), r.flags)

-----------------------------------------------------------------------------
(* The helpers.  An outcome is a value and its flags.                      *)
BitsAreNan(F, x) == RawExp(F, x) = MaxExp(F) /\ RawFrac(F, x) # 0
BitsAreSnan(F, x) == BitsAreNan(F, x) /\ RawFrac(F, x) < 2^(F.f - 1)
QuietNanBits(F, x) == IF BitsAreSnan(F, x) THEN x + 2^(F.f - 1) ELSE x
SnanFlags(F, a, b) == IF BitsAreSnan(F, a) \/ BitsAreSnan(F, b) THEN {"NV"} ELSE {}
NanFlags(F, a, b) == IF BitsAreNan(F, a) \/ BitsAreNan(F, b) THEN {"NV"} ELSE {}
One(F) == Encode(F, FALSE, Bias(F), 0)

SoftArith(op, F, a, b, en) ==
    CASE op = "fadd" -> FAdd(F, a, b, en)
      [] op = "fsub" -> FSub(F, a, b, en)
      [] op = "fmul" -> FMul(F, a, b, en)
      [] op = "fdiv" -> FDiv(F, a, b, en)
SoftDivRoot(F, root, en) == Raising(root.flags, FDiv(F, One(F), root.v, en))
SoftRoots(op, F, a, en) ==
    CASE op = "fsqrt" -> FSqrt(F, a, en)
      [] op = "frecip" -> FDiv(F, One(F), a, en)
      [] op = "frsqrt" -> SoftDivRoot(F, FSqrt(F, a, en), en)
Frint(F, a, en) == FRoundToInt(F, a, en)

Clamp(i, bound) == IF i > bound THEN bound ELSE IF i < 0 - bound THEN 0 - bound ELSE i
Fscaleb(fmt, a, b, en) ==
    FScalbn(Fmt(fmt), Unpack(Fmt(fmt), a), Clamp(SignedBits(b, IF fmt = "s" THEN LW ELSE 2 * LW), IF fmt = "s" THEN 2^(S.e + 1) ELSE 2^(D.e + 1)), en)
Fcopysign(F, a, b) == Result((a % 2^SignPos(F)) + (IF NegBit(F, b) THEN 2^SignPos(F) ELSE 0), {})

\* the fused operations: negating a NaN addend or a NaN result is not done
NegatedUnlessNan(F, x, negate) == IF negate /\ ~BitsAreNan(F, x) THEN FNeg(F, x) ELSE x
NegatedResult(F, r, negate) == [r EXCEPT !.v = NegatedUnlessNan(F, @, negate)]
SoftFused(F, a, b, c, negC, negR, en) == NegatedResult(F, FFma(F, a, b, NegatedUnlessNan(F, c, negC), en), negR)
Fused(op, F, a, b, c, en) ==
    CASE op = "fmadd" -> SoftFused(F, a, b, c, FALSE, FALSE, en)
      [] op = "fmsub" -> SoftFused(F, a, b, c, TRUE, FALSE, en)
      [] op = "fnmadd" -> SoftFused(F, a, b, c, FALSE, TRUE, en)
      [] op = "fnmsub" -> SoftFused(F, a, b, c, TRUE, TRUE, en)

\* the host's order of two numbers: -1, 0, 1, and 2 with a NaN
HostCmp(F, a, b) == LET p == Unpack(F, a)
                        q == Unpack(F, b)
                    IN  IF IsNan(p) \/ IsNan(q) THEN 2 ELSE CompareOrdered(p, q)
ChooseFirst(F, a, b, isMax, useAbs) ==
    LET order == IF useAbs THEN HostCmp(F, FAbs(F, a), FAbs(F, b)) ELSE HostCmp(F, a, b)
        bits == HostCmp(F, a, b)
    IN  CASE order = 0 /\ useAbs -> IF isMax THEN bits >= 0 ELSE bits <= 0
          [] order = 0 /\ ~useAbs /\ FAbs(F, a) = 0 -> IF isMax THEN ~NegBit(F, a) ELSE NegBit(F, a)
          [] order = 0 /\ ~useAbs /\ FAbs(F, a) # 0 -> TRUE
          [] order # 0 -> IF isMax THEN order > 0 ELSE order < 0
MaxMinNum(F, a, b, isMax, useAbs) ==
    CASE BitsAreNan(F, a) /\ BitsAreNan(F, b) -> Result(QuietNanBits(F, a), SnanFlags(F, a, b))
      [] BitsAreNan(F, a) /\ ~BitsAreNan(F, b) -> Result(b, SnanFlags(F, a, b))
      [] ~BitsAreNan(F, a) /\ BitsAreNan(F, b) -> Result(a, SnanFlags(F, a, b))
      [] ~BitsAreNan(F, a) /\ ~BitsAreNan(F, b) -> Result(IF ChooseFirst(F, a, b, isMax, useAbs) THEN a ELSE b, {})
MaxMinHelper(op, F, a, b) == MaxMinNum(F, a, b, op \in {"fmax", "fmaxa"}, op \in {"fmaxa", "fmina"})

FlogbExp(F, a) == IF RawExp(F, a) = 0 THEN Msb(RawFrac(F, a)) - (Bias(F) - 1 + F.f) ELSE RawExp(F, a) - Bias(F)
FlogbOf(F, e) == LET r == FFromInt(F, e, SoftEnv(0)) IN Result(r.v, {})
Flogb(F, a) ==
    CASE BitsAreNan(F, a) -> Result(QuietNanBits(F, a), SnanFlags(F, a, a))
      [] FAbs(F, a) = 0 -> Result(PackInf(F, TRUE), {"DZ"})
      [] ~BitsAreNan(F, a) /\ FAbs(F, a) # 0 /\ NegBit(F, a) -> Result(DefaultNan(F), {"NV"})
      [] a = PackInf(F, FALSE) -> Result(a, {})
      [] ~NegBit(F, a) /\ a # 0 /\ RawExp(F, a) # MaxExp(F) -> FlogbOf(F, FlogbExp(F, a))
FclassBit(F, a) ==
    CASE BitsAreSnan(F, a) -> 0
      [] BitsAreNan(F, a) /\ ~BitsAreSnan(F, a) -> 1
      [] FAbs(F, a) = PackInf(F, FALSE) -> IF NegBit(F, a) THEN 2 ELSE 6
      [] RawExp(F, a) \notin {0, MaxExp(F)} -> IF NegBit(F, a) THEN 3 ELSE 7
      [] RawExp(F, a) = 0 /\ RawFrac(F, a) # 0 -> IF NegBit(F, a) THEN 4 ELSE 8
      [] FAbs(F, a) = 0 -> IF NegBit(F, a) THEN 5 ELSE 9
Fclass(F, a) == Result(2^FclassBit(F, a), {})

\* the comparisons' conditions, from the host's order of the operands
CondHolds(cond, o) ==
    CASE cond = "af" -> FALSE
      [] cond = "eq" -> o = 0
      [] cond = "lt" -> o = -1
      [] cond = "le" -> o \in {-1, 0}
      [] cond = "un" -> o = 2
      [] cond = "ueq" -> o \in {2, 0}
      [] cond = "ult" -> o \in {2, -1}
      [] cond = "ule" -> o \in {2, -1, 0}
      [] cond = "ne" -> o \in {-1, 1}
      [] cond = "or" -> o # 2
      [] cond = "une" -> o # 0
FcmpQuiet(cond, F, a, b) == Result(IF CondHolds(cond, HostCmp(F, a, b)) THEN 1 ELSE 0, SnanFlags(F, a, b))
FcmpSignal(cond, F, a, b) == Result(IF CondHolds(cond, HostCmp(F, a, b)) THEN 1 ELSE 0, NanFlags(F, a, b))

-----------------------------------------------------------------------------
(* Conversions to integers go through the host's doubles: a number is      *)
(* whole + rest / one, rest being a fraction of one.                       *)
HostParts(p) ==
    CASE p.cls = "Zero" -> [s |-> p.s, whole |-> 0, rest |-> 0, one |-> 2]
      [] p.cls = "Normal" /\ p.exp < -1 -> [s |-> p.s, whole |-> 0, rest |-> 1, one |-> 4]
      [] p.cls = "Normal" /\ p.exp = -1 -> [s |-> p.s, whole |-> 0, rest |-> p.frac, one |-> 2^(IB + 1)]
      [] p.cls = "Normal" /\ p.exp \in 0..IB -> [s |-> p.s, whole |-> p.frac \div 2^(IB - p.exp), rest |-> 2 * (p.frac % 2^(IB - p.exp)), one |-> 2 * 2^(IB - p.exp)]
      [] p.cls = "Normal" /\ p.exp > IB -> [s |-> p.s, whole |-> p.frac * 2^(p.exp - IB), rest |-> 0, one |-> 2]
RoundNearestEven(h) == IF 2 * h.rest < h.one \/ (2 * h.rest = h.one /\ h.whole % 2 = 0) THEN h.whole ELSE h.whole + 1
RoundFpToInt(h, mode) ==
    CASE mode = "Down" -> IF h.s /\ h.rest # 0 THEN h.whole + 1 ELSE h.whole
      [] mode = "Up" -> IF ~h.s /\ h.rest # 0 THEN h.whole + 1 ELSE h.whole
      [] mode = "ToZero" -> h.whole
      [] mode = "NearEven" -> RoundNearestEven(h)
\* the bounds as doubles: the largest integer of a wide integer rounds up to a power of two
MaxAsDouble(w) == IF w <= D.f + 2 THEN 2^(w - 1) - 1 ELSE 2^(w - 1)
Beyond(h, w) ==
    IF h.s THEN h.whole > 2^(w - 1) \/ (h.whole = 2^(w - 1) /\ h.rest # 0)
           ELSE h.whole > MaxAsDouble(w) \/ (h.whole = MaxAsDouble(w) /\ h.rest # 0)
Saturate(i, w) == IF i > 2^(w - 1) - 1 THEN 2^(w - 1) - 1 ELSE IF i < 0 - 2^(w - 1) THEN 0 - 2^(w - 1) ELSE i
FpToIntBits(h, w, m) == Result(Saturate(IF h.s THEN 0 - m ELSE m, w) % 2^w, IF h.rest # 0 THEN {"NX"} ELSE {})
HostToInt(h, w, mode) == IF Beyond(h, w) THEN Result(0, {"NV"}) ELSE FpToIntBits(h, w, RoundFpToInt(h, mode))
FpToInt(F, a, w, mode) ==
    LET p == Unpack(F, a)
    IN  IF IsNan(p) \/ p.cls = "Inf" THEN Result(0, {"NV"}) ELSE HostToInt(HostParts(p), w, mode)
FixedMode(op) == CASE op = "ftintrm" -> "Down" [] op = "ftintrp" -> "Up" [] op = "ftintrz" -> "ToZero" [] op = "ftintrne" -> "NearEven"
Width(ity) == IF ity = "w" THEN LW ELSE 2 * LW
DynamicRound(rm) == LoongarchRoundMode(rm)
Fcvt(from, to, a, en) == FConvert(Fmt(from), Fmt(to), a, en)
Ffint(F, x, ity, rm) == FFromInt(F, SignedBits(x % 2^Width(ity), Width(ity)), [SoftEnv(rm) EXCEPT !.rm = DynamicRound(rm)])

-----------------------------------------------------------------------------
(* The instructions.  Their sources are f[1], f[2] and f[0], and the       *)
(* general register r.                                                     *)
Ready == dev.exc = "none" /\ env.left > 0
Src(fmt, i) == Opnd(fmt, dev.f[i])
Note(op, fmt, sub) ==
    [env EXCEPT !.left = @ - 1, !.op = op, !.fmt = fmt, !.sub = sub]
\* every instruction first checks that the unit is enabled; flags is what it raises
Insn(op, fmt, sub, after, flags) ==
    /\ Ready
    /\ dev' = IF dev.fpe THEN after ELSE CheckFpe(dev)
    /\ env' = IF dev.fpe
              THEN [Note(op, fmt, sub) EXCEPT !.cause = flags, !.acc = IF flags \cap dev.fcsr.en = {} THEN @ \cup flags ELSE @]
              ELSE Note(op, fmt, sub)
GenFpArith(op, fmt, sub, fd, r) == Insn(op, fmt, sub, FinishSoft(dev, fd, fmt, r), r.flags)
\* results that are not numbers of the format are written as they are
GenFpUnary(op, fmt, sub, fd, r) == Insn(op, fmt, sub, FinishFpr(dev, fd, r.v, r.flags), r.flags)
GenFpCmp(op, fmt, sub, r) == Insn(op, fmt, sub, FinishFcc(dev, r.v, r.flags), r.flags)

TransArith(op, fmt, fd) == GenFpArith(op, fmt, "", fd, SoftArith(op, Fmt(fmt), Src(fmt, 1), Src(fmt, 2), SoftEnv(dev.fcsr.rm)))
TransMaxMin(op, fmt, fd) == GenFpArith(op, fmt, "", fd, MaxMinHelper(op, Fmt(fmt), Src(fmt, 1), Src(fmt, 2)))
TransScaleb(fmt, fd) == GenFpArith("fscaleb", fmt, "", fd, Fscaleb(fmt, Src(fmt, 1), Src(fmt, 2), SoftEnv(dev.fcsr.rm)))
TransCopysign(fmt, fd) == GenFpArith("fcopysign", fmt, "", fd, Fcopysign(Fmt(fmt), Src(fmt, 1), Src(fmt, 2)))
TransRoots(op, fmt, fd) == GenFpArith(op, fmt, "", fd, SoftRoots(op, Fmt(fmt), Src(fmt, 1), SoftEnv(dev.fcsr.rm)))
TransLogb(fmt, fd) == GenFpArith("flogb", fmt, "", fd, Flogb(Fmt(fmt), Src(fmt, 1)))
TransFclass(fmt, fd) == GenFpUnary("fclass", fmt, "", fd, Fclass(Fmt(fmt), Src(fmt, 1)))
TransFrint(fmt, fd) == GenFpArith("frint", fmt, "", fd, Frint(Fmt(fmt), Src(fmt, 1), SoftEnv(dev.fcsr.rm)))
Other(fmt) == IF fmt = "s" THEN "d" ELSE "s"
TransFcvt(to, fd) == GenFpArith("fcvt", to, "", fd, Fcvt(Other(to), to, Src(Other(to), 1), SoftEnv(dev.fcsr.rm)))
TransFfint(fmt, ity, fd) == GenFpArith("ffint", fmt, ity, fd, Ffint(Fmt(fmt), dev.f[1], ity, dev.fcsr.rm))
TransFtintDownUp(op, fmt, ity, fd) == GenFpUnary(op, fmt, ity, fd, FpToInt(Fmt(fmt), Src(fmt, 1), Width(ity), FixedMode(op)))
TransFtintZeroNear(op, fmt, ity, fd) == GenFpUnary(op, fmt, ity, fd, FpToInt(Fmt(fmt), Src(fmt, 1), Width(ity), FixedMode(op)))
TransFtint(fmt, ity, fd) == GenFpUnary("ftint", fmt, ity, fd, FpToInt(Fmt(fmt), Src(fmt, 1), Width(ity), DynamicRound(dev.fcsr.rm)))
TransFcmp(cond, fmt) == GenFpCmp("fcmpc", fmt, cond, FcmpQuiet(cond, Fmt(fmt), Src(fmt, 1), Src(fmt, 2)))
TransFcmpUnordered(cond, fmt) == GenFpCmp("fcmpc", fmt, cond, FcmpQuiet(cond, Fmt(fmt), Src(fmt, 1), Src(fmt, 2)))
TransFcmpUnequal(cond, fmt) == GenFpCmp("fcmpc", fmt, cond, FcmpQuiet(cond, Fmt(fmt), Src(fmt, 1), Src(fmt, 2)))
TransFcmpSignal(cond, fmt) == GenFpCmp("fcmps", fmt, cond, FcmpSignal(cond, Fmt(fmt), Src(fmt, 1), Src(fmt, 2)))
TransFcmpSignalUnordered(cond, fmt) == GenFpCmp("fcmps", fmt, cond, FcmpSignal(cond, Fmt(fmt), Src(fmt, 1), Src(fmt, 2)))
TransFcmpSignalUnequal(cond, fmt) == GenFpCmp("fcmps", fmt, cond, FcmpSignal(cond, Fmt(fmt), Src(fmt, 1), Src(fmt, 2)))
TransFused(op, fmt, fd) == GenFpArith(op, fmt, "", fd, Fused(op, Fmt(fmt), Src(fmt, 1), Src(fmt, 2), Src(fmt, 0), SoftEnv(dev.fcsr.rm)))

\* moves: FCSR0 is left alone
Move(op, fmt, sub, after) ==
    /\ Ready
    /\ dev' = IF dev.fpe THEN NextInsn(after) ELSE CheckFpe(dev)
    /\ env' = Note(op, fmt, sub)
TransFmov(fmt, fd) == Move("fmov", fmt, "", [dev EXCEPT !.f[fd] = Boxed(fmt, Src(fmt, 1))])
TransFabs(fmt, fd) == Move("fabs", fmt, "", [dev EXCEPT !.f[fd] = Boxed(fmt, FAbs(Fmt(fmt), Src(fmt, 1)))])
TransFneg(fmt, fd) == Move("fneg", fmt, "", [dev EXCEPT !.f[fd] = Boxed(fmt, FNeg(Fmt(fmt), Src(fmt, 1)))])
TransMovgr2fr(half, fd) ==
    Move("movgr2fr", "d", half, [dev EXCEPT !.f[fd] = CASE half = "w" -> (@ - Low(@)) + Low(dev.r)
                                                       [] half = "hw" -> Low(@) + Low(dev.r) * 2^LW
                                                       [] half = "d" -> dev.r])
ExtI32(x) == SignedBits(x, LW) % 2^(2 * LW)
TransMovfr2gr(half) ==
    Move("movfr2gr", "d", half, [dev EXCEPT !.r = CASE half = "w" -> ExtI32(Low(dev.f[1]))
                                                   [] half = "hw" -> ExtI32(dev.f[1] \div 2^LW)
                                                   [] half = "d" -> dev.f[1]])
TransMovcf(op, fd) ==
    Move(op, "d", "", CASE op = "movfr2cf" -> [dev EXCEPT !.fcc = dev.f[1] % 2]
                        [] op = "movcf2fr" -> [dev EXCEPT !.f[fd] = dev.fcc]
                        [] op = "movgr2cf" -> [dev EXCEPT !.fcc = dev.r % 2]
                        [] op = "movcf2gr" -> [dev EXCEPT !.r = dev.fcc])
TransFsel(fd) == Move("fsel", "d", "", [dev EXCEPT !.f[fd] = IF dev.fcc # 0 THEN dev.f[2] ELSE dev.f[1]])
TransMovgr2fcsr(idx, v) ==
    /\ Ready
    /\ dev' = IF dev.fpe THEN NextInsn([dev EXCEPT !.fcsr = WriteFcsr(@, idx, v)]) ELSE CheckFpe(dev)
    /\ env' = IF dev.fpe /\ "fl" \in SubregisterMask(idx)
              THEN [Note("movgr2fcsr", "d", "") EXCEPT !.acc = v.fl, !.cause = v.ca]
              ELSE Note("movgr2fcsr", "d", "")
TransMovfcsr2gr(idx) == Move("movfcsr2gr", "d", "", [dev EXCEPT !.rf = ReadFcsr(dev.fcsr, idx)])

Branch(op, taken) ==
    /\ Ready
    /\ dev' = IF ~dev.fpe THEN CheckFpe(dev) ELSE IF taken THEN [dev EXCEPT !.pc = Taken] ELSE NextInsn(dev)
    /\ env' = Note(op, "d", "")
TransBceqz == Branch("bceqz", dev.fcc = 0)
TransBcnez == Branch("bcnez", dev.fcc # 0)

\* the guest's handler: it enables the unit and returns to the instruction, or skips an instruction that trapped
Ertn ==
    /\ dev.exc # "none"
    /\ dev' = [dev EXCEPT !.exc = "none", !.fpe = TRUE, !.pc = IF dev.exc = "fpd" THEN dev.era ELSE dev.era + 1]
    /\ env' = [env EXCEPT !.op = "ertn"]

Formats == {"s", "d"}
Done == env.left = 0 /\ dev.exc = "none" /\ UNCHANGED vars
Next ==
    \/ \E fmt \in Formats :
        \/ \E op \in {"fadd", "fsub", "fmul", "fdiv"} : TransArith(op, fmt, 1)
        \/ \E op \in {"fmax", "fmin", "fmaxa", "fmina"} : TransMaxMin(op, fmt, 1)
        \/ TransScaleb(fmt, 1) \/ TransCopysign(fmt, 1)
        \/ \E op \in {"fsqrt", "frecip", "frsqrt"} : TransRoots(op, fmt, 1)
        \/ TransLogb(fmt, 1) \/ TransFclass(fmt, 1) \/ TransFrint(fmt, 1) \/ TransFcvt(fmt, 1)
        \/ \E op \in {"fmadd", "fmsub", "fnmadd", "fnmsub"} : TransFused(op, fmt, 1)
        \/ \E ity \in {"w", "l"} :
            \/ TransFfint(fmt, ity, 1) \/ TransFtint(fmt, ity, 1)
            \/ \E op \in {"ftintrm", "ftintrp"} : TransFtintDownUp(op, fmt, ity, 1)
            \/ \E op \in {"ftintrz", "ftintrne"} : TransFtintZeroNear(op, fmt, ity, 1)
        \/ \E cond \in {"eq", "lt", "le", "un"} : TransFcmp(cond, fmt)
        \/ \E cond \in {"af", "ueq", "ult", "ule"} : TransFcmpUnordered(cond, fmt)
        \/ \E cond \in {"ne", "or", "une"} : TransFcmpUnequal(cond, fmt)
        \/ \E cond \in {"af", "eq", "lt", "le"} : TransFcmpSignal(cond, fmt)
        \/ \E cond \in {"un", "ueq", "ult", "ule"} : TransFcmpSignalUnordered(cond, fmt)
        \/ \E cond \in {"ne", "or", "une"} : TransFcmpSignalUnequal(cond, fmt)
        \/ TransFmov(fmt, 1) \/ TransFabs(fmt, 1) \/ TransFneg(fmt, 1)
    \/ \E half \in {"w", "hw", "d"} : TransMovgr2fr(half, 1) \/ TransMovfr2gr(half)
    \/ \E op \in {"movfr2cf", "movcf2fr", "movgr2cf", "movcf2gr"} : TransMovcf(op, 1)
    \/ TransFsel(1) \/ TransBceqz \/ TransBcnez
    \/ \E idx \in 0..3, v \in Writes : TransMovgr2fcsr(idx, v)
    \/ \E idx \in 0..3 : TransMovfcsr2gr(idx)
    \/ Ertn
    \/ Done

Cpu(x, y, c, fpe) ==
    [f |-> [i \in 0..2 |-> IF i = 2 THEN y ELSE x], fcc |-> 0, r |-> 2^(2 * LW) - 3, rf |-> ReadFcsr(c, 3),
     fcsr |-> c, fpe |-> fpe, pc |-> 0, exc |-> "none", era |-> 0]
Fresh(left, c) == [left |-> left, op |-> "none", fmt |-> "d", sub |-> "", acc |-> c.fl, cause |-> c.ca]
Control(rm, en) == [rm |-> rm, en |-> en, fl |-> {}, ca |-> {}]
Init ==
    \/ \E c \in Controls :
        \/ \E x, y \in Singles : dev = Cpu(NanboxS(x), NanboxS(y), c, TRUE) /\ env = Fresh(1, c)
        \/ \E x, y \in Doubles : dev = Cpu(x, y, c, TRUE) /\ env = Fresh(1, c)
    \/ \E p \in Pairs, c \in Writes, fpe \in BOOLEAN : dev = Cpu(p[1], p[2], c, fpe) /\ env = Fresh(MaxOps, c)

Spec == Init /\ [][Next]_vars

-----------------------------------------------------------------------------
\* The exceptions FCSR0 has accrued are exactly those of the instructions that did not trap since software last
\* wrote the field, its cause is that of the last instruction that raises any, and no accrued exception is one
\* that was enabled when it happened.
FcsrExact == dev.fcsr.fl = env.acc /\ dev.fcsr.ca = env.cause

\* An instruction that traps, because the unit is disabled or because of an enabled exception, leaves the registers
\* and the accrued exceptions as they were and its own address in ERA, and one that raises an enabled exception
\* always traps; after the handler returns, the instruction is executed again or skipped.
TrapPrecise ==
    /\ env'.left < env.left /\ dev'.exc # "none" =>
        /\ [dev' EXCEPT !.exc = "none", !.era = 0, !.pc = 0, !.fcsr.ca = {}] = [dev EXCEPT !.era = 0, !.pc = 0, !.fcsr.ca = {}]
        /\ dev'.era = dev.pc /\ dev'.pc = Vector
        /\ dev'.exc = "fpd" => ~dev.fpe /\ dev'.fcsr.ca = dev.fcsr.ca
        /\ dev'.exc = "fpe" => dev'.fcsr.ca \cap dev.fcsr.en # {}
    /\ env'.left < env.left /\ dev'.exc = "none" =>
        /\ dev.fpe
        /\ dev'.fcsr.ca # dev.fcsr.ca /\ env'.op # "movgr2fcsr" => dev'.fcsr.ca \cap dev.fcsr.en = {}

Executed == env'.left < env.left /\ dev.fpe /\ dev'.exc = "none"
F == Fmt(env'.fmt)
X == Opnd(env'.fmt, dev.f[1])
Y == Opnd(env'.fmt, dev.f[2])
Z == Opnd(env'.fmt, dev.f[0])
Out == Opnd(env'.fmt, dev'.f[1])

Fit(m, s, w) == IF s THEN m <= 2^(w - 1) ELSE m < 2^(w - 1)
ConvertMode == IF env'.op = "ftint" THEN LoongarchRoundMode(dev.fcsr.rm) ELSE FixedMode(env'.op)
IntRef(w) == Integral(Num(F, X), Den(F, X), NegBit(F, X), ConvertMode)
\* the values at the limits of the range, which the code tests before it rounds
AtTheLimit(w) == Fit(IntRef(w), NegBit(F, X), w) # Fit((Num(F, X) + Den(F, X) - 1) \div Den(F, X), NegBit(F, X), w)
                 \/ (w = 2 * LW /\ ~NegBit(F, X) /\ Num(F, X) \div Den(F, X) = 2^(w - 1))

\* A conversion to an integer is the nearest integer in the instruction's mode, inexact exactly when the number is
\* not an integer, and 0 and invalid for a NaN, an infinity and a number that does not fit.  Excepted are the numbers
\* at the limits, which the code compares with the largest and smallest integer before it rounds (helpers.rs:575,
\* 586): one between the largest integer and the next is invalid though its mode rounds it down to a number that
\* fits, and 2^63, which i64::MAX becomes as a double, is not invalid.
ConvertRight ==
    Executed /\ env'.op \in {"ftint", "ftintrm", "ftintrp", "ftintrz", "ftintrne"} =>
        LET w == Width(env'.sub)
        IN  IF ~Finite(F, X) THEN dev'.f[1] = 0 /\ dev'.fcsr.ca = {"NV"}
            ELSE \/ AtTheLimit(w)
                 \/ Fit(IntRef(w), NegBit(F, X), w)
                    /\ SignedBits(dev'.f[1], w) = (IF NegBit(F, X) THEN 0 - IntRef(w) ELSE IntRef(w))
                    /\ dev'.fcsr.ca = (IF Num(F, X) % Den(F, X) = 0 THEN {} ELSE {"NX"})
                 \/ ~Fit(IntRef(w), NegBit(F, X), w) /\ dev'.f[1] = 0 /\ dev'.fcsr.ca = {"NV"}

\* the order of two numbers, which are in the order of their sign and magnitude encodings
Rank(x) == IF NegBit(F, x) THEN 0 - Code(F, x) ELSE Code(F, x)
Order == IF NaN(F, X) \/ NaN(F, Y) THEN 2 ELSE CmpNum(Rank(X), Rank(Y))
Relations(cond) ==
    CASE cond = "af" -> {} [] cond = "eq" -> {0} [] cond = "lt" -> {-1} [] cond = "le" -> {-1, 0} [] cond = "un" -> {2}
      [] cond = "ueq" -> {2, 0} [] cond = "ult" -> {2, -1} [] cond = "ule" -> {2, -1, 0}
      [] cond = "ne" -> {-1, 1} [] cond = "or" -> {-1, 0, 1} [] cond = "une" -> {-1, 1, 2}
Better(x, y, op) ==
    CASE op = "fmax" -> Rank(x) >= Rank(y)
      [] op = "fmin" -> Rank(x) <= Rank(y)
      [] op = "fmaxa" -> Code(F, x) > Code(F, y) \/ (Code(F, x) = Code(F, y) /\ Rank(x) >= Rank(y))
      [] op = "fmina" -> Code(F, x) < Code(F, y) \/ (Code(F, x) = Code(F, y) /\ Rank(x) <= Rank(y))
\* A comparison sets the flag when the operands stand in a relation its condition names, a NaN in none but
\* unordered, and a maximum or minimum is an operand no worse than the other, or the one that is a number; a quiet
\* one is invalid for a signalling NaN, a signalling one for any.
CompareRight ==
    Executed =>
        /\ env'.op \in {"fcmpc", "fcmps"} =>
            /\ dev'.fcc = IF Order \in Relations(env'.sub) THEN 1 ELSE 0
            /\ dev'.fcsr.ca = IF \E x \in {X, Y} : SNaN(F, x) \/ (env'.op = "fcmps" /\ NaN(F, x)) THEN {"NV"} ELSE {}
        /\ env'.op \in {"fmax", "fmin", "fmaxa", "fmina"} =>
            /\ dev'.fcsr.ca = IF SNaN(F, X) \/ SNaN(F, Y) THEN {"NV"} ELSE {}
            /\ IF Order = 2
               THEN IF NaN(F, X) /\ NaN(F, Y) THEN NaN(F, Out) /\ ~SNaN(F, Out) ELSE Out \in {X, Y} /\ ~NaN(F, Out)
               ELSE Out \in {X, Y} /\ \A x \in {X, Y} : Better(Out, x, env'.op)

\* the exact sum of a fused operation in units of the format
Plus == env'.op \in {"fmadd", "fnmadd"}
FusedSum == Signed(Val(F, X) * Val(F, Y) + (IF Plus THEN 1 ELSE -1) * OneUnits(F) * Val(F, Z), OneUnits(F))
Significand(G, v) == LET p == Unpack(G, v) IN p.frac
Carries == FracProduct(Significand(F, X), Significand(F, Y)) >= 2^(IB + 1)
Modest(x) == Finite(F, x) /\ Code(F, x) # 0 /\ Mag(F, Code(F, x)) < 2^12
Boxes == {"fadd", "fsub", "fmul", "fdiv", "fmax", "fmin", "fmaxa", "fmina", "fscaleb", "fcopysign", "fsqrt", "frecip", "frsqrt", "flogb",
          "frint", "fcvt", "fmadd", "fmsub", "fnmadd", "fnmsub", "ffint", "fmov", "fabs", "fneg"}
\* Every single-precision result is boxed with ones above it; the logarithm of a positive number is the exponent of
\* the power of two at or below it, a subnormal's too; a class is that of the number; and a fused operation is the
\* exact sum rounded once, then negated.  Of the fused operations two cases are excepted, which softfloat does not
\* round: a product of significands of two or more (fma.rs:173), and a sum that rounds up to the smallest normal
\* number (parts.rs:348); checked are the single ones of finite operands other than zero.
ResultRight ==
    Executed =>
        /\ env'.fmt = "s" /\ env'.op \in Boxes => dev'.f[1] \div 2^LW = 2^LW - 1
        /\ env'.op = "flogb" /\ Finite(F, X) /\ X # 0 /\ ~NegBit(F, X) =>
            LET k == (IF NegBit(F, Out) THEN -1 ELSE 1) * (Num(F, Out) \div Den(F, Out))
                up == 2^(IF k < 0 THEN 0 - k ELSE 0)
                down == 2^(IF k > 0 THEN k ELSE 0)
            IN  /\ Finite(F, Out) /\ Num(F, Out) % Den(F, Out) = 0
                /\ Num(F, X) * up >= Den(F, X) * down /\ Num(F, X) * up < 2 * Den(F, X) * down
        /\ env'.op = "fclass" =>
            LET p == Unpack(F, X)
                cls == p.cls
            IN  dev'.f[1] = 2^(CASE cls = "SNaN" -> 0 [] cls = "QNaN" -> 1
                                 [] OTHER -> (IF NegBit(F, X) THEN 2 ELSE 6)
                                             + (CASE cls = "Inf" -> 0 [] cls = "Zero" -> 3 [] cls = "Normal" -> IF IsSubnormal(F, X) THEN 2 ELSE 1))
        /\ env'.fmt = "s" /\ env'.op \in {"fmadd", "fmsub", "fnmadd", "fnmsub"} /\ (\A x \in {X, Y, Z} : Modest(x)) /\ ~Carries =>
            LET sum == FusedSum
                want == Ref(F, sum.x, SoftEnv(dev.fcsr.rm), sum.s)
            IN  sum.x.num = 0 \/ (want.code = 2^F.f /\ "NX" \in want.flags)
                \/ (Code(F, Out) = want.code /\ NegBit(F, Out) = (sum.s # (env'.op \in {"fnmadd", "fnmsub"})) /\ dev'.fcsr.ca = want.flags)
=============================================================================
