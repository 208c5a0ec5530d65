------------------------------- MODULE RvFpu -------------------------------
(***************************************************************************)
(* The RISC-V floating-point extensions F, D and Zfh: translators that     *)
(* check mstatus.FS, mark it dirty and call a helper, and helpers that     *)
(* unbox their operands, call SoftFloat with the rounding mode asked for,  *)
(* accrue its flags in fflags and box the result.  A guest kernel that     *)
(* switches between two tasks uses FS to save and restore lazily.          *)
(***************************************************************************)
EXTENDS SoftFloat, FiniteSets

CONSTANTS Half, Single, Double,   \* the formats; a double fills a register
          Operands,      \* pairs of register contents Init starts from
          Frms,          \* dynamic rounding modes
          Tasks,         \* pairs for the runs with task switches
          Rms,           \* rounding modes of instructions, 7 for the dynamic one
          SwitchOps,     \* the instructions of the runs with task switches
          MaxOps         \* steps of such a run

VARIABLES dev,   \* the hart: f, x (a general register), fl (fflags), frm, fs (mstatus.FS), exc
          env    \* mem (the word loads and stores use), and the kernel: saved, own, and notes

vars == <<dev, env>>

Bits(F) == SignPos(F) + 1
FL == Bits(Double)
Nanbox(F, v) == IF F = Double THEN v ELSE (2^FL - 2^Bits(F)) + v
Unbox(F, raw) == IF F = Double THEN raw ELSE IF raw \div 2^Bits(F) = 2^(FL - Bits(F)) - 1 THEN raw % 2^Bits(F) ELSE DefaultNan(F)
SignedBits(x, w) == IF x % 2^w >= 2^(w - 1) THEN (x % 2^w) - 2^w ELSE x % 2^w
Word(i) == i % 2^FL

-----------------------------------------------------------------------------
(* Environments, flags and boxes.                                          *)
RmVal(d, rm) == IF rm = 7 THEN d.frm ELSE rm
MakeEnv(mode) == [rm |-> <<"NearEven", "ToZero", "Down", "Up", "NearMaxMag">>[mode + 1], before |-> FALSE, dn |-> TRUE]
\* an illegal mode rounds to nearest, and is an invalid operation
MakeEnvOrInvalid(d, rm) == IF RmVal(d, rm) <= 4 THEN MakeEnv(RmVal(d, rm)) ELSE MakeEnv(0)
RmFlags(d, rm) == IF RmVal(d, rm) <= 4 THEN {} ELSE {"NV"}
MakeCmpEnv == MakeEnv(0)
CommitFlags(d, flags) == [d EXCEPT !.fl = @ \cup flags]

Neg(F, v) == FNeg(F, v)
FclassBits(F, v) ==
    LET s == NegBit(F, v)
        frac == RawFrac(F, v)
        exp == RawExp(F, v)
    IN  CASE exp = MaxExp(F) /\ frac = 0 -> IF s THEN 0 ELSE 7
          [] exp \notin {0, MaxExp(F)} -> IF s THEN 1 ELSE 6
          [] exp = 0 /\ frac # 0 -> IF s THEN 2 ELSE 5
          [] exp = 0 /\ frac = 0 -> IF s THEN 3 ELSE 4
          [] exp = MaxExp(F) /\ frac # 0 -> IF (frac \div 2^(F.f - 1)) % 2 = 0 THEN 8 ELSE 9

-----------------------------------------------------------------------------
(* The helpers, once for all formats; an outcome is a value and its flags. *)
Arith(op, F, a, b, en) ==
    CASE op = "fadd" -> FAdd(F, a, b, en)
      [] op = "fsub" -> FSub(F, a, b, en)
      [] op = "fmul" -> FMul(F, a, b, en)
      [] op = "fdiv" -> FDiv(F, a, b, en)
      [] op = "fsqrt" -> FSqrt(F, a, en)
Fused(op, F, a, b, c, en) ==
    CASE op = "fmadd" -> FFma(F, a, b, c, en)
      [] op = "fmsub" -> FFma(F, a, b, Neg(F, c), en)
      [] op = "fnmsub" -> FFma(F, Neg(F, a), b, c, en)
      [] op = "fnmadd" -> FFma(F, Neg(F, a), b, Neg(F, c), en)
SignOf(op, F, a, b) ==
    CASE op = "fsgnj" -> NegBit(F, b)
      [] op = "fsgnjn" -> ~NegBit(F, b)
      [] op = "fsgnjx" -> NegBit(F, a) # NegBit(F, b)
Sgnj(op, F, a, b) == FAbs(F, a) + (IF SignOf(op, F, a, b) THEN 2^SignPos(F) ELSE 0)
MinMax(op, F, a, b) == IF op = "fmin" THEN FMin(F, a, b, MakeCmpEnv) ELSE FMax(F, a, b, MakeCmpEnv)
\* feq is quiet, flt and fle signal
Compared(op, c) ==
    Result(CASE op = "feq" -> IF c.v = 0 THEN 1 ELSE 0
             [] op = "flt" -> IF c.v = -1 THEN 1 ELSE 0
             [] op = "fle" -> IF c.v \in {-1, 0} THEN 1 ELSE 0, c.flags)
Cmp(op, F, a, b) == Compared(op, FCompare(F, a, b, op = "feq"))
\* 32-bit results are sign extended, unsigned ones too
WidthOf(ity) == IF ity \in {"w", "wu"} THEN Bits(Single) ELSE FL
Narrow(r, ity) == [r EXCEPT !.v = Word(SignedBits(@, WidthOf(ity)))]
ToInt(F, ity, a, en) == Narrow(FToInt(F, a, ity \in {"w", "l"}, WidthOf(ity), en), ity)
FromInt(F, ity, x, en) == FFromInt(F, IF ity \in {"w", "l"} THEN SignedBits(x, WidthOf(ity)) ELSE x % 2^WidthOf(ity), en)

HelperArithS(op, a, b, en) == Arith(op, Single, Unbox(Single, a), Unbox(Single, b), en)
HelperFmaS(op, a, b, c, en) == Fused(op, Single, Unbox(Single, a), Unbox(Single, b), Unbox(Single, c), en)
HelperSgnjS(op, a, b) == Sgnj(op, Single, Unbox(Single, a), Unbox(Single, b))
HelperMinMaxS(op, a, b) == MinMax(op, Single, Unbox(Single, a), Unbox(Single, b))
HelperCmpS(op, a, b) == Cmp(op, Single, Unbox(Single, a), Unbox(Single, b))
HelperClassS(a) == 2^FclassBits(Single, Unbox(Single, a))
HelperToIntS(ity, a, en) == ToInt(Single, ity, Unbox(Single, a), en)
HelperFromIntS(ity, x, en) == FromInt(Single, ity, x, en)
HelperArithD(op, a, b, en) == Arith(op, Double, a, b, en)
HelperFmaD(op, a, b, c, en) == Fused(op, Double, a, b, c, en)
HelperSgnjD(op, a, b) == Sgnj(op, Double, a, b)
HelperMinMaxD(op, a, b) == MinMax(op, Double, a, b)
HelperCmpD(op, a, b) == Cmp(op, Double, a, b)
HelperClassD(a) == 2^FclassBits(Double, a)
HelperToIntD(ity, a, en) == ToInt(Double, ity, a, en)
HelperFromIntD(ity, x, en) == FromInt(Double, ity, x, en)
HelperArithH(op, a, b, en) == Arith(op, Half, Unbox(Half, a), Unbox(Half, b), en)
HelperFmaH(op, a, b, c, en) == Fused(op, Half, Unbox(Half, a), Unbox(Half, b), Unbox(Half, c), en)
HelperSgnjH(op, a, b) == Sgnj(op, Half, Unbox(Half, a), Unbox(Half, b))
HelperMinMaxH(op, a, b) == MinMax(op, Half, Unbox(Half, a), Unbox(Half, b))
HelperCmpH(op, a, b) == Cmp(op, Half, Unbox(Half, a), Unbox(Half, b))
HelperClassH(a) == 2^FclassBits(Half, Unbox(Half, a))
HelperToIntH(ity, a, en) == ToInt(Half, ity, Unbox(Half, a), en)
HelperFromIntH(ity, x, en) == FromInt(Half, ity, x, en)
HelperCross(F, G, a, en) == FConvert(F, G, Unbox(F, a), en)
HelperCrossH(F, G, a, en) == FConvert(F, G, Unbox(F, a), en)

-----------------------------------------------------------------------------
(* The translators.  rs1, rs2 and rs3 are f[1], f[2] and f[0], or x; the   *)
(* destination is f[1] or x.                                               *)
Fmt(fmt) == CASE fmt = "h" -> Half [] fmt = "s" -> Single [] fmt = "d" -> Double
Allowed(op) == dev.exc = "none" /\ env.left > 0 /\ (env.tasks => op \in SwitchOps)
\* an instruction with the unit off is illegal
GenFpCheck(after) == IF dev.fs = "Off" THEN [dev EXCEPT !.exc = "illegal"] ELSE after
GenSetFsDirty(d) == [d EXCEPT !.fs = "Dirty"]
Notes(op, fmt, sub, rm) == [env EXCEPT !.left = @ - 1, !.op = op, !.fmt = fmt, !.sub = sub, !.rm = rm]
\* an instruction that writes a floating-point register
ToFpr(op, fmt, sub, rm, v, flags) ==
    /\ Allowed(op)
    /\ dev' = GenFpCheck(CommitFlags(GenSetFsDirty([dev EXCEPT !.f[1] = v]), flags))
    /\ env' = Notes(op, fmt, sub, rm)
\* one that writes a general register: it does not mark the state dirty, though it may accrue flags
ToGpr(op, fmt, sub, rm, v, flags) ==
    /\ Allowed(op)
    /\ dev' = GenFpCheck(CommitFlags([dev EXCEPT !.x = v], flags))
    /\ env' = [Notes(op, fmt, sub, rm) EXCEPT !.late = @ \/ (dev.fs = "Clean" /\ ~(flags \subseteq dev.fl))]
Rounded(op, fmt, sub, rm, r) == ToFpr(op, fmt, sub, rm, Nanbox(Fmt(fmt), r.v), r.flags \cup RmFlags(dev, rm))
RoundedInt(op, fmt, sub, rm, r) == ToGpr(op, fmt, sub, rm, r.v, r.flags \cup RmFlags(dev, rm))
En(rm) == MakeEnvOrInvalid(dev, rm)

ArithOps == {"fadd", "fsub", "fmul", "fdiv", "fsqrt"}
FmaOps == {"fmadd", "fmsub", "fnmsub", "fnmadd"}
SignOps == {"fsgnj", "fsgnjn", "fsgnjx"}
MinMaxOps == {"fmin", "fmax"}
CmpOps == {"feq", "flt", "fle"}
IntTypes == {"w", "wu", "l", "lu"}
TransArithS == \E op \in ArithOps, rm \in Rms : Rounded(op, "s", "", rm, HelperArithS(op, dev.f[1], dev.f[2], En(rm)))
TransArithD == \E op \in ArithOps, rm \in Rms : Rounded(op, "d", "", rm, HelperArithD(op, dev.f[1], dev.f[2], En(rm)))
TransArithH == \E op \in ArithOps, rm \in Rms : Rounded(op, "h", "", rm, HelperArithH(op, dev.f[1], dev.f[2], En(rm)))
TransFmaS == \E op \in FmaOps, rm \in Rms : Rounded(op, "s", "", rm, HelperFmaS(op, dev.f[1], dev.f[2], dev.f[0], En(rm)))
TransFmaD == \E op \in FmaOps, rm \in Rms : Rounded(op, "d", "", rm, HelperFmaD(op, dev.f[1], dev.f[2], dev.f[0], En(rm)))
TransFmaH == \E op \in FmaOps, rm \in Rms : Rounded(op, "h", "", rm, HelperFmaH(op, dev.f[1], dev.f[2], dev.f[0], En(rm)))
TransSignMinMaxS ==
    \/ \E op \in SignOps : ToFpr(op, "s", "", 0, Nanbox(Single, HelperSgnjS(op, dev.f[1], dev.f[2])), {})
    \/ \E op \in MinMaxOps : Rounded(op, "s", "", 0, HelperMinMaxS(op, dev.f[1], dev.f[2]))
TransSignMinMaxD ==
    \/ \E op \in SignOps : ToFpr(op, "d", "", 0, HelperSgnjD(op, dev.f[1], dev.f[2]), {})
    \/ \E op \in MinMaxOps : Rounded(op, "d", "", 0, HelperMinMaxD(op, dev.f[1], dev.f[2]))
TransSignMinMaxH ==
    \/ \E op \in SignOps : ToFpr(op, "h", "", 0, Nanbox(Half, HelperSgnjH(op, dev.f[1], dev.f[2])), {})
    \/ \E op \in MinMaxOps : Rounded(op, "h", "", 0, HelperMinMaxH(op, dev.f[1], dev.f[2]))
TransCmpS == (\E op \in CmpOps : RoundedInt(op, "s", "", 0, HelperCmpS(op, dev.f[1], dev.f[2]))) \/ ToGpr("fclass", "s", "", 0, HelperClassS(dev.f[1]), {})
TransCmpD == (\E op \in CmpOps : RoundedInt(op, "d", "", 0, HelperCmpD(op, dev.f[1], dev.f[2]))) \/ ToGpr("fclass", "d", "", 0, HelperClassD(dev.f[1]), {})
TransCmpH == (\E op \in CmpOps : RoundedInt(op, "h", "", 0, HelperCmpH(op, dev.f[1], dev.f[2]))) \/ ToGpr("fclass", "h", "", 0, HelperClassH(dev.f[1]), {})
TransWordS == \E ity \in {"w", "wu"}, rm \in Rms :
    RoundedInt("toint", "s", ity, rm, HelperToIntS(ity, dev.f[1], En(rm))) \/ Rounded("fromint", "s", ity, rm, HelperFromIntS(ity, dev.x, En(rm)))
TransLongS == \E ity \in {"l", "lu"}, rm \in Rms :
    RoundedInt("toint", "s", ity, rm, HelperToIntS(ity, dev.f[1], En(rm))) \/ Rounded("fromint", "s", ity, rm, HelperFromIntS(ity, dev.x, En(rm)))
TransIntD == \E ity \in IntTypes, rm \in Rms :
    RoundedInt("toint", "d", ity, rm, HelperToIntD(ity, dev.f[1], En(rm))) \/ Rounded("fromint", "d", ity, rm, HelperFromIntD(ity, dev.x, En(rm)))
TransIntH == \E ity \in IntTypes, rm \in Rms :
    RoundedInt("toint", "h", ity, rm, HelperToIntH(ity, dev.f[1], En(rm))) \/ Rounded("fromint", "h", ity, rm, HelperFromIntH(ity, dev.x, En(rm)))
TransCross == \E p \in {<<"d", "s">>, <<"s", "d">>}, rm \in Rms : Rounded("fcvt", p[2], p[1], rm, HelperCross(Fmt(p[1]), Fmt(p[2]), dev.f[1], En(rm)))
TransCrossH == \E p \in {<<"h", "s">>, <<"s", "h">>, <<"h", "d">>, <<"d", "h">>}, rm \in Rms :
    Rounded("fcvt", p[2], p[1], rm, HelperCrossH(Fmt(p[1]), Fmt(p[2]), dev.f[1], En(rm)))
TransMvS == ToGpr("fmvx", "s", "", 0, Word(SignedBits(dev.f[1], Bits(Single))), {}) \/ ToFpr("fmvf", "s", "", 0, Nanbox(Single, dev.x % 2^Bits(Single)), {})
TransMvD == ToGpr("fmvx", "d", "", 0, dev.f[1], {}) \/ ToFpr("fmvf", "d", "", 0, dev.x, {})
TransMvH == ToGpr("fmvx", "h", "", 0, Word(SignedBits(dev.f[1], Bits(Half))), {}) \/ ToFpr("fmvf", "h", "", 0, Nanbox(Half, dev.x % 2^Bits(Half)), {})

GenFpLoad(fmt) == ToFpr("load", fmt, "", 0, Nanbox(Fmt(fmt), env.mem % 2^Bits(Fmt(fmt))), {})
GenFpLoadH == ToFpr("load", "h", "", 0, Nanbox(Half, env.mem % 2^Bits(Half)), {})
Stored(w) == (env.mem - (env.mem % 2^w)) + (dev.f[2] % 2^w)
Store(op, fmt, w) ==
    /\ Allowed(op)
    /\ dev' = GenFpCheck(dev)
    /\ env' = [Notes(op, fmt, "", 0) EXCEPT !.mem = IF dev.fs = "Off" THEN @ ELSE Stored(w)]
GenFpStore(fmt) == Store("store", fmt, Bits(Fmt(fmt)))
GenFpStoreH == Store("store", "h", Bits(Half))

\* fflags, frm and fcsr: read, then written, without looking at FS
CsrRead(d, csr) == CASE csr = "fflags" -> [fl |-> d.fl, frm |-> 0] [] csr = "frm" -> [fl |-> {}, frm |-> d.frm] [] csr = "fcsr" -> [fl |-> d.fl, frm |-> d.frm]
CsrWrite(d, csr, v) ==
    GenSetFsDirty(CASE csr = "fflags" -> [d EXCEPT !.fl = v.fl] [] csr = "frm" -> [d EXCEPT !.frm = v.frm] [] csr = "fcsr" -> [d EXCEPT !.fl = v.fl, !.frm = v.frm])
CsrWrites(csr, v) ==
    /\ Allowed("csr")
    /\ dev' = CsrWrite(dev, csr, v)
    /\ env' = [Notes("csr", "", csr, 0) EXCEPT !.read = CsrRead(dev, csr), !.skew = @ \/ dev.fs = "Off"]
TransCsrrw == \E csr \in {"fflags", "frm", "fcsr"}, frm \in Frms : CsrWrites(csr, [fl |-> {}, frm |-> frm])
TransCsrrs == \E csr \in {"fflags", "fcsr"} : CsrWrites(csr, [CsrRead(dev, csr) EXCEPT !.fl = @ \cup {"UF"}])
TransCsrrc == \E csr \in {"fflags", "fcsr"} : CsrWrites(csr, [CsrRead(dev, csr) EXCEPT !.fl = @ \ {"NV", "NX"}])
TransCsrr ==
    /\ Allowed("csr")
    /\ dev' = dev
    /\ env' = [Notes("csr", "", "fcsr", 0) EXCEPT !.read = CsrRead(dev, "fcsr")]

-----------------------------------------------------------------------------
(* The guest kernel: it saves a dirty state when it leaves the task, turns *)
(* the unit off, and restores at the first use.                            *)
FpState(d) == [f |-> d.f, fl |-> d.fl, frm |-> d.frm]
KernelSwitch ==
    /\ env.tasks /\ env.left > 0 /\ dev.exc = "none" /\ env.own
    /\ env' = [env EXCEPT !.saved = IF dev.fs = "Dirty" THEN FpState(dev) ELSE @, !.own = FALSE, !.left = @ - 1, !.late = FALSE, !.op = "switch"]
    /\ dev' = [dev EXCEPT !.fs = "Off", !.f = [i \in 0..2 |-> 0], !.fl = {}, !.frm = 0]
KernelRestore ==
    /\ dev.exc = "illegal"
    /\ dev' = [dev EXCEPT !.exc = "none", !.fs = "Clean", !.f = env.saved.f, !.fl = env.saved.fl, !.frm = env.saved.frm]
    /\ env' = [env EXCEPT !.own = TRUE, !.op = "restore"]

Done == env.left = 0 /\ dev.exc = "none" /\ UNCHANGED vars
Next ==
    \/ TransArithS \/ TransArithD \/ TransArithH \/ TransFmaS \/ TransFmaD \/ TransFmaH
    \/ TransSignMinMaxS \/ TransSignMinMaxD \/ TransSignMinMaxH \/ TransCmpS \/ TransCmpD \/ TransCmpH
    \/ TransWordS \/ TransLongS \/ TransIntD \/ TransIntH \/ TransCross \/ TransCrossH \/ TransMvS \/ TransMvD \/ TransMvH
    \/ \E fmt \in {"s", "d"} : GenFpLoad(fmt) \/ GenFpStore(fmt)
    \/ GenFpLoadH \/ GenFpStoreH
    \/ TransCsrrw \/ TransCsrrs \/ TransCsrrc \/ TransCsrr
    \/ KernelSwitch \/ KernelRestore \/ Done

Hart(x, y, frm, fs) == [f |-> [k \in 0..2 |-> IF k = 2 THEN y ELSE x], x |-> x, fl |-> {}, frm |-> frm, fs |-> fs, exc |-> "none"]
Kernel(d, m, left, tasks) ==
    [mem |-> m, left |-> left, tasks |-> tasks, saved |-> FpState(d), own |-> TRUE, late |-> FALSE, skew |-> FALSE,
     op |-> "none", fmt |-> "", sub |-> "", rm |-> 0, read |-> [fl |-> {}, frm |-> 0]]
Init ==
    \/ \E p \in Operands, frm \in Frms : dev = Hart(p[1], p[2], frm, "Dirty") /\ env = Kernel(dev, p[2], 1, FALSE)
    \/ \E p \in Tasks : dev = Hart(p[1], p[2], 0, "Clean") /\ env = Kernel(dev, p[1], MaxOps, TRUE)
Spec == Init /\ [][Next]_vars

-----------------------------------------------------------------------------
\* A floating-point state the kernel believes clean is the one it saved, but for flags a comparison or a conversion
\* to an integer has raised without marking the state dirty.
FsHonest == dev.fs = "Clean" /\ ~env.late => FpState(dev) = env.saved

\* A task that finds the unit on finds its own registers in it, unless it wrote fcsr, which does not look at FS,
\* while the unit was off.
OwnState == dev.fs # "Off" => env.own \/ env.skew

Executed == env'.left < env.left /\ env'.op # "switch" /\ dev'.exc = "none"
F == Fmt(env'.fmt)
\* what the architecture makes of a register's contents: a value without its box is a NaN
Boxed(raw) == F = Double \/ raw \div 2^Bits(F) = 2^(FL - Bits(F)) - 1
Operand(raw) == IF Boxed(raw) THEN raw % 2^Bits(F) ELSE DefaultNan(F)
X == Operand(dev.f[1])
Y == Operand(dev.f[2])
Z == Operand(dev.f[0])
Out == dev'.f[1] % 2^Bits(F)
Mode == LET m == IF env'.rm = 7 THEN dev.frm ELSE env'.rm IN <<"NearEven", "ToZero", "Down", "Up", "NearMaxMag", "NearEven", "NearEven", "NearEven">>[m + 1]

\* A flag stays raised until software writes fflags, and an instruction with an illegal rounding mode raises invalid.
FlagsKept ==
    Executed /\ env'.op # "csr" =>
        /\ dev.fl \subseteq dev'.fl
        /\ env'.op \in ArithOps \cup FmaOps \cup {"toint", "fromint", "fcvt"} /\ env'.rm = 7 /\ dev.frm > 4 => "NV" \in dev'.fl

IsSigned == env'.sub \in {"w", "l"}
IntRef == Integral(Num(F, X), Den(F, X), NegBit(F, X), Mode)
IntRange == IF IsSigned THEN (0 - 2^(WidthOf(env'.sub) - 1))..(2^(WidthOf(env'.sub) - 1) - 1) ELSE 0..(2^WidthOf(env'.sub) - 1)
\* the two cases float_to_uint128() loses (convert.rs:43, 58)
LostSmall == 2 * Num(F, X) < Den(F, X) /\ IntRef # 0
LostLarge == LET p == Unpack(F, X) IN p.exp >= IB + 2
Saturated == IF NegBit(F, X) /\ ~NaN(F, X) THEN (IF IsSigned THEN 0 - 2^(WidthOf(env'.sub) - 1) ELSE 0) ELSE 2^(WidthOf(env'.sub) - (IF IsSigned THEN 1 ELSE 0)) - 1
IntWant(i) == IF Finite(F, X) /\ i \in IntRange THEN Result(i, IF Num(F, X) % Den(F, X) = 0 THEN {} ELSE {"NX"}) ELSE Result(Saturated, {"NV"})
\* A conversion to an integer is the nearest one in the mode, or the limit and invalid for a NaN and a number outside
\* the range; a 32-bit result is sign extended whether it is signed or not.  Excepted are the two cases softfloat
\* loses: a magnitude below a half that its mode rounds away from zero, and a double of 2^128 and more, whose bits
\* leave the wide word.
IntRight ==
    Executed /\ env'.op = "toint" /\ (Finite(F, X) => ~LostSmall /\ ~LostLarge) =>
        LET want == IntWant(IF Finite(F, X) THEN (IF NegBit(F, X) THEN 0 - IntRef ELSE IntRef) ELSE 0)
        IN  /\ dev'.x = SignedBits(want.v, WidthOf(env'.sub)) % 2^FL
            /\ want.flags \subseteq dev'.fl /\ (dev.fl = {} /\ (env'.rm # 7 \/ dev.frm <= 4) => dev'.fl = want.flags)

\* the order of two numbers, which are in the order of their sign and magnitude encodings
Rank(x) == IF NegBit(F, x) THEN 0 - Code(F, x) ELSE Code(F, x)
Order == IF NaN(F, X) \/ NaN(F, Y) THEN 2 ELSE CmpNum(Rank(X), Rank(Y))
\* a zero and a number of its sign below one: min() and max() take the zero for the larger in magnitude (minmax.rs:52)
ZeroBelowOne == \E x, y \in {X, Y} : x # y /\ IsZero(F, x) /\ Finite(F, y) /\ NegBit(F, x) = NegBit(F, y) /\ Num(F, y) < Den(F, y)
\* Comparisons follow the order of the numbers, false for a NaN, of which equality signals only for a signalling one;
\* a minimum or maximum is the operand at that end, the one that is a number, or the canonical NaN.  Excepted is the
\* minimum or maximum of a zero and a number of its sign below one, where FMIN and FMAX call the softfloat functions
\* that return the other operand (fpu.rs:413): FMIN of 0 and 0.5 is 0.5.
OrderRight ==
    Executed =>
        /\ env'.op \in CmpOps =>
            /\ dev'.x = IF Order \in (CASE env'.op = "feq" -> {0} [] env'.op = "flt" -> {-1} [] env'.op = "fle" -> {-1, 0}) THEN 1 ELSE 0
            /\ dev.fl = {} => (dev'.fl = IF \E x \in {X, Y} : SNaN(F, x) \/ (env'.op # "feq" /\ NaN(F, x)) THEN {"NV"} ELSE {})
        /\ env'.op \in MinMaxOps /\ ~ZeroBelowOne =>
            IF NaN(F, X) /\ NaN(F, Y) THEN Out = DefaultNan(F)
            ELSE /\ Out \in {X, Y} /\ ~NaN(F, Out)
                 /\ Order # 2 => \A x \in {X, Y} : IF env'.op = "fmin" THEN Rank(Out) <= Rank(x) ELSE Rank(Out) >= Rank(x)

\* the exact sum of a fused operation in units of the format
FusedSum ==
    Signed((IF env'.op \in {"fnmsub", "fnmadd"} THEN -1 ELSE 1) * Val(F, X) * Val(F, Y)
           + (IF env'.op \in {"fmsub", "fnmadd"} THEN -1 ELSE 1) * OneUnits(F) * Val(F, Z), OneUnits(F))
Significand(G, v) == LET p == Unpack(G, v) IN p.frac
Carries == FracProduct(Significand(F, X), Significand(F, Y)) >= 2^(IB + 1)
Modest(x) == Finite(F, x) /\ Code(F, x) # 0 /\ Mag(F, Code(F, x)) < 2^12
ToFprOps == ArithOps \cup FmaOps \cup SignOps \cup MinMaxOps \cup {"fromint", "fcvt", "load", "fmvf"}
\* A result narrower than the register is boxed, and a NaN that arithmetic yields is the canonical one; an operand
\* that is not boxed counts as that NaN; a class is the number's; and a fused operation is the exact sum rounded
\* once in the mode asked for.  Of the fused operations two cases are excepted, which softfloat does not round: a
\* product of significands of two or more (fma.rs:173), and a sum that rounds up to the smallest normal number
\* (parts.rs:348); checked are the half and single ones of finite operands other than zero.
ResultRight ==
    Executed =>
        /\ env'.op \in ToFprOps => Boxed(dev'.f[1])
        /\ env'.op \in ArithOps \cup FmaOps =>
            /\ NaN(F, Out) => Out = DefaultNan(F)
            /\ NaN(F, X) \/ (env'.op # "fsqrt" /\ NaN(F, Y)) => NaN(F, Out)
        /\ env'.op = "fclass" =>
            LET p == Unpack(F, X)
                place == CASE p.cls = "Inf" -> 4 [] p.cls = "Zero" -> 1 [] p.cls = "Normal" -> (IF IsSubnormal(F, X) THEN 2 ELSE 3) [] OTHER -> 0
            IN  dev'.x = 2^(CASE p.cls = "SNaN" -> 8 [] p.cls = "QNaN" -> 9 [] OTHER -> IF NegBit(F, X) THEN 4 - place ELSE 3 + place)
        /\ env'.fmt # "d" /\ env'.op \in FmaOps /\ (\A x \in {X, Y, Z} : Modest(x)) /\ ~Carries =>
            LET sum == FusedSum
                want == Ref(F, sum.x, [rm |-> Mode, before |-> FALSE, dn |-> TRUE], sum.s)
            IN  sum.x.num = 0 \/ (want.code = 2^F.f /\ "NX" \in want.flags)
                \/ (Code(F, Out) = want.code /\ NegBit(F, Out) = sum.s /\ want.flags \subseteq dev'.fl)
=============================================================================
