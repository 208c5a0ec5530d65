------------------------------ MODULE FloatOps ------------------------------
(***************************************************************************)
(* The operations of SoftFloat, called one after another on every operand  *)
(* of small formats, and what IEEE arithmetic says of each: the result is  *)
(* the exact value rounded once.  The exact value is kept as a fraction    *)
(* num / den (or the square root of one) of the format's smallest          *)
(* subnormal, so that the reference computes in integers.                  *)
(***************************************************************************)
EXTENDS SoftFloat, FiniteSets

CONSTANTS Small,      \* the format of the arithmetic
          Wide,       \* a format with the exponents the integer conversions tell apart
          Others,     \* the formats converted to and from
          ArithModes, \* rounding modes of the operations on two operands
          FmaVals     \* operands of the fused operation

VARIABLES dev,        \* the call: operation, operands, rounding environment
          env         \* its outcome

vars == <<dev, env>>

Encodings(F) == 0..(2^(SignPos(F) + 1) - 1)
\* the encodings the library itself produces: an explicit integer bit agrees with the exponent
Canonical(F) == {v \in Encodings(F) : F.x => (RawFrac(F, v) >= 2^F.f <=> RawExp(F, v) # 0)}
NonNeg(F) == {v \in Canonical(F) : ~NegBit(F, v)}
En(rm, before, dn) == [rm |-> rm, before |-> before, dn |-> dn]
Envs(modes) == {En(rm, FALSE, FALSE) : rm \in modes}
NearEn == En("NearEven", FALSE, FALSE)
Idle == [op |-> "idle", F |-> Small, G |-> Small, a |-> 0, b |-> 0, c |-> 0, en |-> NearEn]
NoResult == Result(0, {})

Call(op, F, G, a, b, c, en, r) ==
    dev' = [op |-> op, F |-> F, G |-> G, a |-> a, b |-> b, c |-> c, en |-> en] /\ env' = r

Add(a, b, en) == Call("add", Small, Small, a, b, 0, en, FAdd(Small, a, b, en))
Sub(a, b, en) == Call("sub", Small, Small, a, b, 0, en, FSub(Small, a, b, en))
Mul(a, b, en) == Call("mul", Small, Small, a, b, 0, en, FMul(Small, a, b, en))
Div(a, b, en) == Call("div", Small, Small, a, b, 0, en, FDiv(Small, a, b, en))
Fma(a, b, c, en) == Call("fma", Small, Small, a, b, c, en, FFma(Small, a, b, c, en))
Sqrt(a, en) == Call("sqrt", Small, Small, a, 0, 0, en, FSqrt(Small, a, en))
RoundToInt(F, a, en) == Call("rint", F, F, a, 0, 0, en, FRoundToInt(F, a, en))
Scalbn(a, n, en) == Call("scalbn", Small, Small, a, 0, n, en, FScalbn(Small, Unpack(Small, a), n, en))
Convert(F, G, a, en) == Call("convert", F, G, a, 0, 0, en, FConvert(F, G, a, en))
ToInt(a, signed, w, en) == Call(IF signed THEN "toint" ELSE "touint", Wide, Wide, a, 0, w, en, FToInt(Wide, a, signed, w, en))
FromInt(i, en) == Call("fromint", Small, Small, 0, 0, i, en, FFromInt(Small, i, en))
Compare(a, b, quiet) == Call(IF quiet THEN "cmpq" ELSE "cmp", Small, Small, a, b, 0, NearEn, FCompare(Small, a, b, quiet))
Min(a, b) == Call("min", Small, Small, a, b, 0, NearEn, FMin(Small, a, b, NearEn))
Max(a, b) == Call("max", Small, Small, a, b, 0, NearEn, FMax(Small, a, b, NearEn))
Neg(a) == Call("neg", Small, Small, a, 0, 0, NearEn, Result(FNeg(Small, a), {}))
Abs(a) == Call("abs", Small, Small, a, 0, 0, NearEn, Result(FAbs(Small, a), {}))

Init == dev = Idle /\ env = NoResult

\* the caller's next operation starts from a cleared environment
Done == dev.op # "idle" /\ dev' = Idle /\ env' = NoResult

Next ==
    \/ /\ dev.op = "idle"
       /\ \/ \E a \in NonNeg(Small), b \in Canonical(Small), en \in Envs(ArithModes) :
                Add(a, b, en) \/ Mul(a, b, en) \/ Div(a, b, en)
          \/ \E a \in Canonical(Small), b \in NonNeg(Small) : Sub(a, b, En("Down", TRUE, TRUE)) \/ Min(a, b) \/ Max(a, b)
          \/ \E a, b \in Canonical(Small) : Compare(a, b, TRUE) \/ (NegBit(Small, a) /\ Compare(a, b, FALSE))
          \/ \E a, b, c \in FmaVals, en \in Envs({"NearEven", "Up"}) : Fma(a, b, c, en)
          \/ \E a \in Canonical(Small), rm \in Modes, bd \in BOOLEAN : Sqrt(a, En(rm, bd, bd)) \/ RoundToInt(Small, a, En(rm, bd, bd))
          \/ \E a \in Canonical(Wide), en \in Envs(Modes) : RoundToInt(Wide, a, en)
          \/ \E a \in Canonical(Small), n \in -4..4, en \in Envs(ArithModes) : Scalbn(a, n, en)
          \/ \E G \in Others, en \in Envs(Modes) : (\E a \in Canonical(Small) : Convert(Small, G, a, en)) \/ (\E a \in Canonical(G) : Convert(G, Small, a, en))
          \/ \E a \in Canonical(Wide), signed \in BOOLEAN, w \in {3, 6}, en \in Envs(Modes) : ToInt(a, signed, w, en)
          \/ \E i \in -20..40, en \in Envs(Modes) : FromInt(i, en)
          \/ \E a \in Canonical(Small) : Neg(a) \/ Abs(a)
    \/ Done

Spec == Init /\ [][Next]_vars

-----------------------------------------------------------------------------
(* The exact value of a call, and the outcomes IEEE arithmetic allows.     *)
A == Val(dev.F, dev.a)
B == Val(dev.F, dev.b)
C == Val(dev.F, dev.c)
Exact ==
    CASE dev.op = "add" -> Signed(A + B, 1)
      [] dev.op = "sub" -> Signed(A - B, 1)
      [] dev.op = "mul" -> Signed(A * B, OneUnits(dev.F))
      [] dev.op = "div" -> Signed(A * OneUnits(dev.F) * (IF B < 0 THEN -1 ELSE 1), AbsVal(B))
      [] dev.op = "fma" -> Signed(A * B + C * OneUnits(dev.F), OneUnits(dev.F))
      [] dev.op = "sqrt" -> [x |-> [num |-> A * OneUnits(dev.F), den |-> 1, root |-> TRUE], s |-> FALSE]
      [] dev.op = "scalbn" -> IF dev.c >= 0 THEN Signed(A * 2^dev.c, 1) ELSE Signed(A, 2^(0 - dev.c))
      [] dev.op = "convert" -> Units(dev.F, dev.G, A)
      [] dev.op = "fromint" -> Signed(dev.c * OneUnits(dev.F), 1)
RoundingOps == {"add", "sub", "mul", "div", "fma", "sqrt", "scalbn", "convert", "fromint"}
Operands == CASE dev.op \in {"add", "sub", "mul", "div", "cmp", "cmpq", "min", "max"} -> {dev.a, dev.b}
              [] dev.op = "fma" -> {dev.a, dev.b, dev.c}
              [] OTHER -> {dev.a}
\* a finite exact value other than zero
HasExact ==
    /\ dev.op \in RoundingOps
    /\ \A v \in Operands : Finite(dev.F, v)
    /\ dev.op = "div" => B # 0
    /\ dev.op = "sqrt" => A > 0
    /\ Exact.x.num # 0

\* the values pack() loses, and the products fma() adds without normalising them
RoundsToNormal == Ref(dev.G, Exact.x, dev.en, Exact.s).code = 2^dev.G.f /\ "NX" \in Ref(dev.G, Exact.x, dev.en, Exact.s).flags /\ Twice(Exact.x, 2 * Mag(dev.G, 2^dev.G.f)) < 0
Significand(F, v) == LET p == Unpack(F, v) IN p.frac
FmaCarries == dev.op = "fma" /\ dev.c % 2^SignPos(dev.F) # 0 /\ FracProduct(Significand(dev.F, dev.a), Significand(dev.F, dev.b)) >= 2^(IB + 1)

\* Every arithmetic operation, conversion and scaling of a number yields the exact value rounded once in the
\* mode asked for, with the inexact, overflow and underflow flags of that rounding.  Two cases are excepted, because
\* the code does not round them: a value that rounds up from below to the smallest normal number, of which pack()
\* keeps the exponent 0 and drops the carried bit (parts.rs:348), so that it becomes a zero; and a fused sum whose
\* product has a significand of two or more (fma.rs:173), the subject of FusedRounded.
Rounded ==
    HasExact /\ ~FmaCarries =>
        LET want == Ref(dev.G, Exact.x, dev.en, Exact.s)
        IN  /\ NegBit(dev.G, env.v) = Exact.s
            /\ IF RoundsToNormal THEN IsZero(dev.G, env.v) /\ "NX" \in env.flags
                                 ELSE Code(dev.G, env.v) = want.code /\ env.flags = want.flags

\* The fused multiply-add of finite numbers is the exact a * b + c rounded once.  The code adds a product whose
\* significand may be two or more to c as if it were normalised, and does not keep this.
FusedRounded ==
    HasExact /\ dev.op = "fma" /\ ~RoundsToNormal => Code(dev.G, env.v) = Ref(dev.G, Exact.x, dev.en, Exact.s).code

\* A NaN operand yields a quiet NaN and an invalid operation (0 * inf, inf - inf, 0 / 0, inf / inf, the root of a
\* negative number) the default one; the invalid flag is raised for a signalling NaN or such an operation and no
\* other, and division by zero for a finite number over zero and nothing else.  The conversion between formats is
\* excepted: convert() raises no flag for a signalling NaN (convert.rs:19).
Opposed(a, b) == Inf(dev.F, a) /\ Inf(dev.F, b) /\ NegBit(dev.F, a) # NegBit(dev.F, b)
InvalidOp ==
    CASE dev.op = "add" -> Opposed(dev.a, dev.b)
      [] dev.op = "sub" -> Inf(dev.F, dev.a) /\ Inf(dev.F, dev.b) /\ NegBit(dev.F, dev.a) = NegBit(dev.F, dev.b)
      [] dev.op = "mul" -> \E x, y \in Operands : Inf(dev.F, x) /\ IsZero(dev.F, y)
      [] dev.op = "div" -> (IsZero(dev.F, dev.a) /\ IsZero(dev.F, dev.b)) \/ (Inf(dev.F, dev.a) /\ Inf(dev.F, dev.b))
      [] dev.op = "fma" -> \/ \E x, y \in {dev.a, dev.b} : Inf(dev.F, x) /\ IsZero(dev.F, y)
                           \/ /\ \E x \in {dev.a, dev.b} : Inf(dev.F, x)
                              /\ ~\E x \in {dev.a, dev.b} : NaN(dev.F, x)
                              /\ Inf(dev.F, dev.c) /\ NegBit(dev.F, dev.c) # (NegBit(dev.F, dev.a) # NegBit(dev.F, dev.b))
      [] dev.op = "sqrt" -> NegBit(dev.F, dev.a) /\ ~IsZero(dev.F, dev.a) /\ ~NaN(dev.F, dev.a)
      [] OTHER -> FALSE
NanRules ==
    dev.op \in RoundingOps \cup {"rint"} =>
        /\ "NV" \in env.flags <=> InvalidOp \/ (dev.op # "convert" /\ \E v \in Operands : SNaN(dev.F, v))
        /\ "DZ" \in env.flags <=> dev.op = "div" /\ IsZero(dev.F, dev.b) /\ Finite(dev.F, dev.a) /\ ~IsZero(dev.F, dev.a)
        /\ NaN(dev.G, env.v) <=> InvalidOp \/ \E v \in Operands : NaN(dev.F, v)
        /\ ~SNaN(dev.G, env.v)
        /\ dev.en.dn /\ NaN(dev.G, env.v) => env.v = DefaultNan(dev.G)

\* The integers a float is converted to, and the floats it is rounded to, are the nearest ones in the mode; a value
\* outside the integer's range saturates and is invalid.  Two cases are excepted, because float_to_uint128() loses
\* them: a magnitude below a half in a mode that rounds it away from zero becomes 0 and inexact (convert.rs:43), and
\* one so large that its bits leave the wide word is cut to the bits left in it (convert.rs:58), so that 2^200
\* becomes 0 without a flag.
\* |x| in whole units, rounded; one is a power of two of smallest subnormals
RefInt(F, v, rm) ==
    LET m == Mag(F, Code(F, v))
        q == m \div OneUnits(F)
    IN  RoundedCode(q, m % OneUnits(F) = 0, CmpNum(2 * (m % OneUnits(F)), OneUnits(F)), rm, NegBit(F, v))
LostSmall == Finite(dev.F, dev.a) /\ Mag(dev.F, Code(dev.F, dev.a)) < OneUnits(dev.F) \div 2 /\ RefInt(dev.F, dev.a, dev.en.rm) # 0
LostLarge == LET p == Unpack(dev.F, dev.a) IN p.exp \in (IB + 2)..(IB + W - 1)
IntRange(signed, w) == IF signed THEN (0 - 2^(w - 1))..(2^(w - 1) - 1) ELSE 0..(2^w - 1)
Saturated(signed, w, neg) == IF signed THEN (IF neg THEN 0 - 2^(w - 1) ELSE 2^(w - 1) - 1) ELSE (IF neg THEN 0 ELSE 2^w - 1)
IntRight ==
    /\ dev.op \in {"toint", "touint"} /\ LostSmall => env = Result(0, {"NX"})
    /\ dev.op \in {"toint", "touint"} /\ ~LostSmall /\ ~LostLarge =>
        LET i == (IF NegBit(dev.F, dev.a) THEN -1 ELSE 1) * RefInt(dev.F, dev.a, dev.en.rm)
            sat == Saturated(dev.op = "toint", dev.c, NegBit(dev.F, dev.a) /\ ~NaN(dev.F, dev.a))
        IN  IF Finite(dev.F, dev.a) /\ i \in IntRange(dev.op = "toint", dev.c)
            THEN env = Result(i, IF Mag(dev.F, Code(dev.F, dev.a)) % OneUnits(dev.F) = 0 THEN {} ELSE {"NX"})
            ELSE env = Result(sat, {"NV"})
    /\ dev.op = "rint" /\ Finite(dev.F, dev.a) =>
        /\ Mag(dev.F, Code(dev.F, env.v)) = RefInt(dev.F, dev.a, dev.en.rm) * OneUnits(dev.F)
        /\ NegBit(dev.F, env.v) = NegBit(dev.F, dev.a)
        /\ env.flags = IF Mag(dev.F, Code(dev.F, dev.a)) % OneUnits(dev.F) = 0 THEN {} ELSE {"NX"}

\* Comparison follows the order of the numbers, with equal zeros and NaN unordered, and minimum and maximum pick
\* from it.  One case is excepted: min() and max() compare the exponent field of a zero, which is 0 (minmax.rs:52),
\* so that a zero counts as larger in magnitude than a number below one of its sign, and the other operand than the
\* one minmax.rs:10 promises is returned: min(0, 0.5) is 0.5.
Rank(v) == IF Inf(dev.F, v) THEN (IF NegBit(dev.F, v) THEN -1 ELSE 1) * Mag(dev.F, InfCode(dev.F)) ELSE Val(dev.F, v)
ZeroBelowOne == \E x, y \in Operands : x # y /\ IsZero(dev.F, x) /\ NegBit(dev.F, x) = NegBit(dev.F, y) /\ AbsVal(Val(dev.F, y)) < OneUnits(dev.F)
OrderRight ==
    LET nan == \E v \in Operands : NaN(dev.F, v)
        snan == \E v \in Operands : SNaN(dev.F, v)
    IN  /\ dev.op \in {"cmp", "cmpq"} =>
            /\ env.v = IF nan THEN 2 ELSE CmpNum(Rank(dev.a), Rank(dev.b))
            /\ env.flags = IF snan \/ (nan /\ dev.op = "cmp") THEN {"NV"} ELSE {}
        /\ dev.op \in {"min", "max"} /\ ZeroBelowOne =>
            IsZero(dev.F, env.v) <=> (dev.op = "min" <=> NegBit(dev.F, dev.a))
        /\ dev.op \in {"min", "max"} /\ ~ZeroBelowOne =>
            /\ "NV" \in env.flags <=> snan
            /\ IF nan THEN NaN(dev.F, env.v) \/ env.v \in Operands
               ELSE /\ env.v \in Operands
                    /\ \A v \in Operands : IF dev.op = "min" THEN Rank(env.v) <= Rank(v) ELSE Rank(env.v) >= Rank(v)
                    /\ Rank(dev.a) = Rank(dev.b) => (NegBit(dev.F, env.v) <=> IF dev.op = "min" THEN \E v \in Operands : NegBit(dev.F, v) ELSE \A v \in Operands : NegBit(dev.F, v))
=============================================================================
