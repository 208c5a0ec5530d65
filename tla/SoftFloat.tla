------------------------------ MODULE SoftFloat -----------------------------
(***************************************************************************)
(* The software floating point the guest front ends call: unpacking into   *)
(* sign, exponent and a wide fraction, the operations on the parts, and    *)
(* rounding and packing into a format.  A format is a record of its widths *)
(* (e exponent bits, f fraction bits, x for an explicit integer bit), so   *)
(* that a small format goes through the code of the large ones; IB scales  *)
(* the position of the integer bit in the wide fraction, whose word has    *)
(* two bits more.  A floating-point number is the integer its bits spell;  *)
(* an operation yields its bits and the exception flags it raised.         *)
(***************************************************************************)
EXTENDS Integers

CONSTANTS IB          \* INT_BIT, 126 in the code

W == IB + 2           \* the width of the fraction's word
Modes == {"NearEven", "ToZero", "Down", "Up", "NearMaxMag", "Odd"}

Bias(F) == 2^(F.e - 1) - 1
FracTotal(F) == IF F.x THEN F.f + 1 ELSE F.f
SignPos(F) == FracTotal(F) + F.e
MaxExp(F) == 2^F.e - 1

NegBit(F, v) == (v \div 2^SignPos(F)) % 2 = 1
RawExp(F, v) == (v \div 2^FracTotal(F)) % 2^F.e
RawFrac(F, v) == v % 2^FracTotal(F)
Encode(F, s, exp, frac) == (IF s THEN 2^SignPos(F) ELSE 0) + exp * 2^FracTotal(F) + frac

Parts(s, exp, frac, cls) == [s |-> s, exp |-> exp, frac |-> frac, cls |-> cls]
IsNan(p) == p.cls \in {"QNaN", "SNaN"}
Msb(x) == CHOOSE k \in 0..(W - 1) : 2^k <= x /\ x < 2^(k + 1)
Result(v, flags) == [v |-> v, flags |-> flags]

\* a shift to the right that keeps a one for what it shifts out
Jam(q, sticky) == IF sticky /\ q % 2 = 0 THEN q + 1 ELSE q
ShiftDrop(frac, n) == IF n >= W THEN 0 ELSE frac \div 2^n
ShiftJam(frac, n) ==
    IF n >= W THEN (IF frac # 0 THEN 1 ELSE 0) ELSE Jam(frac \div 2^n, frac % 2^n # 0)

-----------------------------------------------------------------------------
(* Unpack.                                                                 *)
UnpackSpecial(F, s, payload, intBit) ==
    CASE payload = 0 /\ F.x /\ ~intBit -> Parts(s, 0, 2^(IB - 1), "QNaN")
      [] payload = 0 /\ ~(F.x /\ ~intBit) -> Parts(s, 0, 0, "Inf")
      [] payload # 0 -> Parts(s, 0, payload * 2^(IB - F.f), IF payload >= 2^(F.f - 1) THEN "QNaN" ELSE "SNaN")
UnpackSubnormal(F, s, frac) ==
    LET shift == IB - Msb(frac * 2^(IB - F.f))
    IN  Parts(s, 1 - Bias(F) - shift, frac * 2^(IB - F.f + shift), "Normal")
UnpackNormal(F, s, exp, frac) ==
    Parts(s, exp - Bias(F), (IF F.x THEN 0 ELSE 2^IB) + frac * 2^(IB - F.f), "Normal")
Unpack(F, v) ==
    CASE RawExp(F, v) = MaxExp(F) -> UnpackSpecial(F, NegBit(F, v), RawFrac(F, v) % 2^F.f, RawFrac(F, v) >= 2^F.f)
      [] RawExp(F, v) = 0 /\ RawFrac(F, v) = 0 -> Parts(NegBit(F, v), 0, 0, "Zero")
      [] RawExp(F, v) = 0 /\ RawFrac(F, v) # 0 -> UnpackSubnormal(F, NegBit(F, v), RawFrac(F, v))
      [] OTHER -> UnpackNormal(F, NegBit(F, v), RawExp(F, v), RawFrac(F, v))

-----------------------------------------------------------------------------
(* Round and pack.                                                         *)
PackZero(F, s) == Encode(F, s, 0, 0)
PackInf(F, s) == Encode(F, s, MaxExp(F), IF F.x THEN 2^F.f ELSE 0)
PackMaxFinite(F, s) == Encode(F, s, MaxExp(F) - 1, 2^FracTotal(F) - 1)

\* the rounding decision, from the bits cut off, half a unit, and whether the last kept bit is one
RoundsUp(rem, half, odd, rm, s) ==
    CASE rm = "NearEven" -> rem > half \/ (rem = half /\ odd)
      [] rm = "NearMaxMag" -> rem >= half
      [] rm = "ToZero" -> FALSE
      [] rm = "Down" -> s /\ rem # 0
      [] rm = "Up" -> ~s /\ rem # 0
      [] rm = "Odd" -> rem # 0 /\ ~odd
ApplyRounding(frac, pos, rm, s) ==
    (frac - (frac % 2^pos)
        + (IF RoundsUp(frac % 2^pos, 2^(pos - 1), (frac \div 2^pos) % 2 = 1, rm, s) THEN 2^pos ELSE 0)) % 2^W

OverflowResult(F, s, rm) ==
    CASE rm \in {"NearEven", "NearMaxMag"} -> PackInf(F, s)
      [] rm \in {"ToZero", "Odd"} -> PackMaxFinite(F, s)
      [] rm = "Down" -> IF s THEN PackInf(F, s) ELSE PackMaxFinite(F, s)
      [] rm = "Up" -> IF s THEN PackMaxFinite(F, s) ELSE PackInf(F, s)

EncodeNan(F, s, frac) ==
    LET payload == (frac \div 2^(IB - F.f)) % 2^F.f
    IN  Encode(F, s, MaxExp(F), (IF payload >= 2^(F.f - 1) THEN payload ELSE payload + 2^(F.f - 1)) + (IF F.x THEN 2^F.f ELSE 0))
DefaultNan(F) == EncodeNan(F, FALSE, 2^(IB - 1))
PackNan(F, p, en) == IF en.dn THEN DefaultNan(F) ELSE EncodeNan(F, p.s, p.frac)

\* the last stage, with the fraction rounded and its exponent settled
Assemble(F, s, exp, frac, inexact, tiny, rm) ==
    IF exp >= MaxExp(F)
    THEN Result(OverflowResult(F, s, rm), {"OF", "NX"} \cup (IF tiny THEN {"UF"} ELSE {}))
    ELSE Result(Encode(F, s, exp, (frac \div 2^(IB - F.f)) % 2^(IF exp = 0 THEN F.f ELSE FracTotal(F))),
                (IF inexact THEN {"NX"} ELSE {}) \cup (IF tiny THEN {"UF"} ELSE {}))
PackRounded(F, s, exp, frac, inexact, tiny, rm) ==
    IF frac >= 2^(IB + 1) THEN Assemble(F, s, exp + 1, frac \div 2, inexact, tiny, rm)
                          ELSE Assemble(F, s, exp, frac, inexact, tiny, rm)
PackFinite(F, s, exp, frac, sub, en) ==
    PackRounded(F, s, exp, ApplyRounding(frac, IB - F.f, en.rm, s), frac % 2^(IB - F.f) # 0,
                sub /\ frac % 2^(IB - F.f) # 0
                    /\ (en.before \/ (ApplyRounding(frac, IB - F.f, en.rm, s) \div 2^IB) % 2 = 0), en.rm)
Pack(F, p, en) ==
    IF p.exp + Bias(F) < 1
    THEN PackFinite(F, p.s, 0, ShiftJam(p.frac, 1 - p.exp - Bias(F)), TRUE, en)
    ELSE PackFinite(F, p.s, p.exp + Bias(F), p.frac, FALSE, en)
Normalize(p, msb) ==
    IF msb <= IB THEN [p EXCEPT !.frac = @ * 2^(IB - msb), !.exp = @ - (IB - msb)]
                 ELSE [p EXCEPT !.frac = ShiftJam(@, msb - IB), !.exp = @ + (msb - IB)]
RoundPack(F, p, en) ==
    CASE p.cls = "Zero" \/ (p.cls = "Normal" /\ p.frac = 0) -> Result(PackZero(F, p.s), {})
      [] p.cls = "Inf" -> Result(PackInf(F, p.s), {})
      [] IsNan(p) -> Result(PackNan(F, p, en), {})
      [] p.cls = "Normal" /\ p.frac # 0 -> Pack(F, Normalize(p, Msb(p.frac)), en)
Raising(flags, r) == [r EXCEPT !.flags = @ \cup flags]

QuietNan(p) == IF (p.frac \div 2^(IB - 1)) % 2 = 1 THEN [p EXCEPT !.cls = "QNaN"] ELSE [p EXCEPT !.cls = "QNaN", !.frac = @ + 2^(IB - 1)]
CanonicalNan == Parts(FALSE, 0, 2^(IB - 1), "QNaN")
Signals(ps) == IF \E p \in ps : p.cls = "SNaN" THEN {"NV"} ELSE {}
NanPropagate(a, b, en) ==
    CASE en.dn -> CanonicalNan
      [] ~en.dn /\ a.cls = "SNaN" -> QuietNan(a)
      [] ~en.dn /\ a.cls # "SNaN" /\ b.cls = "SNaN" -> QuietNan(b)
      [] ~en.dn /\ a.cls = "QNaN" /\ b.cls # "SNaN" -> a
      [] ~en.dn /\ ~IsNan(a) /\ b.cls # "SNaN" -> b
NanPropagateOne(a, en) == IF en.dn THEN CanonicalNan ELSE QuietNan(a)
ReturnNan(F) == Result(DefaultNan(F), {"NV"})

-----------------------------------------------------------------------------
(* Addition and subtraction.                                               *)
ZeroOf(s) == Parts(s, 0, 0, "Zero")
InfOf(s) == Parts(s, 0, 0, "Inf")
AlignedSum(F, big, small, en) ==
    RoundPack(F, Parts(big.s, big.exp, (big.frac + ShiftJam(small.frac, big.exp - small.exp)) % 2^W, "Normal"), en)
AddNormal(F, a, b, en) == IF a.exp >= b.exp THEN AlignedSum(F, a, b, en) ELSE AlignedSum(F, b, a, en)
AlignedDiff(F, big, small, s, en) ==
    LET frac == (big.frac + 2^W - ShiftJam(small.frac, big.exp - small.exp)) % 2^W
    IN  IF frac = 0 THEN RoundPack(F, ZeroOf(en.rm = "Down"), en) ELSE RoundPack(F, Parts(s, big.exp, frac, "Normal"), en)
SubNormal(F, a, b, en) ==
    CASE a.exp > b.exp \/ (a.exp = b.exp /\ a.frac > b.frac) -> AlignedDiff(F, a, b, a.s, en)
      [] a.exp < b.exp \/ (a.exp = b.exp /\ a.frac < b.frac) -> AlignedDiff(F, b, a, b.s, en)
      [] a.exp = b.exp /\ a.frac = b.frac -> RoundPack(F, ZeroOf(en.rm = "Down"), en)
AddParts(F, a, b, en) ==
    CASE IsNan(a) \/ IsNan(b) -> Raising(Signals({a, b}), RoundPack(F, NanPropagate(a, b, en), en))
      [] a.cls = "Inf" /\ b.cls = "Inf" /\ a.s # b.s -> ReturnNan(F)
      [] a.cls = "Inf" /\ ~IsNan(b) /\ ~(b.cls = "Inf" /\ a.s # b.s) -> RoundPack(F, a, en)
      [] b.cls = "Inf" /\ a.cls \in {"Zero", "Normal"} -> RoundPack(F, b, en)
      [] a.cls = "Zero" /\ b.cls = "Zero" -> RoundPack(F, ZeroOf(IF a.s = b.s THEN a.s ELSE en.rm = "Down"), en)
      [] a.cls = "Zero" /\ b.cls = "Normal" -> RoundPack(F, b, en)
      [] a.cls = "Normal" /\ b.cls = "Zero" -> RoundPack(F, a, en)
      [] a.cls = "Normal" /\ b.cls = "Normal" /\ a.s = b.s -> AddNormal(F, a, b, en)
      [] a.cls = "Normal" /\ b.cls = "Normal" /\ a.s # b.s -> SubNormal(F, a, b, en)
FAdd(F, a, b, en) == AddParts(F, Unpack(F, a), Unpack(F, b), en)
FSub(F, a, b, en) == AddParts(F, Unpack(F, a), [Unpack(F, b) EXCEPT !.s = ~@], en)

-----------------------------------------------------------------------------
(* Multiplication: the word is multiplied in halves into a double word.    *)
H == 2^(W \div 2)
MulWide(al, ah, bl, bh) ==
    LET mid == ((al * bl) \div H) + ((al * bh) % H) + ((ah * bl) % H)
    IN  [hi |-> ah * bh + ((al * bh) \div H) + ((ah * bl) \div H) + (mid \div H),
         lo |-> ((al * bl) % H) + (mid % H) * H]
ProductFrac(m) == Jam(((m.hi * 4) % 2^W) + (m.lo \div 2^IB), m.lo % 2^IB # 0)
FracProduct(x, y) == ProductFrac(MulWide(x % H, x \div H, y % H, y \div H))
MulParts(F, a, b, s, en) ==
    CASE IsNan(a) \/ IsNan(b) -> Raising(Signals({a, b}), RoundPack(F, [NanPropagate(a, b, en) EXCEPT !.s = s], en))
      [] {a.cls, b.cls} = {"Inf", "Zero"} -> ReturnNan(F)
      [] "Inf" \in {a.cls, b.cls} /\ ~IsNan(a) /\ ~IsNan(b) /\ "Zero" \notin {a.cls, b.cls} -> RoundPack(F, InfOf(s), en)
      [] "Zero" \in {a.cls, b.cls} /\ {a.cls, b.cls} \subseteq {"Zero", "Normal"} -> RoundPack(F, ZeroOf(s), en)
      [] a.cls = "Normal" /\ b.cls = "Normal" ->
            RoundPack(F, Parts(s, a.exp + b.exp, FracProduct(a.frac, b.frac), "Normal"), en)
FMul(F, a, b, en) == MulParts(F, Unpack(F, a), Unpack(F, b), NegBit(F, a) # NegBit(F, b), en)

-----------------------------------------------------------------------------
(* Division, by trial subtraction into W quotient bits.                    *)
DivStep(st, d) ==
    IF st.rem >= d THEN [q |-> ((st.q * 2) % 2^W) + 1, rem |-> (st.rem - d) * 2] ELSE [q |-> (st.q * 2) % 2^W, rem |-> st.rem * 2]
DivRun(rem0, d) ==
    LET st[i \in 0..W] == IF i = 0 THEN [q |-> 0, rem |-> rem0] ELSE DivStep(st[i - 1], d)
    IN  st[W]
DivFrac(x, y) == LET st == DivRun(IF x < y THEN 2 * x ELSE x, y) IN Jam(Jam(st.q, st.rem # 0) \div 2, Jam(st.q, st.rem # 0) % 2 = 1)
DivParts(F, a, b, s, en) ==
    CASE IsNan(a) \/ IsNan(b) -> Raising(Signals({a, b}), RoundPack(F, [NanPropagate(a, b, en) EXCEPT !.s = s], en))
      [] a.cls = b.cls /\ a.cls \in {"Inf", "Zero"} -> ReturnNan(F)
      [] a.cls = "Inf" /\ b.cls \in {"Zero", "Normal"} -> RoundPack(F, InfOf(s), en)
      [] b.cls = "Inf" /\ a.cls \in {"Zero", "Normal"} -> RoundPack(F, ZeroOf(s), en)
      [] a.cls = "Zero" /\ b.cls = "Normal" -> RoundPack(F, ZeroOf(s), en)
      [] b.cls = "Zero" /\ a.cls = "Normal" -> Raising({"DZ"}, RoundPack(F, InfOf(s), en))
      [] a.cls = "Normal" /\ b.cls = "Normal" ->
            RoundPack(F, Parts(s, a.exp - b.exp - (IF a.frac < b.frac THEN 1 ELSE 0), DivFrac(a.frac, b.frac), "Normal"), en)
FDiv(F, a, b, en) == DivParts(F, Unpack(F, a), Unpack(F, b), NegBit(F, a) # NegBit(F, b), en)

-----------------------------------------------------------------------------
(* Square root, one result bit from two bits of frac * 2^IB at a time.     *)
RadicandBit(frac, pos) == IF pos >= 2 * IB + 1 \/ pos < IB THEN 0 ELSE (frac \div 2^(pos - IB)) % 2
RootStep(rem, root) ==
    IF rem >= (4 * root + 1) % 2^W
    THEN [rem |-> rem - ((4 * root + 1) % 2^W), root |-> (2 * root + 1) % 2^W]
    ELSE [rem |-> rem, root |-> (2 * root) % 2^W]
RootPair(st, frac, pos) == RootStep((st.rem * 4 + 2 * RadicandBit(frac, 2 * pos + 1) + RadicandBit(frac, 2 * pos)) % 2^W, st.root)
IsqrtRun(frac) ==
    LET st[i \in 0..(IB + 1)] == IF i = 0 THEN [rem |-> 0, root |-> 0] ELSE RootPair(st[i - 1], frac, IB + 1 - i)
    IN  st[IB + 1]
Isqrt(frac) == LET st == IsqrtRun(frac) IN Jam(st.root, st.rem # 0)
SqrtNormal(F, exp, frac, en) == RoundPack(F, Parts(FALSE, exp \div 2, Isqrt(frac), "Normal"), en)
SqrtParts(F, a, en) ==
    CASE IsNan(a) -> Raising(Signals({a}), RoundPack(F, NanPropagateOne(a, en), en))
      [] a.cls = "Zero" \/ (a.cls = "Inf" /\ ~a.s) -> RoundPack(F, a, en)
      [] a.s /\ a.cls \in {"Inf", "Normal"} -> ReturnNan(F)
      [] a.cls = "Normal" /\ ~a.s -> IF a.exp % 2 = 1 THEN SqrtNormal(F, a.exp + 1, a.frac \div 2, en)
                                                     ELSE SqrtNormal(F, a.exp, a.frac, en)
FSqrt(F, a, en) == SqrtParts(F, Unpack(F, a), en)

-----------------------------------------------------------------------------
(* Fused multiply-add.                                                     *)
FmaNan(F, a, b, c, en) ==
    Raising(Signals({a, b, c}) \cup (IF {a.cls, b.cls} = {"Inf", "Zero"} THEN {"NV"} ELSE {}),
            RoundPack(F, IF en.dn THEN CanonicalNan ELSE IF IsNan(a) THEN QuietNan(a) ELSE IF IsNan(b) THEN QuietNan(b) ELSE QuietNan(c), en))
AddPartsFma(F, p, c, en) == IF p.s = c.s THEN AddNormal(F, p, c, en) ELSE SubNormal(F, p, c, en)
FmaFinite(F, p, c, en) == IF c.cls = "Zero" THEN RoundPack(F, p, en) ELSE AddPartsFma(F, p, c, en)
FmaParts(F, a, b, c, s, en) ==
    CASE IsNan(a) \/ IsNan(b) \/ IsNan(c) -> FmaNan(F, a, b, c, en)
      [] ~IsNan(c) /\ {a.cls, b.cls} = {"Inf", "Zero"} -> ReturnNan(F)
      [] ~IsNan(a) /\ ~IsNan(b) /\ ~IsNan(c) /\ "Inf" \in {a.cls, b.cls} /\ "Zero" \notin {a.cls, b.cls} ->
            IF c.cls = "Inf" /\ c.s # s THEN ReturnNan(F) ELSE RoundPack(F, InfOf(s), en)
      [] {a.cls, b.cls} \subseteq {"Zero", "Normal"} /\ c.cls = "Inf" -> RoundPack(F, c, en)
      [] {a.cls, b.cls} \subseteq {"Zero", "Normal"} /\ "Zero" \in {a.cls, b.cls} /\ c.cls \in {"Zero", "Normal"} ->
            RoundPack(F, IF c.cls = "Zero" THEN ZeroOf(IF s = c.s THEN s ELSE en.rm = "Down") ELSE c, en)
      [] {a.cls, b.cls} = {"Normal"} /\ c.cls \in {"Zero", "Normal"} ->
            FmaFinite(F, Parts(s, a.exp + b.exp, FracProduct(a.frac, b.frac), "Normal"), c, en)
FFma(F, a, b, c, en) == FmaParts(F, Unpack(F, a), Unpack(F, b), Unpack(F, c), NegBit(F, a) # NegBit(F, b), en)

-----------------------------------------------------------------------------
(* Rounding to an integral value, and conversions.                         *)
RoundBelowOne(F, p, en) ==
    LET up == CASE en.rm = "NearEven" -> p.exp = -1 /\ p.frac > 2^IB
                [] en.rm = "NearMaxMag" -> p.exp = -1
                [] en.rm = "ToZero" -> FALSE
                [] en.rm = "Up" -> ~p.s
                [] en.rm = "Down" -> p.s
                [] en.rm = "Odd" -> TRUE
    IN  Raising({"NX"}, RoundPack(F, IF up THEN Parts(p.s, 0, 2^IB, "Normal") ELSE ZeroOf(p.s), en))
RoundFraction(F, p, pos, en) ==
    IF p.frac % 2^pos = 0 THEN RoundPack(F, p, en)
    ELSE Raising({"NX"}, RoundPack(F, [p EXCEPT !.frac = ApplyRounding(@, pos, en.rm, p.s)], en))
RoundToIntParts(F, p, en) ==
    CASE IsNan(p) -> Raising(Signals({p}), RoundPack(F, NanPropagateOne(p, en), en))
      [] p.cls \in {"Inf", "Zero"} \/ (p.cls = "Normal" /\ p.exp >= F.f) -> RoundPack(F, p, en)
      [] p.cls = "Normal" /\ p.exp < 0 -> RoundBelowOne(F, p, en)
      [] p.cls = "Normal" /\ p.exp \in 0..(F.f - 1) -> RoundFraction(F, p, IB - p.exp, en)
FRoundToInt(F, a, en) == RoundToIntParts(F, Unpack(F, a), en)

FConvert(F, G, a, en) == RoundPack(G, Unpack(F, a), en)
FScalbn(F, p, n, en) ==
    IF IsNan(p) THEN Raising(Signals({p}), RoundPack(F, NanPropagateOne(p, en), en))
    ELSE RoundPack(F, IF p.cls = "Normal" THEN [p EXCEPT !.exp = @ + n] ELSE p, en)

\* the magnitude of a float as an integer, and whether that lost anything
FloatToUint(p, shift, rm) ==
    CASE shift >= W -> [mag |-> 0, nx |-> TRUE]
      [] shift \in 1..(W - 1) -> [mag |-> (p.frac \div 2^shift)
                                         + (IF RoundsUp(p.frac % 2^shift, 2^(shift - 1), (p.frac \div 2^shift) % 2 = 1, rm, p.s) THEN 1 ELSE 0),
                                  nx |-> p.frac % 2^shift # 0]
      [] shift \in (1 - W)..0 -> [mag |-> (p.frac * 2^(0 - shift)) % 2^W, nx |-> FALSE]
      [] shift <= 0 - W -> [mag |-> 2^W - 1, nx |-> FALSE]
Fits(mag, limit, bad, v, nx) == IF mag > limit THEN Result(bad, {"NV"}) ELSE Result(v, IF nx THEN {"NX"} ELSE {})
\* to_i32 and to_i64: w is the integer's width; the negation of the smallest integer is that of a release build, which
\* wraps to it (one with overflow checks stops there)
ToSigned(p, m, w) ==
    CASE IsNan(p) \/ (p.cls = "Inf" /\ ~p.s) -> Result(2^(w - 1) - 1, {"NV"})
      [] p.cls = "Inf" /\ p.s -> Result(0 - 2^(w - 1), {"NV"})
      [] p.cls = "Zero" -> Result(0, {})
      [] p.cls = "Normal" /\ p.s -> Fits(m.mag, 2^(w - 1), 0 - 2^(w - 1), 0 - m.mag, m.nx)
      [] p.cls = "Normal" /\ ~p.s -> Fits(m.mag, 2^(w - 1) - 1, 2^(w - 1) - 1, m.mag, m.nx)
\* to_u32 and to_u64
ToUnsigned(p, m, w) ==
    CASE IsNan(p) \/ (p.cls = "Inf" /\ ~p.s) -> Result(2^w - 1, {"NV"})
      [] p.cls = "Inf" /\ p.s -> Result(0, {"NV"})
      [] p.cls = "Zero" -> Result(0, {})
      [] p.cls = "Normal" /\ p.s -> Fits(m.mag, 0, 0, 0, m.nx)
      [] p.cls = "Normal" /\ ~p.s -> Fits(m.mag, 2^w - 1, 2^w - 1, m.mag, m.nx)
Magnitude(p, rm) == IF p.cls = "Normal" THEN FloatToUint(p, IB - p.exp, rm) ELSE [mag |-> 0, nx |-> FALSE]
FToInt(F, a, signed, w, en) ==
    IF signed THEN ToSigned(Unpack(F, a), Magnitude(Unpack(F, a), en.rm), w) ELSE ToUnsigned(Unpack(F, a), Magnitude(Unpack(F, a), en.rm), w)

FromUint(F, mag, s, msb, en) ==
    RoundPack(F, Parts(s, msb, IF msb <= IB THEN mag * 2^(IB - msb) ELSE ShiftJam(mag, msb - IB), "Normal"), en)
FFromInt(F, i, en) ==
    IF i = 0 THEN Result(0, {}) ELSE IF i < 0 THEN FromUint(F, 0 - i, TRUE, Msb(0 - i), en) ELSE FromUint(F, i, FALSE, Msb(i), en)

-----------------------------------------------------------------------------
(* Comparison, minimum and maximum.  An order is -1, 0, 1 or 2 (unordered). *)
CmpNum(x, y) == IF x < y THEN -1 ELSE IF x > y THEN 1 ELSE 0
RawOrder(a, b) ==
    CASE a.cls = b.cls /\ a.cls \in {"Inf", "Zero"} -> 0
      [] a.cls # b.cls /\ (a.cls = "Inf" \/ b.cls = "Zero") -> 1
      [] a.cls # b.cls /\ (b.cls = "Inf" \/ a.cls = "Zero") -> -1
      [] a.cls = "Normal" /\ b.cls = "Normal" -> IF a.exp # b.exp THEN CmpNum(a.exp, b.exp) ELSE CmpNum(a.frac, b.frac)
CompareOrdered(a, b) ==
    CASE a.cls = "Zero" /\ b.cls = "Zero" -> 0
      [] ~(a.cls = "Zero" /\ b.cls = "Zero") /\ a.s # b.s -> IF a.s THEN -1 ELSE 1
      [] ~(a.cls = "Zero" /\ b.cls = "Zero") /\ a.s = b.s -> IF a.s THEN 0 - RawOrder(a, b) ELSE RawOrder(a, b)
FCompare(F, a, b, quiet) ==
    LET p == Unpack(F, a)
        q == Unpack(F, b)
    IN  IF IsNan(p) \/ IsNan(q) THEN Result(2, IF quiet THEN Signals({p, q}) ELSE {"NV"}) ELSE Result(CompareOrdered(p, q), {})

\* whether the first of two finite numbers, not both zero, goes before the second
Before(p, q) ==
    IF p.s # q.s THEN p.s
    ELSE LET less == IF p.exp # q.exp THEN p.exp < q.exp ELSE p.frac < q.frac
             more == IF p.exp # q.exp THEN p.exp > q.exp ELSE p.frac > q.frac
         IN  IF p.s THEN more ELSE less
PickMin(a, b, p, q) ==
    CASE p.cls = "Inf" -> IF p.s THEN a ELSE b
      [] p.cls # "Inf" /\ q.cls = "Inf" -> IF q.s THEN b ELSE a
      [] p.cls = "Zero" /\ q.cls = "Zero" -> IF q.s THEN b ELSE a
      [] {p.cls, q.cls} \subseteq {"Zero", "Normal"} /\ "Normal" \in {p.cls, q.cls} -> IF Before(p, q) THEN a ELSE b
PickMax(a, b, p, q) ==
    CASE p.cls = "Inf" -> IF p.s THEN b ELSE a
      [] p.cls # "Inf" /\ q.cls = "Inf" -> IF q.s THEN a ELSE b
      [] p.cls = "Zero" /\ q.cls = "Zero" -> IF p.s THEN b ELSE a
      [] {p.cls, q.cls} \subseteq {"Zero", "Normal"} /\ "Normal" \in {p.cls, q.cls} -> IF Before(q, p) THEN a ELSE b
MinMaxParts(F, a, b, p, q, least, en) ==
    Raising(Signals({p, q}),
        CASE IsNan(p) /\ IsNan(q) -> RoundPack(F, NanPropagate(p, q, en), en)
          [] IsNan(p) /\ ~IsNan(q) -> Result(b, {})
          [] ~IsNan(p) /\ IsNan(q) -> Result(a, {})
          [] ~IsNan(p) /\ ~IsNan(q) -> Result(IF least THEN PickMin(a, b, p, q) ELSE PickMax(a, b, p, q), {}))
FMin(F, a, b, en) == MinMaxParts(F, a, b, Unpack(F, a), Unpack(F, b), TRUE, en)
FMax(F, a, b, en) == MinMaxParts(F, a, b, Unpack(F, a), Unpack(F, b), FALSE, en)

FAbs(F, a) == a % 2^SignPos(F)
FNeg(F, a) == IF NegBit(F, a) THEN a - 2^SignPos(F) ELSE a + 2^SignPos(F)
IsSubnormal(F, a) == RawExp(F, a) = 0 /\ RawFrac(F, a) # 0

-----------------------------------------------------------------------------
(***************************************************************************)
(* What IEEE arithmetic says of a value of a format, apart from how        *)
(* SoftFloat computes: the number an encoding stands for, and the encoding *)
(* and flags of an exact number rounded once.                              *)
(***************************************************************************)
(* The reference.  Mag maps the encoding of a non-negative number to the   *)
(* number of smallest subnormals it is worth; the encoding of infinity     *)
(* stands for the first power of two too large.                            *)
InfCode(F) == (2^F.e - 1) * 2^F.f
Mag(F, n) == IF n < 2^F.f THEN n ELSE (2^F.f + (n % 2^F.f)) * 2^((n \div 2^F.f) - 1)
OneUnits(F) == 2^(Bias(F) - 1 + F.f)
\* the encoding without sign and without an explicit integer bit
Code(F, v) == RawExp(F, v) * 2^F.f + (RawFrac(F, v) % 2^F.f)
Finite(F, v) == RawExp(F, v) # MaxExp(F)
NaN(F, v) == ~Finite(F, v) /\ RawFrac(F, v) % 2^F.f # 0
SNaN(F, v) == NaN(F, v) /\ RawFrac(F, v) % 2^F.f < 2^(F.f - 1)
Val(F, v) == (IF NegBit(F, v) THEN -1 ELSE 1) * Mag(F, Code(F, v))

\* x is [num, den, root]: num / den units, or its square root; Twice compares twice that with k
Twice(x, k) == IF x.root THEN CmpNum(4 * x.num, k * k * x.den) ELSE CmpNum(2 * x.num, k * x.den)
LowerCode(F, x) == CHOOSE n \in 0..InfCode(F) : Twice(x, 2 * Mag(F, n)) >= 0 /\ (n = InfCode(F) \/ Twice(x, 2 * Mag(F, n + 1)) < 0)
RoundedCode(lo, exact, half, rm, s) ==
    IF exact THEN lo
    ELSE CASE rm = "NearEven" -> IF half > 0 \/ (half = 0 /\ lo % 2 = 1) THEN lo + 1 ELSE lo
           [] rm = "NearMaxMag" -> IF half >= 0 THEN lo + 1 ELSE lo
           [] rm = "ToZero" -> lo
           [] rm = "Up" -> IF s THEN lo ELSE lo + 1
           [] rm = "Down" -> IF s THEN lo + 1 ELSE lo
           [] rm = "Odd" -> IF lo % 2 = 0 THEN lo + 1 ELSE lo
Overflowed(F, s, rm) == IF rm \in {"NearEven", "NearMaxMag"} \/ (rm = "Up" /\ ~s) \/ (rm = "Down" /\ s) THEN InfCode(F) ELSE InfCode(F) - 1
\* the outcome [code, flags] of rounding x with sign s once
RefFlags(F, n, exact, below, en) ==
    IF n >= InfCode(F) THEN {"OF", "NX"}
    ELSE IF exact THEN {} ELSE {"NX"} \cup (IF below /\ (en.before \/ n < 2^F.f) THEN {"UF"} ELSE {})
RefAt(F, n, exact, below, en, s) ==
    [code |-> IF n >= InfCode(F) THEN Overflowed(F, s, en.rm) ELSE n, flags |-> RefFlags(F, n, exact, below, en)]
RefFrom(F, x, lo, en, s) ==
    RefAt(F, IF lo = InfCode(F) THEN lo
             ELSE RoundedCode(lo, Twice(x, 2 * Mag(F, lo)) = 0, Twice(x, Mag(F, lo) + Mag(F, lo + 1)), en.rm, s),
          lo < InfCode(F) /\ Twice(x, 2 * Mag(F, lo)) = 0, Twice(x, 2 * Mag(F, 2^F.f)) < 0, en, s)
Ref(F, x, en, s) == RefFrom(F, x, LowerCode(F, x), en, s)

AbsVal(i) == IF i < 0 THEN 0 - i ELSE i
Frac(num, den) == [num |-> num, den |-> den, root |-> FALSE]
\* the exact value of the call, with its sign: [x, s], for calls whose exact value is a finite non-zero number
Signed(v, den) == [x |-> Frac(AbsVal(v), den), s |-> v < 0]
Inf(F, v) == ~Finite(F, v) /\ ~NaN(F, v)
IsZero(F, v) == Code(F, v) = 0
\* units of the source format in units of the target
Units(F, G, v) == IF OneUnits(F) <= OneUnits(G) THEN Signed(v * (OneUnits(G) \div OneUnits(F)), 1) ELSE Signed(v, OneUnits(F) \div OneUnits(G))
\* the number of a finite x: Num(F, x) / Den(F, x) in magnitude
Unit(G, x) == (IF RawExp(G, x) = 0 THEN 1 ELSE RawExp(G, x)) - Bias(G) - G.f
Num(G, x) == (RawFrac(G, x) + (IF RawExp(G, x) = 0 THEN 0 ELSE 2^G.f)) * 2^(IF Unit(G, x) > 0 THEN Unit(G, x) ELSE 0)
Den(G, x) == 2^(IF Unit(G, x) < 0 THEN 0 - Unit(G, x) ELSE 0)
\* the magnitude n / d rounded to an integer
Integral(n, d, s, mode) ==
    (n \div d) + (IF (mode = "NearEven" /\ (2 * (n % d) > d \/ (2 * (n % d) = d /\ (n \div d) % 2 = 1)))
                     \/ (mode = "NearMaxMag" /\ 2 * (n % d) >= d)
                     \/ (mode = "Up" /\ ~s /\ n % d # 0) \/ (mode = "Down" /\ s /\ n % d # 0) THEN 1 ELSE 0)
=============================================================================
