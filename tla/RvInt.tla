------------------------------- MODULE RvInt -------------------------------
(***************************************************************************)
(* The integer instructions of the RISC-V translator: RV64IM, Zba, Zbb,    *)
(* Zbc, Zbs, Zbkb, Zbkx and the scalar part of XThead                      *)
(* (guest/riscv/src/riscv/trans).  Each is the IR its gen_* method emits,  *)
(* run with the semantics of IrOps, next to the register the architecture  *)
(* defines.                                                                *)
(*                                                                         *)
(* Registers have 2*W bits.  A byte is W/4 and a halfword W/2 bits; the    *)
(* units of the permutations are 2 and 4 bits, so that a byte selector can *)
(* still be out of range.                                                  *)
(***************************************************************************)
EXTENDS IrOps, TLC
CONSTANTS Rops, R2ops, ShOps, Xops, Vals, Imms, Shamts, Pcs
VARIABLES dev,     \* gpr: registers 1 and 2, exc: an undefined instruction
          env      \* the same state as the architecture has it

vars == <<dev, env>>

B == W \div 4
H == W \div 2
Nibble == 2
PermByte == 4
Undef == 0 - 1

GprOrZero(g, r) == IF r = 0 THEN 0 ELSE g[r]
GenSetGpr(g, r, v) == IF r = 0 THEN g ELSE [g EXCEPT ![r] = v]
Sx32(v) == ExtI32I64(v)
Zext32(v) == ExtUI32I64(v)
Imm(i) == Unsigned(D, i)

\* The operation a trans_* method hands to a gen_* method.
BinOp(op, ty, a, b) ==
  IF op \in {"Shl", "Shr", "Sar"} THEN Shift(op, ty, a, b)
  ELSE IF op \in {"RotL", "RotR"} THEN Rotate(op, ty, a, b)
  ELSE Arith(op, ty, a, b)

-----------------------------------------------------------------------------
(* RV64I. *)
GenArith(op, a, b) == BinOp(op, "I64", a, b)
GenSetcondRr(cond, a, b) == SetCond(cond, "I64", a, b)
GenArithImm(op, a, i) == BinOp(op, "I64", a, Imm(i))
GenSetcondImm(cond, a, i) == SetCond(cond, "I64", a, Imm(i))
GenShiftImm(op, a, sh) == BinOp(op, "I64", a, sh)
GenArithW(op, a, b) == Sx32(BinOp(op, "I64", a, b))
GenArithImmW(op, a, i) == Sx32(BinOp(op, "I64", a, Imm(i)))
GenShiftw(op, a, b) == Sx32(BinOp(op, "I32", a % 2^W, b % 2^W))
GenShiftImmW(op, a, sh) == Sx32(BinOp(op, "I32", a % 2^W, sh))

TransAlu(op, a, b) ==
  CASE op = "add"  -> GenArith("Add", a, b)
    [] op = "sub"  -> GenArith("Sub", a, b)
    [] op = "sll"  -> GenArith("Shl", a, b)
    [] op = "slt"  -> GenSetcondRr("Lt", a, b)
    [] op = "sltu" -> GenSetcondRr("Ltu", a, b)
    [] op = "xor"  -> GenArith("Xor", a, b)
    [] op = "srl"  -> GenArith("Shr", a, b)
    [] op = "sra"  -> GenArith("Sar", a, b)
    [] op = "or"   -> GenArith("Or", a, b)
    [] op = "and"  -> GenArith("And", a, b)
TransAluW(op, a, b) ==
  CASE op = "addw" -> GenArithW("Add", a, b)
    [] op = "subw" -> GenArithW("Sub", a, b)
    [] op = "sllw" -> GenShiftw("Shl", a, b)
    [] op = "srlw" -> GenShiftw("Shr", a, b)
    [] op = "sraw" -> GenShiftw("Sar", a, b)
TransImm(op, a, i) ==
  CASE op = "addi"  -> GenArithImm("Add", a, i)
    [] op = "slti"  -> GenSetcondImm("Lt", a, i)
    [] op = "sltiu" -> GenSetcondImm("Ltu", a, i)
    [] op = "xori"  -> GenArithImm("Xor", a, i)
    [] op = "ori"   -> GenArithImm("Or", a, i)
    [] op = "andi"  -> GenArithImm("And", a, i)
    [] op = "addiw" -> GenArithImmW("Add", a, i)
TransShift(op, a, sh) ==
  CASE op = "slli" -> GenShiftImm("Shl", a, sh)
    [] op = "srli" -> GenShiftImm("Shr", a, sh)
    [] op = "srai" -> GenShiftImm("Sar", a, sh)
TransShiftW(op, a, sh) ==
  CASE op = "slliw" -> GenShiftImmW("Shl", a, sh)
    [] op = "srliw" -> GenShiftImmW("Shr", a, sh)
    [] op = "sraiw" -> GenShiftImmW("Sar", a, sh)
\* lui and auipc: the immediate arrives shifted and sign-extended.
TransUpper(op, pc, i) == IF op = "lui" THEN Imm(i * 2^H) ELSE Imm(pc + i * 2^H)

-----------------------------------------------------------------------------
(* RV64M.  The host's division truncates. *)
Abs(x) == IF x < 0 THEN 0 - x ELSE x
Quot(a, b) == LET q == Abs(a) \div Abs(b) IN IF (a < 0) = (b < 0) THEN q ELSE 0 - q
Min(n) == 0 - 2^(n - 1)

\* helper_divs64 and its like for n bits: no division by 0, none of MIN by -1.
HelperDivs(n, x, y) ==
  Unsigned(D, IF y = 0 THEN 0 - 1 ELSE IF x = Min(n) /\ y = 0 - 1 THEN x ELSE Quot(x, y))
HelperRems(n, x, y) ==
  Unsigned(D, IF y = 0 THEN x ELSE IF x = Min(n) /\ y = 0 - 1 THEN 0 ELSE x - y * Quot(x, y))

GenDivRem(rem, a, b) ==
  IF rem THEN HelperRems(D, Signed(D, a), Signed(D, b)) ELSE HelperDivs(D, Signed(D, a), Signed(D, b))
GenDivRemW(rem, a, b) ==
  LET x == Signed(W, a % 2^W)
      y == Signed(W, b % 2^W)
  IN  IF rem THEN HelperRems(W, x, y) ELSE HelperDivs(W, x, y)
\* The host divides by 1 for a divisor of 0; a conditional move fixes the result.
UnsignedDiv(ty, rem, a, b) ==
  LET safe == MovCond("Eq", ty, b, 0, 1, b)
  IN  IF rem THEN MovCond("Eq", ty, b, 0, a, a % safe)
      ELSE MovCond("Eq", ty, b, 0, AllOnes(ty), a \div safe)
GenDivuRemu(rem, a, b) == UnsignedDiv("I64", rem, a, b)
GenDivuRemuW(rem, a, b) == Sx32(UnsignedDiv("I32", rem, a % 2^W, b % 2^W))

TransMul(op, a, b) ==
  CASE op = "mul"    -> GenArith("Mul", a, b)
    [] op = "mulh"   -> MulHi(TRUE, a, b)
    [] op = "mulhsu" -> Arith("Sub", "I64", MulHi(FALSE, a, b),
                              Arith("And", "I64", Shift("Sar", "I64", a, D - 1), b))
    [] op = "mulhu"  -> MulHi(FALSE, a, b)
TransDiv(op, a, b) ==
  CASE op = "div"   -> GenDivRem(FALSE, a, b)   [] op = "rem"   -> GenDivRem(TRUE, a, b)
    [] op = "divu"  -> GenDivuRemu(FALSE, a, b) [] op = "remu"  -> GenDivuRemu(TRUE, a, b)
    [] op = "mulw"  -> GenArithW("Mul", a, b)
    [] op = "divw"  -> GenDivRemW(FALSE, a, b)   [] op = "remw"  -> GenDivRemW(TRUE, a, b)
    [] op = "divuw" -> GenDivuRemuW(FALSE, a, b) [] op = "remuw" -> GenDivuRemuW(TRUE, a, b)

-----------------------------------------------------------------------------
(* Zba: shifted additions, of the whole or of the zero-extended low word. *)
GenShadd(n, a, b) == Arith("Add", "I64", Shift("Shl", "I64", a, n), b)
GenShaddUw(n, a, b) == Arith("Add", "I64", Shift("Shl", "I64", Zext32(a), n), b)
TransZba(op, a, b) ==
  CASE op = "sh1add"    -> GenShadd(1, a, b)   [] op = "sh2add"    -> GenShadd(2, a, b)
    [] op = "sh3add"    -> GenShadd(3, a, b)   [] op = "sh1add_uw" -> GenShaddUw(1, a, b)
    [] op = "sh2add_uw" -> GenShaddUw(2, a, b) [] op = "sh3add_uw" -> GenShaddUw(3, a, b)
    [] op = "add_uw"    -> Arith("Add", "I64", Zext32(a), b)
GenSlliUw(a, sh) == Shift("Shl", "I64", Zext32(a), sh)

(* Zbb. *)
GenLogicNot(op, a, b) ==
  CASE op = "andn" -> AndC("I64", a, b)
    [] op = "orn"  -> Arith("Or", "I64", a, Complement("I64", b))
    [] op = "xnor" -> Complement("I64", Arith("Xor", "I64", a, b))
GenMinMax(op, a, b) ==
  LET cond == CASE op = "max" -> "Ge" [] op = "maxu" -> "Geu" [] op = "min" -> "Lt" [] op = "minu" -> "Ltu"
  IN  MovCond(cond, "I64", a, b, a, b)
GenRotate(op, a, b) == Rotate(IF op = "rol" THEN "RotL" ELSE "RotR", "I64", a, b)
GenRotateW(op, a, b) == Sx32(Rotate(IF op = "rolw" THEN "RotL" ELSE "RotR", "I32", a % 2^W, b % 2^W))
GenRori(a, sh) == Rotate("RotR", "I64", a, sh)
GenRoriw(a, sh) == Sx32(Rotate("RotR", "I32", a % 2^W, sh))
GenCount(op, a) ==
  CASE op = "clz"  -> Clz("I64", a) [] op = "ctz"  -> Ctz("I64", a) [] op = "cpop"  -> Ctpop("I64", a)
GenCountW(op, a) ==
  Zext32(CASE op = "clzw" -> Clz("I32", a % 2^W) [] op = "ctzw" -> Ctz("I32", a % 2^W)
           [] op = "cpopw" -> Ctpop("I32", a % 2^W))
GenExt(op, a) ==
  LET sext(k) == Shift("Sar", "I64", Shift("Shl", "I64", a, D - k), D - k)
  IN  CASE op = "sext_b" -> sext(B) [] op = "sext_h" -> sext(H)
        [] op = "zext_h" -> Arith("And", "I64", a, 2^H - 1)

\* The units of u bits of a register, from the low end, each put through f(i).
EachUnit(u, f(_)) ==
  LET acc[i \in 0..(D \div u)] == IF i = 0 THEN 0 ELSE acc[i - 1] + f(i - 1) * 2^(u * (i - 1))
  IN  acc[D \div u]
UnitOf(u, x, i) == (x \div 2^(u * i)) % 2^u

HelperOrcB(a) == EachUnit(B, LAMBDA i : IF UnitOf(B, a, i) # 0 THEN 2^B - 1 ELSE 0)
GenBytes(op, a) == IF op = "rev8" THEN SwapUnits(D, B, a) ELSE HelperOrcB(a)

(* Zbs: one bit, by register and by immediate. *)
GenBit(op, a, s) ==
  LET bit == Shift("Shl", "I64", 1, s)
  IN  CASE op \in {"bclr", "bclri"} -> AndC("I64", a, bit)
        [] op \in {"bext", "bexti"} -> Arith("And", "I64", Shift("Shr", "I64", a, s), 1)
        [] op \in {"binv", "binvi"} -> Arith("Xor", "I64", a, bit)
        [] op \in {"bset", "bseti"} -> Arith("Or", "I64", a, bit)

(* Zbkb and Zbkx. *)
HelperBrev8(a) == EachUnit(B, LAMBDA i : SwapUnits(B, 1, UnitOf(B, a, i)))
GenPack(a, b) == Arith("Or", "I64", Arith("And", "I64", a, 2^W - 1), Shift("Shl", "I64", b, W))
GenPackh(a, b) ==
  Arith("Or", "I64", Arith("And", "I64", a, 2^B - 1), Shift("Shl", "I64", Arith("And", "I64", b, 2^B - 1), B))
GenPackw(a, b) ==
  Sx32(Arith("Or", "I32", Arith("And", "I32", a % 2^W, 2^H - 1), Shift("Shl", "I32", b % 2^W, H)))
HelperXperm4(a, b) == EachUnit(Nibble, LAMBDA i : UnitOf(Nibble, a, UnitOf(Nibble, b, i)))
HelperXperm8(a, b) ==
  EachUnit(PermByte, LAMBDA i : IF UnitOf(PermByte, b, i) < D \div PermByte
                                  THEN UnitOf(PermByte, a, UnitOf(PermByte, b, i)) ELSE 0)

(* Zbc: the loops over the bits of rs2. *)
XorOver(lo, b, term(_)) ==
  LET r[i \in lo..D] == IF i = lo THEN 0 ELSE r[i - 1] ^^ (IF UnitOf(1, b, i - 1) = 1 THEN term(i - 1) ELSE 0)
  IN  r[D]
HelperClmul(a, b) == XorOver(0, b, LAMBDA i : (a % 2^(D - i)) * 2^i)
HelperClmulh(a, b) == XorOver(1, b, LAMBDA i : a \div 2^(D - i))
HelperClmulr(a, b) == XorOver(0, b, LAMBDA i : a \div 2^(D - 1 - i))

TransZbb(op, a, b) ==
  CASE op \in {"andn", "orn", "xnor"} -> GenLogicNot(op, a, b)
    [] op \in {"max", "maxu", "min", "minu"} -> GenMinMax(op, a, b)
    [] op \in {"rol", "ror"} -> GenRotate(op, a, b)
    [] op \in {"rolw", "rorw"} -> GenRotateW(op, a, b)
TransZbc(op, a, b) ==
  CASE op = "clmul" -> HelperClmul(a, b) [] op = "clmulh" -> HelperClmulh(a, b)
    [] op = "clmulr" -> HelperClmulr(a, b)
TransZbk(op, a, b) ==
  CASE op = "pack" -> GenPack(a, b) [] op = "packh" -> GenPackh(a, b) [] op = "packw" -> GenPackw(a, b)
    [] op = "xperm4" -> HelperXperm4(a, b) [] op = "xperm8" -> HelperXperm8(a, b)

TransR(op, a, b) ==
  CASE op \in {"add", "sub", "sll", "slt", "sltu", "xor", "srl", "sra", "or", "and"} -> TransAlu(op, a, b)
    [] op \in {"addw", "subw", "sllw", "srlw", "sraw"} -> TransAluW(op, a, b)
    [] op \in {"mul", "mulh", "mulhsu", "mulhu"} -> TransMul(op, a, b)
    [] op \in {"div", "rem", "divu", "remu", "mulw", "divw", "remw", "divuw", "remuw"} -> TransDiv(op, a, b)
    [] op \in {"sh1add", "sh2add", "sh3add", "sh1add_uw", "sh2add_uw", "sh3add_uw", "add_uw"} -> TransZba(op, a, b)
    [] op \in {"clmul", "clmulh", "clmulr"} -> TransZbc(op, a, b)
    [] op \in {"bclr", "bext", "binv", "bset"} -> GenBit(op, a, b)
    [] op \in {"pack", "packh", "packw", "xperm4", "xperm8"} -> TransZbk(op, a, b)
    [] OTHER -> TransZbb(op, a, b)
TransR2(op, a) ==
  CASE op \in {"clz", "ctz", "cpop"} -> GenCount(op, a)
    [] op \in {"clzw", "ctzw", "cpopw"} -> GenCountW(op, a)
    [] op \in {"sext_b", "sext_h", "zext_h"} -> GenExt(op, a)
    [] op = "brev8" -> HelperBrev8(a)
    [] OTHER -> GenBytes(op, a)
TransSh(op, a, sh) ==
  CASE op \in {"slli", "srli", "srai"} -> TransShift(op, a, sh)
    [] op \in {"slliw", "srliw", "sraiw"} -> TransShiftW(op, a, sh)
    [] op = "slli_uw" -> GenSlliUw(a, sh)
    [] op = "rori" -> GenRori(a, sh)
    [] op = "roriw" -> GenRoriw(a, sh)
    [] OTHER -> GenBit(op, a, sh)

-----------------------------------------------------------------------------
(* XThead. *)
GenXtheadAddsl(a, b, n) == Arith("Add", "I64", a, Shift("Shl", "I64", b, n))
GenXtheadSrri(a, sh) == Rotate("RotR", "I64", a, sh)
GenXtheadSrriw(a, sh) == Sx32(Rotate("RotR", "I32", a % 2^W, sh))
GenXtheadTst(a, sh) == Arith("And", "I64", Shift("Shr", "I64", a, sh), 1)
\* An empty field leaves rd alone.
GenXtheadExtract(signed, old, a, lsb, msb) ==
  LET len == msb - lsb + 1
      shifted == IF lsb = 0 THEN a ELSE Shift("Shr", "I64", a, lsb)
  IN  IF lsb > msb THEN old
      ELSE IF signed THEN Shift("Sar", "I64", Shift("Shl", "I64", a, D - 1 - msb), D - len)
      ELSE IF len = D THEN shifted ELSE Arith("And", "I64", shifted, 2^len - 1)
GenXtheadFf(op, a) == IF op = "ff0" THEN Clz("I64", Complement("I64", a)) ELSE Clz("I64", a)
GenXtheadRev(op, a) == IF op = "rev" THEN SwapUnits(D, B, a) ELSE Sx32(SwapUnits(W, B, a % 2^W))
GenXtheadTstnbz(a) == Complement("I64", HelperOrcB(a))
GenXtheadCondmov(op, old, a, b) == MovCond(IF op = "mveqz" THEN "Eq" ELSE "Ne", "I64", b, 0, a, old)
Sx16(a) == Shift("Sar", "I64", Shift("Shl", "I64", a, D - H), D - H)
GenXtheadMac(op, old, a, b) ==
  LET half == op \in {"mulah", "mulsh"}
      word == op \in {"mulaw", "mulsw", "mulah", "mulsh"}
      product == IF half THEN Arith("Mul", "I64", Sx16(a), Sx16(b))
                 ELSE IF word THEN Sx32(Arith("Mul", "I32", a % 2^W, b % 2^W))
                 ELSE Arith("Mul", "I64", a, b)
      acc == Arith(IF op \in {"mula", "mulaw", "mulah"} THEN "Add" ELSE "Sub", "I64", old, product)
  IN  IF word THEN Sx32(acc) ELSE acc

MacOps == {"mula", "mulaw", "mulah", "muls", "mulsw", "mulsh"}
\* decode_xthead: with rs2 = x0 the one-source group is tried, and whatever it
\* does not know is refused before the multiply-accumulates are looked at.
DecodeXthead(op, rs2, old, a, b, sh) ==
  CASE op \in {"addsl0", "addsl3"} -> GenXtheadAddsl(a, b, IF op = "addsl0" THEN 0 ELSE 3)
    [] op = "srri" -> GenXtheadSrri(a, sh)
    [] op = "srriw" -> GenXtheadSrriw(a, sh)
    [] op = "tst" -> GenXtheadTst(a, sh)
    [] op \in {"mveqz", "mvnez"} -> GenXtheadCondmov(op, old, a, b)
    [] op \in {"ff0", "ff1"} -> GenXtheadFf(op, a)
    [] op \in {"rev", "revw"} -> GenXtheadRev(op, a)
    [] op = "tstnbz" -> GenXtheadTstnbz(a)
    [] op \in MacOps -> IF rs2 = 0 THEN Undef ELSE GenXtheadMac(op, old, a, b)

-----------------------------------------------------------------------------
(* The architecture: integers and bit strings. *)
SInt(x) == Signed(D, x)
Word(x) == Signed(W, x % 2^W)
FromInt(x) == Unsigned(D, x)
FromWord(x) == FromInt(Signed(W, x % 2^W))
Bit(x, i) == (x \div 2^i) % 2
Gather(n, b(_)) ==
  LET f[i \in 0..n] == IF i = n THEN 0 ELSE b(i) * 2^i + f[i + 1] IN f[0]
GatherS(n, b(_)) == FromInt(Signed(n, Gather(n, b)))
Flag(p) == IF p THEN 1 ELSE 0

IsaShift(n, kind, a, s) ==
  LET k == s % n
      b(i) == CASE kind = "l" -> IF i >= k THEN Bit(a, i - k) ELSE 0
                [] kind = "r" -> IF i + k < n THEN Bit(a, i + k) ELSE 0
                [] kind = "a" -> IF i + k < n THEN Bit(a, i + k) ELSE Bit(a, n - 1)
                [] kind = "ror" -> Bit(a, (i + k) % n)
                [] kind = "rol" -> Bit(a, (i + n - k) % n)
  IN  GatherS(n, b)

IsaLogic(op, a, b) ==
  LET f(i) == LET p == Bit(a, i) = 1
                  q == Bit(b, i) = 1
              IN  Flag(CASE op = "and" -> p /\ q [] op = "or" -> p \/ q [] op = "xor" -> p # q
                         [] op = "andn" -> p /\ ~q [] op = "orn" -> p \/ ~q [] op = "xnor" -> p = q)
  IN  Gather(D, f)

\* The quotient and remainder the manual defines, by 0 and on overflow too.
IsaDivide(n, rem, x, y) ==
  IF y = 0 THEN (IF rem THEN x ELSE 0 - 1)
  ELSE LET q == CHOOSE k \in (0 - 2^n)..2^n :
                  LET m == x - k * y IN Abs(m) < Abs(y) /\ (m # 0 => (m < 0) = (x < 0))
       IN  IF rem THEN x - q * y ELSE q

\* Bit k of the carry-less product: the parity of the pairs that meet there.
Clbit(a, b, k) ==
  LET n[i \in 0..(k + 1)] == IF i = 0 THEN 0 ELSE n[i - 1] + Bit(a, i - 1) * Bit(b, k - (i - 1))
  IN  IF k < 0 THEN 0 ELSE n[k + 1] % 2

IsaArith(op, a, b) ==
  CASE op = "add" -> FromInt(SInt(a) + SInt(b))  [] op = "addw" -> FromWord(Word(a) + Word(b))
    [] op = "sub" -> FromInt(SInt(a) - SInt(b))  [] op = "subw" -> FromWord(Word(a) - Word(b))
    [] op = "slt" -> Flag(SInt(a) < SInt(b))     [] op = "sltu" -> Flag(a < b)
    [] op = "sll" -> IsaShift(D, "l", a, b)      [] op = "sllw" -> IsaShift(W, "l", a, b)
    [] op = "srl" -> IsaShift(D, "r", a, b)      [] op = "srlw" -> IsaShift(W, "r", a, b)
    [] op = "sra" -> IsaShift(D, "a", a, b)      [] op = "sraw" -> IsaShift(W, "a", a, b)
    [] op = "rol" -> IsaShift(D, "rol", a, b)    [] op = "rolw" -> IsaShift(W, "rol", a, b)
    [] op = "ror" -> IsaShift(D, "ror", a, b)    [] op = "rorw" -> IsaShift(W, "ror", a, b)
    [] op = "mul" -> FromInt(SInt(a) * SInt(b))  [] op = "mulw" -> FromWord(Word(a) * Word(b))
    [] op = "mulh" -> FromInt((SInt(a) * SInt(b)) \div 2^D)
    [] op = "mulhsu" -> FromInt((SInt(a) * b) \div 2^D)
    [] op = "mulhu" -> FromInt((a * b) \div 2^D)
    [] op \in {"div", "rem"} -> FromInt(IsaDivide(D, op = "rem", SInt(a), SInt(b)))
    [] op \in {"divu", "remu"} -> FromInt(IsaDivide(D, op = "remu", a, b))
    [] op \in {"divw", "remw"} -> FromWord(IsaDivide(W, op = "remw", Word(a), Word(b)))
    [] op \in {"divuw", "remuw"} -> FromWord(IsaDivide(W, op = "remuw", a % 2^W, b % 2^W))
    [] op = "sh1add" -> FromInt(2 * a + b) [] op = "sh1add_uw" -> FromInt(2 * (a % 2^W) + b)
    [] op = "sh2add" -> FromInt(4 * a + b) [] op = "sh2add_uw" -> FromInt(4 * (a % 2^W) + b)
    [] op = "sh3add" -> FromInt(8 * a + b) [] op = "sh3add_uw" -> FromInt(8 * (a % 2^W) + b)
    [] op = "add_uw" -> FromInt((a % 2^W) + b)

IsaBits(op, a, b) ==
  LET cl(k) == Clbit(a, b, k)
      clh(k) == LET n[i \in 0..D] == IF i = 0 THEN 0
                      ELSE n[i - 1] + (IF k + D - (i - 1) < D THEN Bit(a, i - 1) * Bit(b, k + D - (i - 1)) ELSE 0)
                IN  n[D] % 2
      clr(k) == LET n[i \in 0..D] == IF i = 0 THEN 0
                      ELSE n[i - 1] + (IF k + D - 1 - (i - 1) \in 0..(D - 1) THEN Bit(a, i - 1) * Bit(b, k + D - 1 - (i - 1)) ELSE 0)
                IN  n[D] % 2
      \* unit i of the result is the unit of a that unit i of b selects, if there is one
      perm(u, i) == LET sel == (b \div 2^(u * (i \div u))) % 2^u
                    IN  IF sel * u < D THEN Bit(a, sel * u + (i % u)) ELSE 0
      perm4(i) == perm(Nibble, i)
      perm8(i) == perm(PermByte, i)
      packed(n) == (a % 2^n) + (b % 2^n) * 2^n
      hit(i) == i = b % D
      clr1(i) == IF hit(i) THEN 0 ELSE Bit(a, i)
      set1(i) == IF hit(i) THEN 1 ELSE Bit(a, i)
      inv1(i) == IF hit(i) THEN 1 - Bit(a, i) ELSE Bit(a, i)
  IN  CASE op \in {"max", "min"} -> IF (SInt(a) < SInt(b)) = (op = "max") THEN b ELSE a
        [] op \in {"maxu", "minu"} -> IF (a < b) = (op = "maxu") THEN b ELSE a
        [] op = "clmul" -> Gather(D, cl) [] op = "clmulh" -> Gather(D, clh) [] op = "clmulr" -> Gather(D, clr)
        [] op = "pack" -> packed(W) [] op = "packh" -> packed(B) [] op = "packw" -> FromWord(packed(H))
        [] op = "xperm4" -> Gather(D, perm4) [] op = "xperm8" -> Gather(D, perm8)
        [] op = "bclr" -> Gather(D, clr1) [] op = "bset" -> Gather(D, set1)
        [] op = "binv" -> Gather(D, inv1) [] op = "bext" -> Bit(a, b % D)

IsaR(op, a, b) ==
  CASE op \in {"and", "or", "xor", "andn", "orn", "xnor"} -> IsaLogic(op, a, b)
    [] op \in {"max", "min", "maxu", "minu", "clmul", "clmulh", "clmulr", "pack", "packh", "packw",
               "xperm4", "xperm8", "bclr", "bset", "binv", "bext"} -> IsaBits(op, a, b)
    [] OTHER -> IsaArith(op, a, b)

IsaR2(op, a) ==
  LET lead(n, v) == CHOOSE k \in 0..n : (\A i \in (n - k)..(n - 1) : Bit(a, i) = v)
                                         /\ (k < n => Bit(a, n - 1 - k) # v)
      trail(n) == CHOOSE k \in 0..n : (\A i \in 0..(k - 1) : Bit(a, i) = 0) /\ (k < n => Bit(a, k) = 1)
      pop(n) == CHOOSE k \in 0..n : k = LET c[i \in 0..n] == IF i = 0 THEN 0 ELSE c[i - 1] + Bit(a, i - 1) IN c[n]
      \* units of u bits reversed inside blocks of m bits
      rev(m, u, i) == Bit(a, (i \div m) * m + ((m \div u) - 1 - ((i % m) \div u)) * u + (i % u))
      d8(i) == rev(D, B, i)
      w8(i) == rev(W, B, i)
      b1(i) == rev(B, 1, i)
      some(i) == Flag(\E j \in 0..(B - 1) : Bit(a, (i \div B) * B + j) = 1)
      none(i) == 1 - some(i)
  IN  CASE op = "clz" -> lead(D, 0) [] op = "ctz" -> trail(D) [] op = "cpop" -> pop(D)
        [] op = "clzw" -> lead(W, 0) [] op = "ctzw" -> trail(W) [] op = "cpopw" -> pop(W)
        [] op = "sext_b" -> FromInt(Signed(B, a % 2^B)) [] op = "sext_h" -> FromInt(Signed(H, a % 2^H))
        [] op = "zext_h" -> a % 2^H
        [] op = "rev8" -> Gather(D, d8) [] op = "orc_b" -> Gather(D, some) [] op = "brev8" -> Gather(D, b1)
        [] op = "ff0" -> lead(D, 1) [] op = "ff1" -> lead(D, 0)
        [] op = "rev" -> Gather(D, d8) [] op = "revw" -> GatherS(W, w8) [] op = "tstnbz" -> Gather(D, none)

IsaImm(op, a, i) ==
  CASE op = "addi" -> FromInt(SInt(a) + i)     [] op = "addiw" -> FromWord(Word(a) + i)
    [] op = "slti" -> Flag(SInt(a) < i)        [] op = "sltiu" -> Flag(a < FromInt(i))
    [] op = "xori" -> IsaLogic("xor", a, FromInt(i)) [] op = "ori" -> IsaLogic("or", a, FromInt(i))
    [] op = "andi" -> IsaLogic("and", a, FromInt(i))

IsaSh(op, a, sh) ==
  CASE op = "slli" -> IsaShift(D, "l", a, sh) [] op = "slliw" -> IsaShift(W, "l", a, sh)
    [] op = "srli" -> IsaShift(D, "r", a, sh) [] op = "srliw" -> IsaShift(W, "r", a, sh)
    [] op = "srai" -> IsaShift(D, "a", a, sh) [] op = "sraiw" -> IsaShift(W, "a", a, sh)
    [] op = "slli_uw" -> IsaShift(D, "l", a % 2^W, sh)
    [] op = "rori" -> IsaShift(D, "ror", a, sh) [] op = "roriw" -> IsaShift(W, "ror", a, sh)
    [] op = "bclri" -> IsaBits("bclr", a, sh) [] op = "bexti" -> IsaBits("bext", a, sh)
    [] op = "binvi" -> IsaBits("binv", a, sh) [] op = "bseti" -> IsaBits("bset", a, sh)

IsaX(op, old, a, b, sh) ==
  CASE op = "addsl0" -> FromInt(a + b) [] op = "addsl3" -> FromInt(a + 8 * b)
    [] op = "srri" -> IsaShift(D, "ror", a, sh) [] op = "srriw" -> IsaShift(W, "ror", a, sh)
    [] op = "tst" -> Bit(a, sh)
    [] op = "mveqz" -> IF b = 0 THEN a ELSE old [] op = "mvnez" -> IF b # 0 THEN a ELSE old
    [] op = "mula" -> FromInt(SInt(old) + SInt(a) * SInt(b))
    [] op = "muls" -> FromInt(SInt(old) - SInt(a) * SInt(b))
    [] op = "mulaw" -> FromWord(Word(old) + Word(a) * Word(b))
    [] op = "mulsw" -> FromWord(Word(old) - Word(a) * Word(b))
    [] op = "mulah" -> FromWord(Word(old) + Signed(H, a % 2^H) * Signed(H, b % 2^H))
    [] op = "mulsh" -> FromWord(Word(old) - Signed(H, a % 2^H) * Signed(H, b % 2^H))
    [] OTHER -> IsaR2(op, a)

IsaExtract(signed, old, a, lsb, msb) ==
  LET n == msb - lsb + 1
      f(i) == Bit(a, i + lsb)
  IN  IF lsb > msb THEN old ELSE IF signed THEN GatherS(n, f) ELSE Gather(n, f)

-----------------------------------------------------------------------------
(* One instruction from registers of every interesting value. *)
Init ==
  /\ \E x, y \in Vals : dev = [gpr |-> <<x, y>>, exc |-> FALSE]
  /\ env = dev @@ [done |-> FALSE]

\* translate_insn: a trans_* method that declines makes the instruction
\* undefined.
Put(s, rd, v) ==
  IF v = Undef THEN [s EXCEPT !.exc = TRUE] ELSE [s EXCEPT !.gpr = GenSetGpr(@, rd, v)]
Retire(rd, v, isa) ==
  /\ dev' = Put(dev, rd, v)
  /\ env' = [Put(env, rd, isa) EXCEPT !.done = TRUE]

\* rd, rs1, rs2: distinct, the same register, register 0 in each place.
Targets == {<<1, 1, 2>>, <<2, 2, 2>>, <<0, 2, 1>>, <<2, 1, 0>>}

ExecR ==
  \E op \in Rops, t \in Targets :
    LET a == GprOrZero(dev.gpr, t[2])
        b == GprOrZero(dev.gpr, t[3])
    IN  Retire(t[1], TransR(op, a, b), IsaR(op, a, b))

ExecR2 ==
  \E op \in R2ops :
    LET a == GprOrZero(dev.gpr, 1) IN Retire(2, TransR2(op, a), IsaR2(op, a))

ExecImm ==
  \E op \in {"addi", "slti", "sltiu", "xori", "ori", "andi", "addiw"}, i \in Imms :
    LET a == GprOrZero(dev.gpr, 1) IN Retire(1, TransImm(op, a, i), IsaImm(op, a, i))

ExecUpper ==
  \E op \in {"lui", "auipc"}, i \in Imms, pc \in Pcs :
    Retire(1, TransUpper(op, pc, i), FromInt((IF op = "auipc" THEN pc ELSE 0) + i * 2^H))

ExecSh ==
  \E op \in ShOps, sh \in Shamts :
    LET a == GprOrZero(dev.gpr, 1)
    IN  /\ op \in {"slliw", "srliw", "sraiw", "roriw"} => sh < W
        /\ Retire(2, TransSh(op, a, sh), IsaSh(op, a, sh))

\* The manual defines th.mula and its like for rs2 = x0 too; the translator
\* refuses them, and the comparison takes that refusal as given.
ExecX ==
  \E op \in Xops, rs2 \in {0, 2}, sh \in Shamts :
    LET old == GprOrZero(dev.gpr, 1)
        b == GprOrZero(dev.gpr, rs2)
    IN  /\ op \in {"srri", "srriw", "tst"} \/ sh = 0
        /\ op = "srriw" => sh < W
        /\ Retire(1, DecodeXthead(op, rs2, old, old, b, sh),
                  IF op \in MacOps /\ rs2 = 0 THEN Undef ELSE IsaX(op, old, old, b, sh))

ExecExtract ==
  \E signed \in BOOLEAN, lsb, msb \in Shamts :
    LET a == GprOrZero(dev.gpr, 1)
        old == GprOrZero(dev.gpr, 2)
    IN  Retire(2, GenXtheadExtract(signed, old, a, lsb, msb), IsaExtract(signed, old, a, lsb, msb))

Next ==
  /\ ~env.done
  /\ \/ ExecR
     \/ ExecR2
     \/ ExecImm
     \/ ExecUpper
     \/ ExecSh
     \/ ExecX
     \/ ExecExtract

Spec == Init /\ [][Next]_vars

-----------------------------------------------------------------------------
\* Every RISC-V integer instruction leaves the registers the architecture
\* defines: word results sign-extended, shift counts wrapped at the width, the
\* defined quotients for 0 and MIN / -1, a permutation selector out of range
\* giving 0, register 0 never written, whichever of rd, rs1, rs2 coincide.
GprsArchitectural == dev.gpr = env.gpr /\ dev.exc = env.exc
=============================================================================
