------------------------------- MODULE LaInt -------------------------------
(***************************************************************************)
(* The integer instructions of the LoongArch translator                    *)
(* (guest/loongarch/src/loongarch/trans/mod.rs, helpers.rs): each is the   *)
(* sequence of IR operations its trans_* method emits, run with the        *)
(* semantics of IrOps, next to the register the architecture defines.      *)
(*                                                                         *)
(* Registers have 2*W bits.  The fields of an instruction keep their share *)
(* of the register: a byte is W/4 bits, si12 3W/8, si20 5W/8 and so on, so *)
(* that every sign, carry and field boundary of the 64-bit machine exists. *)
(***************************************************************************)
EXTENDS IrOps, TLC
CONSTANTS R3, R2, Vals, Imms, Fields, Targets, Pcs
VARIABLES dev,     \* gpr: registers 1 and 2, exc: an undefined instruction
          env      \* the same state as the architecture has it

vars == <<dev, env>>

B == W \div 4                     \* a byte
H == W \div 2                     \* a halfword
L12 == (3 * W) \div 8             \* the 12 low bits of a word
S20 == W - L12
Undef == 0 - 1                    \* no register value

\* gpr_get, gpr_set: register 0 reads as the constant 0, writes are dropped.
GprGet(g, r) == IF r = 0 THEN 0 ELSE g[r]
GprSet(g, r, v) == IF r = 0 THEN g ELSE [g EXCEPT ![r] = v]

\* An immediate of the decoder as a 64-bit constant: sign-extended.
Imm(i) == Unsigned(D, i)
Sx(x) == ExtI32I64(x)

-----------------------------------------------------------------------------
(* Three registers: add.d .. sra.d. *)
TransAlu(op, a, b) ==
  CASE op = "add_d" -> Arith("Add", "I64", a, b)
    [] op = "sub_d" -> Arith("Sub", "I64", a, b)
    [] op = "and"   -> Arith("And", "I64", a, b)
    [] op = "or"    -> Arith("Or", "I64", a, b)
    [] op = "xor"   -> Arith("Xor", "I64", a, b)
    [] op = "nor"   -> Complement("I64", Arith("Or", "I64", a, b))
    [] op = "slt"   -> SetCond("Lt", "I64", a, b)
    [] op = "sltu"  -> SetCond("Ltu", "I64", a, b)
    [] op = "sll_d" -> Shift("Shl", "I64", a, b)
    [] op = "srl_d" -> Shift("Shr", "I64", a, b)
    [] op = "sra_d" -> Shift("Sar", "I64", a, b)

(* mul.d, mulw.d.w, mulw.d.wu. *)
TransMul(op, a, b) ==
  CASE op = "mul_d"     -> Arith("Mul", "I64", a, b)
    [] op = "mulw_d_w"  -> Arith("Mul", "I64", Sx(a), Sx(b))
    [] op = "mulw_d_wu" -> Arith("Mul", "I64", ExtUI32I64(a), ExtUI32I64(b))

(* The division helpers: i64 and i32 division of the host truncate. *)
Abs(x) == IF x < 0 THEN 0 - x ELSE x
Quot(a, b) == LET q == Abs(a) \div Abs(b) IN IF (a < 0) = (b < 0) THEN q ELSE 0 - q
Rem(a, b) == a - b * Quot(a, b)

\* A divisor of 0, or the overflowing MIN / -1, divides by 1 instead.
HelperDivD(rem, a, b) ==
  LET x == Signed(D, a)
      y == Signed(D, b)
      d == IF y = 0 \/ (x = 0 - 2^(D - 1) /\ y = 0 - 1) THEN 1 ELSE y
  IN  Unsigned(D, IF rem THEN Rem(x, d) ELSE Quot(x, d))
HelperDivDu(rem, a, b) ==
  LET d == IF b = 0 THEN 1 ELSE b IN IF rem THEN a % d ELSE a \div d
HelperDivW(rem, a, b) ==
  LET x == Signed(W, a % 2^W)
      y == Signed(W, b % 2^W)
      d == IF y = 0 THEN 1 ELSE y
  IN  Sx(Unsigned(D, IF rem THEN Rem(x, d) ELSE Quot(x, d)))
HelperDivWu(rem, a, b) ==
  LET y == b % 2^W
      d == IF y = 0 THEN 1 ELSE y
  IN  Sx(IF rem THEN (a % 2^W) % d ELSE (a % 2^W) \div d)

TransDiv(op, a, b) ==
  CASE op = "div_d"  -> HelperDivD(FALSE, a, b)
    [] op = "mod_d"  -> HelperDivD(TRUE, a, b)
    [] op = "div_du" -> HelperDivDu(FALSE, a, b)
    [] op = "mod_du" -> HelperDivDu(TRUE, a, b)
    [] op = "div_w"  -> HelperDivW(FALSE, a, b)
    [] op = "mod_w"  -> HelperDivW(TRUE, a, b)
    [] op = "div_wu" -> HelperDivWu(FALSE, a, b)
    [] op = "mod_wu" -> HelperDivWu(TRUE, a, b)

(* add.w, sub.w; orn, andn, maskeqz, masknez; the word shifts and rotates. *)
TransAddW(op, a, b) ==
  CASE op = "add_w" -> Sx(Arith("Add", "I64", a, b))
    [] op = "sub_w" -> Sx(Arith("Sub", "I64", a, b))
TransMask(op, a, b) ==
  CASE op = "orn"     -> Arith("Or", "I64", a, Complement("I64", b))
    [] op = "andn"    -> Arith("And", "I64", a, Complement("I64", b))
    [] op = "maskeqz" -> MovCond("Eq", "I64", b, 0, 0, a)
    [] op = "masknez" -> MovCond("Ne", "I64", b, 0, 0, a)
TransShiftW(op, a, b) ==
  CASE op = "mul_w"  -> Sx(Arith("Mul", "I64", a, b))
    [] op = "sll_w"  -> Sx(Shift("Shl", "I32", a, b))
    [] op = "srl_w"  -> Sx(Shift("Shr", "I32", a, b))
    [] op = "sra_w"  -> Sx(Shift("Sar", "I32", a, b))
    [] op = "rotr_w" -> Sx(Rotate("RotR", "I32", a, b))
    [] op = "rotr_d" -> Rotate("RotR", "I64", a, b)

(* The high half of a product, by helpers on 128- and 64-bit integers. *)
TransMulh(op, a, b) ==
  CASE op = "mulh_d"  -> Unsigned(D, (Signed(D, a) * Signed(D, b)) \div 2^D)
    [] op = "mulh_du" -> (a * b) \div 2^D
    [] op = "mulh_w"  -> Sx(Unsigned(D, (Signed(W, a % 2^W) * Signed(W, b % 2^W)) \div 2^W))
    [] op = "mulh_wu" -> Sx(((a % 2^W) * (b % 2^W)) \div 2^W)

TransR3(op, a, b) ==
  CASE op \in {"add_d", "sub_d", "and", "or", "xor", "nor", "slt", "sltu",
               "sll_d", "srl_d", "sra_d"} -> TransAlu(op, a, b)
    [] op \in {"mul_d", "mulw_d_w", "mulw_d_wu"} -> TransMul(op, a, b)
    [] op \in {"div_d", "mod_d", "div_du", "mod_du", "div_w", "mod_w", "div_wu", "mod_wu"}
         -> TransDiv(op, a, b)
    [] op \in {"add_w", "sub_w"} -> TransAddW(op, a, b)
    [] op \in {"orn", "andn", "maskeqz", "masknez"} -> TransMask(op, a, b)
    [] op \in {"mul_w", "sll_w", "srl_w", "sra_w", "rotr_w", "rotr_d"} -> TransShiftW(op, a, b)
    [] op \in {"mulh_d", "mulh_du", "mulh_w", "mulh_wu"} -> TransMulh(op, a, b)

-----------------------------------------------------------------------------
(* Two registers. *)
TransExt(op, a) ==
  LET sext(k) == Shift("Sar", "I64", Shift("Shl", "I64", Arith("And", "I64", a, 2^k - 1), D - k), D - k)
  IN  IF op = "ext_w_b" THEN sext(B) ELSE sext(H)

TransCount(op, a) ==
  LET inv == Complement("I64", a)
  IN  CASE op = "clz_w" -> Clz("I32", a)   [] op = "clz_d" -> Clz("I64", a)
        [] op = "ctz_w" -> Ctz("I32", a)   [] op = "ctz_d" -> Ctz("I64", a)
        [] op = "clo_w" -> Clz("I32", inv) [] op = "clo_d" -> Clz("I64", inv)
        [] op = "cto_w" -> Ctz("I32", inv) [] op = "cto_d" -> Ctz("I64", inv)

\* ((v & evens) << k) | ((v & odds) >> k) for the mask of alternate k-bit groups.
Evens(n, k) == CHOOSE m \in 0..(2^n - 1) : m * (2^k + 1) = 2^n - 1
SwapGroups(n, k, v) ==
  LET lo == v & Evens(n, k) IN ((lo * 2^k) | ((v - lo) \div 2^k))
RevBits(n, v) ==
  LET v1 == IF B > 1 THEN SwapGroups(n, 1, v) ELSE v
  IN  IF B > 2 THEN SwapGroups(n, 2, v1) ELSE v1

HelperRev(op, a) ==
  LET lo == a % 2^W
  IN  CASE op = "revb_2h"   -> Sx(SwapGroups(W, B, lo))
        [] op = "revb_4h"   -> SwapGroups(D, B, a)
        [] op = "revb_2w"   -> SwapUnits(W, B, a \div 2^W) * 2^W + SwapUnits(W, B, lo)
        [] op = "revh_2w"   -> Sx(Rotate("RotR", "I32", lo, H))
        [] op = "revh_d"    -> SwapUnits(D, H, a)

HelperBitrev(op, a) ==
  LET lo == a % 2^W
  IN  CASE op = "bitrev_4b" -> Sx(RevBits(W, lo))
        [] op = "bitrev_8b" -> RevBits(D, a)
        [] op = "bitrev_w"  -> Sx(SwapUnits(W, 1, lo))
        [] op = "bitrev_d"  -> SwapUnits(D, 1, a)

TransRev(op, a) == IF op = "revb_d" THEN SwapUnits(D, B, a) ELSE HelperRev(op, a)

TransBitrev(op, a) == HelperBitrev(op, a)

TransR2(op, a) ==
  CASE op \in {"ext_w_b", "ext_w_h"} -> TransExt(op, a)
    [] op \in {"clz_w", "clz_d", "ctz_w", "ctz_d", "clo_w", "clo_d", "cto_w", "cto_d"}
         -> TransCount(op, a)
    [] op \in {"bitrev_4b", "bitrev_8b", "bitrev_w", "bitrev_d"} -> TransBitrev(op, a)
    [] OTHER -> TransRev(op, a)

-----------------------------------------------------------------------------
(* Immediates. *)
TransImm(op, a, i) ==
  CASE op = "addi_d" -> Arith("Add", "I64", a, Imm(i))
    [] op = "andi"   -> Arith("And", "I64", a, i % 2^L12)
    [] op = "ori"    -> Arith("Or", "I64", a, i % 2^L12)
    [] op = "xori"   -> Arith("Xor", "I64", a, i % 2^L12)
    [] op = "addu16i_d" -> Arith("Add", "I64", a, Imm(i * 2^H))
TransImmW(op, a, i) ==
  CASE op = "addi_w" -> Sx(Arith("Add", "I64", a, Imm(i)))
    [] op = "slti"   -> SetCond("Lt", "I64", a, Imm(i))
    [] op = "sltui"  -> SetCond("Ltu", "I64", a, Imm(i))

(* lu12i.w, lu32i.d (reads rd), the pc-relative ones; lu52i.d. *)
TransUpper(op, old, pc, i) ==
  CASE op = "lu12i_w"   -> Imm(i * 2^L12)
    [] op = "lu32i_d"   -> Arith("Or", "I64", Arith("And", "I64", old, 2^W - 1), Imm(i * 2^W))
    [] op = "pcalau12i" -> LET r == (pc + Imm(i * 2^L12)) % 2^D IN r - (r % 2^L12)
    [] op = "pcaddu12i" -> (pc + Imm(i * 2^L12)) % 2^D
    [] op = "pcaddu18i" -> (pc + Imm(i * 2^(H + 1))) % 2^D
TransPcaddi(pc, i) == (pc + Imm(i * 4)) % 2^D
TransLu52i(a, i) ==
  Arith("Or", "I64", Arith("And", "I64", a, 2^(D - L12) - 1), Imm(i * 2^(D - L12)))

(* alsl: the shift is sa2 + 1.  bytepick: the pair rj:rk shifted right. *)
TransAlsl(op, a, b, sa) ==
  LET sum == Arith("Add", "I64", Shift("Shl", "I64", a, sa + 1), b)
  IN  CASE op = "alsl_w" -> Sx(sum) [] op = "alsl_wu" -> ExtUI32I64(sum) [] op = "alsl_d" -> sum
TransBytepick(op, a, b, sa) ==
  LET ofsw == W - sa * B
      ofsd == D - sa * B
  IN  IF op = "bytepick_w"
        THEN Sx(IF ofsw = W THEN b ELSE Extract2("I32", a, b, ofsw))
        ELSE IF ofsd = D THEN b ELSE Extract2("I64", a, b, ofsd)

(* Bit fields; an empty field is no instruction. *)
Mask(width) == IF width >= D THEN 2^D - 1 ELSE 2^width - 1
TransBstrpick(op, a, msb, lsb) ==
  IF msb < lsb THEN Undef
  ELSE LET picked == Arith("And", "I64", Shift("Shr", "I64", a, lsb), Mask(msb - lsb + 1))
       IN  IF op = "bstrpick_w" THEN Sx(picked) ELSE picked
TransBstrins(op, a, old, msb, lsb) ==
  IF msb < lsb THEN Undef
  ELSE LET mask == Mask(msb - lsb + 1)
           src == Shift("Shl", "I64", Arith("And", "I64", a, mask), lsb)
           merged == Arith("Or", "I64", AndC("I64", old, mask * 2^lsb), src)
       IN  IF op = "bstrins_w" THEN Sx(merged) ELSE merged

(* Shifts by ui5 and ui6. *)
TransShiftImm(op, a, ui) ==
  CASE op = "slli_w"  -> Sx(Shift("Shl", "I32", a, ui))
    [] op = "slli_d"  -> Shift("Shl", "I64", a, ui)
    [] op = "srli_w"  -> Sx(Shift("Shr", "I32", a, ui))
    [] op = "srli_d"  -> Shift("Shr", "I64", a, ui)
    [] op = "srai_w"  -> Sx(Shift("Sar", "I32", a, ui))
    [] op = "srai_d"  -> Shift("Sar", "I64", a, ui)
    [] op = "rotri_w" -> Sx(Rotate("RotR", "I32", a, ui))
    [] op = "rotri_d" -> Rotate("RotR", "I64", a, ui)

-----------------------------------------------------------------------------
(* The architecture: values as integers and as bit strings. *)
SInt(x) == Signed(D, x)
Word(x) == Signed(W, x % 2^W)
FromInt(x) == Unsigned(D, x)
Bit(x, i) == (x \div 2^i) % 2

\* The n-bit number whose bit i is b(i), sign- or zero-extended.
Gather(n, b(_)) ==
  LET f[i \in 0..n] == IF i = n THEN 0 ELSE b(i) * 2^i + f[i + 1] IN f[0]
GatherS(n, b(_)) == FromInt(Signed(n, Gather(n, b)))

Floor(a, k) == a \div 2^k

IsaShift(n, kind, a, s) ==
  LET k == s % n
      b(i) == CASE kind = "l" -> IF i >= k THEN Bit(a, i - k) ELSE 0
                [] kind = "r" -> IF i + k < n THEN Bit(a, i + k) ELSE 0
                [] kind = "a" -> IF i + k < n THEN Bit(a, i + k) ELSE Bit(a, n - 1)
                [] kind = "o" -> Bit(a, (i + k) % n)
  IN  GatherS(n, b)

IsaR3(op, a, b) ==
  CASE op = "add_d" -> FromInt(SInt(a) + SInt(b))
    [] op = "sub_d" -> FromInt(SInt(a) - SInt(b))
    [] op = "add_w" -> FromInt(Signed(W, (Word(a) + Word(b)) % 2^W))
    [] op = "sub_w" -> FromInt(Signed(W, (Word(a) - Word(b)) % 2^W))
    [] op \in {"and", "or", "xor", "nor", "orn", "andn"} ->
         LET f(i) == LET p == Bit(a, i)
                         q == Bit(b, i)
                     IN  CASE op = "and" -> p * q
                           [] op = "or" -> IF p + q > 0 THEN 1 ELSE 0
                           [] op = "xor" -> IF p # q THEN 1 ELSE 0
                           [] op = "nor" -> IF p + q = 0 THEN 1 ELSE 0
                           [] op = "orn" -> IF q > p THEN 0 ELSE 1
                           [] op = "andn" -> IF p > q THEN 1 ELSE 0
         IN  Gather(D, f)
    [] op = "slt"  -> IF SInt(a) < SInt(b) THEN 1 ELSE 0
    [] op = "sltu" -> IF a < b THEN 1 ELSE 0
    [] op = "maskeqz" -> IF b = 0 THEN 0 ELSE a
    [] op = "masknez" -> IF b # 0 THEN 0 ELSE a
    [] op = "sll_d" -> IsaShift(D, "l", a, b)
    [] op = "srl_d" -> IsaShift(D, "r", a, b)
    [] op = "sra_d" -> IsaShift(D, "a", a, b)
    [] op = "rotr_d" -> IsaShift(D, "o", a, b)
    [] op = "sll_w" -> IsaShift(W, "l", a, b)
    [] op = "srl_w" -> IsaShift(W, "r", a, b)
    [] op = "sra_w" -> IsaShift(W, "a", a, b)
    [] op = "rotr_w" -> IsaShift(W, "o", a, b)
    [] op = "mul_d" -> FromInt(SInt(a) * SInt(b))
    [] op = "mul_w" -> FromInt(Signed(W, (Word(a) * Word(b)) % 2^W))
    [] op = "mulw_d_w" -> FromInt(Word(a) * Word(b))
    [] op = "mulw_d_wu" -> FromInt((a % 2^W) * (b % 2^W))
    [] op = "mulh_d" -> FromInt(Floor(SInt(a) * SInt(b), D))
    [] op = "mulh_du" -> FromInt(Floor(a * b, D))
    [] op = "mulh_w" -> FromInt(Floor(Word(a) * Word(b), W))
    [] op = "mulh_wu" -> FromInt(Signed(W, Floor((a % 2^W) * (b % 2^W), W)))

\* A division by zero leaves any value, of a word division a sign-extended one.
IsDivision(op) ==
  op \in {"div_d", "mod_d", "div_du", "mod_du", "div_w", "mod_w", "div_wu", "mod_wu"}
IsaDiv(op, a, b, r) ==
  LET word == op \in {"div_w", "mod_w", "div_wu", "mod_wu"}
      uns == op \in {"div_du", "mod_du", "div_wu", "mod_wu"}
      rem == op \in {"mod_d", "mod_du", "mod_w", "mod_wu"}
      n == IF word THEN W ELSE D
      val(x) == IF uns THEN x % 2^n ELSE Signed(n, x % 2^n)
      x == val(a)
      y == val(b)
      exact(q, m) == x = q * y + m /\ Abs(m) < Abs(y) /\ (m # 0 => (m < 0) = (x < 0))
  IN  /\ word => r = FromInt(Word(r))
      /\ y # 0 => \E q \in (0 - 2^n)..(2^n - 1) :
                    LET m == x - q * y
                    IN  exact(q, m) /\ r % 2^n = (IF rem THEN m ELSE q) % 2^n

IsaR2(op, a) ==
  LET lead(n, v) == CHOOSE k \in 0..n : (\A i \in (n - k)..(n - 1) : Bit(a, i) = v)
                                         /\ (k < n => Bit(a, n - 1 - k) # v)
      trail(n, v) == CHOOSE k \in 0..n : (\A i \in 0..(k - 1) : Bit(a, i) = v)
                                          /\ (k < n => Bit(a, k) # v)
      \* units of u bits reversed inside blocks of m bits
      rev(m, u, i) == Bit(a, (i \div m) * m + ((m \div u) - 1 - ((i % m) \div u)) * u + (i % u))
      bb(i) == rev(B, 1, i)
      hb(i) == rev(H, B, i)
      wb(i) == rev(W, B, i)
      wh(i) == rev(W, H, i)
      db(i) == rev(D, B, i)
      dh(i) == rev(D, H, i)
      w1(i) == rev(W, 1, i)
      d1(i) == rev(D, 1, i)
  IN  CASE op = "ext_w_b" -> FromInt(Signed(B, a % 2^B))
        [] op = "ext_w_h" -> FromInt(Signed(H, a % 2^H))
        [] op = "clz_w" -> lead(W, 0)  [] op = "clz_d" -> lead(D, 0)
        [] op = "clo_w" -> lead(W, 1)  [] op = "clo_d" -> lead(D, 1)
        [] op = "ctz_w" -> trail(W, 0) [] op = "ctz_d" -> trail(D, 0)
        [] op = "cto_w" -> trail(W, 1) [] op = "cto_d" -> trail(D, 1)
        [] op = "revb_2h" -> GatherS(W, hb) [] op = "revb_4h" -> Gather(D, hb)
        [] op = "revb_2w" -> Gather(D, wb)  [] op = "revb_d" -> Gather(D, db)
        [] op = "revh_2w" -> Gather(D, wh)  [] op = "revh_d" -> Gather(D, dh)
        [] op = "bitrev_4b" -> GatherS(W, bb) [] op = "bitrev_8b" -> Gather(D, bb)
        [] op = "bitrev_w" -> GatherS(W, w1)  [] op = "bitrev_d" -> Gather(D, d1)

IsaImm(op, a, i) ==
  LET u == i % 2^L12
  IN  CASE op = "addi_d" -> FromInt(SInt(a) + i)
        [] op = "addi_w" -> FromInt(Signed(W, (Word(a) + i) % 2^W))
        [] op = "slti"   -> IF SInt(a) < i THEN 1 ELSE 0
        [] op = "sltui"  -> IF a < FromInt(i) THEN 1 ELSE 0
        [] op = "addu16i_d" -> FromInt(SInt(a) + i * 2^H)
        [] op = "andi" -> IsaR3("and", a, u)
        [] op = "ori"  -> IsaR3("or", a, u)
        [] op = "xori" -> IsaR3("xor", a, u)
        [] op = "lu52i_d" -> (a % 2^(D - L12)) + u * 2^(D - L12)

IsaUpper(op, old, pc, i) ==
  CASE op = "lu12i_w"   -> FromInt(i * 2^L12)
    [] op = "lu32i_d"   -> FromInt((old % 2^W) + i * 2^W)
    [] op = "pcalau12i" -> FromInt(((pc \div 2^L12) + i) * 2^L12)
    [] op = "pcaddu12i" -> FromInt(pc + i * 2^L12)
    [] op = "pcaddu18i" -> FromInt(pc + i * 2^(H + 1))
    [] op = "pcaddi"    -> FromInt(pc + i * 4)

IsaSa(op, a, b, sa) ==
  LET sum == SInt(a) * 2^(sa + 1) + SInt(b)
      \* the bytes of rk:rj from byte n - sa on
      pick(n) == (b * 2^(sa * B) + ((a % 2^n) \div 2^(n - sa * B))) % 2^n
  IN  CASE op = "alsl_d"  -> FromInt(sum)
        [] op = "alsl_w"  -> FromInt(Signed(W, sum % 2^W))
        [] op = "alsl_wu" -> sum % 2^W
        [] op = "bytepick_w" -> FromInt(Signed(W, pick(W)))
        [] op = "bytepick_d" -> pick(D)

IsaField(op, a, old, msb, lsb) ==
  LET f(i) == IF i + lsb <= msb THEN Bit(a, i + lsb) ELSE 0
      g(i) == IF i \in lsb..msb THEN Bit(a, i - lsb) ELSE Bit(old, i)
  IN  CASE msb < lsb -> Undef
        [] msb >= lsb /\ op = "bstrpick_w" -> GatherS(W, f)
        [] msb >= lsb /\ op = "bstrpick_d" -> Gather(D, f)
        [] msb >= lsb /\ op = "bstrins_w" -> GatherS(W, g)
        [] msb >= lsb /\ op = "bstrins_d" -> Gather(D, g)

IsaShiftImm(op, a, ui) ==
  CASE op = "slli_w" -> IsaShift(W, "l", a, ui)  [] op = "slli_d" -> IsaShift(D, "l", a, ui)
    [] op = "srli_w" -> IsaShift(W, "r", a, ui)  [] op = "srli_d" -> IsaShift(D, "r", a, ui)
    [] op = "srai_w" -> IsaShift(W, "a", a, ui)  [] op = "srai_d" -> IsaShift(D, "a", a, ui)
    [] op = "rotri_w" -> IsaShift(W, "o", a, ui) [] op = "rotri_d" -> IsaShift(D, "o", a, ui)

-----------------------------------------------------------------------------
(* One instruction from registers of every interesting value. *)
Init ==
  /\ \E x, y \in Vals : dev = [gpr |-> <<x, y>>, exc |-> FALSE]
  /\ env = dev @@ [done |-> FALSE, ok |-> TRUE]

\* translate_insn: a trans_* method that declines makes the instruction
\* undefined.
Put(s, rd, v) ==
  IF v = Undef THEN [s EXCEPT !.exc = TRUE] ELSE [s EXCEPT !.gpr = GprSet(@, rd, v)]

Retire(rd, v, isa) ==
  /\ dev' = Put(dev, rd, v)
  /\ env' = [Put(env, rd, isa) EXCEPT !.done = TRUE]

ExecR3 ==
  \E op \in R3, t \in Targets :
    LET a == GprGet(dev.gpr, t[2])
        b == GprGet(dev.gpr, t[3])
        v == TransR3(op, a, b)
    IN  IF IsDivision(op)
          THEN /\ dev' = Put(dev, t[1], v)
               /\ env' = [Put(env, t[1], v) EXCEPT !.done = TRUE, !.ok = IsaDiv(op, a, b, v)]
          ELSE Retire(t[1], v, IsaR3(op, a, b))

\* The helper of revh.2w swaps the halfwords of the low word and extends its
\* sign where the architecture swaps those of both words: the low word alone
\* is compared.
ExecR2 ==
  \E op \in R2 :
    LET a == GprGet(dev.gpr, 1)
        v == TransR2(op, a)
    IN  IF op = "revh_2w"
          THEN /\ dev' = Put(dev, 2, v)
               /\ env' = [Put(env, 2, v) EXCEPT !.done = TRUE,
                                                !.ok = v % 2^W = IsaR2(op, a) % 2^W]
          ELSE Retire(2, v, IsaR2(op, a))

ExecImm ==
  \E op \in {"addi_d", "andi", "ori", "xori", "addu16i_d", "addi_w", "slti", "sltui", "lu52i_d"},
     i \in Imms :
    LET a == GprGet(dev.gpr, 1)
        v == CASE op \in {"addi_w", "slti", "sltui"} -> TransImmW(op, a, i)
               [] op = "lu52i_d" -> TransLu52i(a, i)
               [] OTHER -> TransImm(op, a, i)
    IN  Retire(2, v, IsaImm(op, a, i))

ExecUpper ==
  \E op \in {"lu12i_w", "lu32i_d", "pcalau12i", "pcaddu12i", "pcaddu18i", "pcaddi"},
     i \in Imms, pc \in Pcs :
    LET old == GprGet(dev.gpr, 1)
        v == IF op = "pcaddi" THEN TransPcaddi(pc, i) ELSE TransUpper(op, old, pc, i)
    IN  Retire(1, v, IsaUpper(op, old, pc, i))

ExecSa ==
  \E op \in {"alsl_w", "alsl_wu", "alsl_d", "bytepick_w", "bytepick_d"}, sa \in 0..3 :
    LET a == GprGet(dev.gpr, 1)
        b == GprGet(dev.gpr, 2)
        v == IF op \in {"bytepick_w", "bytepick_d"} THEN TransBytepick(op, a, b, sa)
             ELSE TransAlsl(op, a, b, sa)
    IN  Retire(1, v, IsaSa(op, a, b, sa))

ExecField ==
  \E op \in {"bstrpick_w", "bstrpick_d", "bstrins_w", "bstrins_d"}, msb, lsb \in Fields :
    LET a == GprGet(dev.gpr, 1)
        old == GprGet(dev.gpr, 2)
        v == IF op \in {"bstrpick_w", "bstrpick_d"} THEN TransBstrpick(op, a, msb, lsb)
             ELSE TransBstrins(op, a, old, msb, lsb)
    IN  /\ op \in {"bstrpick_w", "bstrins_w"} => msb < W /\ lsb < W
        /\ Retire(2, v, IsaField(op, a, old, msb, lsb))

ExecShiftImm ==
  \E op \in {"slli_w", "slli_d", "srli_w", "srli_d", "srai_w", "srai_d", "rotri_w", "rotri_d"},
     ui \in Fields :
    LET a == GprGet(dev.gpr, 1)
    IN  /\ op \in {"slli_w", "srli_w", "srai_w", "rotri_w"} => ui < W
        /\ Retire(2, TransShiftImm(op, a, ui), IsaShiftImm(op, a, ui))

Next ==
  /\ ~env.done
  /\ \/ ExecR3
     \/ ExecR2
     \/ ExecImm
     \/ ExecUpper
     \/ ExecSa
     \/ ExecField
     \/ ExecShiftImm

Spec == Init /\ [][Next]_vars

-----------------------------------------------------------------------------
\* Every integer instruction leaves the registers the architecture defines: a
\* word result is sign-extended, a shift count wraps at the width, a division
\* never traps, a bit field touches its bits only, register 0 stays 0.  The
\* high word of revh.2w is the exception (helpers.rs:180).
GprsArchitectural == dev.gpr = env.gpr /\ dev.exc = env.exc /\ env.ok
=============================================================================
