------------------------------- MODULE IrOps -------------------------------
(***************************************************************************)
(* What an operation of the intermediate representation computes, as the   *)
(* x86-64 backend emits it (accel/src/x86_64/codegen.rs).  Registers have  *)
(* 2*W bits and words W bits, W a power of two (32 in the code); an        *)
(* operation of type "I32" reads the low words and, as every 32-bit x86    *)
(* instruction does, leaves a zero upper half.                             *)
(***************************************************************************)
EXTENDS Integers, Bitwise
CONSTANT W

D == 2 * W
Bits(ty) == IF ty = "I32" THEN W ELSE D
Trunc(ty, x) == x % 2^Bits(ty)
AllOnes(ty) == 2^Bits(ty) - 1

\* The two's complement reading of an n-bit pattern, and back.
Signed(n, x) == IF x >= 2^(n - 1) THEN x - 2^n ELSE x
Unsigned(n, x) == x % 2^n

Ones(n, x) == (2^n - 1) - x

(* ADD/LEA, SUB, IMUL, AND, OR, XOR on the low bits of the type. *)
Arith(opc, ty, a, b) ==
  LET x == Trunc(ty, a)
      y == Trunc(ty, b)
  IN  CASE opc = "Add" -> Trunc(ty, x + y)
        [] opc = "Sub" -> Trunc(ty, x - y)
        [] opc = "Mul" -> Trunc(ty, x * y)
        [] opc = "And" -> x & y
        [] opc = "Or"  -> x | y
        [] opc = "Xor" -> x ^^ y

AndC(ty, a, b) == Trunc(ty, a) & Ones(Bits(ty), Trunc(ty, b))
Neg(ty, a) == Trunc(ty, 0 - a)
Complement(ty, a) == Ones(Bits(ty), Trunc(ty, a))

(* Shifts and rotates take their count from CL, masked to the type's width. *)
Shift(opc, ty, a, b) ==
  LET n  == Bits(ty)
      x  == Trunc(ty, a)
      sh == b % n
  IN  CASE opc = "Shl" -> (x % 2^(n - sh)) * 2^sh
        [] opc = "Shr" -> x \div 2^sh
        [] opc = "Sar" -> Unsigned(n, Signed(n, x) \div 2^sh)

Rotate(opc, ty, a, b) ==
  LET n  == Bits(ty)
      x  == Trunc(ty, a)
      k  == b % n
      r  == IF opc = "RotR" THEN k ELSE (n - k) % n
  IN  (x \div 2^r) + ((x % 2^r) * 2^(n - r))

(* CMP (or TEST) and the condition the branch, SETcc or CMOVcc takes. *)
Cond(cond, ty, a, b) ==
  LET n == Bits(ty)
      x == Trunc(ty, a)
      y == Trunc(ty, b)
  IN  CASE cond = "Eq"  -> x = y
        [] cond = "Ne"  -> x # y
        [] cond = "Lt"  -> Signed(n, x) < Signed(n, y)
        [] cond = "Ge"  -> Signed(n, x) >= Signed(n, y)
        [] cond = "Le"  -> Signed(n, x) <= Signed(n, y)
        [] cond = "Gt"  -> Signed(n, x) > Signed(n, y)
        [] cond = "Ltu" -> x < y
        [] cond = "Geu" -> x >= y
        [] cond = "Leu" -> x <= y
        [] cond = "Gtu" -> x > y
        [] cond = "TstEq" -> (x & y) = 0
        [] cond = "TstNe" -> (x & y) # 0

SetCond(cond, ty, a, b) == IF Cond(cond, ty, a, b) THEN 1 ELSE 0
NegSetCond(cond, ty, a, b) == Neg(ty, SetCond(cond, ty, a, b))

(* CMOV on the inverted condition moves v2 over v1. *)
MovCond(cond, ty, a, b, v1, v2) ==
  Trunc(ty, IF ~Cond(cond, ty, a, b) THEN v2 ELSE v1)

(* MOVSLQ, MOV r32, and the upper half. *)
ExtI32I64(a) == Unsigned(D, Signed(W, a % 2^W))
ExtUI32I64(a) == a % 2^W
ExtrhI64I32(a) == a \div 2^W

(* LZCNT, TZCNT and POPCNT; both counts of zero are the width. *)
Clz(ty, a) ==
  LET x == Trunc(ty, a)
  IN  CHOOSE k \in 0..Bits(ty) :
        /\ x < 2^(Bits(ty) - k)
        /\ k < Bits(ty) => x >= 2^(Bits(ty) - k - 1)
Ctz(ty, a) ==
  LET x == Trunc(ty, a)
  IN  IF x = 0 THEN Bits(ty)
      ELSE CHOOSE k \in 0..(Bits(ty) - 1) :
             /\ x % 2^k = 0
             /\ (x \div 2^k) % 2 = 1

Ctpop(ty, a) ==
  LET ones[k \in 0..Bits(ty)] == IF k = 0 THEN 0 ELSE ((a \div 2^(k - 1)) % 2) + ones[k - 1]
  IN  ones[Bits(ty)]

(* MUL and IMUL leave the high half of the product in RDX. *)
MulHi(signed, a, b) ==
  IF signed THEN Unsigned(D, (Signed(D, a) * Signed(D, b)) \div 2^D) ELSE (a * b) \div 2^D

(* SHRD: the low bits of the pair ah:al moved right by ofs. *)
Extract2(ty, al, ah, ofs) ==
  LET n == Bits(ty)
      k == ofs % n
  IN  (Trunc(ty, al) \div 2^k) + ((ah % 2^k) * 2^(n - k))

(* BSWAP of the whole register, in bytes of B bits. *)
SwapUnits(n, u, x) ==
  LET k == n \div u
      unit(i) == (x \div 2^(u * i)) % 2^u
      RECURSIVE sum(_)
      sum(i) == IF i = k THEN 0 ELSE unit(k - 1 - i) * 2^(u * i) + sum(i + 1)
  IN  sum(0)
=============================================================================
