------------------------------- MODULE LaMem -------------------------------
(***************************************************************************)
(* Loads, stores, atomic read-modify-writes and branches of the LoongArch  *)
(* translator (guest/loongarch/src/loongarch/trans/mod.rs) over the memory *)
(* helpers of system/src/loongarch_cpu.rs, next to the architecture.       *)
(*                                                                         *)
(* A register has 2*W bits, a byte W/4, so a doubleword is 8 bytes as in   *)
(* the machine.  A page has 8 bytes; of the four virtual pages one is RAM, *)
(* one read-only RAM, one a device and one not mapped.                     *)
(***************************************************************************)
EXTENDS IrOps, TLC
CONSTANTS Addrs,      \* values of the base register
          Values,     \* values of the other register
          Offs        \* immediates
VARIABLES dev,    \* gpr 1, 2; one fpr; mem; pc; how the block was left
          env     \* the same state as the architecture has it

vars == <<dev, env>>

B == W \div 4
Page == 8
Vpage(a) == (a \div Page) % 4
Pages == << [pa |-> 8, w |-> TRUE], [pa |-> 0, w |-> FALSE], [pa |-> 16, w |-> TRUE] >>
Phys == 0 .. 23
RamEnd == 16
Vector == 64
Failed == 0 - 1

Get(d, r) == IF r = 0 THEN 0 ELSE d.gpr[r]
Set(d, r, v) == IF r = 0 THEN d ELSE [d EXCEPT !.gpr[r] = v]
Imm(i) == Unsigned(D, i)

-----------------------------------------------------------------------------
(* The memory helpers. *)
TranslateForHelper(gva, write) ==
  IF Vpage(gva) = 3 THEN Failed
  ELSE LET p == Pages[Vpage(gva) + 1]
       IN  IF write /\ ~p.w THEN Failed ELSE p.pa + (gva % Page)

\* The length of the part on the first page, or the whole.
SplitPageAccessLate(gva, size) ==
  IF (gva % Page) + size <= Page + 1 THEN size ELSE Page - (gva % Page)
SplitPageAccess(gva, size) ==
  IF (gva % Page) + size <= Page THEN size ELSE Page - (gva % Page)

\* Mapped devices, then RAM, then what an unmapped address reads.
ByteAt(mem, pa) == IF pa \in Phys THEN mem[pa] ELSE 0
ReadPhysBytes(mem, pa, size) ==
  LET f[i \in 0..size] == IF i = size THEN 0 ELSE ByteAt(mem, pa + i) * 2^(B * i) + f[i + 1]
  IN  f[0]
WritePhysBytes(mem, pa, val, size) ==
  [p \in Phys |-> IF p \in pa .. (pa + size - 1)
                  THEN (val \div 2^(B * (p - pa))) % 2^B ELSE mem[p]]

MemRead(mem, gva, size) ==
  LET n  == SplitPageAccess(gva, size)
      pa == TranslateForHelper(gva, FALSE)
      second == TranslateForHelper((gva + n) % 2^D, FALSE)
  IN  CASE pa = Failed -> Failed
        [] pa # Failed /\ n = size -> ReadPhysBytes(mem, pa, size)
        [] pa # Failed /\ n < size /\ second = Failed -> Failed
        [] pa # Failed /\ n < size /\ second # Failed ->
             ReadPhysBytes(mem, pa, n) + ReadPhysBytes(mem, second, size - n) * 2^(B * n)

\* <<the memory afterwards>>, or <<>> after a fault.
MemWrite(mem, gva, val, size) ==
  LET n  == SplitPageAccess(gva, size)
      pa == TranslateForHelper(gva, TRUE)
      second == TranslateForHelper((gva + n) % 2^D, TRUE)
  IN  CASE pa = Failed -> <<>>
        [] pa # Failed /\ n = size -> <<WritePhysBytes(mem, pa, val, size)>>
        [] pa # Failed /\ n < size /\ second = Failed -> <<>>
        [] pa # Failed /\ n < size /\ second # Failed ->
             <<WritePhysBytes(WritePhysBytes(mem, pa, val, n), second,
                              val \div 2^(B * n), size - n)>>

-----------------------------------------------------------------------------
(* qemu_ld and qemu_st with the memory operation of the instruction: a     *)
(* fault leaves the block before anything else of it happens.              *)
SizeOf(mop) ==
  CASE mop \in {"sb", "ub"} -> 1 [] mop \in {"sw", "uw"} -> 2
    [] mop \in {"sl", "ul"} -> 4 [] mop = "uq" -> 8
Extend(mop, v) ==
  IF mop \in {"sb", "sw", "sl"} THEN Unsigned(D, Signed(B * SizeOf(mop), v)) ELSE v

Faulted(d) == [d EXCEPT !.exit = "fault", !.pc = Vector]
Next4(d) == [d EXCEPT !.pc = (@ + 4) % 2^D, !.exit = "next"]

GenGload(d, rd, a, mop) ==
  LET v == MemRead(d.mem, a, SizeOf(mop))
  IN  IF v = Failed THEN Faulted(d) ELSE Next4(Set(d, rd, Extend(mop, v)))
GenGstore(d, val, a, mop) ==
  LET m == MemWrite(d.mem, a, val, SizeOf(mop))
  IN  IF m = <<>> THEN Faulted(d) ELSE Next4([d EXCEPT !.mem = m[1]])

GenIndexAddr(d, rj, rk) == Arith("Add", "I64", Get(d, rj), Get(d, rk))
OffsetAddr(d, rj, off) == Arith("Add", "I64", Get(d, rj), Imm(off))

LdMop(op) ==
  CASE op = "ld_b" -> "sb" [] op = "ld_h" -> "sw" [] op = "ld_w" -> "sl" [] op = "ld_d" -> "uq"
    [] op = "ld_bu" -> "ub" [] op = "ld_hu" -> "uw" [] op = "ld_wu" -> "ul"
TransLd(d, op, rd, rj, si) == GenGload(d, rd, OffsetAddr(d, rj, si), LdMop(op))

StMop(op) ==
  CASE op = "st_b" -> "ub" [] op = "st_h" -> "uw" [] op = "st_w" -> "ul" [] op = "st_d" -> "uq"
TransSt(d, op, rd, rj, si) == GenGstore(d, Get(d, rd), OffsetAddr(d, rj, si), StMop(op))

LdxMop(op) ==
  CASE op = "ldx_b" -> "sb" [] op = "ldx_h" -> "sw" [] op = "ldx_w" -> "sl" [] op = "ldx_d" -> "uq"
LdxuMop(op) == CASE op = "ldx_bu" -> "ub" [] op = "ldx_hu" -> "uw" [] op = "ldx_wu" -> "ul"
TransLdx(d, op, rd, rj, rk) == GenGload(d, rd, GenIndexAddr(d, rj, rk), LdxMop(op))
TransLdxu(d, op, rd, rj, rk) == GenGload(d, rd, GenIndexAddr(d, rj, rk), LdxuMop(op))
StxMop(op) ==
  CASE op = "stx_b" -> "ub" [] op = "stx_h" -> "uw" [] op = "stx_w" -> "ul" [] op = "stx_d" -> "uq"
TransStx(d, op, rd, rj, rk) == GenGstore(d, Get(d, rd), GenIndexAddr(d, rj, rk), StxMop(op))

\* preld, preldx: nothing.
TransPreld(d) == Next4(d)

\* ldptr, stptr: si14 counts words.
TransPtr(d, op, rd, rj, si) ==
  LET a == OffsetAddr(d, rj, si * 4)
  IN  CASE op = "ldptr_w" -> GenGload(d, rd, a, "sl") [] op = "ldptr_d" -> GenGload(d, rd, a, "uq")
        [] op = "stptr_w" -> GenGstore(d, Get(d, rd), a, "ul")
        [] op = "stptr_d" -> GenGstore(d, Get(d, rd), a, "uq")

\* The bound checks: an exception through the helper, before the access.
HelperAsrtgt(a, b) == a <= b
HelperAsrtle(a, b) == a > b
Trapped(d) == [d EXCEPT !.exit = "done", !.pc = Vector]
GenPredicateAddr(d, trap, access) == IF trap THEN Trapped(d) ELSE access

BoundMop(op) ==
  CASE op \in {"ldgt_b", "ldle_b"} -> "sb" [] op \in {"ldgt_h", "ldle_h"} -> "sw"
    [] op \in {"ldgt_w", "ldle_w"} -> "sl" [] op \in {"ldgt_d", "ldle_d"} -> "uq"
    [] op \in {"stgt_b", "stle_b"} -> "ub" [] op \in {"stgt_h", "stle_h"} -> "uw"
    [] op \in {"stgt_w", "stle_w"} -> "ul" [] op \in {"stgt_d", "stle_d"} -> "uq"
TransLdgt(d, op, rd, rj, rk) ==
  GenPredicateAddr(d, HelperAsrtgt(Get(d, rj), Get(d, rk)), GenGload(d, rd, Get(d, rj), BoundMop(op)))
TransLdle(d, op, rd, rj, rk) ==
  GenPredicateAddr(d, HelperAsrtle(Get(d, rj), Get(d, rk)), GenGload(d, rd, Get(d, rj), BoundMop(op)))
TransStgt(d, op, rd, rj, rk) ==
  GenPredicateAddr(d, HelperAsrtgt(Get(d, rj), Get(d, rk)),
                   GenGstore(d, Get(d, rd), Get(d, rj), BoundMop(op)))
\* The store before the check.
TransStleEarly(d, op, rd, rj, rk) ==
  LET s == GenGstore(d, Get(d, rd), Get(d, rj), BoundMop(op))
  IN  GenPredicateAddr(s, HelperAsrtle(Get(d, rj), Get(d, rk)), s)
TransStle(d, op, rd, rj, rk) ==
  GenPredicateAddr(d, HelperAsrtle(Get(d, rj), Get(d, rk)),
                   GenGstore(d, Get(d, rd), Get(d, rj), BoundMop(op)))

-----------------------------------------------------------------------------
(* Floating-point loads and stores: the unit must be enabled, a single is  *)
(* boxed in ones.                                                          *)
CheckFpe(d, rest) == IF d.fpe THEN rest ELSE Trapped(d)
NanboxS(v) == Arith("Or", "I64", Arith("And", "I64", v, 2^W - 1), (2^W - 1) * 2^W)
GenFload(d, a, mop, nanbox) ==
  LET v == MemRead(d.mem, a, SizeOf(mop))
  IN  IF v = Failed THEN Faulted(d)
      ELSE Next4([d EXCEPT !.fpr = IF nanbox THEN NanboxS(v) ELSE v])
GenFstore(d, a, mop) == GenGstore(d, d.fpr, a, mop)

TransFld(d, op, rj, si) ==
  LET a == OffsetAddr(d, rj, si)
  IN  CheckFpe(d, CASE op = "fld_s" -> GenFload(d, a, "ul", TRUE)
                    [] op = "fld_d" -> GenFload(d, a, "uq", FALSE)
                    [] op = "fst_s" -> GenFstore(d, a, "ul")
                    [] op = "fst_d" -> GenFstore(d, a, "uq"))
TransFldx(d, op, rj, rk) ==
  LET a == GenIndexAddr(d, rj, rk)
  IN  CheckFpe(d, CASE op = "fldx_s" -> GenFload(d, a, "ul", TRUE)
                    [] op = "fldx_d" -> GenFload(d, a, "uq", FALSE)
                    [] op = "fstx_s" -> GenFstore(d, a, "ul")
                    [] op = "fstx_d" -> GenFstore(d, a, "uq"))
TransFldBound(d, op, rj, rk) ==
  LET a == GenIndexAddr(d, rj, rk)
      gt == HelperAsrtgt(Get(d, rj), Get(d, rk))
      le == HelperAsrtle(Get(d, rj), Get(d, rk))
  IN  CheckFpe(d, CASE op = "fldgt_s" -> GenPredicateAddr(d, gt, GenFload(d, a, "ul", TRUE))
                    [] op = "fldgt_d" -> GenPredicateAddr(d, gt, GenFload(d, a, "uq", FALSE))
                    [] op = "fldle_s" -> GenPredicateAddr(d, le, GenFload(d, a, "ul", TRUE))
                    [] op = "fldle_d" -> GenPredicateAddr(d, le, GenFload(d, a, "uq", FALSE)))
TransFstBound(d, op, rj, rk) ==
  LET a == GenIndexAddr(d, rj, rk)
      gt == HelperAsrtgt(Get(d, rj), Get(d, rk))
      le == HelperAsrtle(Get(d, rj), Get(d, rk))
  IN  CheckFpe(d, CASE op = "fstgt_s" -> GenPredicateAddr(d, gt, GenFstore(d, a, "ul"))
                    [] op = "fstgt_d" -> GenPredicateAddr(d, gt, GenFstore(d, a, "uq"))
                    [] op = "fstle_s" -> GenPredicateAddr(d, le, GenFstore(d, a, "ul"))
                    [] op = "fstle_d" -> GenPredicateAddr(d, le, GenFstore(d, a, "uq")))

-----------------------------------------------------------------------------
(* Atomic read-modify-write: a load, the operation, a store, then rd.  An  *)
(* instruction whose rd overlaps a source is undefined.                    *)
Overlap(rd, rj, rk) == rd # 0 /\ (rd = rj \/ rd = rk)
Undefined(d) == [d EXCEPT !.exit = "undef"]

AmArith(op, old, src) ==
  CASE op \in {"amadd_d", "amadd_w"} -> Arith("Add", "I64", old, src)
    [] op \in {"amswap_d", "amswap_w"} -> src
AmLogic(op, old, src) ==
  CASE op \in {"amand_d", "amand_w"} -> Arith("And", "I64", old, src)
    [] op \in {"amor_d", "amor_w"} -> Arith("Or", "I64", old, src)
    [] op \in {"amxor_d", "amxor_w"} -> Arith("Xor", "I64", old, src)
AmMinMax(op, old, src) ==
  LET ext == ExtI32I64(src)
  IN  CASE op = "ammax_d" -> MovCond("Ge", "I64", old, src, old, src)
        [] op = "ammin_d" -> MovCond("Le", "I64", old, src, old, src)
        [] op = "ammax_w" -> MovCond("Ge", "I64", old, ext, old, ext)
        [] op = "ammin_w" -> MovCond("Le", "I64", old, ext, old, ext)
AmMinMaxU(op, old, src) ==
  LET o == Arith("And", "I64", old, 2^W - 1)
      s == Arith("And", "I64", src, 2^W - 1)
  IN  CASE op = "ammax_wu" -> MovCond("Geu", "I64", o, s, o, s)
        [] op = "ammin_wu" -> MovCond("Leu", "I64", o, s, o, s)
        [] op = "ammax_du" -> MovCond("Geu", "I64", old, src, old, src)
        [] op = "ammin_du" -> MovCond("Leu", "I64", old, src, old, src)
\* The unsigned word compare on the sign-extended old value.
AmMinMaxUSigned(op, old, src) ==
  LET s == Arith("And", "I64", src, 2^W - 1)
  IN  CASE op = "ammax_wu" -> MovCond("Geu", "I64", old, s, old, s)
        [] op = "ammin_wu" -> MovCond("Leu", "I64", old, s, old, s)
        [] op = "ammax_du" -> MovCond("Geu", "I64", old, src, old, src)
        [] op = "ammin_du" -> MovCond("Leu", "I64", old, src, old, src)

AmNew(op, old, src) ==
  CASE op \in {"amadd_d", "amadd_w", "amswap_d", "amswap_w"} -> AmArith(op, old, src)
    [] op \in {"amand_d", "amand_w", "amor_d", "amor_w", "amxor_d", "amxor_w"} -> AmLogic(op, old, src)
    [] op \in {"ammax_d", "ammin_d", "ammax_w", "ammin_w"} -> AmMinMax(op, old, src)
    [] op \in {"ammax_wu", "ammin_wu", "ammax_du", "ammin_du"} -> AmMinMaxU(op, old, src)
AmWord(op) ==
  op \in {"amadd_w", "amswap_w", "amand_w", "amor_w", "amxor_w", "ammax_w", "ammin_w",
          "ammax_wu", "ammin_wu"}

AmStore(d, rd, m, old) == IF m = <<>> THEN Faulted(d) ELSE Next4(Set([d EXCEPT !.mem = m[1]], rd, old))
AmLoaded(d, op, rd, a, src, old) ==
  IF old = Failed THEN Faulted(d)
  ELSE AmStore(d, rd, MemWrite(d.mem, a, AmNew(op, old, src), IF AmWord(op) THEN 4 ELSE 8), old)
\* The _db forms call these.
TransAm(d, op, rd, rj, rk) ==
  IF Overlap(rd, rj, rk) THEN Undefined(d)
  ELSE LET v == MemRead(d.mem, Get(d, rj), IF AmWord(op) THEN 4 ELSE 8)
       IN  AmLoaded(d, op, rd, Get(d, rj), Get(d, rk),
                    IF v = Failed THEN Failed ELSE IF AmWord(op) THEN Extend("sl", v) ELSE v)

-----------------------------------------------------------------------------
(* Branches: the chained exit 1 falls through, exit 0 is taken.            *)
Chain(d, slot, pc) == [d EXCEPT !.pc = pc % 2^D, !.exit = slot]
BranchCond(op) ==
  CASE op = "beq" -> "Eq" [] op = "bne" -> "Ne" [] op = "blt" -> "Lt" [] op = "bge" -> "Ge"
    [] op = "bltu" -> "Ltu" [] op = "bgeu" -> "Geu"
TransBeq(d, op, rj, rd, si) ==
  IF Cond(BranchCond(op), "I64", Get(d, rj), Get(d, rd))
    THEN Chain(d, "tb0", d.pc + Imm(si * 4)) ELSE Chain(d, "tb1", d.pc + 4)
TransBlt(d, op, rj, rd, si) == TransBeq(d, op, rj, rd, si)
TransBeqz(d, op, rj, si) ==
  IF Cond(IF op = "beqz" THEN "Eq" ELSE "Ne", "I64", Get(d, rj), 0)
    THEN Chain(d, "tb0", d.pc + Imm(si * 4)) ELSE Chain(d, "tb1", d.pc + 4)
TransB(d, op, si) ==
  LET linked == IF op = "bl" THEN Set(d, 1, (d.pc + 4) % 2^D) ELSE d
  IN  Chain(linked, "tb0", d.pc + Imm(si * 4))
TransJirl(d, rd, rj, si) ==
  LET target == OffsetAddr(d, rj, si * 4)
  IN  Chain(Set(d, rd, (d.pc + 4) % 2^D), "nochain", target)

-----------------------------------------------------------------------------
(* The architecture, byte by byte. *)
Bytes(a, n) == [i \in 0 .. (n - 1) |-> (a + i) % 2^D]
CanAccess(a, n, write) ==
  \A i \in 0 .. (n - 1) : LET v == Vpage(Bytes(a, n)[i]) IN v # 3 /\ (write => Pages[v + 1].w)
PhysOf(b) == Pages[Vpage(b) + 1].pa + (b % Page)
IsaValue(mem, a, n) ==
  LET f[i \in 0..n] == IF i = n THEN 0 ELSE mem[PhysOf(Bytes(a, n)[i])] * 2^(B * i) + f[i + 1]
  IN  f[0]
IsaStored(mem, a, n, v) ==
  [p \in Phys |->
     IF \E i \in 0 .. (n - 1) : PhysOf(Bytes(a, n)[i]) = p
       THEN LET i == CHOOSE i \in 0 .. (n - 1) : PhysOf(Bytes(a, n)[i]) = p
            IN  (v \div 2^(B * i)) % 2^B
       ELSE mem[p]]

IsaLoad(s, rd, a, n, signed) ==
  IF ~CanAccess(a, n, FALSE) THEN Faulted(s)
  ELSE LET v == IsaValue(s.mem, a, n)
       IN  Next4(Set(s, rd, IF signed THEN Unsigned(D, Signed(B * n, v)) ELSE v))
IsaStore(s, v, a, n) ==
  IF ~CanAccess(a, n, TRUE) THEN Faulted(s) ELSE Next4([s EXCEPT !.mem = IsaStored(s.mem, a, n, v)])

\* What an atomic writes, on integers.
IsaAm(op, old, src) ==
  LET n == IF AmWord(op) THEN W ELSE D
      so == Signed(n, old % 2^n)
      ss == Signed(n, src % 2^n)
      uo == old % 2^n
      us == src % 2^n
      maxi(x, y) == IF x >= y THEN x ELSE y
      mini(x, y) == IF x <= y THEN x ELSE y
  IN  Unsigned(n, CASE op \in {"amadd_d", "amadd_w"} -> so + ss
                    [] op \in {"amswap_d", "amswap_w"} -> ss
                    [] op \in {"amand_d", "amand_w"} -> uo & us
                    [] op \in {"amor_d", "amor_w"} -> uo | us
                    [] op \in {"amxor_d", "amxor_w"} -> (uo | us) - (uo & us)
                    [] op \in {"ammax_d", "ammax_w"} -> maxi(so, ss)
                    [] op \in {"ammin_d", "ammin_w"} -> mini(so, ss)
                    [] op \in {"ammax_du", "ammax_wu"} -> maxi(uo, us)
                    [] op \in {"ammin_du", "ammin_wu"} -> mini(uo, us))
IsaAtomic(s, op, rd, rj, rk) ==
  LET n == IF AmWord(op) THEN 4 ELSE 8
      a == Get(s, rj)
      old == IsaValue(s.mem, a, n)
  IN  CASE Overlap(rd, rj, rk) -> Undefined(s)
        [] ~Overlap(rd, rj, rk) /\ ~CanAccess(a, n, TRUE) -> Faulted(s)
        [] ~Overlap(rd, rj, rk) /\ CanAccess(a, n, TRUE) ->
             Next4(Set([s EXCEPT !.mem = IsaStored(s.mem, a, n, IsaAm(op, old, Get(s, rk)))], rd,
                       Unsigned(D, Signed(B * n, old))))

Taken(op, x, y) ==
  CASE op \in {"beq", "beqz"} -> x = y
    [] op \in {"bne", "bnez"} -> x # y
    [] op = "blt" -> Signed(D, x) < Signed(D, y)
    [] op = "bge" -> Signed(D, x) >= Signed(D, y)
    [] op = "bltu" -> x < y
    [] op = "bgeu" -> x >= y

\* Bytes, sign and address of each access.
WidthOf(op) ==
  CASE op \in {"ld_b", "ld_bu", "st_b", "ldx_b", "ldx_bu", "stx_b", "ldgt_b", "ldle_b", "stgt_b", "stle_b"} -> 1
    [] op \in {"ld_h", "ld_hu", "st_h", "ldx_h", "ldx_hu", "stx_h", "ldgt_h", "ldle_h", "stgt_h", "stle_h"} -> 2
    [] op \in {"ld_w", "ld_wu", "st_w", "ldx_w", "ldx_wu", "stx_w", "ldgt_w", "ldle_w", "stgt_w", "stle_w",
               "ldptr_w", "stptr_w", "fld_s", "fst_s", "fldx_s", "fstx_s", "fldgt_s", "fldle_s", "fstgt_s",
               "fstle_s"} -> 4
    [] OTHER -> 8
Zero == {"ld_bu", "ld_hu", "ld_wu", "ldx_bu", "ldx_hu", "ldx_wu"}

-----------------------------------------------------------------------------
Init ==
  /\ \E a \in Addrs, v \in Values, f \in BOOLEAN :
       dev = [gpr |-> <<a, v>>, fpr |-> v, fpe |-> f, pc |-> 240, exit |-> "next",
              mem |-> [p \in Phys |-> IF p % 3 = 0 THEN 2^B - 1 ELSE 0]]
  /\ env = dev @@ [done |-> FALSE]

Retire(d, s) ==
  /\ ~env.done
  /\ dev' = d
  /\ env' = [s EXCEPT !.done = TRUE]

OffsetOps == {"ld_b", "ld_h", "ld_w", "ld_d", "ld_bu", "ld_hu", "ld_wu"}
LoadOffset ==
  \E op \in OffsetOps, si \in Offs :
    Retire(TransLd(dev, op, 2, 1, si),
           IsaLoad(env, 2, (Get(env, 1) + si) % 2^D, WidthOf(op), op \notin Zero))
StoreOffset ==
  \E op \in {"st_b", "st_h", "st_w", "st_d"}, si \in Offs :
    Retire(TransSt(dev, op, 2, 1, si),
           IsaStore(env, Get(env, 2), (Get(env, 1) + si) % 2^D, WidthOf(op)))
LoadIndexed ==
  \E op \in {"ldx_b", "ldx_h", "ldx_w", "ldx_d", "ldx_bu", "ldx_hu", "ldx_wu"}, rd \in 0..2 :
    Retire(IF op \in Zero THEN TransLdxu(dev, op, rd, 1, 2) ELSE TransLdx(dev, op, rd, 1, 2),
           IsaLoad(env, rd, (Get(env, 1) + Get(env, 2)) % 2^D, WidthOf(op), op \notin Zero))
StoreIndexed ==
  \E op \in {"stx_b", "stx_h", "stx_w", "stx_d"}, rd \in 0..2 :
    Retire(TransStx(dev, op, rd, 1, 2),
           IsaStore(env, Get(env, rd), (Get(env, 1) + Get(env, 2)) % 2^D, WidthOf(op)))
PointerAccess ==
  \E op \in {"ldptr_w", "ldptr_d", "stptr_w", "stptr_d"}, si \in Offs :
    LET a == (Get(env, 1) + 4 * si) % 2^D
    IN  Retire(TransPtr(dev, op, 2, 1, si),
               IF op \in {"ldptr_w", "ldptr_d"} THEN IsaLoad(env, 2, a, WidthOf(op), TRUE)
               ELSE IsaStore(env, Get(env, 2), a, WidthOf(op)))
Prefetch == Retire(TransPreld(dev), Next4(env))

LdBound == {"ldgt_b", "ldgt_h", "ldgt_w", "ldgt_d", "ldle_b", "ldle_h", "ldle_w", "ldle_d"}
StBound == {"stgt_b", "stgt_h", "stgt_w", "stgt_d", "stle_b", "stle_h", "stle_w", "stle_d"}
Greater == {"ldgt_b", "ldgt_h", "ldgt_w", "ldgt_d", "stgt_b", "stgt_h", "stgt_w", "stgt_d",
            "fldgt_s", "fldgt_d", "fstgt_s", "fstgt_d"}
BoundOk(op) == IF op \in Greater THEN Get(env, 1) > Get(env, 2) ELSE Get(env, 1) <= Get(env, 2)
BoundLoad ==
  \E op \in LdBound, rd \in 1..2 :
    Retire(IF op \in Greater THEN TransLdgt(dev, op, rd, 1, 2) ELSE TransLdle(dev, op, rd, 1, 2),
           IF BoundOk(op) THEN IsaLoad(env, rd, Get(env, 1), WidthOf(op), TRUE) ELSE Trapped(env))
BoundStore ==
  \E op \in StBound :
    Retire(IF op \in Greater THEN TransStgt(dev, op, 2, 1, 2) ELSE TransStle(dev, op, 2, 1, 2),
           IF BoundOk(op) THEN IsaStore(env, Get(env, 2), Get(env, 1), WidthOf(op)) ELSE Trapped(env))

IsaFpAccess(s, op, a) ==
  LET n == WidthOf(op)
      load == op \in {"fld_s", "fld_d", "fldx_s", "fldx_d", "fldgt_s", "fldgt_d", "fldle_s", "fldle_d"}
  IN  CASE ~load -> IsaStore(s, s.fpr, a, n)
        [] load /\ ~CanAccess(a, n, FALSE) -> Faulted(s)
        [] load /\ CanAccess(a, n, FALSE) ->
             Next4([s EXCEPT !.fpr = IsaValue(s.mem, a, n) + IF n = 4 THEN 2^D - 2^W ELSE 0])
FpOffset ==
  \E op \in {"fld_s", "fld_d", "fst_s", "fst_d"}, si \in Offs :
    Retire(TransFld(dev, op, 1, si),
           IF env.fpe THEN IsaFpAccess(env, op, (Get(env, 1) + si) % 2^D) ELSE Trapped(env))
FpIndexed ==
  \E op \in {"fldx_s", "fldx_d", "fstx_s", "fstx_d"} :
    Retire(TransFldx(dev, op, 1, 2),
           IF env.fpe THEN IsaFpAccess(env, op, (Get(env, 1) + Get(env, 2)) % 2^D) ELSE Trapped(env))
FpBound ==
  \E op \in {"fldgt_s", "fldgt_d", "fldle_s", "fldle_d", "fstgt_s", "fstgt_d", "fstle_s", "fstle_d"} :
    Retire(IF op \in {"fldgt_s", "fldgt_d", "fldle_s", "fldle_d"}
             THEN TransFldBound(dev, op, 1, 2) ELSE TransFstBound(dev, op, 1, 2),
           IF env.fpe /\ BoundOk(op) THEN IsaFpAccess(env, op, (Get(env, 1) + Get(env, 2)) % 2^D)
           ELSE Trapped(env))

AmOps == {"amadd_d", "amadd_w", "amswap_d", "amswap_w", "amand_d", "amand_w", "amor_d", "amor_w",
          "amxor_d", "amxor_w", "ammax_d", "ammin_d", "ammax_w", "ammin_w", "ammax_wu", "ammin_wu",
          "ammax_du", "ammin_du"}
Atomic ==
  \E op \in AmOps, r \in {<<0, 1, 2>>, <<2, 1, 2>>, <<2, 1, 0>>, <<1, 1, 2>>} :
    Retire(TransAm(dev, op, r[1], r[2], r[3]), IsaAtomic(env, op, r[1], r[2], r[3]))

Branch2 ==
  \E op \in {"beq", "bne", "blt", "bge", "bltu", "bgeu"}, si \in Offs, rd \in 0..2 :
    LET t == Taken(op, Get(env, 1), Get(env, rd))
    IN  Retire(IF op \in {"beq", "bne"} THEN TransBeq(dev, op, 1, rd, si) ELSE TransBlt(dev, op, 1, rd, si),
               [env EXCEPT !.pc = (@ + (IF t THEN 4 * si ELSE 4)) % 2^D,
                           !.exit = IF t THEN "tb0" ELSE "tb1"])
BranchZero ==
  \E op \in {"beqz", "bnez"}, si \in Offs :
    LET t == Taken(op, Get(env, 1), 0)
    IN  Retire(TransBeqz(dev, op, 1, si),
               [env EXCEPT !.pc = (@ + (IF t THEN 4 * si ELSE 4)) % 2^D,
                           !.exit = IF t THEN "tb0" ELSE "tb1"])
Jump ==
  \E op \in {"b", "bl"}, si \in Offs :
    Retire(TransB(dev, op, si),
           [(IF op = "bl" THEN Set(env, 1, (env.pc + 4) % 2^D) ELSE env)
              EXCEPT !.pc = (env.pc + 4 * si) % 2^D, !.exit = "tb0"])
JumpRegister ==
  \E si \in Offs, rd \in 0..2 :
    Retire(TransJirl(dev, rd, 1, si),
           [Set(env, rd, (env.pc + 4) % 2^D) EXCEPT !.pc = (Get(env, 1) + 4 * si) % 2^D,
                                                    !.exit = "nochain"])

Next ==
  \/ LoadOffset \/ StoreOffset \/ LoadIndexed \/ StoreIndexed \/ PointerAccess \/ Prefetch
  \/ BoundLoad \/ BoundStore \/ FpOffset \/ FpIndexed \/ FpBound \/ Atomic
  \/ Branch2 \/ BranchZero \/ Jump \/ JumpRegister

Spec == Init /\ [][Next]_vars

-----------------------------------------------------------------------------
Same(s) ==
  /\ s.gpr = dev.gpr /\ s.fpr = dev.fpr /\ s.pc = dev.pc /\ s.exit = dev.exit
  /\ s.mem = dev.mem

\* After any load, store, atomic or bound-checked access the registers, the
\* memory and the pc are the architecture's: an access over a page boundary
\* reads and writes the bytes of both pages, a fault or a failed bound check
\* anywhere in the instruction changes nothing.
MemoryArchitectural == env.exit \in {"next", "fault", "done", "undef"} => Same(env)

\* After any branch the pc and the link register are the architecture's, and
\* the block is left by the exit whose destination does not depend on the
\* registers, so that chaining it once is right for ever.
BranchArchitectural == env.exit \in {"tb0", "tb1", "nochain"} => Same(env)
=============================================================================
