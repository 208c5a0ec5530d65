------------------------------- MODULE MCGuest ------------------------------
(* Translators, memory access, atomics, address translation, exceptions and  *)
(* floating point of both guest architectures, and the memory map.           *)
EXTENDS Integers

VARIABLES part,         \* which component this behaviour is about
          dev, env      \* its state and its surroundings

vars == <<part, dev, env>>

FloatOps == INSTANCE FloatOps WITH
  IB <- 6, Small <- [e |-> 3, f |-> 2, x |-> FALSE],
  Wide <- [e |-> 5, f |-> 1, x |-> FALSE],
  Others <- {[e |-> 2, f |-> 1, x |-> FALSE], [e |-> 3, f |-> 3, x |-> FALSE], [e |-> 3, f |-> 2, x |-> TRUE]},
  ArithModes <- {"NearEven", "Up"},
  FmaVals <- {0, 1, 3, 12, 15, 28, 29, 45, 46}
LaFp == INSTANCE LaFp WITH
  IB <- 14, S <- [e |-> 4, f |-> 2, x |-> FALSE],
  D <- [e |-> 5, f |-> 8, x |-> FALSE], LW <- 7,
  Singles <- {0, 1, 30, 35, 92, 61, 124},
  Doubles <- {4160, 5372, 12224, 7168, 16256},
  Controls <- {[rm |-> 0, en |-> {}, fl |-> {}, ca |-> {}], [rm |-> 3, en |-> {"DZ"}, fl |-> {}, ca |-> {}], [rm |-> 2, en |-> {"NX"}, fl |-> {}, ca |-> {}]},
  Writes <- {[rm |-> 0, en |-> {"NV", "OF"}, fl |-> {"DZ"}, ca |-> {}]},
  Pairs <- {<<16286, 16376>>}, MaxOps <- 2
RvFpu == INSTANCE RvFpu WITH
  IB <- 12, Half <- [e |-> 3, f |-> 2, x |-> FALSE],
  Single <- [e |-> 4, f |-> 3, x |-> FALSE],
  Double <- [e |-> 5, f |-> 6, x |-> FALSE],
  Operands <- ({3840, 3841, 3899, 3961, 4036} \X {3841, 3899, 4036}) \cup ({4033, 4045, 4061, 4078} \X {4045, 4078}) \cup ({1, 992, 1700, 3100, 2017} \X {0, 992, 3100}),
  Frms <- {3, 6}, Tasks <- {<<3899, 3961>>}, Rms <- {1, 7},
  SwitchOps <- {"fadd", "flt", "load", "store", "csr"}, MaxOps <- 3
LaArith == INSTANCE LaInt WITH
  W <- 4,
  R3 <- {"add_d", "sub_d", "and", "or", "xor", "nor", "slt", "sltu", "sll_d", "srl_d", "sra_d", "mul_d", "mulw_d_w", "mulw_d_wu", "div_d", "mod_d", "div_du", "mod_du", "div_w", "mod_w", "div_wu", "mod_wu", "add_w", "sub_w", "orn", "andn", "maskeqz", "masknez", "mul_w", "sll_w", "srl_w", "sra_w", "rotr_w", "rotr_d", "mulh_d", "mulh_du", "mulh_w", "mulh_wu"},
  R2 <- {}, Vals <- {0, 1, 3, 7, 8, 15, 16, 120, 127, 128, 136, 248, 255},
  Imms <- {}, Fields <- {},
  Targets <- {<<1, 1, 2>>, <<0, 2, 1>>, <<2, 1, 0>>}, Pcs <- {}
LaBits == INSTANCE LaInt WITH
  W <- 8, R3 <- {},
  R2 <- {"ext_w_b", "ext_w_h", "clz_w", "clz_d", "ctz_w", "ctz_d", "clo_w", "clo_d", "cto_w", "cto_d", "revb_2h", "revb_4h", "revb_2w", "revb_d", "revh_2w", "revh_d", "bitrev_4b", "bitrev_8b", "bitrev_w", "bitrev_d"},
  Vals <- {0, 1, 128, 255, 18244, 32768, 42435, 65535},
  Imms <- {-4, -1, 0, 3}, Fields <- {0, 1, 7, 8, 15}, Targets <- {},
  Pcs <- {0, 28672, 65532}
LaMem == INSTANCE LaMem WITH
  W <- 4, Addrs <- {0, 1, 5, 8, 12, 15, 19, 22, 30, 127, 128, 254},
  Values <- {0, 1, 6, 8, 13, 127, 128, 200, 255}, Offs <- {-3, 0, 1}
AtomicTb == INSTANCE AtomicTb WITH
  MaxDone <- 2, MaxFaults <- 1
LaMmu == INSTANCE LaMmu WITH
  Sets <- 2, Vas <- {0, 1, 4, 8}, MaxOps <- 2, MaxAccess <- 2
LaExc == INSTANCE LaExc WITH
  MaxOps <- 2, MaxRaise <- 1
LaCsr == INSTANCE LaCsr WITH
  Vals <- {{}, {"a", "b", "c", "k"}}, Masks <- {{"b", "k"}}, MaxOps <- 2
FlatView == INSTANCE FlatView WITH
  Space <- 6, MaxSubs <- 3, Sizes <- {1, 2}
RvArith == INSTANCE RvInt WITH
  W <- 4,
  Rops <- {"add", "sub", "sll", "slt", "sltu", "xor", "srl", "sra", "or", "and", "addw", "subw", "sllw", "srlw", "sraw", "mul", "mulh", "mulhsu", "mulhu", "div", "rem", "divu", "remu", "mulw", "divw", "remw", "divuw", "remuw", "sh1add", "sh2add", "sh3add", "sh1add_uw", "sh2add_uw", "sh3add_uw", "add_uw"},
  R2ops <- {}, ShOps <- {},
  Xops <- {"mula", "mulaw", "mulah", "muls", "mulsw", "mulsh"},
  Vals <- {0, 1, 3, 7, 8, 15, 16, 120, 127, 128, 136, 248, 255},
  Imms <- {-4, -1, 0, 3}, Shamts <- {0}, Pcs <- {0, 100, 252}
RvBits == INSTANCE RvInt WITH
  W <- 8,
  Rops <- {"andn", "orn", "xnor", "max", "maxu", "min", "minu", "rol", "ror", "rolw", "rorw", "clmul", "clmulh", "clmulr", "bclr", "bext", "binv", "bset", "pack", "packh", "packw", "xperm4", "xperm8"},
  R2ops <- {"clz", "ctz", "cpop", "clzw", "ctzw", "cpopw", "sext_b", "sext_h", "zext_h", "brev8", "rev8", "orc_b"},
  ShOps <- {"slli", "srli", "srai", "slliw", "srliw", "sraiw", "slli_uw", "rori", "roriw", "bclri", "bexti", "binvi", "bseti"},
  Xops <- {"addsl0", "addsl3", "srri", "srriw", "tst", "mveqz", "mvnez", "ff0", "ff1", "rev", "revw", "tstnbz"},
  Vals <- {0, 1, 128, 18244, 32768, 42435, 65535}, Imms <- {},
  Shamts <- {0, 1, 7, 8, 15}, Pcs <- {}

Init ==
  \/ part = "softfloat" /\ FloatOps!Init
  \/ part = "la_fp" /\ LaFp!Init
  \/ part = "rv_fpu" /\ RvFpu!Init
  \/ part = "la_arith" /\ LaArith!Init
  \/ part = "la_bits" /\ LaBits!Init
  \/ part = "la_mem" /\ LaMem!Init
  \/ part = "atomic_tb" /\ AtomicTb!Init
  \/ part = "la_mmu" /\ LaMmu!Init
  \/ part = "la_exc" /\ LaExc!Init
  \/ part = "la_csr" /\ LaCsr!Init
  \/ part = "flat_view" /\ FlatView!Init
  \/ part = "rv_arith" /\ RvArith!Init
  \/ part = "rv_bits" /\ RvBits!Init

Next ==
  /\ UNCHANGED part
  /\ \/ part = "softfloat" /\ FloatOps!Next
     \/ part = "la_fp" /\ LaFp!Next
     \/ part = "rv_fpu" /\ RvFpu!Next
     \/ part = "la_arith" /\ LaArith!Next
     \/ part = "la_bits" /\ LaBits!Next
     \/ part = "la_mem" /\ LaMem!Next
     \/ part = "atomic_tb" /\ AtomicTb!Next
     \/ part = "la_mmu" /\ LaMmu!Next
     \/ part = "la_exc" /\ LaExc!Next
     \/ part = "la_csr" /\ LaCsr!Next
     \/ part = "flat_view" /\ FlatView!Next
     \/ part = "rv_arith" /\ RvArith!Next
     \/ part = "rv_bits" /\ RvBits!Next

Spec == Init /\ [][Next]_vars
-----------------------------------------------------------------------------
\* An instruction leaves the registers, the memory and the pc the architecture
\* defines, but for the high word of revh.2w.
\* - LoongArch integer arithmetic leaves the architectural register.
\* - LoongArch immediates, bit fields and reversals leave the architectural
\*   register, but for the high word of revh.2w, which the helper fills with
\*   the sign of the low one.
\* - LoongArch loads, stores and atomics act on the architectural bytes, and
\*   a fault changes nothing.
\* - LoongArch branches go where the architecture says, by the chain slot of
\*   that constant target.
\* - RISC-V integer arithmetic leaves the architectural register.
\* - RISC-V bit manipulation and XThead instructions leave the architectural
\*   register.
ResultsArchitectural ==
  /\ part = "la_arith" => LaArith!GprsArchitectural
  /\ part = "la_bits" => LaBits!GprsArchitectural
  /\ part = "la_mem" => LaMem!MemoryArchitectural
  /\ part = "la_mem" => LaMem!BranchArchitectural
  /\ part = "rv_arith" => RvArith!GprsArchitectural
  /\ part = "rv_bits" => RvBits!GprsArchitectural

\* No atomic update of one vCPU is lost to another, but for inline LoongArch
\* atomics in a block entered by a chained jump, and the lock around atomic
\* blocks is not leaked.
\* - The lock around atomic blocks is held by at most one vCPU, and only
\*   inside translated code.
\* - No completed RISC-V AMO or store-conditional is lost, chained entry or
\*   not.
\* - An inline LoongArch atomic is lost only after a chained jump entered an
\*   atomic block without the lock.
AtomicsKept ==
  /\ part = "atomic_tb" => AtomicTb!LockNotLeaked
  /\ part = "atomic_tb" => AtomicTb!RiscvNoLostUpdate
  /\ part = "atomic_tb" => AtomicTb!InlineLostOnlyUnlocked

\* A cached translation or memory map answers as the full lookup would, but for
\* the fast TLB on the paths that do not flush it.
\* - A page the LoongArch fast TLB answers for is one the full translation
\*   still grants, except past the marked unflushed paths.
\* - tlbsrch finds an entry exactly when an access would not refill.
\* - The refill handler's walk, fill and return leave the page mapped and the
\*   context restored.
\* - The flat view resolves every address to the leaf the region tree gives
\*   it.
TranslationsHonest ==
  /\ part = "la_mmu" => LaMmu!FastTlbHonest
  /\ part = "la_mmu" => LaMmu!SearchAgrees
  /\ part = "la_mmu" => LaMmu!RefillResumes
  /\ part = "flat_view" => FlatView!LookupFindsOwner


\* An instruction or store changes all that it names and nothing else.
\* - After invtlb a lookup finds every translation the opcode does not name,
\*   none that it names, and the fast TLB is empty.
\* - LoongArch user code changes no interrupt, timer or virtualisation
\*   register.
\* - A LoongArch CSR write or exchange changes only bits both masks open, of
\*   that register and of those it acts on.
\* - Software's bits of a LoongArch CSR read back as written.
\* - A store that is_mapped accepts changes exactly the bytes the region tree
\*   gives to its own addresses, and never a ROM.
StepsConfined ==
  [][/\ part = "la_mmu" => LaMmu!InvtlbExact
     /\ part = "la_exc" => LaExc!UserCannot
     /\ part = "la_csr" => LaCsr!OnlyMasked
     /\ part = "la_csr" => LaCsr!ReadBack
     /\ part = "flat_view" => FlatView!MappedStoreExact]_vars

\* Apart from the cases named below, a softfloat result is the exact value
\* rounded once, with its flags, and NaNs, conversions and order follow IEEE
\* arithmetic; the accrued flags and lazily saved registers are the guest's
\* own.
\* - Every softfloat operation, conversion and scaling yields the exact value
\*   rounded once, with its flags, except a value that rounds up to the
\*   smallest normal number (it becomes zero, parts.rs:348) and a fused
\*   product of two or more (fma.rs:173).
\* - Softfloat NaNs, invalid operations and divisions by zero yield the NaN
\*   and the flags of IEEE arithmetic, but for a conversion of a signalling
\*   NaN, which raises no flag (convert.rs:19).
\* - Softfloat conversions to an integer and roundings to an integral value
\*   are the nearest in the mode, and saturate, but for magnitudes below a
\*   half that round away from zero and those beyond the wide word
\*   (convert.rs:43, 58).
\* - Softfloat comparison, minimum and maximum follow the order of the
\*   numbers, but for the minimum and maximum of a zero and a number of its
\*   sign below one (minmax.rs:52).
\* - LoongArch FCSR0 accrues exactly the exceptions of the instructions that
\*   did not trap, and its cause is the last one's.
\* - A RISC-V floating-point state mstatus.FS calls clean is the saved one,
\*   but for flags of comparisons and integer conversions.
\* - A RISC-V task that finds the floating-point unit on finds its own
\*   registers in it.
FloatsRounded ==
  /\ part = "softfloat" => FloatOps!Rounded
  /\ part = "softfloat" => FloatOps!NanRules
  /\ part = "softfloat" => FloatOps!IntRight
  /\ part = "softfloat" => FloatOps!OrderRight
  /\ part = "la_fp" => LaFp!FcsrExact
  /\ part = "rv_fpu" => RvFpu!FsHonest
  /\ part = "rv_fpu" => RvFpu!OwnState

\* A floating-point instruction of either guest traps and changes nothing, or
\* computes its result, apart from the results softfloat or the helper gets
\* wrong, which are named below.
\* - A LoongArch floating-point instruction that traps changes nothing but
\*   its cause and the exception registers.
\* - A LoongArch conversion to an integer is the nearest in its mode, or 0
\*   and invalid, but for numbers at the limits of the range (helpers.rs:575,
\*   586).
\* - LoongArch comparisons, maxima and minima follow the order of the numbers
\*   and the rules for NaNs.
\* - LoongArch single results are boxed; logarithms and classes are right,
\*   and fused operations but for the sums softfloat does not round.
\* - A RISC-V fflags bit stays raised until software writes it, and an
\*   illegal rounding mode raises invalid.
\* - A RISC-V conversion to an integer is the nearest in its mode or
\*   saturates, and is sign extended, but for the numbers softfloat loses.
\* - RISC-V comparisons, minima and maxima follow the order of the numbers
\*   and the rules for NaNs, but for minima and maxima of a zero and a number
\*   of its sign below one (fpu.rs:413).
\* - RISC-V results are boxed and canonical; classes are right, and fused
\*   operations but for the sums softfloat does not round.
FpStepsRight ==
  [][/\ part = "la_fp" => LaFp!TrapPrecise
     /\ part = "la_fp" => LaFp!ConvertRight
     /\ part = "la_fp" => LaFp!CompareRight
     /\ part = "la_fp" => LaFp!ResultRight
     /\ part = "rv_fpu" => RvFpu!FlagsKept
     /\ part = "rv_fpu" => RvFpu!IntRight
     /\ part = "rv_fpu" => RvFpu!OrderRight
     /\ part = "rv_fpu" => RvFpu!ResultRight]_vars

\* The softfloat fused multiply-add of finite numbers is the exact a * b + c
\* rounded once (fma.rs:12); the code adds a product that was not normalised
\* and does not keep this.
FusedRounded == part = "softfloat" => FloatOps!FusedRounded
=============================================================================
