--------------------------- MODULE ToolchainWrapper ---------------------------
(***************************************************************************)
(* toolchain/toolchain-wrapper.c: what stands in for the cross-compiler.   *)
(* It adds the options of the configuration to those of its caller, unless *)
(* the caller gave one that excludes them, refuses directories of the      *)
(* build machine, and becomes the compiler, or ccache with the compiler.   *)
(***************************************************************************)
EXTENDS Integers, Sequences, FiniteSets

CONSTANTS
  Words,         \* the arguments that occur
  Opt,           \* Opt[w]: the unsafe option that w begins with, or "none"
  Path,          \* Path[w]: what follows that option in w; "" where nothing does
  Unsafe,        \* the words and paths that begin like an unsafe path
  Plain,         \* how many of the arguments of predef_args are fixed
  CommandLines,  \* the arguments that a caller may give
  Builds         \* the sets of macros that the wrapper may be compiled with

\* What toolchain-wrapper.mk and pkg-toolchain-external.mk may define; the
\* float ABI is that of ARM, the mode of the FPU registers that of MIPS.
Macros == {"BR_CCACHE", "BR_FLOAT_ABI", "BR_FP32_MODE", "BR_ARCH", "BR_CPU",
           "BR_NEED_SOURCE_DATE_EPOCH", "BR2_PIC_PIE", "BR2_RELRO_PARTIAL", "BR2_RELRO_FULL"}
Sensible(b) ==
  /\ ~({"BR_FLOAT_ABI", "BR_FP32_MODE"} \subseteq b)
  /\ ~({"BR2_RELRO_PARTIAL", "BR2_RELRO_FULL"} \subseteq b)
UnsafeOpts == <<"-I", "-idirafter", "-iquote", "-isystem", "-L">>
ASSUME WrapperAssumption ==
  /\ Plain \in Nat
  /\ \A w \in Words : Opt[w] = "none" \/ \E o \in DOMAIN UnsafeOpts : Opt[w] = UnsafeOpts[o]
  /\ "" \notin Unsafe
  /\ \A b \in Builds : b \subseteq Macros /\ Sensible(b)
  /\ CommandLines \subseteq Seq(Words)

VARIABLES
  build,         \* the macros
  argv,          \* the arguments of the caller
  args,          \* what has been written to args behind predef_args
  at, option,    \* the loops of the check of the paths
  stage,         \* the block of main that comes next, "compiler" or "ccache" once execv is called
  status         \* the exit code; -1 while there is none

wrapperVars == <<build, argv, args, at, option, stage, status>>

Unset == -1

\* The slots of args: sizeof(predef_args) and argc + EXCLUSIVE_ARGS.
Predef == Plain + (IF "BR_CCACHE" \in build THEN 1 ELSE 0)
Argc == Len(argv) + 1

\* Mutant: as it was before the options for hardening.
ExclusiveArgs_Old == 6

ExclusiveArgs == 10

Slots == Predef + Argc + ExclusiveArgs

WrapperInit ==
  /\ build \in Builds
  /\ argv \in CommandLines
  /\ args = <<>> /\ at = 1 /\ option = 1
  /\ stage = "paths" /\ status = Unset

Given(options) == \E k \in DOMAIN argv : argv[k] \in options
Has(macro) == macro \in build
Goes(next) == stage' = next /\ UNCHANGED <<build, argv, at, option, status>>
Fails(code) ==
  stage' = "exit" /\ status' = code /\ UNCHANGED <<build, argv, args, at, option>>

-----------------------------------------------------------------------------
(* main, block by block *)

\* The wrapper finds itself, and the compiler and sysroot beside it, or fails.
FindItself ==
  /\ stage = "paths"
  /\ \/ Goes("float") /\ UNCHANGED args
     \/ \E code \in {2, 3} : Fails(code)

FloatAbi ==
  /\ stage = "float"
  /\ args' = IF Has("BR_FLOAT_ABI") /\ ~Given({"-mfloat-abi=hard", "-msoft-float", "-mhard-float"})
             THEN Append(args, "float abi") ELSE args
  /\ Goes("fp32")

\* The last of -msoft-float and -mhard-float decides.
HardLast ==
  \A k \in DOMAIN argv :
    argv[k] = "-msoft-float" => \E j \in DOMAIN argv : j > k /\ argv[j] = "-mhard-float"

Fp32Mode ==
  /\ stage = "fp32"
  /\ args' = IF Has("BR_FP32_MODE") /\ HardLast THEN Append(args, "fp32 mode") ELSE args
  /\ Goes("cpu")

ArchAndCpu ==
  /\ stage = "cpu"
  /\ args' = IF Given({"-march=other", "-mtune=other", "-mcpu=other"}) THEN args
             ELSE args \o (IF Has("BR_ARCH") THEN <<"arch">> ELSE <<>>)
                       \o (IF Has("BR_CPU") THEN <<"cpu">> ELSE <<>>)
  /\ Goes("epoch")

\* parse_source_date_epoch_from_env: SOURCE_DATE_EPOCH is set, or not, or wrong.
SourceDateEpoch ==
  /\ stage = "epoch"
  /\ \/ Goes("pie") /\ UNCHANGED args
     \/ /\ Has("BR_NEED_SOURCE_DATE_EPOCH") /\ Goes("pie")
        /\ args' = args \o <<"time", "date", "-Wno-builtin-macro-redefined">>
     \/ Has("BR_NEED_SOURCE_DATE_EPOCH") /\ Fails(1)

Kernel == {"-D__KERNEL__", "-D__UBOOT__"}
NoPie == {"-r", "-Wl,-r", "-static", "-fno-pie", "-fno-PIE", "-no-pie"} \cup Kernel
Pic == {"-fpie", "-fPIE", "-fpic", "-fPIC"}

Pie ==
  /\ stage = "pie"
  /\ args' = IF ~Has("BR2_PIC_PIE") \/ Given(NoPie) THEN args
             ELSE args \o (IF Given(Pic) THEN <<>> ELSE <<"-fPIE">>)
                       \o (IF Given({"-shared"}) THEN <<>> ELSE <<"-pie">>)
  /\ Goes("relro")

Relro ==
  /\ stage = "relro"
  /\ args' = IF Given(Kernel) THEN args
             ELSE args \o (IF Has("BR2_RELRO_FULL") THEN <<"-Wl,-z,now">> ELSE <<>>)
                       \o (IF Has("BR2_RELRO_FULL") \/ Has("BR2_RELRO_PARTIAL")
                           THEN <<"-Wl,-z,relro">> ELSE <<>>)
  /\ Goes("unsafe")

(* The check of the paths: at is i, option the place in unsafe_opts.  When the *)
(* path is an argument of its own, i moves on and the inner loop goes on with  *)
(* that argument and the options that follow in unsafe_opts.                   *)
Looking == stage = "unsafe" /\ at =< Len(argv)
Moves(i, o) == at' = i /\ option' = o /\ UNCHANGED <<build, argv, args, stage, status>>

NextArgument == Looking /\ option > Len(UnsafeOpts) /\ Moves(at + 1, 1)

Other ==
  Looking /\ option =< Len(UnsafeOpts) /\ Opt[argv[at]] # UnsafeOpts[option] /\ Moves(at, option + 1)

Joined ==
  /\ Looking /\ option =< Len(UnsafeOpts)
  /\ Opt[argv[at]] = UnsafeOpts[option] /\ Path[argv[at]] # ""
  /\ IF Path[argv[at]] \in Unsafe THEN Fails(1) ELSE Moves(at, option + 1)

\* Mutant: the path that follows is skipped.
Separate_Skipped ==
  /\ Looking /\ option =< Len(UnsafeOpts)
  /\ Opt[argv[at]] = UnsafeOpts[option] /\ Path[argv[at]] = ""
  /\ Moves(at + 1, 1 + option)

Separate ==
  /\ Looking /\ option =< Len(UnsafeOpts)
  /\ Opt[argv[at]] = UnsafeOpts[option] /\ Path[argv[at]] = ""
  /\ CASE at = Len(argv) -> Moves(at + 1, 1)
       [] at < Len(argv) /\ argv[at + 1] \in Unsafe -> Fails(1)
       [] OTHER -> Moves(at + 1, option + 1)

\* The arguments of the caller follow, and the NULL; ccache is left out unless
\* BR2_USE_CCACHE is 1.
Execute ==
  /\ stage = "unsafe" /\ at > Len(argv)
  /\ args' = args \o argv \o <<"NULL">>
  /\ stage' \in IF Has("BR_CCACHE") THEN {"compiler", "ccache"} ELSE {"compiler"}
  /\ UNCHANGED <<build, argv, at, option, status>>

\* execv returns.
ExecFails == stage \in {"compiler", "ccache"} /\ Fails(2)

WrapperNext ==
  \/ FindItself \/ FloatAbi \/ Fp32Mode \/ ArchAndCpu \/ SourceDateEpoch \/ Pie \/ Relro
  \/ NextArgument \/ Other \/ Joined \/ Separate \/ Execute \/ ExecFails

WrapperSpec == WrapperInit /\ [][WrapperNext]_wrapperVars

-----------------------------------------------------------------------------
(* What is written to args, with the NULL, fits what was allocated for the     *)
(* worst case (EXCLUSIVE_ARGS), whatever the macros and the arguments are.     *)
ArgsFit == Predef + Len(args) =< Slots

(* No directory of the build machine reaches the compiler: neither behind its  *)
(* option nor as the argument that the option takes (unsafe_paths).  Taken     *)
(* are the arguments that a compiler reads as the path of the option before;   *)
(* one that begins like an option itself is read by the check as that option,  *)
(* too, so that it goes out of step with the compiler.                         *)
Started == stage \in {"compiler", "ccache"}
Taken[k \in Nat] ==
  k > 1 /\ k =< Len(argv) /\ ~Taken[k - 1] /\ Opt[argv[k - 1]] # "none" /\ Path[argv[k - 1]] = ""
InStep == \A k \in DOMAIN argv : Taken[k] => Opt[argv[k]] = "none"
UnsafeNeverPassed ==
  Started /\ InStep =>
    \A k \in DOMAIN argv :
      IF Taken[k] THEN argv[k] \notin Unsafe
      ELSE Opt[argv[k]] # "none" => Path[argv[k]] \notin Unsafe
=============================================================================
