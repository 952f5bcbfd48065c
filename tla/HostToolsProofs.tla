-------------------------- MODULE HostToolsProofs ---------------------------
(*************************************************************************)
(* Proofs about programs of the host that are run once for each of their *)
(* inputs: the toolchain wrapper, check-hash and mkusers.                *)
(*************************************************************************)
EXTENDS ToolchainWrapper, HashScan, MkUsers, SequenceTheorems, Induction

(*************************************************************************)
(* Proof that the toolchain wrapper never writes behind its array of       *)
(* arguments, for every command line and every set of macros that          *)
(* toolchain-wrapper.mk may define.                                        *)
(*************************************************************************)

(* How many options the blocks up to a stage may have added.               *)
AtMost ==
  CASE stage \in {"paths", "float"} -> 0
    [] stage = "fp32" -> 1
    [] stage = "cpu" -> 1
    [] stage = "epoch" -> 3
    [] stage = "pie" -> 6
    [] stage = "relro" -> 8
    [] stage = "unsafe" -> ExclusiveArgs
    [] OTHER -> ExclusiveArgs + Len(argv) + 1

Stages == {"paths", "float", "fp32", "cpu", "epoch", "pie", "relro", "unsafe", "compiler", "ccache",
           "exit"}

(* The options that the blocks add, and the NULL. *)
Options == {"float abi", "fp32 mode", "arch", "cpu", "time", "date", "-Wno-builtin-macro-redefined",
            "-fPIE", "-pie", "-Wl,-z,now", "-Wl,-z,relro", "NULL"}
Slot == Words \cup Options

(* Only one of the first two adds one: they are about different            *)
(* architectures.                                                          *)
FirstOnly == stage = "fp32" /\ Len(args) # 0 => "BR_FLOAT_ABI" \in build

RoomInv ==
  /\ build \in Builds /\ argv \in Seq(Words) /\ args \in Seq(Slot)
  /\ stage \in Stages
  /\ Len(args) =< AtMost
  /\ FirstOnly

LEMMA RoomInit == WrapperInit => RoomInv
<1> SUFFICES ASSUME WrapperInit PROVE RoomInv
  OBVIOUS
<1>1. args \in Seq(Slot) /\ Len(args) = 0
  BY DEF WrapperInit
<1>2. argv \in Seq(Words) /\ build \in Builds /\ stage = "paths"
  BY WrapperAssumption DEF WrapperInit
<1> QED
  BY <1>1, <1>2 DEF RoomInv, AtMost, Stages, FirstOnly

(* Up to two options that are appended, each where its macro is defined.   *)
LEMMA Appended ==
  ASSUME NEW S, NEW a \in Seq(S), NEW w \in S, NEW v \in S, NEW c, NEW d
  PROVE  LET t == a \o (IF c THEN <<w>> ELSE <<>>) \o (IF d THEN <<v>> ELSE <<>>)
         IN  t \in Seq(S) /\ Len(t) =< Len(a) + 2
<1> DEFINE o == IF c THEN <<w>> ELSE <<>>
           p == IF d THEN <<v>> ELSE <<>>
<1>1. <<>> \in Seq(S) /\ <<w>> \in Seq(S) /\ <<v>> \in Seq(S)
      /\ Len(<<>>) = 0 /\ Len(<<w>>) = 1 /\ Len(<<v>>) = 1
  OBVIOUS
<1>2. o \in Seq(S) /\ Len(o) \in Nat /\ Len(o) =< 1
  BY <1>1
<1>3. p \in Seq(S) /\ Len(p) \in Nat /\ Len(p) =< 1
  BY <1>1
<1> HIDE DEF o, p
<1>4. a \o o \in Seq(S) /\ Len(a \o o) = Len(a) + Len(o) /\ Len(a) \in Nat
  BY <1>2, ConcatProperties, LenProperties
<1>5. a \o o \o p \in Seq(S) /\ Len(a \o o \o p) = Len(a \o o) + Len(p)
  BY <1>3, <1>4, ConcatProperties
<1>6. a \o o \o p \in Seq(S) /\ Len(a \o o \o p) =< Len(a) + 2
  BY <1>2, <1>3, <1>4, <1>5
<1> QED
  BY <1>6 DEF o, p

LEMMA AppendedOne ==
  ASSUME NEW S, NEW a \in Seq(S), NEW w \in S
  PROVE  Append(a, w) \in Seq(S) /\ Len(Append(a, w)) = Len(a) + 1 /\ Len(a) \in Nat
  OBVIOUS

LEMMA AppendedThree ==
  ASSUME NEW S, NEW a \in Seq(S), NEW u \in S, NEW v \in S, NEW w \in S
  PROVE  a \o <<u, v, w>> \in Seq(S) /\ Len(a \o <<u, v, w>>) = Len(a) + 3
<1>1. <<u, v, w>> \in Seq(S) /\ Len(<<u, v, w>>) = 3
  OBVIOUS
<1> QED
  BY <1>1, ConcatProperties

(* What is known before each block. *)
LEMMA StagesBefore ==
  ASSUME RoomInv
  PROVE  /\ build \in Builds /\ argv \in Seq(Words) /\ Len(argv) \in Nat
         /\ args \in Seq(Slot) /\ Len(args) \in Nat /\ Len(args) =< AtMost
         /\ stage \in Stages
         /\ AtMost \in Nat /\ AtMost =< ExclusiveArgs + Len(argv) + 1
<1>1. Len(argv) \in Nat /\ Len(args) \in Nat
  BY LenProperties DEF RoomInv
<1>2. AtMost \in Nat /\ AtMost =< ExclusiveArgs + Len(argv) + 1
  BY <1>1 DEF RoomInv, AtMost, ExclusiveArgs, Stages
<1> QED
  BY <1>1, <1>2 DEF RoomInv, Slot

LEMMA FloatAbiKeeps == RoomInv /\ FloatAbi => RoomInv'
<1> SUFFICES ASSUME RoomInv, FloatAbi PROVE RoomInv'
  OBVIOUS
<1>1. stage = "float" /\ stage' = "fp32" /\ UNCHANGED <<build, argv>>
  BY DEF FloatAbi, Goes
<1>2. Len(args) = 0 /\ args \in Seq(Slot)
  BY <1>1, StagesBefore DEF AtMost
<1>3. CASE args' = args
  <2>1. args' \in Seq(Slot) /\ Len(args') = 0
    BY <1>2, <1>3
  <2> QED
    BY <1>1, <2>1, StagesBefore DEF RoomInv, AtMost, Stages, FirstOnly
<1>4. CASE "BR_FLOAT_ABI" \in build /\ args' = Append(args, "float abi")
  <2>1. "float abi" \in Slot
    BY DEF Slot, Options
  <2>2. args' \in Seq(Slot) /\ Len(args') = Len(args) + 1
    BY <1>2, <1>4, <2>1, AppendedOne
  <2>3. Len(args') =< 1
    BY <1>2, <2>2
  <2> QED
    BY <1>1, <1>4, <2>2, <2>3, StagesBefore DEF RoomInv, AtMost, Stages, FirstOnly
<1> QED
  BY <1>3, <1>4 DEF FloatAbi, Has

LEMMA Fp32ModeKeeps == RoomInv /\ Fp32Mode => RoomInv'
<1> SUFFICES ASSUME RoomInv, Fp32Mode PROVE RoomInv'
  OBVIOUS
<1>1. stage = "fp32" /\ stage' = "cpu" /\ UNCHANGED <<build, argv>>
  BY DEF Fp32Mode, Goes
<1>2. Len(args) =< 1 /\ Len(args) \in Nat /\ args \in Seq(Slot)
  BY <1>1, StagesBefore DEF AtMost
<1>3. args' \in Seq(Slot) /\ Len(args') =< 1
  <2>1. CASE args' = args
    BY <1>2, <2>1
  <2>2. CASE "BR_FP32_MODE" \in build /\ args' = Append(args, "fp32 mode")
    <3>1. "BR_FLOAT_ABI" \notin build
      BY <2>2, StagesBefore, WrapperAssumption DEF Sensible
    <3>2. Len(args) = 0
      BY <1>1, <3>1 DEF RoomInv, FirstOnly
    <3>3. "fp32 mode" \in Slot
      BY DEF Slot, Options
    <3>4. args' \in Seq(Slot) /\ Len(args') = Len(args) + 1
      BY <1>2, <2>2, <3>3, AppendedOne
    <3> QED
      BY <3>2, <3>4
  <2> QED
    BY <2>1, <2>2 DEF Fp32Mode, Has
<1> QED
  BY <1>1, <1>3, StagesBefore DEF RoomInv, AtMost, Stages, FirstOnly

LEMMA ArchAndCpuKeeps == RoomInv /\ ArchAndCpu => RoomInv'
<1> SUFFICES ASSUME RoomInv, ArchAndCpu PROVE RoomInv'
  OBVIOUS
<1>0. "arch" \in Slot /\ "cpu" \in Slot
  BY DEF Slot, Options
<1>1. stage = "cpu" /\ stage' = "epoch" /\ UNCHANGED <<build, argv>>
  BY DEF ArchAndCpu, Goes
<1>2. Len(args) =< 1
  BY <1>1, StagesBefore DEF AtMost
<1> DEFINE t == args \o (IF Has("BR_ARCH") THEN <<"arch">> ELSE <<>>)
                     \o (IF Has("BR_CPU") THEN <<"cpu">> ELSE <<>>)
<1>3. args' = args \/ args' = t
  BY DEF ArchAndCpu
<1>4. t \in Seq(Slot) /\ Len(t) =< Len(args) + 2
  BY StagesBefore, Appended, <1>0
<1> HIDE DEF t
<1>5. args' \in Seq(Slot) /\ Len(args') =< 3
  BY <1>2, <1>3, <1>4, StagesBefore, LenProperties
<1> QED
  BY <1>1, <1>5, StagesBefore DEF RoomInv, AtMost, Stages, FirstOnly

LEMMA EpochKeeps == RoomInv /\ SourceDateEpoch /\ stage' # "exit" => RoomInv'
<1> SUFFICES ASSUME RoomInv, SourceDateEpoch, stage' # "exit" PROVE RoomInv'
  OBVIOUS
<1>0. "time" \in Slot /\ "date" \in Slot /\ "-Wno-builtin-macro-redefined" \in Slot
  BY DEF Slot, Options
<1>1. stage = "epoch" /\ stage' = "pie" /\ UNCHANGED <<build, argv>>
  BY DEF SourceDateEpoch, Goes, Fails
<1>2. Len(args) =< 3
  BY <1>1, StagesBefore DEF AtMost
<1> DEFINE t == args \o <<"time", "date", "-Wno-builtin-macro-redefined">>
<1>3. args' = args \/ args' = t
  BY DEF SourceDateEpoch, Fails
<1>4. t \in Seq(Slot) /\ Len(t) =< Len(args) + 3
  BY StagesBefore, AppendedThree, <1>0
<1> HIDE DEF t
<1>5. args' \in Seq(Slot) /\ Len(args') =< 6
  BY <1>2, <1>3, <1>4, StagesBefore, LenProperties
<1> QED
  BY <1>1, <1>5, StagesBefore DEF RoomInv, AtMost, Stages, FirstOnly

LEMMA PieKeeps == RoomInv /\ Pie => RoomInv'
<1> SUFFICES ASSUME RoomInv, Pie PROVE RoomInv'
  OBVIOUS
<1>0. "-fPIE" \in Slot /\ "-pie" \in Slot
  BY DEF Slot, Options
<1>1. stage = "pie" /\ stage' = "relro" /\ UNCHANGED <<build, argv>>
  BY DEF Pie, Goes
<1>2. Len(args) =< 6
  BY <1>1, StagesBefore DEF AtMost
<1> DEFINE t == args \o (IF ~Given(Pic) THEN <<"-fPIE">> ELSE <<>>)
                     \o (IF ~Given({"-shared"}) THEN <<"-pie">> ELSE <<>>)
<1>3. args' = args \/ args' = t
  BY DEF Pie
<1>4. t \in Seq(Slot) /\ Len(t) =< Len(args) + 2
  BY StagesBefore, Appended, <1>0
<1> HIDE DEF t
<1>5. args' \in Seq(Slot) /\ Len(args') =< 8
  BY <1>2, <1>3, <1>4, StagesBefore, LenProperties
<1> QED
  BY <1>1, <1>5, StagesBefore DEF RoomInv, AtMost, Stages, FirstOnly

LEMMA RelroKeeps == RoomInv /\ Relro => RoomInv'
<1> SUFFICES ASSUME RoomInv, Relro PROVE RoomInv'
  OBVIOUS
<1>0. "-Wl,-z,now" \in Slot /\ "-Wl,-z,relro" \in Slot
  BY DEF Slot, Options
<1>1. stage = "relro" /\ stage' = "unsafe" /\ UNCHANGED <<build, argv>>
  BY DEF Relro, Goes
<1>2. Len(args) =< 8
  BY <1>1, StagesBefore DEF AtMost
<1> DEFINE t == args \o (IF Has("BR2_RELRO_FULL") THEN <<"-Wl,-z,now">> ELSE <<>>)
                     \o (IF Has("BR2_RELRO_FULL") \/ Has("BR2_RELRO_PARTIAL")
                         THEN <<"-Wl,-z,relro">> ELSE <<>>)
<1>3. args' = args \/ args' = t
  BY DEF Relro
<1>4. t \in Seq(Slot) /\ Len(t) =< Len(args) + 2
  BY StagesBefore, Appended, <1>0
<1> HIDE DEF t
<1>5. args' \in Seq(Slot) /\ Len(args') =< ExclusiveArgs
  BY <1>2, <1>3, <1>4, StagesBefore, LenProperties DEF ExclusiveArgs
<1> QED
  BY <1>1, <1>5, StagesBefore DEF RoomInv, AtMost, Stages, FirstOnly

LEMMA ExecuteKeeps == RoomInv /\ Execute => RoomInv'
<1> SUFFICES ASSUME RoomInv, Execute PROVE RoomInv'
  OBVIOUS
<1>0. "NULL" \in Slot
  BY DEF Slot, Options
<1>1. /\ stage = "unsafe" /\ stage' \in {"compiler", "ccache"} /\ UNCHANGED <<build, argv>>
      /\ args' = args \o argv \o <<"NULL">>
  BY DEF Execute
<1>2. Len(args) =< ExclusiveArgs
  BY <1>1, StagesBefore DEF AtMost
<1>3. argv \in Seq(Slot)
  BY StagesBefore, SeqMonotonic DEF Slot
<1>4. args \o argv \in Seq(Slot) /\ Len(args \o argv) = Len(args) + Len(argv)
  BY <1>3, StagesBefore, ConcatProperties
<1>5. <<"NULL">> \in Seq(Slot) /\ Len(<<"NULL">>) = 1
  BY StagesBefore, <1>0
<1>6. args' \in Seq(Slot) /\ Len(args') = Len(args) + Len(argv) + 1
  BY <1>1, <1>4, <1>5, ConcatProperties
<1> QED
  BY <1>1, <1>2, <1>6, StagesBefore DEF RoomInv, AtMost, Stages, FirstOnly, ExclusiveArgs

LEMMA RoomStep == RoomInv /\ [WrapperNext]_wrapperVars => RoomInv'
<1> SUFFICES ASSUME RoomInv, [WrapperNext]_wrapperVars PROVE RoomInv'
  OBVIOUS
<1>1. CASE stage' = "exit" /\ UNCHANGED <<build, argv, args>>
  <2>1. AtMost' = ExclusiveArgs + Len(argv) + 1
    BY <1>1 DEF AtMost
  <2> QED
    BY <1>1, <2>1, StagesBefore DEF RoomInv, Stages, FirstOnly, ExclusiveArgs
<1>2. CASE stage' = stage /\ UNCHANGED <<build, argv, args>>
  BY <1>2 DEF RoomInv, AtMost, FirstOnly
<1>3. CASE FindItself
  <2>1. CASE Goes("float") /\ UNCHANGED args
    BY <1>3, <2>1, StagesBefore DEF FindItself, Goes, RoomInv, AtMost, Stages, FirstOnly
  <2> QED
    BY <1>1, <1>3, <2>1 DEF FindItself, Fails
<1>4. CASE SourceDateEpoch
  BY <1>1, <1>4, EpochKeeps DEF SourceDateEpoch, Fails, Goes
<1>5. CASE NextArgument \/ Other \/ Joined \/ Separate
  BY <1>1, <1>2, <1>5 DEF NextArgument, Other, Joined, Separate, Moves, Fails
<1>6. CASE ExecFails
  BY <1>1, <1>6 DEF ExecFails, Fails
<1>7. CASE UNCHANGED wrapperVars
  BY <1>2, <1>7 DEF wrapperVars
<1> QED
  BY <1>3, <1>4, <1>5, <1>6, <1>7, FloatAbiKeeps, Fp32ModeKeeps, ArchAndCpuKeeps, PieKeeps, RelroKeeps,
     ExecuteKeeps DEF WrapperNext

(* Of main of toolchain-wrapper.c: EXCLUSIVE_ARGS is enough for the options *)
(* of every configuration, together with every command line.               *)
THEOREM ArgsAlwaysFit == WrapperSpec => []ArgsFit
<1>1. RoomInv => ArgsFit
  <2> SUFFICES ASSUME RoomInv PROVE ArgsFit
    OBVIOUS
  <2>1. Predef \in Nat
    <3>1. Plain \in Nat
      BY WrapperAssumption
    <3> QED
      BY <3>1 DEF Predef
  <2> QED
    BY <2>1, StagesBefore DEF ArgsFit, Slots, Argc, ExclusiveArgs
<1> QED
  BY <1>1, RoomInit, RoomStep, PTL DEF WrapperSpec-----------------------------------------------------------------------------
(* The arguments that are paths.  Taken is defined by recursion: that there *)
(* is such a function is shown by one, which counts how far the arguments   *)
(* back to the last one that is no option alone are.                        *)
Separated(q) ==
  q > 1 /\ q =< Len(argv) /\ Opt[argv[q - 1]] # "none" /\ Path[argv[q - 1]] = ""

OddRun(q) ==
  \E s \in Nat : s < q /\ ~Separated(s) /\ (\A j \in s + 1 .. q : Separated(j)) /\ (q - s) % 2 = 1

LEMMA OddRunStep ==
  ASSUME argv \in Seq(Words), NEW q \in Nat
  PROVE  OddRun(q) <=> Separated(q) /\ ~OddRun(q - 1)
<1>1. CASE ~Separated(q)
  <2>1. \A s \in Nat : s < q => q \in s + 1 .. q
    OBVIOUS
  <2> QED
    BY <1>1, <2>1 DEF OddRun
<1>2. CASE Separated(q)
  <2>1. q > 1 /\ ~Separated(0)
    <3>1. q > 1
      BY <1>2 DEF Separated
    <3>2. ~(0 > 1)
      OBVIOUS
    <3>3. ~Separated(0)
      BY <3>2, Zenon DEF Separated
    <3> QED
      BY <3>1, <3>3
  <2>2. PICK s \in 0 .. q - 1 : s \notin {n \in Nat : Separated(n)}
                              /\ \A n \in s + 1 .. q - 1 : n \in {m \in Nat : Separated(m)}
    <3> DEFINE S == {n \in Nat : ~Separated(n)}
    <3>1. q - 1 \in Nat /\ 0 \in 0 .. q - 1 /\ 0 \in S
      BY <2>1
    <3> HIDE DEF S
    <3>2. \E s \in 0 .. q - 1 : s \in S /\ \A n \in s + 1 .. q - 1 : n \notin S
      BY <3>1, GreatestUpTo
    <3> QED
      BY <3>2 DEF S
  <2>3. s \in Nat /\ s < q /\ ~Separated(s) /\ \A j \in s + 1 .. q : Separated(j)
    BY <1>2, <2>2
  <2> HIDE DEF Separated
  <2>4. \A r \in Nat : r < q /\ ~Separated(r) /\ (\A j \in r + 1 .. q : Separated(j)) => r = s
    BY <2>3
  <2>5. OddRun(q) <=> (q - s) % 2 = 1
    BY <2>3, <2>4 DEF OddRun
  <2>6. CASE s = q - 1
    BY <1>2, <2>3, <2>5, <2>6 DEF OddRun
  <2>7. CASE s < q - 1
    <3>1. \A r \in Nat : r < q - 1 /\ ~Separated(r) /\ (\A j \in r + 1 .. q - 1 : Separated(j)) => r = s
      BY <2>3, <2>7
    <3>2. OddRun(q - 1) <=> (q - 1 - s) % 2 = 1
      BY <2>3, <2>7, <3>1 DEF OddRun
    <3>3. \A x \in Nat : (x + 1) % 2 = 1 <=> x % 2 # 1
      OBVIOUS
    <3>4. q - 1 - s \in Nat /\ (q - 1 - s) + 1 = q - s
      BY <2>3, <2>7
    <3> QED
      BY <1>2, <2>5, <3>2, <3>3, <3>4
  <2> QED
    BY <2>2, <2>6, <2>7
<1> QED
  BY <1>1, <1>2

LEMMA TakenEquation ==
  ASSUME argv \in Seq(Words), NEW q \in Nat
  PROVE  /\ Taken[q] \in BOOLEAN
         /\ Taken[q] <=> Separated(q) /\ ~Taken[q - 1]
<1> DEFINE Obeys(f) ==
             f = [n \in Nat |-> n > 1 /\ n =< Len(argv) /\ ~f[n - 1]
                                  /\ Opt[argv[n - 1]] # "none" /\ Path[argv[n - 1]] = ""]
           w == [n \in Nat |-> OddRun(n)]
<1>1. ASSUME NEW n \in Nat
      PROVE  w[n] = (n > 1 /\ n =< Len(argv) /\ ~w[n - 1]
                       /\ Opt[argv[n - 1]] # "none" /\ Path[argv[n - 1]] = "")
  <2>1. CASE n > 1
    <3>1. n - 1 \in Nat /\ w[n] = OddRun(n) /\ w[n - 1] = OddRun(n - 1)
      BY <2>1
    <3>2. OddRun(n) \in BOOLEAN
      BY DEF OddRun
    <3> HIDE DEF w
    <3>3. OddRun(n) <=> Separated(n) /\ ~OddRun(n - 1)
      BY OddRunStep
    <3> QED
      BY <3>1, <3>2, <3>3 DEF Separated
  <2>2. CASE ~(n > 1)
    <3>1. ~OddRun(n)
      BY <2>2, OddRunStep DEF Separated
    <3>2. OddRun(n) \in BOOLEAN
      BY DEF OddRun
    <3> QED
      BY <2>2, <3>1, <3>2
  <2> QED
    BY <2>1, <2>2
<1>2. Obeys(w)
  <2>1. w = [n \in Nat |-> w[n]]
    OBVIOUS
  <2> HIDE DEF w
  <2> QED
    BY <1>1, <2>1
<1>3. Taken = CHOOSE f : Obeys(f)
  BY DEF Taken
<1>4. Obeys(Taken)
  <2> HIDE DEF Obeys, w
  <2> QED
    BY <1>2, <1>3
<1> QED
  BY <1>4 DEF Separated

(* The loop: the arguments before the place are good, and the one at the   *)
(* place is a path that was good, or is none, and good as far as the       *)
(* options before that in unsafe_opts go.                                  *)
Good(q) ==
  IF Taken[q] THEN argv[q] \notin Unsafe
  ELSE Opt[argv[q]] # "none" => Path[argv[q]] \notin Unsafe

HalfGood ==
  \/ Taken[at] /\ argv[at] \notin Unsafe
  \/ ~Taken[at] /\ \A o \in 1 .. option - 1 :
                     Opt[argv[at]] = UnsafeOpts[o] => Path[argv[at]] \notin Unsafe \cup {""}

PathInv ==
  /\ argv \in Seq(Words)
  /\ at \in 1 .. Len(argv) + 1 /\ option \in 1 .. Len(UnsafeOpts) + 1
  /\ stage \notin {"unsafe", "compiler", "ccache", "exit"} => at = 1 /\ option = 1
  /\ stage \in {"compiler", "ccache"} => at > Len(argv)
  /\ stage # "exit" /\ InStep =>
       /\ \A q \in 1 .. at - 1 : Good(q)
       /\ at =< Len(argv) => HalfGood

LEMMA PathInit == WrapperInit => PathInv
<1> SUFFICES ASSUME WrapperInit PROVE PathInv
  OBVIOUS
<1>1. argv \in Seq(Words) /\ at = 1 /\ option = 1 /\ stage = "paths" /\ Len(argv) \in Nat
  BY WrapperAssumption, LenProperties DEF WrapperInit
<1>2. ~Taken[1]
  <2>1. Taken[1] => Separated(1)
    BY <1>1, TakenEquation
  <2>2. ~(1 > 1)
    OBVIOUS
  <2> QED
    BY <2>1, <2>2, Zenon DEF Separated
<1> QED
  BY <1>1, <1>2 DEF PathInv, HalfGood, UnsafeOpts

(* An argument that no option is left to be compared with is good, and the *)
(* one behind it is no path.                                               *)
LEMMA AllCompared ==
  ASSUME PathInv, InStep, stage = "unsafe", at =< Len(argv), option > Len(UnsafeOpts)
  PROVE  Good(at) /\ ~Taken[at + 1]
<1>1. at \in Nat \ {0} /\ at \in DOMAIN argv /\ argv[at] \in Words
  BY DEF PathInv
<1>2. Taken[at + 1] => Separated(at + 1) /\ ~Taken[at]
  <2>1. at + 1 \in Nat /\ (at + 1) - 1 = at
    BY <1>1
  <2> QED
    BY <2>1, TakenEquation DEF PathInv
<1>3. HalfGood
  BY DEF PathInv
<1>4. CASE Taken[at]
  BY <1>2, <1>3, <1>4 DEF HalfGood, Good
<1>5. CASE ~Taken[at]
  <2>1. \A o \in DOMAIN UnsafeOpts : Opt[argv[at]] = UnsafeOpts[o] => Path[argv[at]] \notin Unsafe \cup {""}
    <3>1. Len(UnsafeOpts) = 5 /\ DOMAIN UnsafeOpts = 1 .. 5
      BY DEF UnsafeOpts
    <3>2. \A o \in 1 .. 5 : o \in 1 .. option - 1
      BY <3>1 DEF PathInv
    <3> QED
      BY <1>3, <1>5, <3>1, <3>2 DEF HalfGood
  <2>2. Opt[argv[at]] = "none" \/ Path[argv[at]] \notin Unsafe \cup {""}
    BY <1>1, <2>1, WrapperAssumption
  <2>3. (at + 1) - 1 = at
    BY <1>1
  <2>4. ~Separated(at + 1)
    BY <2>2, <2>3 DEF Separated
  <2> QED
    BY <1>2, <1>5, <2>2, <2>4 DEF Good
<1> QED
  BY <1>4, <1>5

LEMMA FiveOptions ==
  /\ Len(UnsafeOpts) = 5 /\ DOMAIN UnsafeOpts = 1 .. 5
  /\ \A o \in 1 .. 5 : UnsafeOpts[o] # "none"
BY DEF UnsafeOpts

(* What depends on the command line alone does not change.                 *)
LEMMA SameArguments ==
  ASSUME argv' = argv
  PROVE  Taken' = Taken /\ (InStep' <=> InStep) /\ \A q : Good(q)' <=> Good(q)
<1>1. Taken' = Taken
  BY DEF Taken
<1>2. InStep' <=> InStep
  BY <1>1 DEF InStep
<1>3. \A q : Good(q)' <=> Good(q)
  BY <1>1 DEF Good
<1> QED
  BY <1>1, <1>2, <1>3

(* The place moves to an argument that is no path.                         *)
LEMMA MovedOn ==
  ASSUME PathInv, stage = "unsafe", Moves(at + 1, 1), at =< Len(argv),
         InStep => Good(at) /\ ~Taken[at + 1]
  PROVE  PathInv'
<1>1. at' = at + 1 /\ option' = 1 /\ stage' = stage /\ argv' = argv
  BY DEF Moves
<1>2. at \in 1 .. Len(argv) /\ Len(argv) \in Nat
  BY LenProperties DEF PathInv
<1>3. ASSUME InStep PROVE (\A q \in 1 .. at' - 1 : Good(q)) /\ HalfGood'
  <2>1. \A q \in 1 .. at - 1 : Good(q)
    BY <1>3 DEF PathInv
  <2>2. \A q \in 1 .. at' - 1 : Good(q)
    BY <1>1, <1>2, <1>3, <2>1
  <2>3. HalfGood'
    BY <1>1, <1>3, SameArguments DEF HalfGood
  <2> QED
    BY <2>2, <2>3
<1> QED
  BY <1>1, <1>2, <1>3, SameArguments DEF PathInv, UnsafeOpts

(* The next option is compared with the same argument.                     *)
LEMMA NextOption ==
  ASSUME PathInv, Looking, option =< Len(UnsafeOpts), Moves(at, option + 1),
         InStep /\ Opt[argv[at]] = UnsafeOpts[option]
           => Path[argv[at]] \notin Unsafe \cup {""}
  PROVE  PathInv'
<1>1. at' = at /\ option' = option + 1 /\ stage' = stage /\ argv' = argv /\ stage = "unsafe"
  BY DEF Moves, Looking
<1>2. option \in 1 .. 5 /\ Len(UnsafeOpts) = 5
  <2>1. option \in 1 .. Len(UnsafeOpts) + 1
    BY DEF PathInv
  <2> QED
    BY ONLY <2>1, option =< Len(UnsafeOpts), FiveOptions
<1>3. ASSUME InStep PROVE HalfGood'
  <2>1. HalfGood
    BY <1>1, <1>3 DEF PathInv, Looking
  <2>2. \A o \in 1 .. option' - 1 : o \in 1 .. option - 1 \/ o = option
    BY ONLY <1>1, <1>2
  <2> QED
    BY <1>1, <1>3, <2>1, <2>2, SameArguments DEF HalfGood
<1>4. option' \in 1 .. Len(UnsafeOpts) + 1
  BY ONLY <1>1, <1>2
<1> QED
  BY <1>1, <1>3, <1>4, SameArguments DEF PathInv

(* An option that is an argument of its own, with the path behind it.      *)
LEMMA SeparateKeeps == PathInv /\ Separate => PathInv'
<1> SUFFICES ASSUME PathInv, Separate PROVE PathInv'
  OBVIOUS
<1>0. at =< Len(argv) /\ option =< Len(UnsafeOpts)
  BY DEF Separate, Looking
<1>1. /\ stage = "unsafe" /\ at =< Len(argv)
      /\ Opt[argv[at]] = UnsafeOpts[option] /\ Path[argv[at]] = ""
  BY DEF Separate, Looking
<1>2. /\ at \in 1 .. Len(argv) /\ Len(argv) \in Nat /\ argv \in Seq(Words)
      /\ option \in 1 .. 5 /\ Len(UnsafeOpts) = 5
  <2>1. Len(argv) \in Nat
    BY LenProperties DEF PathInv
  <2>2. /\ option \in 1 .. Len(UnsafeOpts) + 1 /\ at \in 1 .. Len(argv) + 1
        /\ argv \in Seq(Words)
    BY DEF PathInv
  <2>3. at \in 1 .. Len(argv)
    BY ONLY <1>0, <2>1, <2>2
  <2>4. option \in 1 .. 5
    BY ONLY <1>0, <2>2, FiveOptions
  <2> QED
    BY ONLY <2>1, <2>2, <2>3, <2>4, FiveOptions
<1>3. Opt[argv[at]] # "none"
  BY <1>1, <1>2, FiveOptions
<1>4. InStep => ~Taken[at] /\ Good(at)
  <2>1. "" \notin Unsafe
    BY WrapperAssumption
  <2>2. InStep => ~Taken[at]
    BY <1>2, <1>3 DEF InStep
  <2> QED
    BY <1>1, <2>1, <2>2 DEF Good
<1>5. CASE at = Len(argv) /\ Moves(at + 1, 1)
  <2>1. ~Taken[at + 1]
    <3>1. at + 1 \in Nat /\ ~(at + 1 =< Len(argv))
      BY <1>2, <1>5
    <3> QED
      BY <1>2, <3>1, TakenEquation DEF Separated
  <2> QED
    BY <1>1, <1>4, <1>5, <2>1, MovedOn
<1>6. CASE Fails(1)
  <2>1. stage' = "exit" /\ UNCHANGED <<argv, at, option>>
    BY <1>6 DEF Fails
  <2> QED
    BY <1>1, <2>1 DEF PathInv
<1>7. CASE at < Len(argv) /\ argv[at + 1] \notin Unsafe /\ Moves(at + 1, option + 1)
  <2>1. at' = at + 1 /\ option' = option + 1 /\ stage' = stage /\ argv' = argv
    BY <1>7 DEF Moves
  <2>2. at' \in 1 .. Len(argv) + 1 /\ option' \in 1 .. Len(UnsafeOpts) + 1
    BY <1>2, <1>7, <2>1
  <2>3. ASSUME InStep PROVE Taken[at + 1]
    <3>1. at + 1 \in Nat /\ at + 1 > 1 /\ at + 1 =< Len(argv) /\ (at + 1) - 1 = at
      BY <1>2, <1>7
    <3>2. Separated(at + 1)
      BY <1>1, <1>3, <3>1 DEF Separated
    <3> QED
      BY <1>2, <1>4, <2>3, <3>1, <3>2, TakenEquation
  <2>4. ASSUME InStep PROVE \A q \in 1 .. at' - 1 : Good(q)
    <3>1. \A q \in 1 .. at - 1 : Good(q)
      BY <1>1, <2>4 DEF PathInv
    <3> QED
      BY <1>2, <1>4, <2>1, <2>4, <3>1
  <2>5. ASSUME InStep PROVE HalfGood'
    BY <1>7, <2>1, <2>3, <2>5, SameArguments DEF HalfGood
  <2> QED
    BY <1>1, <1>2, <2>1, <2>2, <2>4, <2>5, SameArguments DEF PathInv
<1>8. CASE at # Len(argv)
  <2>1. at < Len(argv)
    BY <1>2, <1>8
  <2> QED
    BY <1>6, <1>7, <1>8, <2>1 DEF Separate
<1>9. CASE at = Len(argv)
  <2>1. ~(at < Len(argv))
    BY ONLY <1>2, <1>9
  <2>2. Moves(at + 1, 1)
    BY <1>9, <2>1 DEF Separate
  <2> QED
    BY <1>5, <1>9, <2>2
<1> QED
  BY <1>8, <1>9

LEMMA PathStep == PathInv /\ [WrapperNext]_wrapperVars => PathInv'
<1> SUFFICES ASSUME PathInv, [WrapperNext]_wrapperVars PROVE PathInv'
  OBVIOUS
<1>1. CASE UNCHANGED <<argv, at, option>> /\ stage' \in {stage, "exit"}
  BY <1>1, SameArguments DEF PathInv, HalfGood
<1>2. CASE /\ stage \in Stages \ {"unsafe", "compiler", "ccache", "exit"}
           /\ UNCHANGED <<argv, at, option>> /\ stage' \notin {"compiler", "ccache"}
  BY <1>2, SameArguments DEF PathInv, HalfGood
<1>3. CASE FindItself \/ FloatAbi \/ Fp32Mode \/ ArchAndCpu \/ SourceDateEpoch \/ Pie \/ Relro
  BY <1>2, <1>3 DEF FindItself, FloatAbi, Fp32Mode, ArchAndCpu, SourceDateEpoch, Pie, Relro, Goes, Fails,
     Stages
<1>4. CASE NextArgument
  BY <1>4, AllCompared, MovedOn DEF NextArgument, Looking
<1>5. CASE Other
  BY <1>5, NextOption DEF Other, Looking
<1>6. CASE Joined
  BY <1>1, <1>6, NextOption DEF Joined, Fails
<1>7. CASE Execute
  <2>1. /\ stage = "unsafe" /\ at > Len(argv) /\ stage' \in {"compiler", "ccache"}
        /\ UNCHANGED <<argv, at, option>>
    BY <1>7 DEF Execute
  <2> QED
    BY <2>1, SameArguments DEF PathInv, HalfGood
<1>8. CASE ExecFails
  BY <1>1, <1>8 DEF ExecFails, Fails
<1>9. CASE UNCHANGED wrapperVars
  BY <1>1, <1>9 DEF wrapperVars
<1> QED
  BY <1>3, <1>4, <1>5, <1>6, <1>7, <1>8, <1>9, SeparateKeeps DEF WrapperNext

(* Of the check of the paths in toolchain-wrapper.c: no directory of the    *)
(* build machine is given to the compiler, whatever the command line.       *)
THEOREM UnsafeNeverReachesCompiler == WrapperSpec => []UnsafeNeverPassed
<1>1. PathInv => UnsafeNeverPassed
  <2> SUFFICES ASSUME PathInv, Started, InStep PROVE \A q \in DOMAIN argv : Good(q)
    BY DEF UnsafeNeverPassed, Good
  <2>1. at > Len(argv) /\ at \in 1 .. Len(argv) + 1 /\ Len(argv) \in Nat /\ stage # "exit"
    BY LenProperties DEF PathInv, Started
  <2>2. \A q \in 1 .. at - 1 : Good(q)
    BY <2>1 DEF PathInv
  <2> QED
    BY <2>1, <2>2
<1> QED
  BY <1>1, PathInit, PathStep, PTL DEF WrapperSpec

-----------------------------------------------------------------------------
(*************************************************************************)
(* Proof that the loop of check-hash computes the function ExitCode that   *)
(* the download wrapper is modelled with, for any number of .hash files    *)
(* and of lines.                                                           *)
(*************************************************************************)

(* The place of the loop, among those of the lines.                        *)
Place == <<i, k>>
StatusAt(pl) == LineStatus(hfiles[pl[1]].lines[pl[2]], file)
FilesAreFiles ==
  /\ Len(hfiles) \in Nat /\ DOMAIN hfiles = 1 .. Len(hfiles)
  /\ \A j \in DOMAIN hfiles :
       hfiles[j].exists \in BOOLEAN /\ ReadableLines(hfiles[j]) \in Int /\ Len(hfiles[j].lines) \in Nat

Begun(j) == j < i \/ (j = i /\ k > 0)

ScanInv ==
  /\ FilesAreFiles
  /\ i \in 1 .. Len(hfiles) + 1 /\ k \in Nat /\ nb_h_files \in Nat /\ nb_checks \in Nat
  /\ code = Running =>
       /\ k > 0 => i \in ExistingFiles(hfiles)
       /\ \A pl \in CheckedLines(hfiles) : Before(pl, Place) => StatusAt(pl) = 0
       /\ nb_h_files > 0 <=> \E j \in ExistingFiles(hfiles) : Begun(j)
       /\ nb_checks > 0 <=> \E pl \in CheckedLines(hfiles) : Before(pl, Place)
  /\ ScanComputesVerdict

LEMMA WhatIsChecked ==
  /\ \A pl \in CheckedLines(hfiles) :
       /\ pl = <<pl[1], pl[2]>> /\ pl[1] \in ExistingFiles(hfiles)
       /\ pl[2] \in 1 .. ReadableLines(hfiles[pl[1]]) /\ hfiles[pl[1]].lines[pl[2]].about
  /\ \A j \in ExistingFiles(hfiles) : \A l \in 1 .. ReadableLines(hfiles[j]) :
       hfiles[j].lines[l].about => <<j, l>> \in CheckedLines(hfiles)
BY DEF CheckedLines, LinesRead

LEMMA CheckedArePlaces ==
  ASSUME FilesAreFiles, NEW pl \in CheckedLines(hfiles)
  PROVE  pl[1] \in 1 .. Len(hfiles) /\ pl[2] \in Nat \ {0} /\ pl = <<pl[1], pl[2]>>
BY WhatIsChecked DEF FilesAreFiles, ExistingFiles

(* The first failing line decides.                                         *)
LEMMA FirstDecides ==
  ASSUME FilesAreFiles, NEW pl \in CheckedLines(hfiles), StatusAt(pl) # 0,
         \A b \in CheckedLines(hfiles) : Before(b, pl) => StatusAt(b) = 0
  PROVE  ExitCode(hfiles, noHash, file) = StatusAt(pl)
<1> DEFINE failing == FailingLines(CheckedLines(hfiles), hfiles, file)
           IsFirst(a) == a \in failing /\ \A b \in failing : b = a \/ Before(a, b)
<1>1. \A b \in failing : b \in CheckedLines(hfiles) /\ StatusAt(b) # 0
  BY DEF FailingLines, StatusAt
<1>2. IsFirst(pl)
  <2>1. pl \in failing
    BY DEF FailingLines, StatusAt
  <2>2. ASSUME NEW b \in failing PROVE b = pl \/ Before(pl, b)
    <3>1. ~Before(b, pl)
      BY <1>1
    <3> QED
      BY <1>1, <3>1, CheckedArePlaces DEF Before
  <2> QED
    BY <2>1, <2>2
<1>3. \A a : IsFirst(a) => a = pl
  <2> SUFFICES ASSUME NEW a, IsFirst(a), a # pl PROVE FALSE
    OBVIOUS
  <2>1. Before(a, pl) /\ Before(pl, a)
    BY <1>2
  <2> QED
    BY <1>1, <2>1, CheckedArePlaces DEF Before
<1>4. (CHOOSE a \in failing : \A b \in failing : b = a \/ Before(a, b)) = pl
  <2>1. (CHOOSE a : IsFirst(a)) = pl
    BY <1>2, <1>3
  <2> QED
    BY <2>1
<1>5. failing # {}
  BY <1>2
<1> QED
  BY <1>4, <1>5 DEF ExitCode, CodeFor, StatusAt

(* Where no line is dropped, all the lines about the file are checked.     *)
LEMMA NothingDropped ==
  ASSUME FilesAreFiles, ~LastLineDropped(hfiles)
  PROVE  ExitCode(hfiles, noHash, file) = Verdict(hfiles, noHash, file)
<1>1. ASSUME NEW j \in ExistingFiles(hfiles)
      PROVE  LinesRead(hfiles[j]) = LinesAbout(hfiles[j])
  <2>1. PICK hf : hf = hfiles[j]
    OBVIOUS
  <2>2. Len(hf.lines) \in Nat
    BY <2>1 DEF FilesAreFiles, ExistingFiles
  <2>3. hf.terminated \/ hf.lines = <<>> \/ ~hf.lines[Len(hf.lines)].about
    BY <2>1 DEF LastLineDropped
  <2>4. CASE hf.terminated \/ hf.lines = <<>>
    BY <2>1, <2>4 DEF LinesRead, LinesAbout, ReadableLines
  <2>5. CASE ~(hf.terminated \/ hf.lines = <<>>)
    <3>1. ReadableLines(hf) = Len(hf.lines) - 1 /\ ~hf.lines[Len(hf.lines)].about
      BY <2>3, <2>5 DEF ReadableLines
    <3>2. 1 .. Len(hf.lines) - 1 = (1 .. Len(hf.lines)) \ {Len(hf.lines)}
      BY ONLY <2>2
    <3> QED
      BY <2>1, <3>1, <3>2 DEF LinesRead, LinesAbout
  <2> QED
    BY <2>4, <2>5
<1>2. CheckedLines(hfiles) = AllLines(hfiles)
  BY <1>1 DEF CheckedLines, AllLines
<1> QED
  BY <1>2 DEF ExitCode, Verdict

LEMMA ScanStart == ScanInit => ScanInv
<1> SUFFICES ASSUME ScanInit PROVE ScanInv
  OBVIOUS
<1>1. PICK n \in 0 .. MaxFiles : hfiles \in [1 .. n -> HashFiles(Data, MaxLines)]
  BY DEF ScanInit
<1>2. n \in Nat /\ Len(hfiles) = n /\ DOMAIN hfiles = 1 .. n
  BY <1>1, BoundsAssumption
<1>3. \A hf \in HashFiles(Data, MaxLines) :
        hf.exists \in BOOLEAN /\ ReadableLines(hf) \in Int /\ Len(hf.lines) \in Nat
  <2> SUFFICES ASSUME NEW hf \in HashFiles(Data, MaxLines)
               PROVE  hf.exists \in BOOLEAN /\ ReadableLines(hf) \in Int /\ Len(hf.lines) \in Nat
    OBVIOUS
  <2>1. CASE hf = MissingFile
    BY <2>1 DEF MissingFile, ReadableLines
  <2>2. CASE hf # MissingFile
    <3>1. hf.exists \in {TRUE} /\ hf.lines \in UNION {[1 .. m -> Lines(Data)] : m \in 0 .. MaxLines}
      BY <2>2 DEF HashFiles
    <3>2. PICK m \in 0 .. MaxLines : hf.lines \in [1 .. m -> Lines(Data)]
      BY <3>1
    <3>3. Len(hf.lines) \in Nat
      BY <3>2, BoundsAssumption
    <3>4. Len(hf.lines) - 1 \in Int /\ Len(hf.lines) \in Int
      BY ONLY <3>3
    <3>5. ReadableLines(hf) \in {Len(hf.lines), Len(hf.lines) - 1}
      BY DEF ReadableLines
    <3> QED
      BY <3>1, <3>3, <3>4, <3>5
  <2> QED
    BY <2>1, <2>2
<1>4. FilesAreFiles
  BY <1>1, <1>2, <1>3 DEF FilesAreFiles
<1>5. i = 1 /\ k = 0 /\ nb_h_files = 0 /\ nb_checks = 0 /\ code = Running
  BY DEF ScanInit
<1>6. \A pl \in CheckedLines(hfiles) : ~Before(pl, Place)
  BY <1>4, <1>5, CheckedArePlaces DEF Before, Place
<1>7. \A j \in ExistingFiles(hfiles) : ~Begun(j)
  BY <1>2, <1>5 DEF ExistingFiles, Begun
<1> QED
  BY <1>2, <1>4, <1>5, <1>6, <1>7 DEF ScanInv, ScanComputesVerdict

LEMMA ScanStep == ScanInv /\ [ScanNext]_scanVars => ScanInv'
<1> SUFFICES ASSUME ScanInv, [ScanNext]_scanVars PROVE ScanInv'
  OBVIOUS
<1>0. CASE UNCHANGED scanVars
  BY <1>0 DEF scanVars, ScanInv, FilesAreFiles, Place, StatusAt, Begun, ScanComputesVerdict
<1> SUFFICES ASSUME ScanNext PROVE ScanInv'
  BY <1>0
<1>1. code = Running /\ UNCHANGED input
  BY DEF ScanNext, SkipMissing, OpenFile, ReadLine, EndOfFile, Conclude
<1>2. FilesAreFiles /\ FilesAreFiles' /\ \A pl : StatusAt(pl)' = StatusAt(pl)
  BY <1>1 DEF ScanInv, FilesAreFiles, StatusAt, input
<1>3. /\ i \in Nat \ {0} /\ k \in Nat /\ Len(hfiles) \in Nat /\ i =< Len(hfiles) + 1
      /\ nb_h_files \in Nat /\ nb_checks \in Nat
  BY DEF ScanInv, FilesAreFiles
<1>4. /\ k > 0 => i \in ExistingFiles(hfiles)
      /\ \A pl \in CheckedLines(hfiles) : Before(pl, Place) => StatusAt(pl) = 0
      /\ nb_h_files > 0 <=> \E j \in ExistingFiles(hfiles) : Begun(j)
      /\ nb_checks > 0 <=> \E pl \in CheckedLines(hfiles) : Before(pl, Place)
  BY <1>1 DEF ScanInv
(* A step past no checked line.                                            *)
<1>5. ASSUME i' \in 1 .. Len(hfiles) + 1, k' \in Nat, UNCHANGED <<nb_checks, code>>,
             k' > 0 => i' \in ExistingFiles(hfiles), nb_h_files' \in Nat,
             \A pl \in CheckedLines(hfiles) : Before(pl, Place') <=> Before(pl, Place),
             nb_h_files' > 0 <=> \E j \in ExistingFiles(hfiles) : Begun(j)'
      PROVE  ScanInv'
  BY <1>1, <1>2, <1>3, <1>4, <1>5 DEF ScanInv, ScanComputesVerdict, input
<1>6. CASE SkipMissing
  <2>1. i \in 1 .. Len(hfiles) /\ i \notin ExistingFiles(hfiles) /\ i' = i + 1
        /\ UNCHANGED <<k, nb_h_files, nb_checks, code>>
    BY <1>3, <1>6 DEF SkipMissing, ExistingFiles, FilesAreFiles
  <2>2. k = 0
    BY <1>3, <1>4, <2>1
  <2>3. \A pl \in CheckedLines(hfiles) : Before(pl, Place') <=> Before(pl, Place)
    BY <1>2, <1>3, <2>1, <2>2, CheckedArePlaces, WhatIsChecked DEF Before, Place
  <2>4. \A j \in ExistingFiles(hfiles) : Begun(j)' <=> Begun(j)
    BY <1>2, <1>3, <2>1, <2>2 DEF Begun, ExistingFiles, FilesAreFiles
  <2> QED
    BY <1>3, <1>4, <1>5, <2>1, <2>2, <2>3, <2>4
<1>7. CASE OpenFile
  <2>1. /\ i \in 1 .. Len(hfiles) /\ i \in ExistingFiles(hfiles) /\ k = 0 /\ k' = 1 /\ i' = i
        /\ nb_h_files' = nb_h_files + 1 /\ UNCHANGED <<nb_checks, code>>
    BY <1>2, <1>3, <1>7 DEF OpenFile, ExistingFiles, FilesAreFiles
  <2>2. \A pl \in CheckedLines(hfiles) : Before(pl, Place') <=> Before(pl, Place)
    BY <1>2, <1>3, <2>1, CheckedArePlaces DEF Before, Place
  <2>3. Begun(i)'
    BY <2>1 DEF Begun
  <2> QED
    BY <1>3, <1>5, <2>1, <2>2, <2>3
<1>8. CASE EndOfFile
  <2>1. /\ i \in 1 .. Len(hfiles) /\ k > ReadableLines(hfiles[i]) /\ k > 0 /\ i' = i + 1 /\ k' = 0
        /\ UNCHANGED <<nb_h_files, nb_checks, code>>
    BY <1>3, <1>8 DEF EndOfFile
  <2>2. \A pl \in CheckedLines(hfiles) : Before(pl, Place') <=> Before(pl, Place)
    BY <1>2, <1>3, <2>1, CheckedArePlaces, WhatIsChecked DEF Before, Place, FilesAreFiles
  <2>3. \A j \in ExistingFiles(hfiles) : Begun(j)' <=> Begun(j)
    BY <1>2, <1>3, <2>1 DEF Begun, ExistingFiles, FilesAreFiles
  <2> QED
    BY <1>3, <1>4, <1>5, <2>1, <2>2, <2>3
<1>9. CASE Conclude
  <2>1. /\ i > Len(hfiles) /\ UNCHANGED <<i, k, nb_h_files, nb_checks>>
        /\ code' = IF nb_h_files > 0 /\ nb_checks = 0 /\ ~noHash THEN 3 ELSE 0
    BY <1>9 DEF Conclude
  <2>2. \A pl \in CheckedLines(hfiles) : Before(pl, Place)
    BY <1>2, <1>3, <2>1, CheckedArePlaces DEF Before, Place
  <2>3. FailingLines(CheckedLines(hfiles), hfiles, file) = {}
    BY <1>4, <2>2 DEF FailingLines, StatusAt
  <2>4. nb_checks = 0 <=> CheckedLines(hfiles) = {}
    BY <1>3, <1>4, <2>2
  <2>5. nb_h_files > 0 <=> ExistingFiles(hfiles) # {}
    <3>1. \A j \in ExistingFiles(hfiles) : Begun(j)
      BY <1>2, <1>3, <2>1 DEF Begun, ExistingFiles, FilesAreFiles
    <3> QED
      BY <1>4, <3>1
  <2>6. code' = ExitCode(hfiles, noHash, file) /\ code' # Running
    BY <2>1, <2>3, <2>4, <2>5 DEF ExitCode, CodeFor, Running
  <2> QED
    BY <1>1, <1>2, <1>3, <2>1, <2>6, NothingDropped DEF ScanInv, ScanComputesVerdict, input
<1>10. CASE ReadLine
  <2> DEFINE line == hfiles[i].lines[k]
  <2>1. /\ i \in ExistingFiles(hfiles) /\ k \in 1 .. ReadableLines(hfiles[i])
        /\ k' = k + 1 /\ UNCHANGED <<i, nb_h_files>>
    BY <1>2, <1>3, <1>4, <1>10 DEF ReadLine, ExistingFiles, FilesAreFiles
  <2>2. \A pl \in CheckedLines(hfiles) : Before(pl, Place') <=> Before(pl, Place) \/ pl = Place
    BY <1>2, <1>3, <2>1, CheckedArePlaces DEF Before, Place
  <2>3. \A j \in ExistingFiles(hfiles) : Begun(j)' <=> Begun(j)
    BY <1>3, <2>1 DEF Begun
  <2>4. Place \in CheckedLines(hfiles) <=> line.about
    BY <2>1, WhatIsChecked DEF Place
  <2>5. i' \in 1 .. Len(hfiles) + 1 /\ k' \in Nat
    BY <1>3, <2>1
  <2>6. StatusAt(Place) = LineStatus(line, file)
    BY DEF StatusAt, Place
  <2>7. CASE ~line.about /\ UNCHANGED <<nb_checks, code>>
    <3>1. \A pl \in CheckedLines(hfiles) : Before(pl, Place') <=> Before(pl, Place)
      BY <2>2, <2>4, <2>7
    <3> QED
      BY <1>3, <1>4, <1>5, <2>1, <2>3, <2>5, <2>7, <3>1
  <2>8. CASE line.about /\ StatusAt(Place) = 0 /\ nb_checks' = nb_checks + 1 /\ UNCHANGED code
    <3>1. \A pl \in CheckedLines(hfiles) : Before(pl, Place') => StatusAt(pl) = 0
      BY <1>4, <2>2, <2>8
    <3>2. \E pl \in CheckedLines(hfiles) : Before(pl, Place')
      BY <2>2, <2>4, <2>8
    <3>3. nb_checks' \in Nat /\ nb_checks' > 0
      BY <1>3, <2>8
    <3> QED
      BY <1>1, <1>2, <1>3, <1>4, <2>1, <2>3, <2>5, <2>8, <3>1, <3>2, <3>3
      DEF ScanInv, ScanComputesVerdict, input
  <2>9. CASE line.about /\ StatusAt(Place) # 0 /\ code' = StatusAt(Place) /\ UNCHANGED nb_checks
    <3>1. ExitCode(hfiles, noHash, file) = StatusAt(Place)
      BY <1>2, <1>4, <2>4, <2>9, FirstDecides
    <3>2. StatusAt(Place) # Running
      BY <2>6 DEF LineStatus, Running
    <3> QED
      BY <1>1, <1>2, <1>3, <2>1, <2>5, <2>9, <3>1, <3>2, NothingDropped DEF ScanInv, ScanComputesVerdict, input
  <2> QED
    BY <1>10, <2>6, <2>7, <2>8, <2>9 DEF ReadLine
<1> QED
  BY <1>6, <1>7, <1>8, <1>9, <1>10 DEF ScanNext

(* Of check-hash:40-98: the loop, with its early exit, says what the       *)
(* function says that the download wrapper is checked and proved with, and *)
(* what all the lines stand for where none is dropped.                     *)
THEOREM ScanCorrect == ScanSpec => []ScanComputesVerdict
<1>1. ScanInv => ScanComputesVerdict
  BY DEF ScanInv
<1> QED
  BY <1>1, ScanStart, ScanStep, PTL DEF ScanSpec

-----------------------------------------------------------------------------
(*************************************************************************)
(* Proof that mkusers never gives one uid to two users, for every table of *)
(* users, every skeleton whose own uids are distinct, and every range of   *)
(* automatic uids.                                                         *)
(*************************************************************************)

(* The uid that add_one_user settles on is that of no other user.          *)
LEMMA UidIsFree ==
  ASSUME UidsUnique, NEW l, UidValid(l), NEW uid \in UidsFor(l.username, l.uid)
  PROVE  \A v \in DOMAIN passwd : passwd[v].uid = uid => v = l.username
<1>1. CASE l.uid \notin AutoIds
  <2>1. uid = l.uid /\ UsersWith(l.uid) \subseteq {l.username}
    BY <1>1 DEF UidsFor, UidValid
  <2> QED
    BY <2>1 DEF UsersWith
<1>2. CASE l.uid \in AutoIds /\ l.username \in DOMAIN passwd
  <2>1. uid = passwd[l.username].uid
    BY <1>2 DEF UidsFor
  <2> QED
    BY <2>1, <1>2 DEF UidsUnique
<1>3. CASE l.uid \in AutoIds /\ l.username \notin DOMAIN passwd
  <2>1. uid \in FreeUids(l.uid)
    BY <1>3 DEF UidsFor
  <2> QED
    BY <2>1 DEF FreeUids, UsersWith
<1> QED
  BY <1>1, <1>2, <1>3

THEOREM UidsUniqueStep == UidsUnique /\ [UsersNext]_usersVars => UidsUnique'
<1> SUFFICES ASSUME UidsUnique, [UsersNext]_usersVars PROVE UidsUnique'
  OBVIOUS
<1>1. CASE AddUser
  <2> DEFINE l == Current.line
             u == l.username
  <2>1. PICK uid \in UidsFor(u, l.uid) :
          passwd' = With(passwd, u, [uid |-> uid, gid |-> gid[l.group]])
    BY <1>1 DEF AddUser
  <2>2. \A v \in DOMAIN passwd : passwd[v].uid = uid => v = u
    BY <1>1, UidIsFree DEF AddUser, CheckUserValidity
  <2>3. /\ DOMAIN passwd' = DOMAIN passwd \cup {u}
        /\ passwd'[u].uid = uid
        /\ \A v \in DOMAIN passwd \ {u} : passwd'[v] = passwd[v]
    BY <2>1 DEF With
  <2> QED
    BY <2>2, <2>3 DEF UidsUnique
<1>b. CASE BadHome
  <2>1. PICK u : passwd' = [v \in DOMAIN passwd \ {u} |-> passwd[v]]
    BY <1>b DEF BadHome
  <2> QED
    BY <2>1 DEF UidsUnique
<1>2. CASE \/ AddGroup \/ NoGid \/ NoUser \/ NextEntry \/ NextPass \/ Finish \/ UNCHANGED usersVars
  BY <1>2 DEF AddGroup, NoGid, NoUser, NextEntry, NextPass, Finish, Fail, usersVars, userFiles, UidsUnique
<1> QED
  BY <1>1, <1>b, <1>2 DEF UsersNext

(* No two users of /etc/passwd ever share a uid, while the script runs and *)
(* when it ends, whether the uids are given, automatic or a mixture.       *)
THEOREM UidsAreUnique == UsersSpec => []UidsUnique
<1>1. UsersInit => UidsUnique
  BY UsersAssumption DEF UsersInit, UidsUnique
<1> QED
  BY <1>1, UidsUniqueStep, PTL DEF UsersSpec

-----------------------------------------------------------------------------
(*************************************************************************)
(* Proof that a success of mkusers gives the users of the table what they  *)
(* ask for.  A call that is behind main has been made: its group is there, *)
(* or its user is entered, and no later call undoes it.  All calls are     *)
(* behind main when it ends.                                               *)
(*************************************************************************)

(* How far main has come.                                                  *)
Rows == 1 .. Len(userTable)
Behind(p, r, n) ==
  \/ turn.pass > p
  \/ turn.pass = p /\ turn.row > r
  \/ turn.pass = p /\ turn.row = r /\ turn.call > n

(* What has come of a line once add_one_user has returned.                 *)
Entered(l) ==
  /\ l.username \in DOMAIN passwd /\ l.group \in DOMAIN gid
  /\ passwd[l.username].gid = gid[l.group]
  /\ l.uid \notin AutoIds => l.uid > 0 /\ passwd[l.username].uid = l.uid
  /\ l.gid \notin AutoIds =>
       l.gid > 0 /\ gid[l.group] = l.gid /\ GroupsWith(l.gid) \subseteq {l.group}
  /\ \A g \in Range(l.groups) : g \in DOMAIN members /\ l.username \in members[g]
Made(c) ==
  IF c.op = "group" THEN c.group \in DOMAIN gid /\ c.group \in DOMAIN members ELSE Entered(c.line)

TurnType ==
  /\ userTable \in Seq(UserLines)
  /\ turn \in [pass : 1 .. 5, row : 1 .. Len(userTable) + 1, call : Nat \ {0}]
CallsMade ==
  \A p \in 1 .. 5, r \in Rows : \A n \in 1 .. Len(Calls(userTable[r], p)) :
    \A c \in {Calls(userTable[r], p)[n]} : Behind(p, r, n) => Made(c)

LEMMA OneCall ==
  ASSUME NEW test \in BOOLEAN, NEW c
  PROVE  /\ Only(test, c) \in Seq({c}) /\ Len(Only(test, c)) = (IF test THEN 1 ELSE 0)
         /\ \A n \in 1 .. Len(Only(test, c)) : test /\ n = 1 /\ Only(test, c)[n] = c
<1>1. CASE test
  BY <1>1 DEF Only
<1>2. CASE ~test
  BY <1>2 DEF Only
<1> QED
  BY <1>1, <1>2

\* The passes that are about the group and about the user of a line.
GroupPass(l) == IF l.gid >= 0 THEN 1 ELSE 2
UserPass(l) == IF l.uid >= 0 THEN 4 ELSE 5

LEMMA PassesAre ==
  ASSUME NEW l \in UserLines
  PROVE  /\ l.gid \in Int /\ l.uid \in Int /\ l.groups \in Seq(Groups) /\ IsUser(l) \in BOOLEAN
         /\ GroupPass(l) \in {1, 2} /\ UserPass(l) \in {4, 5}
BY DEF UserLines, IsUser, GroupPass, UserPass

LEMMA GroupCallsAre ==
  ASSUME NEW l \in UserLines, NEW p \in {1, 2}
  PROVE  /\ Len(Calls(l, p)) = IF p = GroupPass(l) THEN 1 ELSE 0
         /\ \A n \in 1 .. Len(Calls(l, p)) :
              p = GroupPass(l) /\ n = 1 /\ Calls(l, p)[n] = MainGroupCall(l)
<1> DEFINE test == IF p = 1 THEN l.gid >= 0 ELSE l.gid < 0
<1>1. test \in BOOLEAN /\ (test <=> p = GroupPass(l))
  <2>0. l.gid \in Int
    BY PassesAre
  <2>1. CASE p = 1
    BY <2>0, <2>1 DEF GroupPass
  <2>2. CASE p = 2
    BY <2>0, <2>2 DEF GroupPass
  <2> QED
    BY <2>1, <2>2
<1>2. Calls(l, p) = Only(test, MainGroupCall(l))
  BY DEF Calls, GroupCalls
<1> HIDE DEF test
<1> QED
  BY <1>1, <1>2, OneCall

LEMMA ExtraCallsAre ==
  ASSUME NEW l \in UserLines
  PROVE  /\ Len(Calls(l, 3)) = Len(l.groups) /\ Len(l.groups) \in Nat
         /\ \A n \in 1 .. Len(Calls(l, 3)) : Calls(l, 3)[n] = GroupCall(l.groups[n], ExtraId(l.uid))
<1>1. Calls(l, 3) = [n \in 1 .. Len(l.groups) |-> GroupCall(l.groups[n], ExtraId(l.uid))]
  BY DEF Calls, ExtraCalls
<1>2. Len(l.groups) \in Nat
  BY PassesAre
<1> QED
  BY <1>1, <1>2

LEMMA UserCallsAre ==
  ASSUME NEW l \in UserLines, NEW p \in {4, 5}
  PROVE  /\ Len(Calls(l, p)) = IF IsUser(l) /\ p = UserPass(l) THEN 1 ELSE 0
         /\ \A n \in 1 .. Len(Calls(l, p)) :
              IsUser(l) /\ p = UserPass(l) /\ n = 1 /\ Calls(l, p)[n] = UserCall(l)
<1> DEFINE test == IsUser(l) /\ (IF p = 4 THEN l.uid >= 0 ELSE l.uid < 0)
<1>1. test \in BOOLEAN /\ (test <=> IsUser(l) /\ p = UserPass(l))
  <2>0. l.uid \in Int
    BY PassesAre
  <2>1. CASE p = 4
    BY <2>0, <2>1 DEF UserPass
  <2>2. CASE p = 5
    BY <2>0, <2>2 DEF UserPass
  <2> QED
    BY <2>1, <2>2
<1>2. Calls(l, p) = Only(test, UserCall(l))
  BY DEF Calls, UserCalls
<1> HIDE DEF test
<1> QED
  BY <1>1, <1>2, OneCall

LEMMA CallsAreCounted ==
  ASSUME NEW l \in UserLines, NEW p \in 1 .. 5
  PROVE  Len(Calls(l, p)) \in Nat
<1>1. CASE p \in {1, 2}
  BY <1>1, GroupCallsAre
<1>2. CASE p = 3
  BY <1>2, ExtraCallsAre
<1>3. CASE p \in {4, 5}
  BY <1>3, UserCallsAre
<1> QED
  BY <1>1, <1>2, <1>3

(* What is called, and from where.                                         *)
LEMMA CalledIs ==
  ASSUME TurnType, NEW op, Call(op)
  PROVE  /\ turn.row \in Rows /\ userTable[turn.row] \in UserLines
         /\ turn.call \in 1 .. Len(Calls(userTable[turn.row], turn.pass))
         /\ Current = Calls(userTable[turn.row], turn.pass)[turn.call]
         /\ op = "group" => turn.pass \in 1 .. 3
         /\ op = "user" => turn.pass \in {4, 5} /\ turn.call = 1 /\ Current = UserCall(userTable[turn.row])
         /\ op \in {"group", "user"}
<1>1. turn.pass \in 1 .. 5 /\ turn.row \in 1 .. Len(userTable) + 1 /\ turn.call \in Nat \ {0}
      /\ Len(userTable) \in Nat
  BY DEF TurnType
<1>2. turn.row \in Rows /\ RowCalls = Calls(userTable[turn.row], turn.pass)
  BY <1>1 DEF Call, RowCalls, Rows
<1>3. userTable[turn.row] \in UserLines
  BY <1>2 DEF TurnType, Rows
<1> DEFINE l == userTable[turn.row]
<1>4. Len(Calls(l, turn.pass)) \in Nat
  BY <1>1, <1>3, CallsAreCounted
<1>5. turn.call \in 1 .. Len(Calls(l, turn.pass)) /\ Current = Calls(l, turn.pass)[turn.call] /\ Current.op = op
  BY <1>1, <1>2, <1>4 DEF Call, Current
<1>6. CASE turn.pass \in {1, 2}
  <2>1. Current = MainGroupCall(l)
    BY <1>1, <1>3, <1>5, <1>6, GroupCallsAre
  <2> QED
    BY <1>2, <1>3, <1>5, <1>6, <2>1 DEF MainGroupCall, GroupCall
<1>7. CASE turn.pass = 3
  <2>1. Current = GroupCall(l.groups[turn.call], ExtraId(l.uid))
    BY <1>1, <1>3, <1>5, <1>7, ExtraCallsAre
  <2> QED
    BY <1>2, <1>3, <1>5, <1>7, <2>1 DEF GroupCall
<1>8. CASE turn.pass \in {4, 5}
  <2>1. Current = UserCall(l) /\ turn.call = 1
    BY <1>1, <1>3, <1>5, <1>8, UserCallsAre
  <2> QED
    BY <1>2, <1>3, <1>5, <1>8, <2>1 DEF UserCall
<1> QED
  BY <1>1, <1>6, <1>7, <1>8

(* After a call, it is behind main, and nothing else is that was not.      *)
LEMMA ReturnPasses ==
  ASSUME TurnType, NEW op, Call(op), Return
  PROVE  /\ TurnType' /\ Rows' = Rows /\ turn'.pass = turn.pass
         /\ \A p \in 1 .. 5, r \in Rows : \A n \in Nat :
              Behind(p, r, n)' <=> Behind(p, r, n) \/ (p = turn.pass /\ r = turn.row /\ n = turn.call)
<1>1. turn.pass \in 1 .. 5 /\ turn.row \in 1 .. Len(userTable) + 1 /\ turn.call \in Nat \ {0}
      /\ Len(userTable) \in Nat /\ turn \in [pass : 1 .. 5, row : 1 .. Len(userTable) + 1, call : Nat \ {0}]
  BY DEF TurnType
<1>2. turn' = [turn EXCEPT !.call = turn.call + 1] /\ userTable' = userTable
  BY DEF Return, GoTo
<1>3. turn' \in [pass : 1 .. 5, row : 1 .. Len(userTable) + 1, call : Nat \ {0}]
      /\ turn'.pass = turn.pass /\ turn'.row = turn.row /\ turn'.call = turn.call + 1
  <2>1. turn.call + 1 \in Nat \ {0}
    BY <1>1
  <2> HIDE DEF TurnType
  <2> QED
    BY <1>1, <1>2, <2>1
<1>4. TurnType' /\ Rows' = Rows
  BY <1>2, <1>3 DEF TurnType, Rows
<1>5. ASSUME NEW p \in 1 .. 5, NEW r \in Rows, NEW n \in Nat
      PROVE  Behind(p, r, n)' <=> Behind(p, r, n) \/ (p = turn.pass /\ r = turn.row /\ n = turn.call)
  <2>1. r \in Nat /\ p \in Nat
    BY <1>1 DEF Rows
  <2> QED
    BY <1>1, <1>3, <2>1 DEF Behind
<1> QED
  BY <1>3, <1>4, <1>5

(* Going on to the next line or pass passes no call.                       *)
LEMMA GoingOnPasses ==
  ASSUME TurnType, NextEntry \/ NextPass
  PROVE  /\ TurnType' /\ Rows' = Rows
         /\ \A p \in 1 .. 5, r \in Rows : \A n \in 1 .. Len(Calls(userTable[r], p)) :
              Behind(p, r, n)' <=> Behind(p, r, n)
<1>1. turn.pass \in 1 .. 5 /\ turn.row \in 1 .. Len(userTable) + 1 /\ turn.call \in Nat \ {0}
      /\ Len(userTable) \in Nat
  BY DEF TurnType
<1>2. userTable' = userTable /\ Rows' = Rows
  BY DEF NextEntry, NextPass, GoTo, Rows
<1>3. \A p \in 1 .. 5, r \in Rows :
        userTable[r] \in UserLines /\ Len(Calls(userTable[r], p)) \in Nat
  <2> TAKE p \in 1 .. 5, r \in Rows
  <2>1. userTable[r] \in UserLines
    BY DEF TurnType, Rows
  <2> QED
    BY <2>1, CallsAreCounted
<1>4. CASE NextEntry
  <2>1. turn.row \in Rows /\ turn.call > Len(Calls(userTable[turn.row], turn.pass))
    BY <1>1, <1>4 DEF NextEntry, NoCallLeft, RowCalls, Rows
  <2>2. turn' = Turn(turn.pass, turn.row + 1, 1)
    BY <1>4 DEF NextEntry, GoTo
  <2>3. turn'.pass = turn.pass /\ turn'.row = turn.row + 1 /\ turn'.call = 1
    BY <2>2 DEF Turn
  <2>4. TurnType'
    BY <1>1, <1>2, <2>1, <2>2 DEF TurnType, Turn, Rows
  <2>5. ASSUME NEW p \in 1 .. 5, NEW r \in Rows, NEW n \in 1 .. Len(Calls(userTable[r], p))
        PROVE  Behind(p, r, n)' <=> Behind(p, r, n)
    <3>1. r \in Nat /\ n \in Nat \ {0}
      BY <1>1, <1>3 DEF Rows
    <3>2. p = turn.pass /\ r = turn.row => turn.call > n
      BY <1>1, <1>3, <2>1
    <3> QED
      BY <1>1, <2>3, <3>1, <3>2 DEF Behind
  <2> QED
    BY <1>2, <2>4, <2>5
<1>5. CASE NextPass
  <2>1. turn.row > Len(userTable) /\ turn.pass < 5 /\ turn' = Turn(turn.pass + 1, 1, 1)
    BY <1>5 DEF NextPass, GoTo
  <2>3. turn'.pass = turn.pass + 1 /\ turn'.row = 1 /\ turn'.call = 1
    BY <2>1 DEF Turn
  <2>4. TurnType'
    <3>1. turn.pass + 1 \in 1 .. 5 /\ 1 \in 1 .. Len(userTable) + 1
      BY <1>1, <2>1
    <3> QED
      BY <1>2, <2>1, <3>1 DEF TurnType, Turn
  <2>5. ASSUME NEW p \in 1 .. 5, NEW r \in Rows, NEW n \in 1 .. Len(Calls(userTable[r], p))
        PROVE  Behind(p, r, n)' <=> Behind(p, r, n)
    <3>1. r \in 1 .. Len(userTable) /\ n \in Nat \ {0}
      BY <1>1, <1>3 DEF Rows
    <3>2. Behind(p, r, n) <=> turn.pass >= p
      BY <1>1, <2>1, <3>1 DEF Behind
    <3>3. Behind(p, r, n)' <=> turn.pass + 1 > p
      BY <1>1, <2>3, <3>1 DEF Behind
    <3> QED
      BY <1>1, <3>2, <3>3
  <2> QED
    BY <1>2, <2>4, <2>5
<1> QED
  BY <1>4, <1>5

(* A call that returns is made, if what the earlier ones have made remains.  *)
LEMMA ReturnMakes ==
  ASSUME TurnType, CallsMade, NEW op, Call(op), Return,
         NEW now, now = Current, Made(now)',
         \A p \in 1 .. 5, r \in Rows : \A n \in 1 .. Len(Calls(userTable[r], p)) :
           \A c \in {Calls(userTable[r], p)[n]} : Behind(p, r, n) /\ Made(c) => Made(c)'
  PROVE  TurnType' /\ CallsMade'
<1>1. /\ TurnType' /\ Rows' = Rows
      /\ \A p \in 1 .. 5, r \in Rows : \A n \in Nat :
           Behind(p, r, n)' <=> Behind(p, r, n) \/ (p = turn.pass /\ r = turn.row /\ n = turn.call)
  BY ReturnPasses
<1>2. userTable' = userTable
  BY DEF Return, GoTo
<1>3. ASSUME NEW p \in 1 .. 5, NEW r \in Rows, NEW n \in 1 .. Len(Calls(userTable[r], p)),
             NEW c \in {Calls(userTable[r], p)[n]}, Behind(p, r, n)'
      PROVE  Made(c)'
  <2>1. CASE Behind(p, r, n)
    <3>1. Made(c)
      BY <2>1 DEF CallsMade
    <3> QED
      BY <2>1, <3>1
  <2>2. CASE p = turn.pass /\ r = turn.row /\ n = turn.call
    <3>1. c = Current
      BY <2>2, CalledIs
    <3>2. c = now
      BY <3>1
    <3> QED
      BY <3>2
  <2>3. n \in Nat
    <3>1. Len(Calls(userTable[r], p)) \in Nat
      BY CallsAreCounted DEF TurnType, Rows
    <3> QED
      BY <3>1
  <2> QED
    BY <1>1, <1>3, <2>1, <2>2, <2>3
<1> QED
  BY <1>1, <1>2, <1>3 DEF CallsMade

LEMMA AddGroupMakes ==
  ASSUME TurnType, CallsMade, AddGroup
  PROVE  /\ TurnType' /\ CallsMade' /\ turn.pass \in 1 .. 3
         /\ \A p \in 1 .. 5, r \in Rows : \A n \in 1 .. Len(Calls(userTable[r], p)) :
              Behind(p, r, n) => p \in 1 .. 3
<1>1. Call("group") /\ Return /\ turn.pass \in 1 .. 3
  BY CalledIs DEF AddGroup
<1>2. PICK now : now = Current
  OBVIOUS
<1>3. PICK id : gid' = With(gid, now.group, id) /\ members' = With(members, now.group, Members(now.group))
  BY <1>2 DEF AddGroup
<1>4. DOMAIN gid' = DOMAIN gid \cup {now.group} /\ DOMAIN members' = DOMAIN members \cup {now.group}
  BY <1>3 DEF With
<1>5. Made(now)'
  BY <1>1, <1>2, <1>4 DEF Made, Call
<1>6. ASSUME NEW p \in 1 .. 5, NEW r \in Rows, NEW n \in 1 .. Len(Calls(userTable[r], p)), Behind(p, r, n)
      PROVE  p \in 1 .. 3 /\ \A c \in {Calls(userTable[r], p)[n]} : Made(c) => Made(c)'
  <2>1. p \in 1 .. 3
    BY <1>1, <1>6 DEF Behind
  <2>2. userTable[r] \in UserLines
    BY DEF TurnType, Rows
  <2>3. ASSUME NEW c \in {Calls(userTable[r], p)[n]}, Made(c) PROVE Made(c)'
    <3>1. c.op = "group"
      <4>1. CASE p \in {1, 2}
        <5>1. c = MainGroupCall(userTable[r])
          BY <2>2, <4>1, GroupCallsAre
        <5> QED
          BY <5>1 DEF MainGroupCall, GroupCall
      <4>2. CASE p = 3
        <5>1. c = GroupCall(userTable[r].groups[n], ExtraId(userTable[r].uid))
          BY <2>2, <4>2, ExtraCallsAre
        <5> QED
          BY <5>1 DEF GroupCall
      <4> QED
        BY <2>1, <4>1, <4>2
    <3> QED
      BY <1>4, <2>3, <3>1 DEF Made
  <2> QED
    BY <2>1, <2>3
<1> QED
  BY <1>1, <1>2, <1>5, <1>6, ReturnMakes

(* A user that has been entered remains so, whoever is entered after.        *)
LEMMA AddUserMakes ==
  ASSUME TurnType, CallsMade, AddUser
  PROVE  /\ TurnType' /\ CallsMade' /\ turn.pass \in {4, 5}
         /\ \A a \in Existing(Current.line.username) :
              a.gid \in {gid[g] : g \in DOMAIN gid} =>
                passwd'[Current.line.username].gid = a.gid /\ passwd'[Current.line.username].uid = a.uid
<1>1. /\ Call("user") /\ Return /\ turn.pass \in {4, 5} /\ turn.row \in Rows
      /\ Current = UserCall(userTable[turn.row])
  BY CalledIs DEF AddUser
<1>2. PICK l : l = userTable[turn.row]
  OBVIOUS
<1>3. Current = UserCall(l) /\ Current.line = l /\ l \in UserLines
  BY <1>1, <1>2 DEF UserCall, TurnType, Rows
<1>4. PICK uid \in UidsFor(l.username, l.uid) :
        passwd' = With(passwd, l.username, [uid |-> uid, gid |-> gid[l.group]])
  BY <1>3 DEF AddUser
<1>5. /\ members' = WithMember(members, l) /\ UNCHANGED gid
      /\ GidValid(l) /\ UidValid(l) /\ SameGroup(l)
  BY <1>3 DEF AddUser, CheckUserValidity
<1>6. /\ DOMAIN passwd' = DOMAIN passwd \cup {l.username}
      /\ passwd'[l.username].uid = uid /\ passwd'[l.username].gid = gid[l.group]
      /\ \A u \in DOMAIN passwd : u # l.username => passwd'[u] = passwd[u]
  BY <1>4 DEF With
<1>7. /\ DOMAIN members' = DOMAIN members
      /\ \A g \in DOMAIN members : /\ members[g] \subseteq members'[g]
                                   /\ g \in Range(l.groups) => l.username \in members'[g]
  BY <1>5 DEF WithMember
<1>8. ASSUME NEW p \in {1, 2, 3}, NEW n \in 1 .. Len(Calls(l, p)), NEW c \in {Calls(l, p)[n]}
      PROVE  Made(c)
  <2>1. Behind(p, turn.row, n)
    BY <1>1 DEF Behind
  <2> QED
    BY <1>1, <1>2, <2>1 DEF CallsMade
<1>9. l.group \in DOMAIN gid
  <2>1. GroupPass(l) \in {1, 2} /\ Len(Calls(l, GroupPass(l))) = 1
        /\ Calls(l, GroupPass(l))[1] = MainGroupCall(l)
    BY <1>3, PassesAre, GroupCallsAre
  <2>2. Made(MainGroupCall(l))
    BY <1>8, <2>1
  <2> QED
    BY <2>2 DEF Made, MainGroupCall, GroupCall
<1>10. \A g \in Range(l.groups) : g \in DOMAIN members
  <2> SUFFICES ASSUME NEW g \in Range(l.groups) PROVE g \in DOMAIN members
    OBVIOUS
  <2>1. l.groups \in Seq(Groups)
    BY <1>3, PassesAre
  <2>2. PICK n \in 1 .. Len(l.groups) : g = l.groups[n]
    BY <2>1 DEF Range
  <2>3. n \in 1 .. Len(Calls(l, 3)) /\ Calls(l, 3)[n] = GroupCall(g, ExtraId(l.uid))
    BY <1>3, <2>2, ExtraCallsAre
  <2>4. Made(GroupCall(g, ExtraId(l.uid)))
    BY <1>8, <2>3
  <2> QED
    BY <2>4 DEF Made, GroupCall
<1>11. \A a \in Existing(l.username) : uid = a.uid
  <2> SUFFICES ASSUME NEW a \in Existing(l.username) PROVE uid = a.uid
    OBVIOUS
  <2>1. l.username \in DOMAIN passwd /\ a = passwd[l.username]
    BY DEF Existing
  <2>2. CASE l.uid \in AutoIds
    BY <1>4, <2>1, <2>2 DEF UidsFor
  <2>3. CASE l.uid \notin AutoIds
    BY <1>4, <1>5, <2>3 DEF UidsFor, UidValid
  <2> QED
    BY <2>2, <2>3
<1>12. ASSUME NEW a \in Existing(l.username), NEW g \in DOMAIN gid, a.gid = gid[g]
       PROVE  g = l.group
  BY <1>5, <1>12 DEF SameGroup, GroupsWith
<1>13. Entered(l)'
  <2>1. l.uid \notin AutoIds => l.uid > 0 /\ uid = l.uid
    BY <1>4, <1>5 DEF UidValid, UidsFor
  <2>2. l.gid \notin AutoIds =>
          l.gid > 0 /\ gid[l.group] = l.gid /\ GroupsWith(l.gid) \subseteq {l.group}
    BY <1>5 DEF GidValid
  <2>3. GroupsWith(l.gid)' = GroupsWith(l.gid)
    BY <1>5 DEF GroupsWith
  <2> QED
    BY <1>5, <1>6, <1>7, <1>9, <1>10, <2>1, <2>2, <2>3 DEF Entered
<1>14. ASSUME NEW m, Entered(m) PROVE Entered(m)'
  <2>1. GroupsWith(m.gid)' = GroupsWith(m.gid)
    BY <1>5 DEF GroupsWith
  <2>2. passwd'[m.username].uid = passwd[m.username].uid /\ passwd'[m.username].gid = passwd[m.username].gid
    <3>1. CASE m.username = l.username
      <4>1. passwd[m.username] \in Existing(l.username)
        BY <1>14, <3>1 DEF Entered, Existing
      <4>2. m.group = l.group
        BY <1>12, <1>14, <4>1 DEF Entered
      <4> QED
        BY <1>6, <1>11, <1>14, <3>1, <4>1, <4>2 DEF Entered
    <3>2. CASE m.username # l.username
      BY <1>6, <1>14, <3>2 DEF Entered
    <3> QED
      BY <3>1, <3>2
  <2>3. \A g \in Range(m.groups) : g \in DOMAIN members' /\ m.username \in members'[g]
    BY <1>7, <1>14 DEF Entered
  <2>4. m.username \in DOMAIN passwd'
    BY <1>6, <1>14 DEF Entered
  <2> QED
    BY <1>5, <1>14, <2>1, <2>2, <2>3, <2>4 DEF Entered
<1>15. PICK now : now = Current
  OBVIOUS
<1>16. Made(now)'
  BY <1>3, <1>13, <1>15 DEF Made, UserCall
<1>17. \A c : Made(c) => Made(c)'
  BY <1>5, <1>7, <1>14 DEF Made
<1>18. TurnType' /\ CallsMade'
  BY <1>1, <1>15, <1>16, <1>17, ReturnMakes
<1> QED
  BY <1>1, <1>3, <1>6, <1>11, <1>12, <1>18

-----------------------------------------------------------------------------
(* A home is owned by the ids that its user still has.                       *)
ChownsOwned ==
  /\ turn.pass \in 1 .. 3 => chowns = {}
  /\ \A c \in chowns : /\ c[1] \in DOMAIN passwd /\ passwd[c[1]] = [uid |-> c[2], gid |-> c[3]]
                       /\ c[3] \in {gid[g] : g \in DOMAIN gid}

(* Two groups share a gid only where a line has given it to one of them.     *)
Forced(names, id) ==
  \E p \in 1 .. 3, r \in Rows : \E n \in 1 .. Len(Calls(userTable[r], p)) :
    \E c \in {Calls(userTable[r], p)[n]} :
      Behind(p, r, n) /\ c.group \in names /\ c.gid = id /\ id \notin AutoIds
CollisionsForced ==
  \A g, h \in DOMAIN gid : \A id : gid[g] = id /\ gid[h] = id /\ g # h => Forced({g, h}, id)

OldMembersKept ==
  \A g \in DOMAIN skel.members : g \in DOMAIN members /\ skel.members[g] \subseteq members[g]
DoneAtEnd == verdict = "done" => turn.pass = 5 /\ turn.row > Len(userTable)

TableInv ==
  /\ TurnType /\ CallsMade /\ ChownsOwned /\ CollisionsForced /\ OldMembersKept /\ DoneAtEnd

LEMMA TableInvInit == UsersInit => TableInv
<1> SUFFICES ASSUME UsersInit PROVE TableInv
  OBVIOUS
<1>1. userTable \in Seq(UserLines) /\ Len(userTable) \in Nat
  BY UsersAssumption DEF UsersInit
<1>2. turn = [pass |-> 1, row |-> 1, call |-> 1] /\ verdict = "running" /\ chowns = {}
  BY DEF UsersInit, Turn
<1>3. TurnType
  BY <1>1, <1>2 DEF TurnType
<1>4. ASSUME NEW p \in 1 .. 5, NEW r \in Rows, NEW n \in 1 .. Len(Calls(userTable[r], p))
      PROVE  ~Behind(p, r, n)
  <2>1. Len(Calls(userTable[r], p)) \in Nat
    BY <1>1, CallsAreCounted DEF Rows
  <2>2. n \in Nat \ {0} /\ r \in Nat \ {0}
    BY <1>1, <2>1 DEF Rows
  <2> QED
    BY <1>2, <2>2 DEF Behind
<1>5. CallsMade
  BY <1>4 DEF CallsMade
<1>6. CollisionsForced
  BY UsersAssumption DEF UsersInit, CollisionsForced
<1>7. ChownsOwned /\ OldMembersKept /\ DoneAtEnd
  BY <1>2 DEF UsersInit, ChownsOwned, OldMembersKept, DoneAtEnd
<1> QED
  BY <1>3, <1>5, <1>6, <1>7 DEF TableInv

LEMMA AddGroupKeeps ==
  ASSUME TableInv, AddGroup
  PROVE  TableInv'
<1>1. TurnType /\ CallsMade /\ Call("group") /\ Return
  BY DEF TableInv, AddGroup
<1>2. TurnType' /\ CallsMade' /\ turn.pass \in 1 .. 3
  BY <1>1, AddGroupMakes
<1>3. /\ Rows' = Rows /\ turn'.pass = turn.pass /\ userTable' = userTable
      /\ \A p \in 1 .. 5, r \in Rows : \A n \in Nat :
           Behind(p, r, n)' <=> Behind(p, r, n) \/ (p = turn.pass /\ r = turn.row /\ n = turn.call)
  BY <1>1, ReturnPasses DEF Return, GoTo
<1>4. /\ turn.row \in Rows /\ turn.call \in 1 .. Len(Calls(userTable[turn.row], turn.pass))
      /\ Current = Calls(userTable[turn.row], turn.pass)[turn.call]
  BY <1>1, CalledIs
<1>5. PICK now : now = Current
  OBVIOUS
<1>6. PICK id \in GidsFor(now.group, now.gid) :
        gid' = With(gid, now.group, id) /\ members' = With(members, now.group, Members(now.group))
  BY <1>5 DEF AddGroup
<1>7. /\ DOMAIN gid' = DOMAIN gid \cup {now.group} /\ gid'[now.group] = id
      /\ \A g \in DOMAIN gid : g # now.group => gid'[g] = gid[g]
  BY <1>6 DEF With
<1>8. ChownsOwned'
  <2>1. chowns = {} /\ chowns' = chowns
    BY <1>2 DEF TableInv, ChownsOwned, AddGroup
  <2> QED
    BY <2>1 DEF ChownsOwned
<1>9. OldMembersKept'
  <2>1. \A g \in DOMAIN members : g \in DOMAIN members' /\ members[g] \subseteq members'[g]
    BY <1>6 DEF With, Members
  <2>2. skel' = skel
    BY <1>1 DEF Return, GoTo
  <2> QED
    BY <2>1, <2>2 DEF TableInv, OldMembersKept
<1>10. DoneAtEnd'
  BY <1>1 DEF DoneAtEnd, Call, Return, GoTo
<1>11. \A p \in 1 .. 5, r \in Rows : \A n \in 1 .. Len(Calls(userTable[r], p)) : n \in Nat
  <2> TAKE p \in 1 .. 5, r \in Rows
  <2>1. Len(Calls(userTable[r], p)) \in Nat
    BY <1>1, CallsAreCounted DEF TurnType, Rows
  <2> QED
    BY <2>1
<1>12. ASSUME NEW names, NEW given, Forced(names, given) PROVE Forced(names, given)'
  BY <1>3, <1>11, <1>12 DEF Forced
<1>13. ASSUME NEW g \in DOMAIN gid', NEW h \in DOMAIN gid', NEW shared,
              gid'[g] = shared, gid'[h] = shared, g # h
       PROVE  Forced({g, h}, shared)'
  <2>1. CASE g # now.group /\ h # now.group
    <3>1. g \in DOMAIN gid /\ h \in DOMAIN gid /\ gid[g] = shared /\ gid[h] = shared
      BY <1>7, <1>13, <2>1
    <3>2. Forced({g, h}, shared)
      BY <1>13, <3>1 DEF TableInv, CollisionsForced
    <3> QED
      BY <1>12, <3>2
  <2>2. CASE now.group \in {g, h}
    <3>1. shared = id
      BY <1>7, <1>13, <2>2
    <3>2. CASE now.gid \notin AutoIds
      <4>1. id = now.gid
        BY <1>6, <3>2 DEF GidsFor
      <4>2. PICK p, r, n : p = turn.pass /\ r = turn.row /\ n = turn.call
        OBVIOUS
      <4>3. p \in 1 .. 3 /\ p \in 1 .. 5 /\ r \in Rows /\ n \in Nat
        BY <1>1, <1>2, <1>4, <4>2 DEF TurnType
      <4>4. Behind(p, r, n)'
        BY <1>3, <4>2, <4>3
      <4>5. n \in 1 .. Len(Calls(userTable[r], p)) /\ now = Calls(userTable[r], p)[n]
        BY <1>4, <1>5, <4>2
      <4> QED
        BY <1>3, <2>2, <3>1, <3>2, <4>1, <4>3, <4>4, <4>5 DEF Forced
    <3>3. CASE now.gid \in AutoIds /\ now.group \in DOMAIN gid
      <4>1. id = gid[now.group]
        BY <1>6, <3>3 DEF GidsFor
      <4>2. g \in DOMAIN gid /\ h \in DOMAIN gid /\ gid[g] = shared /\ gid[h] = shared
        BY <1>7, <1>13, <3>3, <4>1
      <4>3. Forced({g, h}, shared)
        BY <1>13, <4>2 DEF TableInv, CollisionsForced
      <4> QED
        BY <1>12, <4>3
    <3>4. CASE now.gid \in AutoIds /\ now.group \notin DOMAIN gid
      <4>1. GroupsWith(id) = {}
        BY <1>6, <3>4 DEF GidsFor, FreeGids
      <4> QED
        BY <1>7, <1>13, <2>2, <3>1, <4>1 DEF GroupsWith
    <3> QED
      BY <3>2, <3>3, <3>4
  <2> QED
    BY <2>1, <2>2
<1>14. CollisionsForced'
  BY <1>13 DEF CollisionsForced
<1> QED
  BY <1>2, <1>8, <1>9, <1>10, <1>14 DEF TableInv

LEMMA AddUserKeeps ==
  ASSUME TableInv, AddUser
  PROVE  TableInv'
<1>1. TurnType /\ CallsMade /\ Call("user") /\ Return
  BY DEF TableInv, AddUser
<1>2. PICK l : l = Current.line
  OBVIOUS
<1>3. /\ TurnType' /\ CallsMade' /\ turn.pass \in {4, 5}
      /\ \A a \in Existing(l.username) :
           a.gid \in {gid[g] : g \in DOMAIN gid} =>
             passwd'[l.username].gid = a.gid /\ passwd'[l.username].uid = a.uid
  BY <1>1, <1>2, AddUserMakes
<1>4. /\ Rows' = Rows /\ turn'.pass = turn.pass /\ userTable' = userTable
      /\ \A p \in 1 .. 5, r \in Rows : \A n \in Nat :
           Behind(p, r, n)' <=> Behind(p, r, n) \/ (p = turn.pass /\ r = turn.row /\ n = turn.call)
  BY <1>1, ReturnPasses DEF Return, GoTo
<1>5. PICK uid :
        /\ passwd' = With(passwd, l.username, [uid |-> uid, gid |-> gid[l.group]])
        /\ chowns' = chowns \cup (IF l.home = "none" THEN {} ELSE {Owner(l, uid)})
  BY <1>2 DEF AddUser
<1>6. UNCHANGED gid /\ members' = WithMember(members, l)
  BY <1>2 DEF AddUser
<1>7. /\ DOMAIN passwd' = DOMAIN passwd \cup {l.username}
      /\ passwd'[l.username] = [uid |-> uid, gid |-> gid[l.group]]
      /\ \A u \in DOMAIN passwd : u # l.username => passwd'[u] = passwd[u]
  BY <1>5 DEF With
<1>8. l.group \in DOMAIN gid
  <2>1. /\ turn.row \in Rows /\ turn.call \in 1 .. Len(Calls(userTable[turn.row], turn.pass))
        /\ Current = Calls(userTable[turn.row], turn.pass)[turn.call] /\ Current = UserCall(userTable[turn.row])
    BY <1>1, CalledIs
  <2>2. PICK p, r, n, c : p = turn.pass /\ r = turn.row /\ n = turn.call /\ c = Current
    OBVIOUS
  <2>3. Behind(p, r, n)'
    <3>1. turn.call \in Nat /\ turn.pass \in 1 .. 5
      BY <1>1 DEF TurnType
    <3> QED
      BY <1>4, <2>1, <2>2, <3>1
  <2>4. Made(c)'
    <3>0. p \in 1 .. 5
      BY <1>1, <2>2 DEF TurnType
    <3>1. r \in Rows /\ n \in 1 .. Len(Calls(userTable[r], p)) /\ c = Calls(userTable[r], p)[n]
      BY <2>1, <2>2
    <3>2. Rows' = Rows /\ userTable' = userTable
      BY <1>4
    <3> QED
      BY <1>3, <2>3, <3>0, <3>1, <3>2 DEF CallsMade
  <2>5. c.op = "user" /\ c.line = l
    BY <1>2, <2>1, <2>2 DEF UserCall
  <2> QED
    BY <1>6, <2>4, <2>5 DEF Made, Entered
<1>9. ChownsOwned'
  <2>1. turn'.pass \notin 1 .. 3
    BY <1>3, <1>4
  <2>2. ASSUME NEW c \in chowns'
        PROVE  /\ c[1] \in DOMAIN passwd' /\ passwd'[c[1]] = [uid |-> c[2], gid |-> c[3]]
               /\ c[3] \in {gid[g] : g \in DOMAIN gid}
    <3>1. CASE c = Owner(l, uid)
      BY <1>7, <1>8, <3>1 DEF Owner
    <3>2. CASE c \in chowns
      <4>1. /\ c[1] \in DOMAIN passwd /\ passwd[c[1]] = [uid |-> c[2], gid |-> c[3]]
            /\ c[3] \in {gid[g] : g \in DOMAIN gid}
        BY <3>2 DEF TableInv, ChownsOwned
      <4>2. CASE c[1] = l.username
        <5>1. passwd[c[1]] \in Existing(l.username)
          BY <4>1, <4>2 DEF Existing
        <5>2. passwd'[c[1]].gid = c[3] /\ passwd'[c[1]].uid = c[2]
          BY <1>3, <4>1, <4>2, <5>1
        <5> QED
          BY <1>7, <4>1, <4>2, <5>2
      <4>3. CASE c[1] # l.username
        BY <1>7, <4>1, <4>3
      <4> QED
        BY <4>2, <4>3
    <3> QED
      BY <1>5, <3>1, <3>2
  <2> QED
    BY <1>6, <2>1, <2>2 DEF ChownsOwned
<1>10. OldMembersKept'
  <2>1. DOMAIN members' = DOMAIN members /\ \A g \in DOMAIN members : members[g] \subseteq members'[g]
    BY <1>6 DEF WithMember
  <2>2. skel' = skel
    BY <1>1 DEF Return, GoTo
  <2> QED
    BY <2>1, <2>2 DEF TableInv, OldMembersKept
<1>11. DoneAtEnd'
  BY <1>1 DEF DoneAtEnd, Call, Return, GoTo
<1>12. CollisionsForced'
  <2>1. \A p \in 1 .. 3, r \in Rows : \A n \in 1 .. Len(Calls(userTable[r], p)) :
          Behind(p, r, n) => Behind(p, r, n)'
    <3> TAKE p \in 1 .. 3, r \in Rows
    <3>1. Len(Calls(userTable[r], p)) \in Nat
      BY <1>1, CallsAreCounted DEF TurnType, Rows
    <3> QED
      BY <1>4, <3>1
  <2> QED
    BY <1>4, <1>6, <2>1 DEF TableInv, CollisionsForced, Forced
<1> QED
  BY <1>3, <1>9, <1>10, <1>11, <1>12 DEF TableInv

(* Steps that leave the files alone.                                         *)
LEMMA QuietKeeps ==
  ASSUME TableInv, NoGid \/ NoUser \/ NextEntry \/ NextPass \/ Finish \/ UNCHANGED usersVars
  PROVE  TableInv'
<1>1. UNCHANGED <<userTable, skel, userFiles, chowns>>
  BY DEF NoGid, NoUser, Fail, NextEntry, NextPass, GoTo, Finish, usersVars
<1>2. TurnType
  BY DEF TableInv
<1>3. /\ TurnType' /\ (turn'.pass \in 1 .. 3 => turn.pass \in 1 .. 3)
      /\ \A p \in 1 .. 5, r \in Rows : \A n \in 1 .. Len(Calls(userTable[r], p)) :
           Behind(p, r, n)' <=> Behind(p, r, n)
  <2>1. CASE NextEntry \/ NextPass
    <3>1. turn'.pass \in 1 .. 3 => turn.pass \in 1 .. 3
      BY <1>2, <2>1 DEF NextEntry, NextPass, GoTo, Turn, TurnType
    <3> QED
      BY <1>2, <2>1, <3>1, GoingOnPasses
  <2>2. CASE NoGid \/ NoUser \/ Finish \/ UNCHANGED usersVars
    <3>1. UNCHANGED turn
      BY <2>2 DEF NoGid, NoUser, Fail, Finish, usersVars
    <3> QED
      BY <1>1, <1>2, <3>1 DEF TurnType, Behind
  <2> QED
    BY <2>1, <2>2
<1>4. UNCHANGED <<passwd, gid, members>> /\ Rows' = Rows
  BY <1>1 DEF userFiles, Rows
<1>5. \A c : Made(c) => Made(c)'
  BY <1>4 DEF Made, Entered, GroupsWith
<1>6. CallsMade'
  BY <1>1, <1>3, <1>4, <1>5 DEF TableInv, CallsMade
<1>7. ChownsOwned'
  BY <1>1, <1>3, <1>4 DEF TableInv, ChownsOwned
<1>8. CollisionsForced'
  BY <1>1, <1>3, <1>4 DEF TableInv, CollisionsForced, Forced
<1>9. OldMembersKept'
  BY <1>1, <1>4 DEF TableInv, OldMembersKept
<1>10. DoneAtEnd'
  BY DEF TableInv, DoneAtEnd, NoGid, NoUser, Fail, NextEntry, NextPass, NoCallLeft, GoTo, Finish, usersVars
<1> QED
  BY <1>3, <1>6, <1>7, <1>8, <1>9, <1>10 DEF TableInv

(* A failure may leave a user without its line, and is the last step.        *)
UsersInv == TurnType /\ (verdict # "failed" => TableInv)

LEMMA UsersInvStep == UsersInv /\ [UsersNext]_usersVars => UsersInv'
<1> SUFFICES ASSUME UsersInv, [UsersNext]_usersVars PROVE UsersInv'
  OBVIOUS
<1>1. CASE verdict = "failed"
  <2>1. UNCHANGED <<userTable, turn, verdict>>
    BY <1>1 DEF UsersNext, AddGroup, NoGid, AddUser, NoUser, BadHome, NextEntry, NextPass, Finish, Call,
       NoCallLeft, usersVars
  <2> QED
    BY <1>1, <2>1 DEF UsersInv, TurnType
<1>2. CASE verdict # "failed" /\ BadHome
  <2>1. UNCHANGED <<userTable, turn>> /\ verdict' = "failed"
    BY <1>2 DEF BadHome
  <2> QED
    BY <2>1 DEF UsersInv, TurnType
<1>3. CASE verdict # "failed" /\ ~BadHome
  <2>1. TableInv'
    BY <1>3, AddGroupKeeps, AddUserKeeps, QuietKeeps DEF UsersInv, UsersNext
  <2> QED
    BY <2>1 DEF UsersInv, TableInv
<1> QED
  BY <1>1, <1>2, <1>3

-----------------------------------------------------------------------------
(* Two lines about one user, the first of which gives its uid.               *)
AskedTwice(r, s) == Len(userTable) = 2 /\ SameUserTwice(userTable[r], userTable[s])
WithGroup(l) == With(skel.gid, l.group, l.gid)
WithUser(l) == With(skel.passwd, l.username, [uid |-> l.uid, gid |-> l.gid])
AtFirst == turn.pass = 1 /\ turn.row = 1 /\ turn.call = 1
PairFits ==
  \A r, s \in Rows : \A l \in {userTable[r]} : AskedTwice(r, s) =>
    /\ verdict # "failed"
    /\ gid = IF AtFirst THEN skel.gid ELSE WithGroup(l)
    /\ passwd = IF Behind(4, r, 1) THEN WithUser(l) ELSE skel.passwd

LEMMA PairIs ==
  ASSUME TurnType, NEW r \in Rows, NEW s \in Rows, NEW l, NEW m,
         l = userTable[r], m = userTable[s], AskedTwice(r, s)
  PROVE  /\ l \in UserLines /\ m \in UserLines /\ Rows = {1, 2} /\ Rows = {r, s} /\ r # s
         /\ m.username = l.username /\ m.group = l.group /\ m.gid = l.gid /\ m.home = l.home
         /\ l.groups = <<>> /\ m.groups = <<>> /\ m.uid \in AutoIds
         /\ l.uid \in Int /\ l.uid > 0 /\ l.uid \notin AutoIds /\ m.uid < 0
         /\ l.gid \in Int /\ l.gid > 0 /\ l.gid \notin AutoIds
         /\ GroupPass(l) = 1 /\ GroupPass(m) = 1 /\ UserPass(l) = 4 /\ UserPass(m) = 5
<1>1. SameUserTwice(l, m) /\ Len(userTable) = 2
  BY DEF AskedTwice
<1>2. l \in UserLines /\ m \in UserLines /\ Rows = {1, 2}
  BY <1>1 DEF TurnType, Rows
<1>3. m = [l EXCEPT !.uid = m.uid] /\ l.groups = <<>> /\ l.uid > 0 /\ m.uid \in AutoIds /\ l.gid > 0
  BY <1>1 DEF SameUserTwice
<1>4. l.uid \in Int /\ l.gid \in Int
  BY <1>2, PassesAre
<1>5. m.username = l.username /\ m.group = l.group /\ m.gid = l.gid /\ m.home = l.home /\ m.groups = <<>>
  BY <1>2, <1>3 DEF UserLines
<1>6. l.uid \notin AutoIds /\ l.gid \notin AutoIds /\ m.uid < 0 /\ m.uid \in Int
  BY <1>3, <1>4 DEF AutoIds, AUTO_SYSTEM_ID, AUTO_USER_ID
<1>7. r # s
  BY <1>3, <1>6
<1>8. Rows = {r, s}
  BY <1>2, <1>7
<1>9. GroupPass(l) = 1 /\ GroupPass(m) = 1 /\ UserPass(l) = 4 /\ UserPass(m) = 5
  BY <1>3, <1>4, <1>5, <1>6 DEF GroupPass, UserPass
<1> QED
  BY <1>2, <1>3, <1>4, <1>5, <1>6, <1>7, <1>8, <1>9

(* The calls for them: the group twice, then the user with the uid, then the *)
(* user without.                                                             *)
LEMMA PairCalls ==
  ASSUME TurnType, NEW r \in Rows, NEW s \in Rows, NEW l, NEW m,
         l = userTable[r], m = userTable[s], AskedTwice(r, s), NEW op, Call(op)
  PROVE  \/ op = "group" /\ turn.pass = 1 /\ Current = GroupCall(l.group, l.gid)
         \/ op = "user" /\ turn.pass = 4 /\ turn.row = r /\ turn.call = 1 /\ Current = UserCall(l)
         \/ op = "user" /\ turn.pass = 5 /\ turn.row = s /\ turn.call = 1 /\ Current = UserCall(m)
<1>1. /\ l \in UserLines /\ m \in UserLines /\ Rows = {r, s}
      /\ m.group = l.group /\ m.gid = l.gid /\ l.groups = <<>> /\ m.groups = <<>>
      /\ GroupPass(l) = 1 /\ GroupPass(m) = 1 /\ UserPass(l) = 4 /\ UserPass(m) = 5
  BY PairIs
<1>2. /\ turn.row \in Rows /\ turn.call \in 1 .. Len(Calls(userTable[turn.row], turn.pass))
      /\ Current = Calls(userTable[turn.row], turn.pass)[turn.call]
      /\ op = "group" => turn.pass \in 1 .. 3
      /\ op = "user" => turn.pass \in {4, 5} /\ turn.call = 1 /\ Current = UserCall(userTable[turn.row])
      /\ op \in {"group", "user"}
  BY CalledIs
<1>3. PICK line : line = userTable[turn.row]
  OBVIOUS
<1>4. line \in {l, m} /\ line.group = l.group /\ line.gid = l.gid /\ GroupPass(line) = 1 /\ line.groups = <<>>
      /\ line \in UserLines
  BY <1>1, <1>2, <1>3
<1>5. ASSUME op = "group" PROVE turn.pass = 1 /\ Current = GroupCall(l.group, l.gid)
  <2>1. CASE turn.pass \in {1, 2}
    <3>1. turn.pass = 1 /\ Current = MainGroupCall(line)
      BY <1>2, <1>3, <1>4, <2>1, GroupCallsAre
    <3> QED
      BY <1>4, <3>1 DEF MainGroupCall
  <2>2. CASE turn.pass = 3
    <3>1. Len(Calls(line, 3)) = 0
      BY <1>4, ExtraCallsAre
    <3> QED
      BY <1>2, <1>3, <2>2, <3>1
  <2> QED
    BY <1>2, <1>5, <2>1, <2>2
<1>6. ASSUME op = "user"
      PROVE  \/ turn.pass = 4 /\ turn.row = r /\ Current = UserCall(l)
             \/ turn.pass = 5 /\ turn.row = s /\ Current = UserCall(m)
  <2>1. turn.pass \in {4, 5} /\ Current = UserCall(line)
    BY <1>2, <1>3, <1>6
  <2>2. turn.pass = UserPass(line)
    BY <1>2, <1>3, <1>4, <2>1, UserCallsAre
  <2> QED
    BY <1>1, <1>2, <1>3, <1>4, <2>1, <2>2
<1> QED
  BY <1>2, <1>5, <1>6

(* Neither user is refused.                                                  *)
LEMMA PairAccepted ==
  ASSUME TurnType, PairFits, NEW r \in Rows, NEW s \in Rows, NEW l, NEW m,
         l = userTable[r], m = userTable[s], AskedTwice(r, s), Call("user"),
         NEW line, line = Current.line
  PROVE  /\ CheckUserValidity(line) /\ UidsFor(line.username, line.uid) = {l.uid}
         /\ line.username = l.username /\ line.home # "invalid" /\ gid[line.group] = l.gid
<1>1. /\ l \in UserLines /\ m.username = l.username /\ m.group = l.group /\ m.gid = l.gid /\ m.home = l.home
      /\ m.uid \in AutoIds /\ l.uid \in Int /\ l.uid > 0 /\ l.uid \notin AutoIds
      /\ l.gid \in Int /\ l.gid > 0 /\ l.gid \notin AutoIds
  BY PairIs
<1>2. /\ l.username # "root" /\ l.username \notin DOMAIN skel.passwd /\ l.home # "invalid"
      /\ \A u \in DOMAIN skel.passwd : skel.passwd[u].uid # l.uid
      /\ \A g \in DOMAIN skel.gid : skel.gid[g] # l.gid
  BY DEF AskedTwice, SameUserTwice
<1>3. \/ turn.pass = 4 /\ turn.row = r /\ turn.call = 1 /\ Current = UserCall(l)
      \/ turn.pass = 5 /\ turn.row = s /\ turn.call = 1 /\ Current = UserCall(m)
  BY PairCalls
<1>4. gid = WithGroup(l)
  BY <1>3 DEF PairFits, AtFirst
<1>5. gid[l.group] = l.gid /\ GroupsWith(l.gid) = {l.group}
  BY <1>2, <1>4 DEF WithGroup, With, GroupsWith
<1>6. CASE turn.pass = 4
  <2>1. line = l
    BY <1>3, <1>6 DEF UserCall
  <2>2. passwd = skel.passwd
    <3>1. ~Behind(4, r, 1)
      BY <1>3, <1>6 DEF TurnType, Behind
    <3> QED
      BY <3>1 DEF PairFits
  <2>3. Existing(l.username) = {} /\ UsersWith(l.uid) = {}
    BY <1>2, <2>2 DEF Existing, UsersWith
  <2>4. CheckUserValidity(l)
    BY <1>1, <1>2, <1>5, <2>3 DEF CheckUserValidity, GidValid, UidValid, SameGroup
  <2>5. UidsFor(l.username, l.uid) = {l.uid}
    BY <1>1 DEF UidsFor
  <2> QED
    BY <1>2, <1>5, <2>1, <2>4, <2>5
<1>7. CASE turn.pass = 5
  <2>1. line = m
    BY <1>3, <1>7 DEF UserCall
  <2>2. passwd = WithUser(l)
    BY <1>3, <1>7 DEF PairFits, Behind
  <2>3. l.username \in DOMAIN passwd /\ passwd[l.username] = [uid |-> l.uid, gid |-> l.gid]
    BY <2>2 DEF WithUser, With
  <2>4. \A a \in Existing(l.username) : a.uid = l.uid /\ a.gid = l.gid
    BY <2>3 DEF Existing
  <2>5. CheckUserValidity(m)
    BY <1>1, <1>2, <1>5, <2>4 DEF CheckUserValidity, GidValid, UidValid, SameGroup
  <2>6. UidsFor(m.username, m.uid) = {l.uid}
    BY <1>1, <2>3 DEF UidsFor
  <2> QED
    BY <1>1, <1>2, <1>5, <2>1, <2>5, <2>6
<1> QED
  BY <1>3, <1>6, <1>7

LEMMA PairFitsStep ==
  ASSUME TurnType, PairFits, [UsersNext]_usersVars
  PROVE  PairFits'
<1>1. userTable' = userTable /\ skel' = skel /\ Rows' = Rows
  BY DEF UsersNext, AddGroup, NoGid, AddUser, NoUser, BadHome, NextEntry, NextPass, Finish, Return, GoTo, Fail,
     usersVars, Rows
<1> SUFFICES ASSUME NEW r \in Rows, NEW s \in Rows, NEW l, NEW m, l = userTable[r], m = userTable[s],
                    AskedTwice(r, s)
             PROVE  /\ verdict' # "failed"
                    /\ gid' = IF AtFirst' THEN skel.gid ELSE WithGroup(l)
                    /\ passwd' = IF Behind(4, r, 1)' THEN WithUser(l) ELSE skel.passwd
  <2>1. \A p, q, line : /\ AskedTwice(p, q)' <=> AskedTwice(p, q)
                        /\ WithGroup(line)' = WithGroup(line) /\ WithUser(line)' = WithUser(line)
    BY <1>1 DEF AskedTwice, SameUserTwice, WithGroup, WithUser
  <2> QED
    BY <1>1, <2>1 DEF PairFits
<1>2. /\ verdict # "failed"
      /\ gid = IF AtFirst THEN skel.gid ELSE WithGroup(l)
      /\ passwd = IF Behind(4, r, 1) THEN WithUser(l) ELSE skel.passwd
  BY DEF PairFits
<1>3. /\ l \in UserLines /\ m \in UserLines /\ Rows = {1, 2} /\ m.group = l.group
      /\ l.gid \notin AutoIds /\ GroupPass(l) = 1 /\ GroupPass(m) = 1 /\ UserPass(l) = 4
      /\ m.username = l.username /\ Rows = {r, s}
      /\ l.gid \in Int /\ l.gid > 0
  BY PairIs
<1>4. turn.pass \in 1 .. 5 /\ turn.row \in Nat \ {0} /\ turn.call \in Nat \ {0} /\ Len(userTable) = 2
  BY DEF TurnType, AskedTwice
<1>5. CASE AddGroup
  <2>1. Call("group") /\ Return /\ UNCHANGED <<passwd, verdict>>
    BY <1>5 DEF AddGroup, Return, GoTo
  <2>2. turn.pass = 1 /\ Current = GroupCall(l.group, l.gid)
    BY <2>1, PairCalls
  <2>3. gid' = With(gid, l.group, l.gid)
    BY <1>3, <1>5, <2>2 DEF AddGroup, GroupCall, GidsFor
  <2>4. gid' = WithGroup(l)
    BY <1>2, <2>3 DEF WithGroup, With
  <2>5. turn' = [turn EXCEPT !.call = turn.call + 1]
    BY <2>1 DEF Return, GoTo
  <2>6. turn'.pass = 1 /\ turn'.call # 1
    BY <1>4, <2>2, <2>5 DEF TurnType
  <2>7. ~AtFirst' /\ ~Behind(4, r, 1)' /\ ~Behind(4, r, 1)
    BY <2>2, <2>6 DEF AtFirst, Behind
  <2> QED
    BY <1>2, <2>1, <2>4, <2>7
<1>6. CASE NoGid
  <2>1. Call("group") /\ GidsFor(Current.group, Current.gid) = {}
    BY <1>6 DEF NoGid
  <2>2. Current = GroupCall(l.group, l.gid)
    BY <2>1, PairCalls
  <2> QED
    BY <1>3, <2>1, <2>2 DEF GidsFor, GroupCall
<1>7. CASE AddUser
  <2>1. Call("user") /\ Return /\ UNCHANGED <<gid, verdict>>
    BY <1>7 DEF AddUser, Return, GoTo
  <2>2. \/ turn.pass = 4 /\ turn.row = r /\ turn.call = 1 /\ Current = UserCall(l)
        \/ turn.pass = 5 /\ turn.row = s /\ turn.call = 1 /\ Current = UserCall(m)
    BY <2>1, PairCalls
  <2>3. PICK line : line = Current.line
    OBVIOUS
  <2>4. UidsFor(line.username, line.uid) = {l.uid} /\ line.username = l.username /\ gid[line.group] = l.gid
    BY <2>1, <2>3, PairAccepted
  <2>5. passwd' = With(passwd, l.username, [uid |-> l.uid, gid |-> l.gid])
    BY <1>7, <2>3, <2>4 DEF AddUser
  <2>6. passwd' = WithUser(l)
    BY <1>2, <2>5 DEF WithUser, With
  <2>7. turn' = [turn EXCEPT !.call = turn.call + 1]
    BY <2>1 DEF Return, GoTo
  <2>8. turn'.pass = turn.pass /\ turn'.row = turn.row /\ turn'.call = 2
    BY <1>4, <2>2, <2>7 DEF TurnType
  <2>9. ~AtFirst /\ ~AtFirst' /\ Behind(4, r, 1)'
    BY <2>2, <2>8 DEF AtFirst, Behind
  <2> QED
    BY <1>2, <2>1, <2>6, <2>9
<1>8. CASE NoUser \/ BadHome
  <2>1. Call("user")
    BY <1>8 DEF NoUser, BadHome
  <2>2. PICK line : line = Current.line
    OBVIOUS
  <2>3. ~CheckUserValidity(line) \/ UidsFor(line.username, line.uid) = {} \/ line.home = "invalid"
    BY <1>8, <2>2 DEF NoUser, BadHome
  <2> QED
    BY <2>1, <2>2, <2>3, PairAccepted
<1>9. CASE NextEntry \/ NextPass
  <2>1. UNCHANGED <<passwd, gid, verdict>> /\ turn.call > Len(RowCalls)
    BY <1>9 DEF NextEntry, NextPass, NoCallLeft, GoTo, userFiles
  <2>2. ~AtFirst
    <3> SUFFICES ASSUME AtFirst PROVE FALSE
      OBVIOUS
    <3>1. RowCalls = Calls(userTable[1], 1) /\ userTable[1] \in {l, m}
      BY <1>3, <1>4 DEF AtFirst, RowCalls
    <3>2. Len(RowCalls) = 1
      BY <1>3, <3>1, GroupCallsAre
    <3> QED
      BY <2>1, <3>2 DEF AtFirst
  <2>3. ~AtFirst'
    BY <1>4, <1>9 DEF AtFirst, NextEntry, NextPass, GoTo, Turn
  <2>4. Behind(4, r, 1)' <=> Behind(4, r, 1)
    <3>1. Len(Calls(userTable[r], 4)) = 1
      <4>1. IsUser(l)
        BY DEF AskedTwice, SameUserTwice
      <4> QED
        BY <1>3, <4>1, UserCallsAre
    <3>2. 1 \in 1 .. Len(Calls(userTable[r], 4))
      BY <3>1
    <3> QED
      BY <1>9, <3>2, GoingOnPasses
  <2> QED
    BY <1>2, <2>1, <2>2, <2>3, <2>4
<1>10. CASE Finish \/ UNCHANGED usersVars
  <2>1. UNCHANGED <<passwd, gid, turn>> /\ verdict' # "failed"
    BY <1>2, <1>10 DEF Finish, usersVars, userFiles
  <2>2. (AtFirst' <=> AtFirst) /\ (Behind(4, r, 1)' <=> Behind(4, r, 1))
    BY <2>1 DEF AtFirst, Behind
  <2> QED
    BY <1>2, <2>1, <2>2
<1> QED
  BY <1>5, <1>6, <1>7, <1>8, <1>9, <1>10 DEF UsersNext

LEMMA PairFitsInit == UsersInit => PairFits
<1> SUFFICES ASSUME UsersInit PROVE PairFits
  OBVIOUS
<1>1. turn = [pass |-> 1, row |-> 1, call |-> 1] /\ verdict = "running"
      /\ gid = skel.gid /\ passwd = skel.passwd
  BY DEF UsersInit, Turn
<1>2. AtFirst /\ \A r : ~Behind(4, r, 1)
  BY <1>1 DEF AtFirst, Behind
<1> QED
  BY <1>1, <1>2 DEF PairFits

-----------------------------------------------------------------------------
(* When main is at the end of the table, all is done.                        *)
LEMMA AllEntered ==
  ASSUME TableInv, verdict = "done", NEW r \in Rows, IsUser(userTable[r])
  PROVE  Entered(userTable[r])
<1>1. PICK l : l = userTable[r]
  OBVIOUS
<1>2. l \in UserLines /\ r \in 1 .. Len(userTable) /\ Len(userTable) \in Nat
  BY <1>1 DEF TableInv, TurnType, Rows
<1>3. PICK p \in {4, 5} : p = UserPass(l)
  BY <1>2, PassesAre
<1>4. 1 \in 1 .. Len(Calls(l, p)) /\ Calls(l, p)[1] = UserCall(l)
  BY <1>1, <1>2, <1>3, UserCallsAre
<1>5. Behind(p, r, 1)
  BY <1>2, <1>3 DEF TableInv, TurnType, DoneAtEnd, Behind
<1>6. Made(UserCall(l))
  BY <1>1, <1>3, <1>4, <1>5 DEF TableInv, CallsMade
<1> QED
  BY <1>1, <1>6 DEF Made, UserCall

LEMMA HonouredAtEnd == UsersInv /\ PairFits => TableIsHonoured
<1>f. ASSUME verdict = "failed", PairFits PROVE TableIsHonoured
  <2>1. SpecifiedUidFits
    BY <1>f DEF SpecifiedUidFits, PairFits, AskedTwice, Rows
  <2> QED
    BY <1>f, <2>1 DEF TableIsHonoured, GivenIdsUsed, MembersKept, HomesOwned, GidsUnique
<1> SUFFICES ASSUME TableInv, PairFits PROVE TableIsHonoured
  BY <1>f DEF UsersInv
<1>0. \A r \in Rows : userTable[r] \in UserLines
  BY DEF TableInv, TurnType, Rows
<1>1. GivenIdsUsed
  <2> SUFFICES ASSUME verdict = "done", NEW r \in Rows, IsUser(userTable[r])
               PROVE  /\ userTable[r].uid >= 0 => passwd[userTable[r].username].uid = userTable[r].uid
                      /\ userTable[r].gid >= 0 => gid[userTable[r].group] = userTable[r].gid
                      /\ passwd[userTable[r].username].gid = gid[userTable[r].group]
    BY DEF GivenIdsUsed, Rows
  <2>1. Entered(userTable[r])
    BY AllEntered
  <2>2. userTable[r].uid \in Int /\ userTable[r].gid \in Int
    BY <1>0, PassesAre
  <2> QED
    BY <2>1, <2>2 DEF Entered, AutoIds, AUTO_SYSTEM_ID, AUTO_USER_ID
<1>2. MembersKept
  <2>1. ASSUME verdict = "done", NEW r \in Rows, IsUser(userTable[r]), NEW g \in Range(userTable[r].groups)
        PROVE  userTable[r].username \in members[g]
    <3>1. Entered(userTable[r])
      BY <2>1, AllEntered
    <3> QED
      BY <3>1 DEF Entered
  <2> QED
    BY <2>1 DEF MembersKept, TableInv, OldMembersKept, Rows
<1>3. HomesOwned
  BY DEF HomesOwned, TableInv, ChownsOwned
<1>4. GidsUnique
  <2> SUFFICES ASSUME verdict = "done", \A r \in Rows : IsUser(userTable[r]),
                      NEW g \in DOMAIN gid, NEW h \in DOMAIN gid, gid[g] = gid[h], g # h
               PROVE  FALSE
    BY DEF GidsUnique, Rows
  <2>1. PICK id : id = gid[g]
    OBVIOUS
  <2>2. Forced({g, h}, id)
    BY <2>1 DEF TableInv, CollisionsForced
  <2>3. PICK p \in 1 .. 3, r \in Rows : \E n \in 1 .. Len(Calls(userTable[r], p)) :
          \E c \in {Calls(userTable[r], p)[n]} : c.group \in {g, h} /\ c.gid = id /\ id \notin AutoIds
    BY <2>2 DEF Forced
  <2>n. PICK n \in 1 .. Len(Calls(userTable[r], p)) :
          \E c \in {Calls(userTable[r], p)[n]} : c.group \in {g, h} /\ c.gid = id /\ id \notin AutoIds
    BY <2>3
  <2>4. PICK c : c = Calls(userTable[r], p)[n] /\ c.group \in {g, h} /\ c.gid = id /\ id \notin AutoIds
    BY <2>n
  <2>5. PICK l \in UserLines : l = userTable[r] /\ Entered(l) /\ l.uid \in Int /\ l.gid \in Int
    BY <1>0, AllEntered, PassesAre
  <2>6. CASE p \in {1, 2}
    <3>1. c = MainGroupCall(l)
      BY <2>4, <2>5, <2>6, GroupCallsAre
    <3>2. l.group \in {g, h} /\ l.gid = id
      BY <2>4, <3>1 DEF MainGroupCall, GroupCall
    <3> QED
      BY <2>1, <2>4, <2>5, <3>2 DEF Entered, GroupsWith
  <2>7. CASE p = 3
    <3>1. c = GroupCall(l.groups[n], ExtraId(l.uid))
      BY <2>4, <2>5, <2>7, ExtraCallsAre
    <3>2. ExtraId(l.uid) \notin AutoIds
      BY <2>4, <3>1 DEF GroupCall
    <3>3. l.uid <= 0 /\ l.uid \notin AutoIds
      BY <2>5, <3>2 DEF ExtraId, AutoIds
    <3> QED
      BY <2>5, <3>3 DEF Entered
  <2> QED
    BY <2>6, <2>7
<1>5. SpecifiedUidFits
  BY DEF SpecifiedUidFits, PairFits, AskedTwice, Rows
<1> QED
  BY <1>1, <1>2, <1>3, <1>4, <1>5 DEF TableIsHonoured

(* Whatever the table, skeleton and ranges are: a success of mkusers gives   *)
(* every user its ids, groups and home (main, add_one_group, add_one_user).  *)
THEOREM TableAlwaysHonoured == UsersSpec => []TableIsHonoured
<1>1. UsersInit => UsersInv /\ PairFits
  BY TableInvInit, PairFitsInit DEF UsersInv, TableInv
<1>2. UsersInv /\ PairFits /\ [UsersNext]_usersVars => UsersInv' /\ PairFits'
  BY UsersInvStep, PairFitsStep DEF UsersInv
<1> QED
  BY <1>1, <1>2, HonouredAtEnd, PTL DEF UsersSpec
=============================================================================
