---------------------------- MODULE MC_HostTools ----------------------------
(* Four programs of the host that are run once for each of their inputs: the  *)
(* toolchain wrapper, makedevs, mkusers and check-hash.  Each behaviour runs   *)
(* one of them.                                                               *)
EXTENDS ToolchainWrapper, MakeDevs, HashScan, MC_MkUsers

CONSTANTS MaxArguments, MaxEntries

VARIABLE tool

-----------------------------------------------------------------------------
(* The wrapper: one argument of each kind that it tells apart. *)
MCWords ==
  {"-msoft-float", "-mhard-float", "-mcpu=other", "-shared", "-static", "-fPIC", "-D__KERNEL__",
   "-L", "-I", "-isystem/usr/include", "-L/usr/lib", "-I.", "/usr/include", "x.c"}
MCOpt ==
  [w \in MCWords |-> CASE w \in {"-L", "-L/usr/lib"} -> "-L" [] w \in {"-I", "-I."} -> "-I"
                       [] w = "-isystem/usr/include" -> "-isystem" [] OTHER -> "none"]
MCPath ==
  [w \in MCWords |-> CASE w = "-L/usr/lib" -> "/usr/lib" [] w = "-isystem/usr/include" -> "/usr/include"
                       [] w = "-I." -> "." [] OTHER -> ""]
MCUnsafe == {"/usr/lib", "/usr/include"}
MCCommandLines == UNION {[1 .. n -> MCWords] : n \in 0 .. MaxArguments}
MCBuilds ==
  {{}, {"BR_FLOAT_ABI", "BR_CPU", "BR2_PIC_PIE", "BR2_RELRO_PARTIAL"},
   {"BR_CCACHE", "BR_FP32_MODE", "BR_ARCH", "BR_CPU", "BR_NEED_SOURCE_DATE_EPOCH", "BR2_PIC_PIE",
    "BR2_RELRO_FULL"}}

-----------------------------------------------------------------------------
(* makedevs: a directory with a file and links, one of which may lead nowhere. *)
MCParent ==
  ("/bin" :> "/") @@ ("/bin/su" :> "/bin") @@ ("/etc" :> "/") @@ ("/etc/su" :> "/etc")
  @@ ("/etc/lost" :> "/etc") @@ ("/srv" :> "/") @@ ("/srv/www" :> "/srv")
  @@ ("/n" :> "/") @@ ("/n1" :> "/") @@ ("/n2" :> "/")
MCPaths == DOMAIN MCParent
MCNode == [p \in MCPaths |-> IF p = "/n" THEN (1 :> "/n1") @@ (2 :> "/n2") ELSE (1 :> p)]
MCIdOf == ("" :> 0) @@ ("root" :> 0) @@ ("www" :> 33)
Empty == [p \in MCPaths |-> Absent]
Filled ==
  [Empty EXCEPT !["/bin"] = Dir(493, 0, 0), !["/bin/su"] = File(493, 0, 0), !["/etc"] = Dir(493, 0, 0),
                !["/etc/su"] = Link("/bin/su")]
MCTrees == {Filled, [Filled EXCEPT !["/etc/lost"] = Link("/srv/www")]}

Line0(name, type, mode, user) ==
  [is |-> "entry", name |-> name, type |-> type, mode |-> mode, user |-> user, group |-> "root",
   major |-> 0, minor |-> 0, start |-> 0, inc |-> 0, count |-> 0]
Device(name, type, minor, start, inc, count) ==
  [Line0(name, type, 438, "root") EXCEPT !.major = 5, !.minor = minor, !.start = start, !.inc = inc, !.count = count]
MCLines ==
  {Line0("/srv", "r", 488, "www"), Line0("/bin/su", "f", 2541, "root"), Line0("/bin/su", "f", Keep, "www"), Line0("/etc/su", "f", 420, "www"),
   Line0("/etc", "r", 488, "www"), Line0("/bin", "r", Keep, "www"), Line0("/srv/www", "d", 448, "www"),
   Line0("/srv", "d", Keep, "root"), Line0("/srv/www", "F", 420, "root"), Line0("/srv/www", "f", 420, "root"),
   Line0("/bin/su", "f", 420, "nobody"), Line0("/bin/su", "f", 493, None), Line0("/bin/su", "x", 493, "www"),
   Device("/n", "c", 1, 1, 2, 2), Device("/n", "b", 3, 0, 0, 0), Device("/srv/www", "p", 0, 0, 0, 1),
   [Device("/n", "p", 0, 0, 0, 0) EXCEPT !.mode = Keep],
   [is |-> "xattr", cap |-> "net_raw"], [is |-> "comment"],
   [is |-> "invalid", indented |-> TRUE], [is |-> "invalid", indented |-> FALSE]}
MCXattr == [is |-> "xattr", cap |-> "net_admin"]
MCTables ==
  LET short == UNION {[1 .. n -> MCLines] : n \in 1 .. MaxEntries}
  IN  short \cup {Append(t, MCXattr) : t \in short}

-----------------------------------------------------------------------------
NoBuild == {}
WrapperIdle ==
  /\ build = NoBuild /\ argv = <<>>
  /\ args = <<>> /\ at = 1 /\ option = 1 /\ stage = "paths" /\ status = Unset
DevIdle ==
  /\ tree = Filled /\ was = Filled /\ table = <<>> /\ lineno = 1 /\ full_name = NoPath
  /\ walk = {} /\ made = NoLoop /\ ret = "ok"
ScanIdle ==
  /\ hfiles = <<>> /\ noHash = FALSE /\ file = <<>> /\ i = 1 /\ k = 0
  /\ nb_h_files = 0 /\ nb_checks = 0 /\ code = Running
UsersIdle ==
  /\ userTable = <<>> /\ skel = Skeleton({}, {}, FALSE) /\ passwd = skel.passwd /\ gid = skel.gid
  /\ members = skel.members /\ gshadow = skel.gshadow
  /\ turn = Turn(1, 1, 1) /\ chowns = {} /\ verdict = "running"

Init ==
  \/ tool = "wrapper" /\ WrapperInit /\ DevIdle /\ ScanIdle /\ UsersIdle
  \/ tool = "makedevs" /\ DevInit /\ WrapperIdle /\ ScanIdle /\ UsersIdle
  \/ tool = "check-hash" /\ ScanInit /\ WrapperIdle /\ DevIdle /\ UsersIdle
  \/ tool = "mkusers" /\ UsersInit /\ WrapperIdle /\ DevIdle /\ ScanIdle

RunWrapper ==
  tool = "wrapper" /\ WrapperNext /\ UNCHANGED <<devVars, scanVars, usersVars, tool>>
RunMakeDevs ==
  tool = "makedevs" /\ DevNext /\ UNCHANGED <<wrapperVars, scanVars, usersVars, tool>>
RunCheckHash ==
  tool = "check-hash" /\ ScanNext /\ UNCHANGED <<wrapperVars, devVars, usersVars, tool>>
RunMkUsers ==
  tool = "mkusers" /\ UsersNext /\ UNCHANGED <<wrapperVars, devVars, scanVars, tool>>

Next == RunWrapper \/ RunMakeDevs \/ RunCheckHash \/ RunMkUsers

Spec == Init /\ [][Next]_<<wrapperVars, devVars, scanVars, usersVars, tool>>
=============================================================================
