------------------------------ MODULE PkgGraph -----------------------------
(***************************************************************************)
(* The targets and prerequisites that package/pkg-generic.mk declares for  *)
(* each package.  A target is a pair <<package, name>>: the steps that     *)
(* leave a stamp file in the build directory of the package, and the phony *)
(* targets a user or another package names ("pkg" is $(1), the package).   *)
(*                                                                         *)
(* GNU make drops a circular prerequisite with a warning.  The packages    *)
(* here have none, which is what "make check-dependencies" finds out: its  *)
(* graph-depends -C follows the dependencies of all four kinds.            *)
(***************************************************************************)
EXTENDS Naturals, Sequences, FiniteSets

CONSTANTS
  Packages,
  Override,      \* packages with a <PKG>_OVERRIDE_SRCDIR
  Installs,      \* Installs[p]: the enabled steps among staging, target, ...
  Deps,          \* Deps[p]: <PKG>_FINAL_DEPENDENCIES
  DownloadDeps,  \* DownloadDeps[p]: <PKG>_FINAL_DOWNLOAD_DEPENDENCIES
  ExtractDeps,   \* ExtractDeps[p]: <PKG>_FINAL_EXTRACT_DEPENDENCIES
  PatchDeps      \* PatchDeps[p]: <PKG>_FINAL_PATCH_DEPENDENCIES

InstallSteps == {"staging", "target", "images", "host"}

AllDeps(p) == Deps[p] \cup DownloadDeps[p] \cup ExtractDeps[p] \cup PatchDeps[p]

ASSUME GraphAssumption ==
  /\ Override \subseteq Packages
  /\ Installs \in [Packages -> SUBSET InstallSteps]
  /\ Deps \in [Packages -> SUBSET Packages]
  /\ DownloadDeps \in [Packages -> SUBSET Packages]
  /\ ExtractDeps \in [Packages -> SUBSET Packages]
  /\ PatchDeps \in [Packages -> SUBSET Packages]
  /\ \A S \in SUBSET Packages \ {{}} : \E p \in S : AllDeps(p) \cap S = {}

-----------------------------------------------------------------------------
SourceSteps(p) == IF p \in Override THEN {"rsync"} ELSE {"source", "extract", "patch"}

(* The step after which the sources of p are ready.                        *)
TreeStep(p) == IF p \in Override THEN "rsync" ELSE "patch"

StampSteps(p) == SourceSteps(p) \cup {"configure", "build", "install"} \cup Installs[p]

Stamps == UNION {{<<p, s>> : s \in StampSteps(p)} : p \in Packages}

Cleans == {"clean-for-reinstall", "clean-for-rebuild", "clean-for-reconfigure"}
Commands == {"reinstall", "rebuild", "reconfigure"}

(* "prepare" and "dependencies", which come before the first step of every *)
(* package: phony targets of the top-level Makefiles whose recipes only    *)
(* run scripts and checks.  One target stands for both.                    *)
Preparations == {<<"make", "prepare">>}

Targets ==
  Stamps \cup Preparations \cup Packages \X ({"pkg", "dirclean"} \cup Cleans \cup Commands)

CleanOf(c) == CASE c = "reinstall" -> "clean-for-reinstall"
                [] c = "rebuild" -> "clean-for-rebuild"
                [] c = "reconfigure" -> "clean-for-reconfigure"

(* Mutant: installing starts without waiting for the build.                *)
InstallAfter_Unbuilt(p, s) == {}

InstallAfter(p, s) ==
  {"build"} \cup (IF s = "target" THEN Installs[p] \cap {"staging"} ELSE {})

(* Mutant: the last stamp does not ask for the enabled install steps.      *)
InstalledAfter_Build(p) == {"build"}

InstalledAfter(p) == {"build"} \cup Installs[p]

ConfigureAfter(p) == IF p \in Override THEN {} ELSE {"patch"}

(* Prerequisites whose renewal forces the target to be remade: they are    *)
(* all of the same package.                                                *)
Before(p, s) ==
  CASE s = "pkg" -> {"install"}
    [] s = "install" -> InstalledAfter(p)
    [] s \in InstallSteps -> InstallAfter(p, s)
    [] s = "build" -> {"configure"}
    [] s = "configure" -> ConfigureAfter(p)
    [] s = "patch" -> {"extract"}
    [] s = "extract" -> {"source"}
    [] s = "clean-for-rebuild" -> {"clean-for-reinstall"}
    [] s = "clean-for-reconfigure" -> {"clean-for-rebuild"}
    [] s \in Commands -> {CleanOf(s), "pkg"}
    [] OTHER -> {}

Normal(t) == {<<t[1], s>> : s \in Before(t[1], t[2])}

(* The packages that have to be installed before a step of another one.    *)
StepDeps(t) ==
  CASE t[2] = "configure" -> Deps[t[1]]
    [] t[2] = "extract" -> ExtractDeps[t[1]]
    [] t[2] = "source" -> DownloadDeps[t[1]]
    [] OTHER -> {}

(* Prerequisites of steps besides those packages that only have to be up   *)
(* to date before the target is.                                           *)
OrderOnlySteps(t) ==
  LET p == t[1]
  IN CASE t[2] = "configure" -> IF p \in Override THEN {<<p, "rsync">>} ELSE {}
       [] t[2] = "patch" -> {<<d, TreeStep(d)>> : d \in PatchDeps[p]}
       [] t[2] \in {"source", "rsync"} -> Preparations
       [] OTHER -> {}

(* Mutant: a step does not wait for the packages that it depends on.       *)
OrderOnly_NoDeps(t) == OrderOnlySteps(t)

OrderOnly(t) == {<<d, "pkg">> : d \in StepDeps(t)} \cup OrderOnlySteps(t)

Prereqs(t) == Normal(t) \cup OrderOnly(t)

(* The stamps that a clean target removes itself, in the order of its rm:  *)
(* also those of installations that are not enabled, which never exist.    *)
Removes(t) ==
  LET p == t[1]
      sourceStamp == IF p \in Override THEN <<<<p, "rsync">>>> ELSE <<>>
      installStamps == <<<<p, "install">>, <<p, "staging">>, <<p, "target">>,
                         <<p, "images">>, <<p, "host">>>>
  IN CASE t[2] = "clean-for-reinstall" -> sourceStamp \o installStamps
       [] t[2] = "clean-for-rebuild" -> <<<<p, "build">>>>
       [] t[2] = "clean-for-reconfigure" -> <<<<p, "configure">>>>

(* Where the work of a step starts from: the result of another step, or,
   for the first one, the sources themselves.                              *)
Input(t) ==
  LET p == t[1]
  IN CASE t[2] = "extract" -> {<<p, "source">>}
       [] t[2] = "patch" -> {<<p, "extract">>}
       [] t[2] \in {"configure", "build"} -> {<<p, TreeStep(p)>>}
       [] t[2] \in InstallSteps \cup {"install"} -> {<<p, "build">>}
       [] OTHER -> {}
=============================================================================
