----------------------------- MODULE PkgSteps ------------------------------
(***************************************************************************)
(* Runs of make over the step targets of package/pkg-generic.mk.  What     *)
(* outlives a run is the build directory: the stamp files with the order   *)
(* of their times, and the results of the steps.  A run considers targets  *)
(* from its goals down and remembers, as GNU make does, what it saw of a   *)
(* stamp file when it first considered it, whatever a "rm -f" of a         *)
(* clean-for-<command> recipe does to the file later.                      *)
(***************************************************************************)
EXTENDS PkgGraph

CONSTANTS
  Jobs,         \* -j: 1 without BR2_PER_PACKAGE_DIRECTORIES (.NOTPARALLEL)
  HasWait,      \* make is at least 4.4 and honours .WAIT
  GoalLists,    \* the command lines: sequences of targets
  MaxVersion,   \* bound on the edits of the sources of a package
  MaxRuns       \* bound on the runs of make

ASSUME StepsAssumption ==
  /\ Jobs \in Nat \ {0}
  /\ HasWait \in BOOLEAN
  /\ GoalLists \subseteq Seq(Targets)
  /\ MaxVersion \in Nat \ {0}
  /\ MaxRuns \in Nat

VARIABLES
  present,    \* stamps that exist
  stale,      \* stale[t]: the existing normal prerequisites touched after t
  complete,   \* steps whose work ran to its end since it was last begun
  version,    \* version[t]: version of the sources that work came from
  torn,       \* packages whose "rm -Rf" of the build directory did not end
  src,        \* src[p]: version of the sources of p
  run,        \* how the current run of make stands, or how the last one ended
  runs,       \* number of runs so far
  goals,      \* its goals
  mk,         \* what this run knows of each target
  rmleft,     \* rmleft[p]: stamps that the clean recipe has still to remove
  atStart     \* history: sources, and stamps up to date, as the run began

disk == <<present, stale, complete, version, torn>>
make == <<run, runs, goals, mk, rmleft>>
vars == <<disk, src, make, atStart>>

Seen == {"absent", "fresh", "outdated"}
Status == Seen \cup {"unseen", "running", "remade", "kept", "failed"}

Waiting(t) == mk[t] \in Seen
Done(t) == mk[t] \in {"remade", "kept"}
Running == {t \in Targets : mk[t] = "running"}
IsClean(t) == t[2] \in Cleans
IsStamp(t) == t \in Stamps
StampsOf(p) == {t \in Stamps : t[1] = p}

(* A stamp with everything it follows from, and those of them that hold.   *)
Chain[t \in Stamps] == {t} \cup UNION {Chain[q] : q \in Normal(t)}
UpToDate == {t \in Stamps : \A q \in Chain[t] : q \in present /\ stale[q] = {}}

-----------------------------------------------------------------------------
(* The files.                                                              *)
Touch(t) ==
  /\ present' = present \cup {t}
  /\ stale' = [s \in Stamps |-> IF s = t THEN {}
                                ELSE IF t \in Normal(s) /\ s \in present
                                     THEN stale[s] \cup {t} ELSE stale[s]]

Remove(S) ==
  /\ present' = present \ S
  /\ stale' = [s \in Stamps |-> IF s \in S THEN {} ELSE stale[s] \ S]

Stat(t) == CASE t \notin present -> "absent"
             [] t \in present /\ stale[t] # {} -> "outdated"
             [] OTHER -> "fresh"

(* The sources reached the build directory at some moment of this run.     *)
VersionsFor(t) == IF Input(t) = {} THEN atStart.src[t[1]] .. src[t[1]]
                  ELSE {version[q] : q \in Input(t)}

-----------------------------------------------------------------------------
Init ==
  /\ present = {} /\ complete = {} /\ torn = {}
  /\ stale = [t \in Stamps |-> {}]
  /\ version = [t \in Stamps |-> 0]
  /\ src = [p \in Packages |-> 1]
  /\ run = "idle" /\ runs = 0 /\ goals = <<>>
  /\ mk = [t \in Targets |-> "unseen"]
  /\ rmleft = [p \in Packages |-> <<>>]
  /\ atStart = [src |-> src, fresh |-> {}]

(* The developer changes the sources of an overridden package.             *)
Edit(p) ==
  /\ p \in Override /\ src[p] < MaxVersion
  /\ src' = [src EXCEPT ![p] = @ + 1]
  /\ UNCHANGED <<disk, make, atStart>>

StartRun(g) ==
  /\ run \notin {"going", "stopping"} /\ runs < MaxRuns
  /\ run' = "going" /\ runs' = runs + 1 /\ goals' = g
  /\ mk' = [t \in Targets |-> "unseen"]
  /\ rmleft' = [p \in Packages |-> <<>>]
  /\ atStart' = [src |-> src, fresh |-> UpToDate]
  /\ UNCHANGED <<disk, src>>

(* The goals in order; a serial make ends with one before the next.        *)
GoalReached(u) ==
  \E i \in 1..Len(goals) :
    /\ u = goals[i]
    /\ \A j \in 1..(i - 1) : IF Jobs = 1 THEN Done(goals[j])
                             ELSE mk[goals[j]] # "unseen"

(* Mutant: the package does not wait for the end of its cleaning.          *)
AfterWait_Ignored(w, u) == TRUE

(* "reinstall: clean-for-reinstall .WAIT pkg"                              *)
AfterWait(w, u) ==
  w[2] \in Commands /\ u[2] = "pkg" =>
    IF HasWait \/ Jobs = 1 THEN Done(<<w[1], CleanOf(w[2])>>)
                           ELSE mk[<<w[1], CleanOf(w[2])>>] # "unseen"

PrereqReached(u) ==
  \E w \in Targets :
    /\ Waiting(w) /\ u \in Prereqs(w) /\ AfterWait(w, u)
    /\ Jobs = 1 => \A v \in Prereqs(w) : ~Waiting(v)

Consider(u) ==
  /\ run = "going" /\ mk[u] = "unseen"
  /\ Jobs = 1 => Running = {}
  /\ GoalReached(u) \/ PrereqReached(u)
  /\ mk' = [mk EXCEPT ![u] = IF IsStamp(u) THEN Stat(u) ELSE "absent"]
  /\ UNCHANGED <<disk, src, run, runs, goals, rmleft, atStart>>

Ready(t) == run = "going" /\ Waiting(t) /\ \A q \in Prereqs(t) : Done(q)
Needed(t) == mk[t] # "fresh" \/ \E q \in Normal(t) : mk[q] = "remade"
SlotFree == Cardinality(Running) < Jobs

Keep(t) ==
  /\ Ready(t) /\ ~Needed(t)
  /\ mk' = [mk EXCEPT ![t] = "kept"]
  /\ UNCHANGED <<disk, src, run, runs, goals, rmleft, atStart>>

(* A phony target without a recipe: always newer than what depends on it.  *)
Group(t) ==
  /\ Ready(t) /\ t[2] \in Commands \cup {"pkg"}
  /\ mk' = [mk EXCEPT ![t] = "remade"]
  /\ UNCHANGED <<disk, src, run, runs, goals, rmleft, atStart>>

(* The recipe of "prepare" begins, or ends; it may fail as well.           *)
Prepare(t) ==
  /\ t \in Preparations
  /\ \/ Ready(t) /\ SlotFree /\ mk' = [mk EXCEPT ![t] = "running"]
     \/ mk[t] = "running" /\ mk' = [mk EXCEPT ![t] = "remade"]
  /\ UNCHANGED <<disk, src, run, runs, goals, rmleft, atStart>>

-----------------------------------------------------------------------------
(* Mutant: the stamp is touched before the commands of the step have run.  *)
BeginStep_TouchFirst(t) ==
  /\ IsStamp(t) /\ Ready(t) /\ Needed(t) /\ SlotFree
  /\ mk' = [mk EXCEPT ![t] = "running"]
  /\ complete' = complete \ {t}
  /\ Touch(t)
  /\ UNCHANGED <<version, torn, src, run, runs, goals, rmleft, atStart>>

(* A step: its hooks and commands, and "touch $@" as the last command.     *)
BeginStep(t) ==
  /\ IsStamp(t) /\ Ready(t) /\ Needed(t) /\ SlotFree
  /\ mk' = [mk EXCEPT ![t] = "running"]
  /\ complete' = complete \ {t}
  /\ UNCHANGED <<present, stale, version, torn, src, run, runs, goals, rmleft, atStart>>

EndStep(t) ==
  /\ IsStamp(t) /\ mk[t] = "running"
  /\ mk' = [mk EXCEPT ![t] = "remade"]
  /\ complete' = complete \cup {t}
  /\ \E v \in VersionsFor(t) : version' = [version EXCEPT ![t] = v]
  /\ Touch(t)
  /\ UNCHANGED <<torn, src, run, runs, goals, rmleft, atStart>>

(* A command of the recipe fails: make starts nothing more.                *)
FailStep(t) ==
  /\ t \in Stamps \cup Preparations /\ mk[t] = "running"
  /\ mk' = [mk EXCEPT ![t] = "failed"]
  /\ run' = "stopping"
  /\ UNCHANGED <<disk, src, runs, goals, rmleft, atStart>>

-----------------------------------------------------------------------------
BeginClean(t) ==
  /\ IsClean(t) /\ Ready(t) /\ SlotFree
  /\ mk' = [mk EXCEPT ![t] = "running"]
  /\ rmleft' = [rmleft EXCEPT ![t[1]] = Removes(t)]
  /\ UNCHANGED <<disk, src, run, runs, goals, atStart>>

(* One "rm -f $(<PKG>_TARGET_...)" line of the recipe.                     *)
RemoveStamp(t) ==
  /\ IsClean(t) /\ mk[t] = "running" /\ rmleft[t[1]] # <<>>
  /\ Remove({Head(rmleft[t[1]])})
  /\ rmleft' = [rmleft EXCEPT ![t[1]] = Tail(@)]
  /\ UNCHANGED <<complete, version, torn, src, run, runs, goals, mk, atStart>>

EndClean(t) ==
  /\ IsClean(t) /\ mk[t] = "running" /\ rmleft[t[1]] = <<>>
  /\ mk' = [mk EXCEPT ![t] = "remade"]
  /\ UNCHANGED <<disk, src, run, runs, goals, rmleft, atStart>>

(* "rm -Rf $(@D)" takes the files of the build directory in any order.     *)
BeginDirClean(t) ==
  /\ t[2] = "dirclean" /\ Ready(t) /\ SlotFree
  /\ mk' = [mk EXCEPT ![t] = "running"]
  /\ complete' = complete \ StampsOf(t[1])
  /\ torn' = torn \cup {t[1]}
  /\ \E S \in SUBSET StampsOf(t[1]) : Remove(S)
  /\ UNCHANGED <<version, src, run, runs, goals, rmleft, atStart>>

EndDirClean(t) ==
  /\ t[2] = "dirclean" /\ mk[t] = "running"
  /\ mk' = [mk EXCEPT ![t] = "remade"]
  /\ torn' = torn \ {t[1]}
  /\ Remove(StampsOf(t[1]))
  /\ UNCHANGED <<complete, version, src, run, runs, goals, rmleft, atStart>>

-----------------------------------------------------------------------------
Finish ==
  /\ \/ run = "going" /\ (\A i \in 1..Len(goals) : Done(goals[i])) /\ run' = "ok"
     \/ run = "stopping" /\ Running = {} /\ run' = "failed"
  /\ UNCHANGED <<disk, src, runs, goals, mk, rmleft, atStart>>

(* A signal, or the machine going down: the recipes die where they are.    *)
Interrupt ==
  /\ run \in {"going", "stopping"} /\ run' = "killed"
  /\ mk' = [t \in Targets |-> "unseen"]
  /\ UNCHANGED <<disk, src, runs, goals, rmleft, atStart>>

TargetStep(t) ==
  \/ Consider(t) \/ Keep(t) \/ Group(t) \/ Prepare(t) \/ BeginStep(t) \/ EndStep(t)
  \/ BeginClean(t) \/ RemoveStamp(t) \/ EndClean(t)
  \/ BeginDirClean(t) \/ EndDirClean(t)

MakeStep == Finish \/ \E t \in Targets : TargetStep(t)

Next ==
  \/ MakeStep
  \/ Interrupt
  \/ \E t \in Targets : FailStep(t)
  \/ \E p \in Packages : Edit(p)
  \/ \E g \in GoalLists : StartRun(g)

Spec == Init /\ [][Next]_vars

-----------------------------------------------------------------------------
(* Whatever failed or was killed before, a stamp that make would trust     *)
(* (there, with its normal prerequisites, none touched later) stands for   *)
(* work that ran to its end: the next run restarts every other step.  Only *)
(* an "rm -Rf" that did not end breaks it.                                 *)
StampsTellTheTruth ==
  \A t \in present :
    t[1] \notin torn /\ stale[t] = {} /\ Normal(t) \subseteq present => t \in complete

(* What the stamps say is installed was installed from the build tree as   *)
(* the last build left it, over any sequence of builds, edits, reinstalls, *)
(* failures and kills.                                                     *)
InstalledIsBuilt ==
  \A t \in UpToDate :
    t[1] \notin torn /\ t[2] \in InstallSteps
      => \A q \in Input(t) : q \in complete /\ version[t] = version[q]

(* A package is downloaded, extracted and configured when all the packages *)
(* that this step depends on are completely installed, none of their steps *)
(* running.                                                                *)
DependenciesComplete ==
  \A t \in Running \cap Stamps : \A d \in StepDeps(t) \ torn : \A s \in StampsOf(d) :
    s \in complete /\ mk[s] # "running"

(* The steps that a goal makes anew even when all stamps are up to date.   *)
Redone(g) ==
  LET p == g[1]
      install == Installs[p] \cup {"install"} \cup (IF p \in Override THEN {"rsync"} ELSE {})
  IN {<<p, s>> : s \in CASE g[2] = "reinstall" -> install
                          [] g[2] = "rebuild" -> install \cup {"build"}
                          [] g[2] = "reconfigure" -> install \cup {"build", "configure"}
                          [] g[2] = "dirclean" -> StampSteps(p)
                          [] OTHER -> {}}

RebuildTakesEffect ==
  run = "ok" => \A i \in 1..Len(goals) : goals[i][2] \in Commands =>
    \A t \in Redone(goals[i]) :
      /\ mk[t] = "remade"
      /\ goals[i][2] # "reinstall" => version[t] >= atStart.src[t[1]]

SuccessIsComplete ==
  run = "ok" => \A i \in 1..Len(goals) : goals[i][2] # "dirclean" =>
    StampsOf(goals[i][1]) \ {s \in Stamps : s[1] \in torn} \subseteq UpToDate \cap complete

(* A package cleaned after another goal has looked at its stamps would not be   *)
(* built again ("make app-rebuild lib-rebuild"), so that the commands keep      *)
(* their promise on these lines: "make a b ...", "make a-rebuild", and without  *)
(* -j "make a-dirclean a b".                                                    *)
CleansFirst(g) ==
  \A i \in 1..Len(g) :
    \/ g[i][2] = "pkg"
    \/ /\ g[i][2] \in Commands \cup {"dirclean"} /\ i = 1
       /\ Jobs = 1 \/ (Len(g) = 1 /\ HasWait)

CommandLinesCleanFirst == \A g \in GoalLists : CleansFirst(g)

(* A run that succeeds has done what its commands promise: pkg-rebuild has      *)
(* built and installed the package again, pkg-reconfigure configured it too,    *)
(* and what they installed has every edit made before the run.  It leaves the   *)
(* packages it was asked for installed and every stamp of theirs up to date,    *)
(* for the next run to do nothing.                                              *)
SuccessTakesEffect == RebuildTakesEffect /\ SuccessIsComplete
=============================================================================
