-------------------------- MODULE PkgStepsProofs ---------------------------
(***************************************************************************)
(* Proof that the stamp files tell the truth over any number of runs of    *)
(* make, whatever the packages, the command lines, -j and .WAIT, and       *)
(* whichever steps fail or are killed.                                     *)
(*                                                                         *)
(* Truth is not inductive by itself.  It follows from what make knows: a   *)
(* step that it is about to run, is running, or has given up in this run   *)
(* is one whose stamp shows on disk that it needs to run, and it keeps     *)
(* showing it until the step ends, through every rm and every touch.       *)
(***************************************************************************)
EXTENDS PkgSteps, SequenceTheorems, TLAPS

(* What the next run of make sees of a step that it has to run.            *)
Suspect(t) == t \notin present \/ stale[t] # {} \/ ~(Normal(t) \subseteq present)

Types ==
  /\ present \subseteq Stamps
  /\ stale \in [Stamps -> SUBSET Stamps]
  /\ \A t \in Stamps : stale[t] \subseteq Normal(t)
  /\ mk \in [Targets -> Status]

UndoneSuspect == \A t \in Stamps : t \notin complete /\ t[1] \notin torn => Suspect(t)

AttemptedSuspect ==
  \A t \in Stamps : mk[t] \in {"absent", "outdated", "running", "failed"} => Suspect(t)

FollowersSuspect ==
  \A t \in Stamps : ~Done(t) /\ (\E q \in Normal(t) : mk[q] = "remade") => Suspect(t)

IndInv == Types /\ UndoneSuspect /\ AttemptedSuspect /\ FollowersSuspect

-----------------------------------------------------------------------------
(* The names of the steps are none of the names of the phony targets.      *)
LEMMA StampNames ==
  ASSUME NEW t \in Stamps
  PROVE  /\ t \in Targets /\ t[1] \in Packages /\ t[2] \in StampSteps(t[1])
         /\ t = <<t[1], t[2]>>
         /\ t[2] \notin Cleans /\ t[2] \notin Commands \cup {"pkg", "dirclean"}
         /\ t \notin Preparations
<1>1. PICK p \in Packages : \E s \in StampSteps(p) : t = <<p, s>>
  BY DEF Stamps
<1>2. PICK s \in StampSteps(p) : t = <<p, s>>
  BY <1>1
<1>3. t[1] = p /\ t[2] = s
  BY <1>2
<1>4. s \in {"rsync", "source", "extract", "patch", "configure", "build", "install",
             "staging", "target", "images", "host"}
  BY GraphAssumption DEF StampSteps, SourceSteps, InstallSteps
<1>5. /\ s \notin Cleans /\ s \notin Commands \cup {"pkg", "dirclean"}
      /\ t \notin Preparations
  BY <1>3, <1>4 DEF Cleans, Commands, Preparations
<1> QED
  BY <1>2, <1>3, <1>5 DEF Targets

LEMMA StepIsStamp ==
  ASSUME NEW p \in Packages, NEW s \in StampSteps(p)
  PROVE  <<p, s>> \in Stamps
BY DEF Stamps

(* A stamp only follows stamps.                                            *)
LEMMA NormalAreStamps ==
  ASSUME NEW t \in Stamps
  PROVE  Normal(t) \subseteq Stamps
<1> DEFINE p == t[1]
<1>1. p \in Packages /\ t[2] \in StampSteps(p) /\ t[2] \notin Cleans
      /\ t[2] \notin Commands \cup {"pkg", "dirclean"}
  BY StampNames
<1>2. SUFFICES Before(p, t[2]) \subseteq StampSteps(p)
  BY <1>1, <1>2, StepIsStamp DEF Normal
<1>3. Installs[p] \subseteq InstallSteps
  BY <1>1, GraphAssumption
<1>4. CASE t[2] = "install"
  BY <1>4 DEF Before, InstalledAfter, StampSteps, InstallSteps, Commands
<1>5. CASE t[2] \in Installs[p]
  BY <1>5, <1>3 DEF Before, InstallAfter, StampSteps, InstallSteps, Commands
<1>6. CASE t[2] = "build"
  BY <1>6 DEF Before, StampSteps, InstallSteps, Commands
<1>7. CASE t[2] = "configure"
  BY <1>7 DEF Before, ConfigureAfter, StampSteps, SourceSteps, InstallSteps, Commands
<1>8. CASE t[2] \in SourceSteps(p)
  BY <1>8 DEF Before, StampSteps, SourceSteps, InstallSteps, Commands
<1> QED
  BY <1>1, <1>4, <1>5, <1>6, <1>7, <1>8 DEF StampSteps

-----------------------------------------------------------------------------
(* Removing stamps hides nothing: what has to run still shows it.          *)
LEMMA RemoveKeepsSuspects ==
  ASSUME Types, NEW S, Remove(S)
  PROVE  /\ \A t \in Stamps : Suspect(t) => Suspect(t)'
         /\ mk' = mk => Types'
<1> USE DEF Types, Remove
<1>1. ASSUME NEW t \in Stamps, Suspect(t) PROVE Suspect(t)'
  BY <1>1 DEF Suspect
<1>2. mk' = mk => Types'
  OBVIOUS
<1> QED
  BY <1>1, <1>2

(* Touching a stamp settles that stamp alone, and shows on all those that  *)
(* follow it.                                                              *)
LEMMA TouchKeepsSuspects ==
  ASSUME Types, NEW u \in Stamps, Touch(u)
  PROVE  /\ \A t \in Stamps \ {u} : Suspect(t) => Suspect(t)'
         /\ \A t \in Stamps : u \in Normal(t) /\ t # u => Suspect(t)'
         /\ present' \subseteq Stamps
         /\ stale' \in [Stamps -> SUBSET Stamps]
         /\ \A t \in Stamps : stale'[t] \subseteq Normal(t)
<1> USE DEF Types, Touch
<1>1. ASSUME NEW t \in Stamps \ {u}, Suspect(t) PROVE Suspect(t)'
  BY <1>1 DEF Suspect
<1>2. ASSUME NEW t \in Stamps, u \in Normal(t), t # u PROVE Suspect(t)'
  BY <1>2 DEF Suspect
<1> QED
  BY <1>1, <1>2

-----------------------------------------------------------------------------
THEOREM IndInit == Init => IndInv
BY StampNames DEF Init, IndInv, Types, UndoneSuspect, AttemptedSuspect, FollowersSuspect,
                  Suspect, Status, Seen, Done

(* What the actions that only change what make knows have to preserve.     *)
LEMMA KnowledgeStep ==
  ASSUME IndInv, UNCHANGED <<present, stale, torn>>, mk' \in [Targets -> Status],
         \A t \in Stamps : t \in complete => t \in complete' \/ Suspect(t),
         AttemptedSuspect', FollowersSuspect'
  PROVE  IndInv'
BY DEF IndInv, Types, UndoneSuspect, Suspect

THEOREM IndStep == IndInv /\ [Next]_vars => IndInv'
<1> SUFFICES ASSUME IndInv, [Next]_vars PROVE IndInv'
  OBVIOUS
<1> USE DEF IndInv
<1>1. ASSUME NEW u \in Targets, Consider(u) PROVE IndInv'
  <2>1. mk' = [mk EXCEPT ![u] = IF IsStamp(u) THEN Stat(u) ELSE "absent"]
        /\ UNCHANGED disk
    BY <1>1 DEF Consider
  <2>2. /\ Stat(u) \in Seen
        /\ Stat(u) \in {"absent", "outdated"} => Suspect(u)
    BY DEF Stat, Seen, Suspect
  <2>3. mk' \in [Targets -> Status]
    BY <2>1, <2>2 DEF Types, Status, Seen
  <2>4. \A t \in Stamps : Suspect(t)' <=> Suspect(t)
    BY <2>1 DEF disk, Suspect
  <2>5. \A t \in Stamps : mk'[t] = IF t = u THEN Stat(u) ELSE mk[t]
    BY <2>1, StampNames DEF Types, IsStamp
  <2>6. AttemptedSuspect'
    BY <2>2, <2>4, <2>5 DEF AttemptedSuspect, Seen
  <2>7. ASSUME NEW t \in Stamps, ~Done(t)', NEW q \in Normal(t), mk'[q] = "remade"
        PROVE  Suspect(t)'
    <3>1. q \in Stamps /\ mk[q] = "remade"
      BY <2>2, <2>5, <2>7, NormalAreStamps DEF Seen
    <3>2. mk[u] = "unseen"
      BY <1>1 DEF Consider
    <3>3. ~Done(t)
      BY <2>5, <2>7, <3>2 DEF Done
    <3> QED
      BY <2>4, <3>1, <3>3 DEF FollowersSuspect
  <2>8. FollowersSuspect'
    BY <2>7 DEF FollowersSuspect
  <2> QED
    BY <2>1, <2>3, <2>6, <2>8, KnowledgeStep DEF disk
<1>2. ASSUME NEW u \in Targets, Keep(u) PROVE IndInv'
  <2>1. mk' = [mk EXCEPT ![u] = "kept"] /\ UNCHANGED disk
    BY <1>2 DEF Keep
  <2>2. mk' \in [Targets -> Status] /\ AttemptedSuspect'
    BY <2>1, StampNames DEF disk, Types, AttemptedSuspect, Suspect, Status, Seen
  <2>3. FollowersSuspect'
    BY <2>1, StampNames, NormalAreStamps DEF disk, Types, FollowersSuspect, Suspect, Done
  <2> QED
    BY <2>1, <2>2, <2>3, KnowledgeStep DEF disk
<1>3. ASSUME NEW u \in Targets, u \notin Stamps,
             \/ mk' = [mk EXCEPT ![u] = "remade"]
             \/ mk' = [mk EXCEPT ![u] = "running"]
      PROVE  /\ \A t \in Stamps : mk'[t] = mk[t]
             /\ mk' \in [Targets -> Status]
  BY <1>3, StampNames DEF Types, Status
<1>4. ASSUME NEW u \in Targets, Group(u) \/ Prepare(u) \/ BeginClean(u) \/ EndClean(u) PROVE IndInv'
  <2>1. u \notin Stamps
    BY <1>4, StampNames DEF Group, Prepare, BeginClean, EndClean, IsClean
  <2>2. UNCHANGED disk /\ (\/ mk' = [mk EXCEPT ![u] = "remade"]
                          \/ mk' = [mk EXCEPT ![u] = "running"])
    BY <1>4 DEF Group, Prepare, BeginClean, EndClean
  <2>3. (\A t \in Stamps : mk'[t] = mk[t]) /\ mk' \in [Targets -> Status]
    BY <2>1, <2>2, <1>3
  <2>4. AttemptedSuspect' /\ FollowersSuspect'
    BY <2>2, <2>3, NormalAreStamps DEF disk, AttemptedSuspect, FollowersSuspect, Suspect, Done
  <2> QED
    BY <2>2, <2>3, <2>4, KnowledgeStep DEF disk
<1>5. ASSUME NEW u \in Targets, BeginStep(u) PROVE IndInv'
  <2>1. /\ u \in Stamps
        /\ mk' = [mk EXCEPT ![u] = "running"] /\ complete' = complete \ {u}
        /\ UNCHANGED <<present, stale, torn>>
    BY <1>5 DEF BeginStep, IsStamp
  <2>2. Suspect(u)
    BY <1>5, <2>1 DEF BeginStep, Ready, Waiting, Needed, Seen, Done, AttemptedSuspect, FollowersSuspect
  <2>3. mk' \in [Targets -> Status] /\ AttemptedSuspect'
    BY <2>1, <2>2, StampNames DEF Types, AttemptedSuspect, Suspect, Status
  <2>4. FollowersSuspect'
    BY <2>1, <2>2, StampNames, NormalAreStamps DEF Types, FollowersSuspect, Suspect, Done
  <2> QED
    BY <2>1, <2>2, <2>3, <2>4, KnowledgeStep
<1>6. ASSUME NEW u \in Targets, EndStep(u) PROVE IndInv'
  <2>1. /\ u \in Stamps
        /\ mk' = [mk EXCEPT ![u] = "remade"] /\ complete' = complete \cup {u}
        /\ Touch(u) /\ torn' = torn
    BY <1>6 DEF EndStep, IsStamp
  <2>2. Types'
    BY <2>1, TouchKeepsSuspects DEF Types, Status
  <2>3. UndoneSuspect'
    BY <2>1, TouchKeepsSuspects DEF UndoneSuspect
  <2>4. AttemptedSuspect'
    BY <2>1, TouchKeepsSuspects, StampNames DEF AttemptedSuspect, Types
  <2>5. FollowersSuspect'
    BY <2>1, TouchKeepsSuspects, StampNames, NormalAreStamps DEF FollowersSuspect, Types, Done
  <2> QED
    BY <2>2, <2>3, <2>4, <2>5
<1>7. ASSUME NEW u \in Targets, FailStep(u) PROVE IndInv'
  <2>1. mk[u] = "running" /\ mk' = [mk EXCEPT ![u] = "failed"] /\ UNCHANGED disk
    BY <1>7 DEF FailStep
  <2>2. mk' \in [Targets -> Status] /\ AttemptedSuspect'
    BY <2>1, StampNames DEF disk, Types, AttemptedSuspect, Suspect, Status
  <2>3. FollowersSuspect'
    BY <2>1, StampNames, NormalAreStamps DEF disk, Types, FollowersSuspect, Suspect, Done
  <2> QED
    BY <2>1, <2>2, <2>3, KnowledgeStep DEF disk
<1>8. ASSUME NEW u \in Targets, RemoveStamp(u) PROVE IndInv'
  <2>1. Remove({Head(rmleft[u[1]])}) /\ UNCHANGED <<complete, torn, mk>>
    BY <1>8 DEF RemoveStamp
  <2>2. (\A t \in Stamps : Suspect(t) => Suspect(t)') /\ Types'
    BY <2>1, RemoveKeepsSuspects
  <2> QED
    BY <2>1, <2>2 DEF UndoneSuspect, AttemptedSuspect, FollowersSuspect, Done
<1>9. ASSUME NEW u \in Targets, BeginDirClean(u) \/ EndDirClean(u) PROVE IndInv'
  <2>1. PICK S : Remove(S)
    BY <1>9 DEF BeginDirClean, EndDirClean
  <2>2. u \notin Stamps
    BY <1>9, StampNames DEF BeginDirClean, EndDirClean
  <2>3. (\A t \in Stamps : mk'[t] = mk[t]) /\ mk' \in [Targets -> Status]
    BY <1>9, <2>2, <1>3 DEF BeginDirClean, EndDirClean
  <2>4. \A t \in Stamps : Suspect(t) => Suspect(t)'
    BY <2>1, RemoveKeepsSuspects
  <2>5. Types'
    BY <2>1, <2>3 DEF Types, Remove
  <2>6. AttemptedSuspect' /\ FollowersSuspect'
    BY <2>3, <2>4, NormalAreStamps DEF AttemptedSuspect, FollowersSuspect, Done
  <2>7. CASE BeginDirClean(u)
    BY <2>7, <2>4, <2>5, <2>6 DEF BeginDirClean, UndoneSuspect, StampsOf
  <2>8. CASE EndDirClean(u)
    <3>1. \A t \in StampsOf(u[1]) : Suspect(t)'
      BY <2>8 DEF EndDirClean, Remove, Suspect
    <3> QED
      BY <2>8, <3>1, <2>4, <2>5, <2>6 DEF EndDirClean, UndoneSuspect, StampsOf
  <2> QED
    BY <1>9, <2>7, <2>8
<1>10. ASSUME NEW g \in GoalLists, StartRun(g) PROVE IndInv'
  BY <1>10, StampNames, NormalAreStamps, KnowledgeStep
     DEF StartRun, disk, Types, AttemptedSuspect, FollowersSuspect, Status
<1>11. CASE Interrupt
  BY <1>11, StampNames, NormalAreStamps, KnowledgeStep
     DEF Interrupt, disk, Types, AttemptedSuspect, FollowersSuspect, Status
<1>12. ASSUME mk' = mk /\ UNCHANGED disk PROVE IndInv'
  BY <1>12 DEF disk, Types, UndoneSuspect, AttemptedSuspect, FollowersSuspect, Suspect, Done
<1>13. CASE Finish \/ (\E p \in Packages : Edit(p)) \/ UNCHANGED vars
  BY <1>13, <1>12 DEF Finish, Edit, vars, make
<1> QED
  BY <1>1, <1>2, <1>4, <1>5, <1>6, <1>7, <1>8, <1>9, <1>10, <1>11, <1>13
     DEF Next, MakeStep, TargetStep

(* A stamp that make would trust stands for work that ran to its end: an   *)
(* interrupted or failed step is restarted by the next run, in every       *)
(* graph of packages and under every schedule of the recipes.              *)
THEOREM StampsTrue == Spec => []StampsTellTheTruth
<1>1. IndInv => StampsTellTheTruth
  BY DEF IndInv, Types, UndoneSuspect, Suspect, StampsTellTheTruth
<1> QED
  BY <1>1, IndInit, IndStep, PTL DEF Spec

-----------------------------------------------------------------------------
(***************************************************************************)
(* Proof that what the stamps say is installed was installed from the      *)
(* build tree as the last build left it, for any packages, command lines,  *)
(* numbers of jobs, edits, failures and kills.                             *)
(*                                                                         *)
(* The property speaks of stamps that are up to date with all that they    *)
(* follow from.  What is inductive is about two stamps only: as long as an *)
(* installation has not been overtaken by the build, it is of its version. *)
(* That the build itself ran to its end is StampsTrue.                     *)
(***************************************************************************)

BuildOf(t) == <<t[1], "build">>

InstallFollowsBuild ==
  \A t \in Stamps :
    t[2] \in InstallSteps /\ {t, BuildOf(t)} \subseteq present /\ BuildOf(t) \notin stale[t]
      => version[t] = version[BuildOf(t)]

BuildInv == IndInv /\ InstallFollowsBuild /\ DOMAIN version = Stamps

-----------------------------------------------------------------------------
(* All that a stamp follows from is in its chain, and the recursion that   *)
(* defines it is well defined: the least sets closed under Normal obey it. *)
ClosedUnder(S) == \A r \in S : Normal(r) \subseteq S

Closure(t) == {q \in Stamps : \A S \in SUBSET Stamps : t \in S /\ ClosedUnder(S) => q \in S}

LEMMA ClosureClosed ==
  ASSUME NEW t \in Stamps
  PROVE  t \in Closure(t) /\ Closure(t) \subseteq Stamps /\ ClosedUnder(Closure(t))
BY NormalAreStamps DEF Closure, ClosedUnder

LEMMA ClosureLeast ==
  ASSUME NEW t \in Stamps, NEW S \in SUBSET Stamps, t \in S, ClosedUnder(S)
  PROVE  Closure(t) \subseteq S
BY DEF Closure

LEMMA ClosureStep ==
  ASSUME NEW t \in Stamps
  PROVE  Closure(t) = {t} \cup UNION {Closure(q) : q \in Normal(t)}
<1> DEFINE S == {t} \cup UNION {Closure(q) : q \in Normal(t)}
<1>1. \A q \in Normal(t) : q \in Closure(q) /\ Closure(q) \subseteq Stamps /\ ClosedUnder(Closure(q))
  BY NormalAreStamps, ClosureClosed
<1>2. S \in SUBSET Stamps /\ t \in S
  BY <1>1
<1>3. Normal(t) \subseteq S
  BY <1>1
<1>4. ASSUME NEW r \in S PROVE Normal(r) \subseteq S
  <2>1. CASE r = t
    BY <2>1, <1>3
  <2>2. CASE r # t
    <3>1. PICK q \in Normal(t) : r \in Closure(q)
      BY <2>2
    <3>2. Normal(r) \subseteq Closure(q)
      BY <3>1, <1>1 DEF ClosedUnder
    <3> QED
      BY <3>2
  <2> QED
    BY <2>1, <2>2
<1>5. Closure(t) \subseteq S
  <2>1. ClosedUnder(S)
    BY <1>4 DEF ClosedUnder
  <2> HIDE DEF S
  <2> QED
    BY <2>1, <1>2, ClosureLeast
<1>6. ASSUME NEW q \in Normal(t) PROVE Closure(q) \subseteq Closure(t)
  <2>1. q \in Closure(t) /\ Closure(t) \in SUBSET Stamps /\ ClosedUnder(Closure(t))
    BY ClosureClosed DEF ClosedUnder
  <2>2. q \in Stamps
    BY NormalAreStamps
  <2> QED
    BY <2>1, <2>2, ClosureLeast
<1>7. S \subseteq Closure(t)
  BY <1>6, ClosureClosed
<1> QED
  BY <1>5, <1>7

LEMMA ChainEquation ==
  ASSUME NEW t \in Stamps
  PROVE  Chain[t] = {t} \cup UNION {Chain[q] : q \in Normal(t)}
<1> DEFINE Obeys(f) == f = [s \in Stamps |-> {s} \cup UNION {f[q] : q \in Normal(s)}]
           c == [s \in Stamps |-> Closure(s)]
<1>1. ASSUME NEW s \in Stamps
      PROVE  c[s] = {s} \cup UNION {c[q] : q \in Normal(s)}
  <2>1. \A q \in Normal(s) : c[q] = Closure(q)
    BY NormalAreStamps
  <2>2. UNION {c[q] : q \in Normal(s)} = UNION {Closure(q) : q \in Normal(s)}
    BY <2>1
  <2> QED
    BY <2>2, ClosureStep
<1>2. Obeys(c)
  BY <1>1
<1>3. Chain = CHOOSE f : Obeys(f)
  BY DEF Chain
<1>4. Obeys(Chain)
  <2> HIDE DEF Obeys, c
  <2> QED
    BY <1>2, <1>3
<1> QED
  BY <1>4

LEMMA InstallAfterBuild ==
  ASSUME NEW t \in Stamps, t[2] \in InstallSteps
  PROVE  BuildOf(t) \in Normal(t) /\ BuildOf(t) # t
<1>1. "build" \in Before(t[1], t[2])
  <2>1. CASE t[2] = "staging"
    BY <2>1 DEF Before, InstallAfter, InstallSteps, Commands
  <2>2. CASE t[2] = "target"
    BY <2>2 DEF Before, InstallAfter, InstallSteps, Commands
  <2>3. CASE t[2] = "images"
    BY <2>3 DEF Before, InstallAfter, InstallSteps, Commands
  <2>4. CASE t[2] = "host"
    BY <2>4 DEF Before, InstallAfter, InstallSteps, Commands
  <2> QED
    BY <2>1, <2>2, <2>3, <2>4 DEF InstallSteps
<1>2. BuildOf(t) \in Normal(t)
  BY <1>1 DEF Normal, BuildOf
<1>3. BuildOf(t)[2] = "build" /\ t[2] # "build"
  BY DEF BuildOf, InstallSteps
<1> QED
  BY <1>2, <1>3

(* A stamp that is up to date is there and not stale, and so is the build  *)
(* it follows from, with what that follows from.                           *)
LEMMA UpToDateChain ==
  ASSUME NEW t \in UpToDate, t[2] \in InstallSteps
  PROVE  /\ BuildOf(t) \in Stamps
         /\ \A q \in {t, BuildOf(t)} \cup Normal(BuildOf(t)) : q \in present /\ stale[q] = {}
<1> DEFINE b == BuildOf(t)
<1>1. t \in Stamps /\ \A q \in Chain[t] : q \in present /\ stale[q] = {}
  BY DEF UpToDate
<1>2. b \in Normal(t)
  BY <1>1, InstallAfterBuild
<1>3. b \in Stamps
  BY <1>1, <1>2, NormalAreStamps
<1>4. \A r \in Stamps : r \in Chain[r] /\ \A q \in Normal(r) : Chain[q] \subseteq Chain[r]
  BY ChainEquation
<1>5. t \in Chain[t] /\ b \in Chain[t] /\ Chain[b] \subseteq Chain[t]
  BY <1>1, <1>2, <1>3, <1>4
<1>6. Normal(b) \subseteq Chain[b]
  BY <1>3, <1>4, NormalAreStamps
<1> QED
  BY <1>1, <1>3, <1>5, <1>6

-----------------------------------------------------------------------------
THEOREM BuildInit == Init => BuildInv
BY IndInit DEF Init, BuildInv, InstallFollowsBuild

(* What is not touched keeps its version, and no removal adds a stamp.     *)
LEMMA QuietStep ==
  ASSUME BuildInv, IndInv', UNCHANGED version,
         present' \subseteq present,
         \A t \in Stamps : t \in present' => stale[t] \cap present' \subseteq stale'[t]
  PROVE  BuildInv'
BY DEF BuildInv, InstallFollowsBuild, BuildOf

LEMMA RemoveIsQuiet ==
  ASSUME IndInv, NEW S, Remove(S)
  PROVE  /\ present' \subseteq present
         /\ \A t \in Stamps : t \in present' => stale[t] \cap present' \subseteq stale'[t]
BY DEF Remove, IndInv, Types

LEMMA EndStepKeeps ==
  ASSUME BuildInv, NEW u \in Targets, EndStep(u), IndInv'
  PROVE  BuildInv'
<1>1. PICK v \in VersionsFor(u) : version' = [version EXCEPT ![u] = v]
  BY DEF EndStep
<1>2. u \in Stamps /\ Touch(u)
  BY DEF EndStep, IsStamp
<1>3. DOMAIN version' = Stamps
  BY <1>1 DEF BuildInv
<1>4. ASSUME NEW t \in Stamps, t[2] \in InstallSteps,
             {t, BuildOf(t)} \subseteq present', BuildOf(t) \notin stale'[t]
      PROVE  version'[t] = version'[BuildOf(t)]
  <2> DEFINE b == BuildOf(t)
  <2>1. b \in Normal(t) /\ b # t
    BY <1>4, InstallAfterBuild
  <2>2. b \in Stamps
    BY <2>1, NormalAreStamps
  <2>3. CASE t = u
    <3>1. Input(u) = {b}
      BY <2>3, <1>4 DEF Input, BuildOf, InstallSteps
    <3>2. v = version[b]
      BY <3>1 DEF VersionsFor
    <3> QED
      BY <1>1, <2>1, <2>2, <2>3, <3>2 DEF BuildInv
  <2>4. CASE b = u
    <3>1. t \in present
      BY <1>2, <1>4, <2>1, <2>4 DEF Touch
    <3>2. b \in stale'[t]
      BY <1>2, <2>1, <2>4, <3>1 DEF Touch
    <3> QED
      BY <1>4, <3>2
  <2>5. CASE t # u /\ b # u
    <3>1. {t, b} \subseteq present /\ b \notin stale[t]
      BY <1>2, <1>4, <2>5 DEF Touch
    <3>2. version[t] = version[b]
      BY <1>4, <3>1 DEF BuildInv, InstallFollowsBuild
    <3> QED
      BY <1>1, <2>2, <2>5, <3>2 DEF BuildInv
  <2> QED
    BY <2>3, <2>4, <2>5
<1> QED
  BY <1>3, <1>4 DEF BuildInv, InstallFollowsBuild

THEOREM BuildStep == BuildInv /\ [Next]_vars => BuildInv'
<1> SUFFICES ASSUME BuildInv, [Next]_vars PROVE BuildInv'
  OBVIOUS
<1>1. IndInv /\ IndInv'
  BY IndStep DEF BuildInv
<1>2. ASSUME UNCHANGED disk PROVE BuildInv'
  BY <1>1, <1>2, QuietStep DEF disk
<1>3. ASSUME UNCHANGED <<present, stale, version>> PROVE BuildInv'
  BY <1>1, <1>3, QuietStep
<1>4. ASSUME UNCHANGED version, NEW S, Remove(S) PROVE BuildInv'
  BY <1>1, <1>4, QuietStep, RemoveIsQuiet
<1>5. ASSUME NEW u \in Targets, TargetStep(u) PROVE BuildInv'
  <2>1. CASE Consider(u) \/ Keep(u) \/ Group(u) \/ Prepare(u) \/ BeginClean(u) \/ EndClean(u)
    BY <2>1, <1>2 DEF Consider, Keep, Group, Prepare, BeginClean, EndClean
  <2>2. CASE BeginStep(u)
    BY <2>2, <1>3 DEF BeginStep
  <2>3. CASE EndStep(u)
    BY <2>3, <1>1, EndStepKeeps
  <2>4. CASE RemoveStamp(u) \/ BeginDirClean(u) \/ EndDirClean(u)
    BY <2>4, <1>4 DEF RemoveStamp, BeginDirClean, EndDirClean
  <2> QED
    BY <1>5, <2>1, <2>2, <2>3, <2>4 DEF TargetStep
<1>6. ASSUME NEW u \in Targets, FailStep(u) PROVE BuildInv'
  BY <1>6, <1>2 DEF FailStep
<1>7. CASE Finish \/ Interrupt \/ (\E p \in Packages : Edit(p)) \/ (\E g \in GoalLists : StartRun(g))
  BY <1>7, <1>2 DEF Finish, Interrupt, Edit, StartRun
<1>8. CASE UNCHANGED vars
  BY <1>8, <1>2 DEF vars
<1> QED
  BY <1>5, <1>6, <1>7, <1>8 DEF Next, MakeStep

(* An installation whose stamp is up to date, with all the stamps that it  *)
(* follows from, has the version of the build, and the build ran to its    *)
(* end.                                                                    *)
THEOREM InstalledTrue == Spec => []InstalledIsBuilt
<1>1. BuildInv => InstalledIsBuilt
  <2> SUFFICES ASSUME BuildInv, NEW t \in UpToDate, t[1] \notin torn, t[2] \in InstallSteps,
                      NEW q \in Input(t)
               PROVE  q \in complete /\ version[t] = version[q]
    BY DEF InstalledIsBuilt
  <2>1. q = BuildOf(t)
    BY DEF Input, BuildOf, InstallSteps
  <2>2. /\ q \in Stamps
        /\ \A r \in {t, q} \cup Normal(q) : r \in present /\ stale[r] = {}
    BY <2>1, UpToDateChain
  <2>3. ~Suspect(q)
    BY <2>2 DEF Suspect
  <2>4. q[1] \notin torn
    BY <2>1 DEF BuildOf
  <2>5. q \in complete
    BY <2>2, <2>3, <2>4 DEF BuildInv, IndInv, UndoneSuspect
  <2>6. t \in Stamps
    BY DEF UpToDate
  <2>7. version[t] = version[q]
    BY <2>1, <2>2, <2>6 DEF BuildInv, InstallFollowsBuild
  <2> QED
    BY <2>5, <2>7
<1> QED
  BY <1>1, BuildInit, BuildStep, PTL DEF Spec

-----------------------------------------------------------------------------
(***************************************************************************)
(* Proof that a package is downloaded, extracted and configured when all   *)
(* that the step depends on is completely installed, for any packages,     *)
(* dependencies, command lines, numbers of jobs, failures and kills.       *)
(*                                                                         *)
(* A dependency that the same run cleans is left out: make considers a     *)
(* stamp once, so "make lib lib-dirclean app" configures app without lib.  *)
(* Where the command lines ask for no cleaning, nothing is left out.       *)
(***************************************************************************)

CleanTargets(p) == {<<p, s>> : s \in Cleans \cup {"dirclean"}}

(* This run has begun to clean p.                                          *)
Cleaned(p) == \E t \in CleanTargets(p) : mk[t] \notin {"unseen"} \cup Seen

Packaged == Stamps \cup Preparations \cup {<<p, "pkg">> : p \in Packages}

(* Nothing is begun before all that it waits for is done.                  *)
PrereqsDone ==
  \A t \in Targets : mk[t] \in {"running", "remade", "kept", "failed"} =>
    \A q \in Prereqs(t) : Done(q)

(* What make saw of a stamp still holds, or shows in what it has remade.   *)
FreshStillHolds ==
  \A t \in Stamps : mk[t] = "fresh" /\ ~Cleaned(t[1]) =>
    /\ t \in present
    /\ stale[t] = {} \/ \E q \in Normal(t) : mk[q] = "remade"

DoneIsComplete ==
  \A t \in Stamps : Done(t) /\ ~Cleaned(t[1]) =>
    t \in present /\ stale[t] = {} /\ (t[1] \notin torn => t \in complete)

(* A clean recipe removes stamps of its own package.                       *)
Removable(p) ==
  {p} \X {"rsync", "install", "staging", "target", "images", "host", "build", "configure"}

OwnStampsLeft ==
  /\ DOMAIN rmleft = Packages
  /\ \A p \in Packages : rmleft[p] \in Seq(Removable(p))

DependsInv == IndInv /\ PrereqsDone /\ FreshStillHolds /\ DoneIsComplete /\ OwnStampsLeft

(* Every dependency that this run does not clean is completely installed.  *)
UncleanedComplete ==
  \A t \in Running \cap Stamps : \A d \in StepDeps(t) \ torn : ~Cleaned(d) =>
    \A s \in StampsOf(d) : s \in complete /\ mk[s] # "running"

-----------------------------------------------------------------------------
LEMMA CleanAreTargets ==
  ASSUME NEW p \in Packages
  PROVE  CleanTargets(p) \subseteq Targets
BY DEF CleanTargets, Targets

LEMMA CleanIsOwn ==
  ASSUME NEW u \in Targets, IsClean(u) \/ u[2] = "dirclean"
  PROVE  u[1] \in Packages /\ u \in CleanTargets(u[1])
<1>1. u \notin Stamps
  BY StampNames DEF IsClean
<1>2. u \in Packages \X ({"pkg", "dirclean"} \cup Cleans \cup Commands)
  BY <1>1 DEF Targets, Preparations, IsClean, Cleans
<1> QED
  BY <1>2 DEF IsClean, CleanTargets

LEMMA TreeStepIsStamp ==
  ASSUME NEW d \in Packages
  PROVE  <<d, TreeStep(d)>> \in Stamps
<1>1. TreeStep(d) \in StampSteps(d)
  BY DEF TreeStep, StampSteps, SourceSteps
<1> QED
  BY <1>1, StepIsStamp

LEMMA StepDepsArePackages ==
  ASSUME NEW t \in Stamps
  PROVE  StepDeps(t) \subseteq Packages
<1>1. t[1] \in Packages
  BY StampNames
<1> QED
  BY <1>1, GraphAssumption DEF StepDeps

LEMMA OrderOnlyArePackaged ==
  ASSUME NEW t \in Stamps
  PROVE  OrderOnly(t) \subseteq Packaged
<1>1. t[1] \in Packages
  BY StampNames
<1>2. {<<d, "pkg">> : d \in StepDeps(t)} \subseteq Packaged
  BY StepDepsArePackages DEF Packaged
<1>3. OrderOnlySteps(t) \subseteq Packaged
  <2>1. CASE t[2] = "configure"
    <3>1. OrderOnlySteps(t) = IF t[1] \in Override THEN {<<t[1], "rsync">>} ELSE {}
      BY <2>1 DEF OrderOnlySteps
    <3>2. t[1] \in Override => <<t[1], "rsync">> \in Stamps
      BY <1>1, StepIsStamp DEF StampSteps, SourceSteps
    <3> QED
      BY <3>1, <3>2 DEF Packaged
  <2>2. CASE t[2] = "patch"
    <3>1. OrderOnlySteps(t) = {<<d, TreeStep(d)>> : d \in PatchDeps[t[1]]}
      BY <2>2 DEF OrderOnlySteps
    <3> QED
      BY <1>1, <3>1, TreeStepIsStamp, GraphAssumption DEF Packaged
  <2>3. CASE t[2] \notin {"configure", "patch"}
    BY <2>3 DEF OrderOnlySteps, Packaged
  <2> QED
    BY <2>1, <2>2, <2>3
<1> QED
  BY <1>2, <1>3 DEF OrderOnly

(* A stamp or a package only waits for stamps and packages.                *)
LEMMA PackagedClosed ==
  ASSUME NEW t \in Packaged
  PROVE  Prereqs(t) \subseteq Packaged /\ t \in Targets
<1>1. CASE t \in Stamps
  BY <1>1, StampNames, NormalAreStamps, OrderOnlyArePackaged DEF Prereqs, Packaged
<1>2. CASE t \in Preparations
  <2>1. Normal(t) = {} /\ OrderOnly(t) = {}
    BY <1>2 DEF Preparations, Normal, Before, OrderOnly, StepDeps, OrderOnlySteps, Commands,
                InstallSteps
  <2> QED
    BY <1>2, <2>1 DEF Prereqs, Targets
<1>3. CASE t \notin Stamps \cup Preparations
  <2>1. PICK p \in Packages : t = <<p, "pkg">>
    BY <1>3 DEF Packaged
  <2>2. Normal(t) = {<<p, "install">>} /\ OrderOnly(t) = {}
    BY <2>1 DEF Normal, Before, OrderOnly, StepDeps, OrderOnlySteps, Commands, InstallSteps
  <2>3. <<p, "install">> \in Stamps
    BY StepIsStamp DEF StampSteps
  <2> QED
    BY <2>1, <2>2, <2>3 DEF Prereqs, Packaged, Targets
<1> QED
  BY <1>1, <1>2, <1>3

LEMMA TargetsClosed ==
  ASSUME NEW t \in Targets
  PROVE  Prereqs(t) \subseteq Targets
<1>1. CASE t \in Packaged
  BY <1>1, PackagedClosed DEF Packaged, Targets
<1>2. CASE t \notin Packaged
  <2> DEFINE p == t[1]
             s == t[2]
  <2>1. p \in Packages /\ s \in {"dirclean"} \cup Cleans \cup Commands /\ t = <<p, s>>
    <3>1. t \in Packages \X ({"pkg", "dirclean"} \cup Cleans \cup Commands)
      BY <1>2 DEF Targets, Packaged
    <3>2. t # <<p, "pkg">> \/ p \notin Packages
      BY <1>2 DEF Packaged
    <3> QED
      BY <3>1, <3>2
  <2>2. Before(p, s) \subseteq {"pkg"} \cup Cleans
    <3>1. CASE s \in Commands
      BY <3>1 DEF Before, CleanOf, Commands, Cleans, InstallSteps
    <3>2. CASE s \in Cleans
      BY <3>2 DEF Before, Commands, Cleans, InstallSteps
    <3>3. CASE s = "dirclean"
      BY <3>3 DEF Before, Commands, Cleans, InstallSteps
    <3> QED
      BY <2>1, <3>1, <3>2, <3>3
  <2>3. OrderOnly(t) = {}
    BY <2>1 DEF OrderOnly, StepDeps, OrderOnlySteps, Cleans, Commands
  <2> QED
    BY <2>1, <2>2, <2>3 DEF Prereqs, Normal, Targets
<1> QED
  BY <1>1, <1>2

-----------------------------------------------------------------------------
(* What a step may do to what make knows, but for its end.                 *)
Progress(u, v) ==
  /\ mk' = [mk EXCEPT ![u] = v]
  /\ \/ mk[u] = "unseen" /\ v \in Seen /\ (GoalReached(u) \/ PrereqReached(u))
     \/ Ready(u) /\ v \in {"kept", "remade", "running"}
     \/ mk[u] = "running" /\ v \in {"remade", "failed"}

Forgotten == mk' = [t \in Targets |-> "unseen"]

LEMMA KnowledgeGrows ==
  ASSUME [Next]_vars
  PROVE  mk' = mk \/ Forgotten \/ \E u \in Targets : \E v \in Status : Progress(u, v)
<1>1. ASSUME NEW u \in Targets, TargetStep(u)
      PROVE  mk' = mk \/ \E v \in Status : Progress(u, v)
  <2>1. CASE Consider(u)
    <3> DEFINE v == IF IsStamp(u) THEN Stat(u) ELSE "absent"
    <3>1. v \in Seen /\ v \in Status
      BY DEF Stat, Seen, Status
    <3>2. /\ mk[u] = "unseen" /\ mk' = [mk EXCEPT ![u] = v]
          /\ GoalReached(u) \/ PrereqReached(u)
      BY <2>1 DEF Consider
    <3> HIDE DEF v
    <3> QED
      BY <3>1, <3>2 DEF Progress
  <2>2. CASE Keep(u)
    BY <2>2 DEF Keep, Progress, Status
  <2>3. CASE Group(u) \/ Prepare(u)
    BY <2>3 DEF Group, Prepare, Progress, Status
  <2>4. CASE BeginStep(u) \/ BeginClean(u) \/ BeginDirClean(u)
    BY <2>4 DEF BeginStep, BeginClean, BeginDirClean, Progress, Status
  <2>5. CASE EndStep(u) \/ EndClean(u) \/ EndDirClean(u)
    BY <2>5 DEF EndStep, EndClean, EndDirClean, Progress, Status
  <2>6. CASE RemoveStamp(u)
    BY <2>6 DEF RemoveStamp
  <2> QED
    BY <1>1, <2>1, <2>2, <2>3, <2>4, <2>5, <2>6 DEF TargetStep
<1>2. ASSUME NEW u \in Targets, FailStep(u) PROVE \E v \in Status : Progress(u, v)
  BY <1>2 DEF FailStep, Progress, Status
<1>3. CASE Interrupt \/ \E g \in GoalLists : StartRun(g)
  BY <1>3 DEF Interrupt, StartRun, Forgotten
<1>4. CASE Finish \/ (\E p \in Packages : Edit(p)) \/ UNCHANGED vars
  BY <1>4 DEF Finish, Edit, vars, make
<1> QED
  BY <1>1, <1>2, <1>3, <1>4 DEF Next, MakeStep

(* In one run what is done stays done, and what is cleaned stays cleaned.  *)
LEMMA DoneStays ==
  ASSUME Types, mk' = mk \/ \E u \in Targets : \E v \in Status : Progress(u, v)
  PROVE  /\ \A t \in Targets : Done(t) => Done(t)'
         /\ \A t \in Targets : mk[t] = "remade" => mk'[t] = "remade"
         /\ \A p \in Packages : Cleaned(p) => Cleaned(p)'
<1>1. CASE mk' = mk
  BY <1>1 DEF Done, Cleaned
<1>2. ASSUME NEW u \in Targets, NEW v \in Status, Progress(u, v)
      PROVE  /\ \A t \in Targets : Done(t) => Done(t)'
             /\ \A t \in Targets : mk[t] = "remade" => mk'[t] = "remade"
             /\ \A p \in Packages : Cleaned(p) => Cleaned(p)'
  <2>1. \A t \in Targets : mk'[t] = IF t = u THEN v ELSE mk[t]
    BY <1>2 DEF Progress, Types
  <2>2. mk[u] \notin {"remade", "kept"}
    BY <1>2 DEF Progress, Ready, Waiting, Seen
  <2>3. mk[u] \notin {"unseen"} \cup Seen => v \notin {"unseen"} \cup Seen
    BY <1>2 DEF Progress, Ready, Waiting, Seen
  <2> QED
    BY <2>1, <2>2, <2>3, CleanAreTargets DEF Done, Cleaned
<1> QED
  BY <1>1, <1>2

LEMMA PrereqsStep ==
  ASSUME Types, PrereqsDone, [Next]_vars
  PROVE  PrereqsDone'
<1>1. CASE Forgotten
  BY <1>1 DEF Forgotten, PrereqsDone
<1>2. ASSUME NEW u \in Targets, NEW v \in Status, Progress(u, v),
             NEW t \in Targets, mk'[t] \in {"running", "remade", "kept", "failed"},
             NEW q \in Prereqs(t)
      PROVE  Done(q)'
  <2>1. t \in Targets /\ q \in Targets
    BY TargetsClosed
  <2>2. mk'[t] = IF t = u THEN v ELSE mk[t]
    BY <1>2, <2>1 DEF Progress, Types
  <2>3. Done(q)
    <3>1. CASE t = u
      <4>1. v \notin Seen
        BY <1>2, <2>2, <3>1 DEF Seen
      <4>2. CASE Ready(u)
        BY <4>2, <3>1 DEF Ready
      <4>3. CASE mk[u] = "running"
        BY <4>3, <3>1 DEF PrereqsDone
      <4> QED
        BY <1>2, <4>1, <4>2, <4>3 DEF Progress
    <3>2. CASE t # u
      BY <1>2, <2>2, <3>2 DEF PrereqsDone
    <3> QED
      BY <3>1, <3>2
  <2> QED
    BY <1>2, <2>1, <2>3, DoneStays
<1>3. CASE mk' = mk
  BY <1>3 DEF PrereqsDone, Done
<1> QED
  BY <1>1, <1>2, <1>3, KnowledgeGrows DEF PrereqsDone

-----------------------------------------------------------------------------
LEMMA RemovesOwn ==
  ASSUME NEW u \in Targets, IsClean(u)
  PROVE  Removes(u) \in Seq(Removable(u[1]))
<1> DEFINE p == u[1]
           first == IF p \in Override THEN <<<<p, "rsync">>>> ELSE <<>>
           others == <<<<p, "install">>, <<p, "staging">>, <<p, "target">>,
                       <<p, "images">>, <<p, "host">>>>
<1>1. first \in Seq(Removable(p)) /\ others \in Seq(Removable(p))
  BY DEF Removable
<1>2. CASE u[2] = "clean-for-reinstall"
  <2>1. Removes(u) = first \o others
    BY <1>2 DEF Removes
  <2> HIDE DEF first, others
  <2> QED
    BY <1>1, <2>1, ConcatProperties
<1>3. CASE u[2] = "clean-for-rebuild"
  <2>1. Removes(u) = <<<<p, "build">>>>
    BY <1>3 DEF Removes
  <2> QED
    BY <2>1 DEF Removable
<1>4. CASE u[2] = "clean-for-reconfigure"
  <2>1. Removes(u) = <<<<p, "configure">>>>
    BY <1>4 DEF Removes
  <2> QED
    BY <2>1 DEF Removable
<1> QED
  BY <1>2, <1>3, <1>4 DEF IsClean, Cleans

LEMMA OwnStep ==
  ASSUME OwnStampsLeft, [Next]_vars
  PROVE  OwnStampsLeft'
<1>1. ASSUME NEW u \in Targets, BeginClean(u) PROVE OwnStampsLeft'
  <2>1. IsClean(u) /\ rmleft' = [rmleft EXCEPT ![u[1]] = Removes(u)]
    BY <1>1 DEF BeginClean
  <2> QED
    BY <2>1, RemovesOwn DEF OwnStampsLeft
<1>2. ASSUME NEW u \in Targets, RemoveStamp(u) PROVE OwnStampsLeft'
  <2> DEFINE p == u[1]
  <2>1. /\ p \in Packages /\ rmleft[p] # <<>>
        /\ rmleft' = [rmleft EXCEPT ![p] = Tail(rmleft[p])]
    BY <1>2, CleanIsOwn DEF RemoveStamp
  <2>2. rmleft[p] \in Seq(Removable(p))
    BY <2>1 DEF OwnStampsLeft
  <2>3. Tail(rmleft[p]) \in Seq(Removable(p))
    BY <2>1, <2>2, HeadTailProperties
  <2> QED
    BY <2>1, <2>3 DEF OwnStampsLeft
<1>3. ASSUME NEW g \in GoalLists, StartRun(g) PROVE OwnStampsLeft'
  BY <1>3 DEF StartRun, OwnStampsLeft
<1>4. CASE rmleft' = rmleft
  BY <1>4 DEF OwnStampsLeft
<1>5. ASSUME NEW u \in Targets, TargetStep(u) PROVE OwnStampsLeft'
  BY <1>1, <1>2, <1>4, <1>5
     DEF TargetStep, Consider, Keep, Group, Prepare, BeginStep, EndStep, EndClean, BeginDirClean, EndDirClean
<1>6. ASSUME NEW u \in Targets, FailStep(u) PROVE OwnStampsLeft'
  BY <1>6, <1>4 DEF FailStep
<1>7. CASE Finish \/ Interrupt \/ (\E p \in Packages : Edit(p)) \/ UNCHANGED vars
  BY <1>7, <1>4 DEF Finish, Interrupt, Edit, vars, make
<1> QED
  BY <1>3, <1>5, <1>6, <1>7 DEF Next, MakeStep

-----------------------------------------------------------------------------
SeenInv == FreshStillHolds /\ DoneIsComplete

(* What is left to show of one stamp, which this run does not clean.       *)
Holds(t) ==
  /\ mk[t] = "fresh" =>
       t \in present /\ (stale[t] = {} \/ \E q \in Normal(t) : mk[q] = "remade")
  /\ Done(t) => t \in present /\ stale[t] = {} /\ (t[1] \notin torn => t \in complete)

(* Where the status of a stamp stays, it is enough that its file stays and *)
(* that what newly is newer has been remade, and does not follow from it.  *)
LEMMA HoldsStays ==
  ASSUME NEW t \in Stamps, Holds(t), mk'[t] = mk[t],
         t \in present => t \in present',
         t \in complete /\ t[1] \notin torn => t \in complete',
         t[1] \notin torn' => t[1] \notin torn,
         \/ stale'[t] \subseteq stale[t]
         \/ ~Done(t) /\ \E q \in Normal(t) : mk'[q] = "remade",
         \A q \in Normal(t) : mk[q] = "remade" => mk'[q] = "remade"
  PROVE  Holds(t)'
BY DEF Holds, Done

(* What make knows of a stamp goes on holding through every step of a run  *)
(* in which no cleaning takes it away.                                     *)
LEMMA HoldsStep ==
  ASSUME IndInv, PrereqsDone, [Next]_vars, ~Forgotten,
         NEW t \in Stamps, Holds(t), \A q \in Normal(t) : Done(q) => q \in present,
         \A u \in Targets : BeginDirClean(u) \/ EndDirClean(u) => u[1] # t[1],
         \A u \in Targets : RemoveStamp(u) => t # Head(rmleft[u[1]])
  PROVE  Holds(t)'
<1>1. mk' = mk \/ \E u \in Targets : \E v \in Status : Progress(u, v)
  BY KnowledgeGrows
<1>2. /\ t \in Targets /\ t[1] \in Packages
      /\ Normal(t) \subseteq Stamps /\ Stamps \subseteq Targets
  BY StampNames, NormalAreStamps
<1>3. \A q \in Normal(t) : mk[q] = "remade" => mk'[q] = "remade"
  BY <1>1, <1>2, DoneStays DEF IndInv
<1>4. mk \in [Targets -> Status] /\ stale \in [Stamps -> SUBSET Stamps]
  BY DEF IndInv, Types
<1>5. ASSUME mk'[t] = mk[t], UNCHANGED <<present, stale, complete, torn>> PROVE Holds(t)'
  BY <1>5, <1>3, HoldsStays
<1>6. ASSUME NEW u \in Targets, u \notin Stamps, NEW v, mk' = [mk EXCEPT ![u] = v]
      PROVE  mk'[t] = mk[t]
  BY <1>6, <1>2, <1>4
<1>7. ASSUME NEW u \in Targets, Consider(u) PROVE Holds(t)'
  <2>1. mk' = [mk EXCEPT ![u] = IF IsStamp(u) THEN Stat(u) ELSE "absent"]
        /\ UNCHANGED <<present, stale, complete, torn>>
    BY <1>7 DEF Consider, disk
  <2>2. CASE t = u
    <3>1. mk'[t] = Stat(t)
      BY <2>1, <2>2, <1>2, <1>4 DEF IsStamp
    <3>2. mk'[t] \in Seen /\ (mk'[t] = "fresh" => t \in present' /\ stale'[t] = {})
      BY <2>1, <3>1 DEF Stat, Seen
    <3> QED
      BY <3>2 DEF Holds, Done, Seen
  <2>3. CASE t # u
    BY <2>1, <2>3, <1>2, <1>4, <1>5
  <2> QED
    BY <2>2, <2>3
<1>8. ASSUME NEW u \in Targets, Keep(u) PROVE Holds(t)'
  <2>1. mk' = [mk EXCEPT ![u] = "kept"] /\ UNCHANGED <<present, stale, complete, torn>>
    BY <1>8 DEF Keep, disk
  <2>2. CASE t = u
    <3>1. mk[t] = "fresh" /\ (\A q \in Normal(t) : Done(q) /\ mk[q] # "remade")
      BY <1>8, <2>2 DEF Keep, Needed, Ready, Prereqs
    <3>2. t \in present /\ stale[t] = {}
      BY <3>1 DEF Holds
    <3>3. Normal(t) \subseteq present
      BY <3>1
    <3>4. t[1] \notin torn => t \in complete
      BY <3>2, <3>3 DEF IndInv, UndoneSuspect, Suspect
    <3>5. mk'[t] = "kept"
      BY <2>1, <2>2, <1>2, <1>4
    <3> QED
      BY <2>1, <3>2, <3>4, <3>5 DEF Holds
  <2>3. CASE t # u
    BY <2>1, <2>3, <1>2, <1>4, <1>5
  <2> QED
    BY <2>2, <2>3
<1>9. ASSUME NEW u \in Targets, Group(u) \/ Prepare(u) \/ BeginClean(u) \/ EndClean(u) PROVE Holds(t)'
  <2>1. u \notin Stamps
    BY <1>9, StampNames DEF Group, Prepare, BeginClean, EndClean, IsClean
  <2>2. UNCHANGED <<present, stale, complete, torn>> /\ \E v : mk' = [mk EXCEPT ![u] = v]
    BY <1>9 DEF Group, Prepare, BeginClean, EndClean, disk
  <2> QED
    BY <2>1, <2>2, <1>5, <1>6
<1>10. ASSUME NEW u \in Targets, BeginStep(u) PROVE Holds(t)'
  <2>1. /\ mk' = [mk EXCEPT ![u] = "running"] /\ complete' = complete \ {u}
        /\ UNCHANGED <<present, stale, torn>>
    BY <1>10 DEF BeginStep
  <2>2. CASE t = u
    <3>1. mk'[t] = "running"
      BY <2>1, <2>2, <1>2, <1>4
    <3> QED
      BY <3>1 DEF Holds, Done
  <2>3. CASE t # u
    <3>1. mk'[t] = mk[t] /\ (t \in complete => t \in complete')
      BY <2>1, <2>3, <1>2, <1>4
    <3> QED
      BY <2>1, <3>1, <1>3, HoldsStays
  <2> QED
    BY <2>2, <2>3
<1>11. ASSUME NEW u \in Targets, EndStep(u) PROVE Holds(t)'
  <2>1. /\ u \in Stamps /\ mk' = [mk EXCEPT ![u] = "remade"] /\ complete' = complete \cup {u}
        /\ Touch(u) /\ torn' = torn
    BY <1>11 DEF EndStep, IsStamp
  <2>2. mk'[u] = "remade" /\ present' = present \cup {u}
    BY <2>1, <1>4 DEF Touch
  <2>3. CASE t = u
    <3>1. stale'[t] = {} /\ t \in complete'
      BY <2>1, <2>3 DEF Touch
    <3> QED
      BY <2>2, <2>3, <3>1 DEF Holds
  <2>4. CASE t # u
    <3>1. mk'[t] = mk[t]
      BY <2>1, <2>4, <1>2, <1>4
    <3>2. u \in Normal(t) => ~Done(t)
      BY <1>11, <1>2 DEF EndStep, PrereqsDone, Prereqs, Done
    <3>3. \/ stale'[t] \subseteq stale[t]
          \/ ~Done(t) /\ \E q \in Normal(t) : mk'[q] = "remade"
      BY <2>1, <2>2, <2>4, <3>2 DEF Touch
    <3> QED
      BY <2>1, <2>2, <3>1, <3>3, <1>3, HoldsStays
  <2> QED
    BY <2>3, <2>4
<1>12. ASSUME NEW u \in Targets, FailStep(u) PROVE Holds(t)'
  <2>1. mk' = [mk EXCEPT ![u] = "failed"] /\ UNCHANGED <<present, stale, complete, torn>>
    BY <1>12 DEF FailStep, disk
  <2>2. CASE t = u
    <3>1. mk'[t] = "failed"
      BY <2>1, <2>2, <1>2, <1>4
    <3> QED
      BY <3>1 DEF Holds, Done
  <2>3. CASE t # u
    BY <2>1, <2>3, <1>2, <1>4, <1>5
  <2> QED
    BY <2>2, <2>3
<1>13. ASSUME NEW S, Remove(S), t \notin S, mk'[t] = mk[t],
              t \in complete => t \in complete', t[1] \notin torn' => t[1] \notin torn
       PROVE  Holds(t)'
  <2>1. (t \in present => t \in present') /\ stale'[t] \subseteq stale[t]
    BY <1>13 DEF Remove
  <2> QED
    BY <1>13, <2>1, <1>3, HoldsStays
<1>14. ASSUME NEW u \in Targets, RemoveStamp(u) PROVE Holds(t)'
  <2>1. /\ IsClean(u) /\ mk[u] = "running" /\ rmleft[u[1]] # <<>>
        /\ Remove({Head(rmleft[u[1]])}) /\ UNCHANGED <<mk, complete, torn>>
    BY <1>14 DEF RemoveStamp
  <2>2. t \notin {Head(rmleft[u[1]])}
    BY <1>14
  <2> QED
    BY <2>1, <2>2, <1>13
<1>15. ASSUME NEW u \in Targets, BeginDirClean(u) \/ EndDirClean(u) PROVE Holds(t)'
  <2>1. u \notin Stamps /\ t[1] # u[1]
    BY <1>15, StampNames DEF BeginDirClean, EndDirClean
  <2>2. mk'[t] = mk[t]
    BY <1>15, <2>1, <1>6 DEF BeginDirClean, EndDirClean
  <2>3. /\ t \in complete => t \in complete'
        /\ t[1] \notin torn' => t[1] \notin torn
    BY <1>15, <2>1 DEF BeginDirClean, EndDirClean, StampsOf
  <2>4. PICK S \in SUBSET StampsOf(u[1]) : Remove(S)
    BY <1>15 DEF BeginDirClean, EndDirClean
  <2>5. t \notin S
    BY <2>1, <2>4 DEF StampsOf
  <2> QED
    BY <2>2, <2>3, <2>4, <2>5, <1>13
<1>16. CASE Finish \/ (\E p \in Packages : Edit(p)) \/ UNCHANGED vars
  BY <1>16, <1>5 DEF Finish, Edit, vars, disk, make
<1>17. ~Interrupt /\ ~(\E g \in GoalLists : StartRun(g))
  BY DEF Interrupt, StartRun, Forgotten
<1> QED
  BY <1>7, <1>8, <1>9, <1>10, <1>11, <1>12, <1>14, <1>15, <1>16, <1>17
     DEF Next, MakeStep, TargetStep

LEMMA SeenStep ==
  ASSUME IndInv, PrereqsDone, OwnStampsLeft, SeenInv, [Next]_vars
  PROVE  SeenInv'
<1>1. CASE Forgotten
  <2>1. \A t \in Stamps : mk'[t] = "unseen"
    BY <1>1, StampNames DEF Forgotten
  <2>2. \A t \in Stamps : Holds(t)'
    BY <2>1 DEF Holds, Done
  <2> QED
    BY <2>2 DEF SeenInv, FreshStillHolds, DoneIsComplete, Holds
<1>2. CASE ~Forgotten
  <2> SUFFICES ASSUME NEW t \in Stamps, ~Cleaned(t[1])' PROVE Holds(t)'
    BY DEF SeenInv, FreshStillHolds, DoneIsComplete, Holds
  <2>1. t[1] \in Packages /\ \A q \in Normal(t) : q \in Stamps /\ q[1] = t[1]
    BY StampNames, NormalAreStamps DEF Normal
  <2>2. mk \in [Targets -> Status]
    BY DEF IndInv, Types
  <2>3. ~Cleaned(t[1])
    BY <1>2, <2>1, KnowledgeGrows, DoneStays DEF IndInv
  <2>4. Holds(t) /\ \A q \in Normal(t) : Done(q) => q \in present
    BY <2>1, <2>3 DEF SeenInv, FreshStillHolds, DoneIsComplete, Holds
  <2>5. ASSUME NEW u \in Targets, BeginDirClean(u) \/ EndDirClean(u) PROVE u[1] # t[1]
    <3>1. u[1] \in Packages /\ u \in CleanTargets(u[1])
      BY <2>5, CleanIsOwn DEF BeginDirClean, EndDirClean
    <3>2. mk'[u] \notin {"unseen"} \cup Seen
      BY <2>2, <2>5 DEF BeginDirClean, EndDirClean, Seen
    <3> QED
      BY <3>1, <3>2 DEF Cleaned
  <2>6. ASSUME NEW u \in Targets, RemoveStamp(u) PROVE t # Head(rmleft[u[1]])
    <3>1. IsClean(u) /\ mk[u] = "running" /\ rmleft[u[1]] # <<>>
      BY <2>6 DEF RemoveStamp
    <3>2. u[1] \in Packages /\ u \in CleanTargets(u[1])
      BY <3>1, CleanIsOwn
    <3>3. Cleaned(u[1])
      BY <3>1, <3>2 DEF Cleaned, Seen
    <3>4. Head(rmleft[u[1]]) \in Removable(u[1])
      BY <3>1, <3>2 DEF OwnStampsLeft
    <3> QED
      BY <3>3, <3>4, <2>3 DEF Removable
  <2> QED
    BY <1>2, <2>4, <2>5, <2>6, HoldsStep
<1> QED
  BY <1>1, <1>2

-----------------------------------------------------------------------------
THEOREM DependsInit == Init => DependsInv
<1> SUFFICES ASSUME Init PROVE DependsInv
  OBVIOUS
<1>1. \A t \in Packaged : mk[t] = "unseen"
  BY PackagedClosed DEF Init
<1>2. PrereqsDone
  BY DEF Init, PrereqsDone
<1>3. FreshStillHolds /\ DoneIsComplete
  BY <1>1 DEF FreshStillHolds, DoneIsComplete, Done, Packaged
<1>4. OwnStampsLeft
  BY DEF Init, OwnStampsLeft
<1> QED
  BY <1>2, <1>3, <1>4, IndInit DEF DependsInv

THEOREM DependsStep == DependsInv /\ [Next]_vars => DependsInv'
BY IndStep, PrereqsStep, SeenStep, OwnStep DEF DependsInv, SeenInv, IndInv

(* The stamps of a package are all behind its "pkg" target.                *)
LEMMA PackageIsAll ==
  ASSUME PrereqsDone, NEW d \in Packages, Done(<<d, "pkg">>), NEW t \in StampsOf(d)
  PROVE  Done(t)
<1>1. ASSUME NEW s \in StampSteps(d) \cup {"pkg"}, Done(<<d, s>>), NEW r \in Before(d, s)
      PROVE  Done(<<d, r>>)
  <2>1. <<d, s>> \in Packaged
    BY <1>1, StepIsStamp DEF Packaged
  <2>2. <<d, r>> \in Prereqs(<<d, s>>)
    BY DEF Prereqs, Normal
  <2> QED
    BY <1>1, <2>1, <2>2, PackagedClosed DEF PrereqsDone, Done
<1>2. Done(<<d, "install">>)
  <2>1. "install" \in Before(d, "pkg")
    BY DEF Before, InstallSteps, Commands
  <2> QED
    BY <2>1, <1>1
<1>3. \A s \in {"build"} \cup Installs[d] : Done(<<d, s>>)
  <2>1. Before(d, "install") = {"build"} \cup Installs[d]
    BY DEF Before, InstalledAfter, InstallSteps, Commands
  <2>2. "install" \in StampSteps(d)
    BY DEF StampSteps
  <2> QED
    BY <2>1, <2>2, <1>1, <1>2
<1>4. Done(<<d, "configure">>)
  <2>1. "configure" \in Before(d, "build") /\ "build" \in StampSteps(d)
    BY DEF Before, StampSteps, InstallSteps, Commands
  <2> QED
    BY <2>1, <1>1, <1>3
<1>5. \A s \in SourceSteps(d) : Done(<<d, s>>)
  <2>1. CASE d \in Override
    <3>1. <<d, "rsync">> \in Prereqs(<<d, "configure">>)
      BY <2>1 DEF Prereqs, OrderOnly, OrderOnlySteps
    <3>2. <<d, "configure">> \in Packaged
      BY StepIsStamp DEF Packaged, StampSteps
    <3> QED
      BY <2>1, <3>1, <3>2, <1>4, PackagedClosed DEF PrereqsDone, Done, SourceSteps
  <2>2. CASE d \notin Override
    <3>1. {"configure", "patch", "extract", "source"} \subseteq StampSteps(d)
      BY <2>2 DEF StampSteps, SourceSteps
    <3>2. "patch" \in Before(d, "configure")
      BY <2>2 DEF Before, ConfigureAfter, InstallSteps, Commands
    <3>3. "extract" \in Before(d, "patch") /\ "source" \in Before(d, "extract")
      BY DEF Before, InstallSteps, Commands
    <3>4. Done(<<d, "patch">>)
      BY <3>1, <3>2, <1>1, <1>4
    <3>5. Done(<<d, "extract">>)
      BY <3>1, <3>3, <3>4, <1>1
    <3>6. Done(<<d, "source">>)
      BY <3>1, <3>3, <3>5, <1>1
    <3> QED
      BY <2>2, <3>4, <3>5, <3>6 DEF SourceSteps
  <2> QED
    BY <2>1, <2>2
<1>6. t[1] = d /\ t[2] \in StampSteps(d) /\ t = <<t[1], t[2]>>
  BY StampNames DEF StampsOf
<1> QED
  BY <1>2, <1>3, <1>4, <1>5, <1>6 DEF StampSteps

(* A package is downloaded, extracted and configured when each package     *)
(* that this step depends on and that the same run does not clean is       *)
(* completely installed, whatever else runs beside it.                     *)
THEOREM DependenciesInstalled == Spec => []UncleanedComplete
<1>1. DependsInv => UncleanedComplete
  <2> SUFFICES ASSUME DependsInv, NEW t \in Running \cap Stamps,
                      NEW d \in StepDeps(t) \ torn, ~Cleaned(d), NEW s \in StampsOf(d)
               PROVE  s \in complete /\ mk[s] # "running"
    BY DEF UncleanedComplete
  <2>1. t \in Targets /\ mk[t] = "running"
    BY DEF Running
  <2>2. d \in Packages
    BY StepDepsArePackages
  <2>3. <<d, "pkg">> \in Prereqs(t)
    BY DEF Prereqs, OrderOnly
  <2>4. Done(<<d, "pkg">>)
    BY <2>1, <2>3 DEF DependsInv, PrereqsDone
  <2>5. Done(s)
    BY <2>2, <2>4, PackageIsAll DEF DependsInv
  <2>6. s \in Stamps /\ s[1] = d
    BY DEF StampsOf
  <2> QED
    BY <2>5, <2>6 DEF DependsInv, DoneIsComplete, Done
<1> QED
  BY <1>1, DependsInit, DependsStep, PTL DEF Spec

-----------------------------------------------------------------------------
Cleaning == Cleans \cup {"dirclean"} \cup Commands

NoCleaningAsked == \A g \in GoalLists : \A i \in 1..Len(g) : g[i][2] \notin Cleaning

NothingCleaned ==
  /\ goals \in GoalLists \cup {<<>>}
  /\ \A t \in Targets : t[2] \in Cleaning => mk[t] = "unseen"

LEMMA NothingCleanedStep ==
  ASSUME NoCleaningAsked, Types, NothingCleaned, [Next]_vars
  PROVE  NothingCleaned'
<1>1. goals' \in GoalLists \cup {<<>>}
  <2>1. goals' = goals \/ goals' \in GoalLists
    BY DEF Next, MakeStep, TargetStep, Finish, Consider, Keep, Group, Prepare, BeginStep, EndStep,
           BeginClean, RemoveStamp, EndClean, BeginDirClean, EndDirClean, Interrupt, FailStep,
           Edit, StartRun, vars, make
  <2> QED
    BY <2>1 DEF NothingCleaned
<1>2. ASSUME NEW t \in Targets, t[2] \in Cleaning PROVE mk'[t] = "unseen"
  <2>1. mk[t] = "unseen"
    BY <1>2 DEF NothingCleaned
  <2>2. CASE mk' = mk \/ Forgotten
    BY <2>1, <2>2 DEF Forgotten
  <2>3. ASSUME NEW u \in Targets, NEW v \in Status, Progress(u, v) PROVE mk'[t] = "unseen"
    <3>1. CASE t # u
      BY <2>1, <2>3, <3>1 DEF Progress, Types
    <3>2. CASE t = u
      <4>1. GoalReached(u) \/ PrereqReached(u)
        BY <2>1, <2>3, <3>2 DEF Progress, Ready, Waiting, Seen
      <4>2. ~GoalReached(u)
        BY <1>2, <3>2 DEF GoalReached, NothingCleaned, NoCleaningAsked
      <4>3. ASSUME NEW w \in Targets, Waiting(w), u \in Prereqs(w) PROVE FALSE
        <5>1. w[2] \notin Cleaning
          BY <4>3 DEF NothingCleaned, Waiting, Seen
        <5>2. w \in Packaged
          BY <5>1 DEF Targets, Packaged, Cleaning
        <5>3. u \in Packaged
          BY <4>3, <5>2, PackagedClosed
        <5>4. u[2] \notin Cleaning
          BY <5>3, StampNames DEF Packaged, Cleaning, Cleans, Commands, Preparations
        <5> QED
          BY <1>2, <3>2, <5>4
      <4> QED
        BY <4>1, <4>2, <4>3 DEF PrereqReached
    <3> QED
      BY <3>1, <3>2
  <2> QED
    BY <2>2, <2>3, KnowledgeGrows
<1> QED
  BY <1>1, <1>2 DEF NothingCleaned

(* Where no command line asks for a cleaning ("make", "make <pkg>"), the   *)
(* same holds of all dependencies.                                         *)
THEOREM DependenciesAlwaysComplete ==
  ASSUME NoCleaningAsked
  PROVE  Spec => []DependenciesComplete
<1> DEFINE Inv == DependsInv /\ NothingCleaned
<1>1. Init => NothingCleaned
  BY DEF Init, NothingCleaned
<1>2. Init => Inv
  BY <1>1, DependsInit
<1>3. Inv /\ [Next]_vars => Inv'
  BY DependsStep, NothingCleanedStep DEF DependsInv, IndInv
<1>4. NothingCleaned /\ UncleanedComplete => DependenciesComplete
  <2> SUFFICES ASSUME NothingCleaned, UncleanedComplete,
                      NEW t \in Running \cap Stamps, NEW d \in StepDeps(t) \ torn,
                      NEW s \in StampsOf(d)
               PROVE  s \in complete /\ mk[s] # "running"
    BY DEF DependenciesComplete
  <2>1. d \in Packages
    BY StepDepsArePackages
  <2>2. \A c \in CleanTargets(d) : c \in Targets /\ c[2] \in Cleaning
    BY <2>1, CleanAreTargets DEF CleanTargets, Cleaning
  <2>3. ~Cleaned(d)
    BY <2>2 DEF Cleaned, NothingCleaned
  <2> QED
    BY <2>3 DEF UncleanedComplete
<1> HIDE DEF Inv
<1>5. Inv => NothingCleaned
  BY DEF Inv
<1> QED
  BY <1>2, <1>3, <1>4, <1>5, DependenciesInstalled, PTL DEF Spec

-----------------------------------------------------------------------------
(***************************************************************************)
(* Proof that a run of make that succeeds has done what its command line   *)
(* promises: the packages are completely installed, every stamp of theirs  *)
(* is up to date, and what pkg-rebuild and the like had to make again has  *)
(* been made again, from the sources as they were when the run began.      *)
(*                                                                         *)
(* It is false of some command lines: make looks at a stamp once, so that  *)
(* a package that is cleaned after another goal has looked at its stamps   *)
(* is not built again ("make app-rebuild lib-rebuild").  The theorem is    *)
(* about the others, CommandLinesCleanFirst in PkgSteps.                   *)
(***************************************************************************)

(* The cleanings that a goal asks for.                                     *)
CleansFor(g) ==
  {<<g[1], s>> : s \in CASE g[2] = "reinstall" -> {"clean-for-reinstall"}
                         [] g[2] = "rebuild" -> {"clean-for-reinstall", "clean-for-rebuild"}
                         [] g[2] = "reconfigure" -> Cleans
                         [] g[2] = "dirclean" -> {"dirclean"}
                         [] OTHER -> {}}

GoalsGiven == goals \in GoalLists \cup {<<>>}

(* Only the first goal cleans.                                             *)
OnlyFirst ==
  \A t \in Targets : t[2] \in Cleaning /\ mk[t] # "unseen" =>
    goals # <<>> /\ (t = goals[1] \/ t \in CleansFor(goals[1]))

SomeSeen == \E t \in Packaged : mk[t] # "unseen"

(* Before make looks at any stamp, all the cleaning has been done.         *)
CleanedFirst ==
  SomeSeen => \A c \in Targets : c \in CleansFor(goals[1]) => Done(c)

OrderInv == GoalsGiven /\ OnlyFirst /\ CleanedFirst

(* What make saw still holds, and what it has done is complete.            *)
AllHold == \A t \in Stamps : Holds(t)

RemovedBy(c) == {Removes(c)[i] : i \in 1..Len(Removes(c))}

(* While a clean recipe runs, what it has still to remove is on its list.  *)
RemovalGoesOn ==
  \A c \in Targets : IsClean(c) /\ mk[c] = "running" =>
    \A t \in RemovedBy(c) \cap present : \E i \in 1..Len(rmleft[c[1]]) : t = rmleft[c[1]][i]

(* What was removed is not there when make looks at it, and so is remade.  *)
RemovedIsRemade ==
  \A c \in Targets : IsClean(c) /\ Done(c) =>
    \A t \in RemovedBy(c) \cap Stamps :
      /\ mk[t] \in {"unseen", "absent", "running", "failed", "remade"}
      /\ mk[t] = "unseen" => t \notin present

PhonyNeverKept == \A t \in Targets \ Stamps : mk[t] \notin {"fresh", "kept"}

(* The sources that the work of a step came from.                          *)
SourceTypes ==
  /\ src \in [Packages -> Nat \ {0}]
  /\ atStart.src \in [Packages -> Nat \ {0}]
  /\ version \in [Stamps -> Nat]
  /\ \A p \in Packages \ Override : src[p] = 1 /\ atStart.src[p] = 1

VersionsReal ==
  \A t \in Stamps : t \in present \/ mk[t] \in {"fresh", "remade", "kept"} => version[t] >= 1

VersionFollows ==
  \A t \in Stamps : mk[t] = "remade" =>
    IF Input(t) = {} THEN version[t] >= atStart.src[t[1]]
    ELSE \A q \in Input(t) : version[t] = version[q]

GoalsDone == run = "ok" => \A i \in 1..Len(goals) : Done(goals[i])

SuccessInv ==
  /\ DependsInv /\ OrderInv /\ AllHold
  /\ PhonyNeverKept /\ RemovalGoesOn /\ RemovedIsRemade
  /\ SourceTypes /\ VersionsReal /\ VersionFollows
  /\ GoalsDone

-----------------------------------------------------------------------------
LEMMA CleaningNames ==
  ASSUME NEW t \in Targets
  PROVE  /\ t \in Packaged => t[2] \notin Cleaning
         /\ t \notin Packaged => t[1] \in Packages /\ t[2] \in Cleaning /\ t = <<t[1], t[2]>>
<1>1. CASE t \in Stamps \cup Preparations
  BY <1>1, StampNames DEF Packaged, Cleaning, Preparations, Cleans, Commands
<1>2. CASE t \notin Stamps \cup Preparations
  <2>1. /\ t[1] \in Packages /\ t[2] \in {"pkg", "dirclean"} \cup Cleans \cup Commands
        /\ t = <<t[1], t[2]>>
    BY <1>2 DEF Targets
  <2>2. t[2] = "pkg" <=> t \in Packaged
    BY <1>2, <2>1 DEF Packaged
  <2>3. "pkg" \notin Cleaning
    BY DEF Cleaning, Cleans, Commands
  <2> QED
    BY <2>1, <2>2, <2>3 DEF Cleaning
<1> QED
  BY <1>1, <1>2

(* A command waits for its cleaning and for the package, and a cleaning    *)
(* for the lesser one.                                                     *)
LEMMA CleaningPrereqs ==
  ASSUME NEW w \in Targets, w[2] \in Cleaning, NEW u \in Prereqs(w)
  PROVE  \/ w[2] \in Commands /\ u \in {<<w[1], CleanOf(w[2])>>, <<w[1], "pkg">>}
         \/ w[2] = "clean-for-rebuild" /\ u = <<w[1], "clean-for-reinstall">>
         \/ w[2] = "clean-for-reconfigure" /\ u = <<w[1], "clean-for-rebuild">>
<1>1. OrderOnly(w) = {}
  BY DEF OrderOnly, StepDeps, OrderOnlySteps, Cleaning, Cleans, Commands
<1>2. PICK s \in Before(w[1], w[2]) : u = <<w[1], s>>
  BY <1>1 DEF Prereqs, Normal
<1>3. CASE w[2] \in Commands
  BY <1>2, <1>3 DEF Before, Commands, InstallSteps
<1>4. CASE w[2] \in Cleans
  BY <1>2, <1>4 DEF Before, Commands, Cleans, InstallSteps
<1>5. CASE w[2] = "dirclean"
  BY <1>2, <1>5 DEF Before, Commands, Cleans, InstallSteps
<1> QED
  BY <1>3, <1>4, <1>5 DEF Cleaning

(* A run keeps its goals, and what it noted when it began.                 *)
LEMMA GoalsStay ==
  ASSUME [Next]_vars
  PROVE  Forgotten \/ (goals' = goals /\ atStart' = atStart)
BY DEF Next, MakeStep, TargetStep, Finish, Consider, Keep, Group, Prepare, BeginStep, EndStep,
       BeginClean, RemoveStamp, EndClean, BeginDirClean, EndDirClean, Interrupt, FailStep,
       Edit, StartRun, vars, make, Forgotten

(* How make comes to look at a target.                                     *)
LEMMA NewlySeen ==
  ASSUME Types, [Next]_vars, ~Forgotten, NEW t \in Targets, mk[t] = "unseen", mk'[t] # "unseen"
  PROVE  GoalReached(t) \/ PrereqReached(t)
<1>1. PICK u \in Targets : \E v \in Status : Progress(u, v)
  BY KnowledgeGrows
<1>2. u = t
  BY <1>1 DEF Progress, Types
<1> QED
  BY <1>1, <1>2 DEF Progress, Ready, Waiting, Seen

LEMMA GoalsFirst ==
  ASSUME CommandLinesCleanFirst, GoalsGiven
  PROVE  CleansFirst(goals)
BY DEF CommandLinesCleanFirst, GoalsGiven, CleansFirst

LEMMA GoalsAreTargets ==
  ASSUME GoalsGiven
  PROVE  /\ goals \in Seq(Targets)
         /\ goals # <<>> => 1 \in 1..Len(goals) /\ goals[1] \in Targets
<1>1. goals \in Seq(Targets)
  <2>1. CASE goals = <<>>
    BY <2>1
  <2>2. CASE goals \in GoalLists
    BY <2>2, StepsAssumption
  <2> QED
    BY <2>1, <2>2 DEF GoalsGiven
<1> QED
  BY <1>1

LEMMA CleansOfFirst ==
  ASSUME CommandLinesCleanFirst, GoalsGiven, goals # <<>>
  PROVE  goals[1][2] \in {"pkg", "dirclean"} \cup Commands
BY GoalsAreTargets, GoalsFirst DEF CleansFirst

-----------------------------------------------------------------------------
LEMMA OnlyFirstStep ==
  ASSUME CommandLinesCleanFirst, Types, OrderInv, [Next]_vars, ~Forgotten,
         NEW t \in Targets, t[2] \in Cleaning, mk'[t] # "unseen"
  PROVE  goals # <<>> /\ (t = goals[1] \/ t \in CleansFor(goals[1]))
<1>1. CASE mk[t] # "unseen"
  BY <1>1 DEF OrderInv, OnlyFirst
<1>2. CASE mk[t] = "unseen" /\ GoalReached(t)
  <2>1. PICK i \in 1..Len(goals) : t = goals[i]
    BY <1>2 DEF GoalReached
  <2>2. i = 1
    BY <2>1, GoalsFirst DEF OrderInv, CleansFirst, Cleaning, Cleans, Commands
  <2> QED
    BY <2>1, <2>2
<1>3. CASE mk[t] = "unseen" /\ PrereqReached(t)
  <2>1. PICK w \in Targets : Waiting(w) /\ t \in Prereqs(w)
    BY <1>3 DEF PrereqReached
  <2>2. w \notin Packaged
    BY <2>1, PackagedClosed, CleaningNames
  <2>3. w[2] \in Cleaning /\ w = <<w[1], w[2]>> /\ mk[w] # "unseen"
    BY <2>1, <2>2, CleaningNames DEF Waiting, Seen
  <2>4. goals # <<>> /\ (w = goals[1] \/ w \in CleansFor(goals[1]))
    BY <2>3 DEF OrderInv, OnlyFirst
  <2>5. goals[1][2] \in {"pkg", "dirclean"} \cup Commands
    BY <2>4, CleansOfFirst DEF OrderInv
  <2>6. CASE w[2] \in Commands
    <3>1. t = <<w[1], CleanOf(w[2])>>
      BY <2>1, <2>3, <2>6, CleaningPrereqs DEF Cleaning, Cleans, Commands
    <3>2. w = goals[1]
      BY <2>4, <2>6 DEF CleansFor, Cleans, Commands
    <3> QED
      BY <2>4, <2>6, <3>1, <3>2 DEF CleansFor, CleanOf, Commands, Cleans
  <2>7. CASE w[2] \in {"clean-for-rebuild", "clean-for-reconfigure"}
    <3>1. \/ w[2] = "clean-for-rebuild" /\ t = <<w[1], "clean-for-reinstall">>
          \/ w[2] = "clean-for-reconfigure" /\ t = <<w[1], "clean-for-rebuild">>
      BY <2>1, <2>3, <2>7, CleaningPrereqs DEF Commands
    <3>2. w \in CleansFor(goals[1])
      BY <2>4, <2>5, <2>7 DEF Commands
    <3> QED
      BY <2>4, <2>5, <3>1, <3>2 DEF CleansFor, Commands, Cleans
  <2>8. CASE w[2] \in {"clean-for-reinstall", "dirclean"}
    BY <2>1, <2>3, <2>8, CleaningPrereqs DEF Commands
  <2> QED
    BY <2>3, <2>6, <2>7, <2>8 DEF Cleaning, Cleans
<1> QED
  BY <1>1, <1>2, <1>3, NewlySeen

(* When the cleaning that a command asks for is done, so are the lesser    *)
(* ones that it waited for.                                                *)
LEMMA LesserCleansDone ==
  ASSUME PrereqsDone, NEW g \in Targets, g[2] \in Commands, Done(<<g[1], CleanOf(g[2])>>)
  PROVE  \A c \in Targets : c \in CleansFor(g) => Done(c)
<1> DEFINE R == <<g[1], "clean-for-reinstall">>
           B == <<g[1], "clean-for-rebuild">>
           F == <<g[1], "clean-for-reconfigure">>
<1>1. g[1] \in Packages
  BY StampNames DEF Targets, Preparations, Commands
<1>2. R \in Targets /\ B \in Targets /\ F \in Targets
  BY <1>1 DEF Targets, Cleans
<1>3. R \in Prereqs(B) /\ B \in Prereqs(F)
  BY DEF Prereqs, Normal, Before, InstallSteps, Commands
<1>4. (Done(B) => Done(R)) /\ (Done(F) => Done(B))
  BY <1>2, <1>3 DEF PrereqsDone, Done
<1>5. CASE g[2] = "reinstall"
  BY <1>5 DEF CleansFor, CleanOf
<1>6. CASE g[2] = "rebuild"
  BY <1>4, <1>6 DEF CleansFor, CleanOf
<1>7. CASE g[2] = "reconfigure"
  BY <1>4, <1>7 DEF CleansFor, CleanOf, Cleans
<1> QED
  BY <1>5, <1>6, <1>7 DEF Commands

LEMMA CleanedFirstStep ==
  ASSUME CommandLinesCleanFirst, Types, PrereqsDone, OrderInv, [Next]_vars, ~Forgotten,
         NEW t \in Packaged, mk'[t] # "unseen", NEW c \in Targets, c \in CleansFor(goals[1])
  PROVE  Done(c)
<1>0. t \in Targets /\ t[2] \notin Cleaning
  BY CleaningNames, PackagedClosed
<1>1. CASE SomeSeen
  BY <1>1 DEF OrderInv, CleanedFirst
<1>2. CASE ~SomeSeen /\ GoalReached(t)
  <2>1. PICK i \in 1..Len(goals) :
          t = goals[i] /\ \A j \in 1..(i - 1) : IF Jobs = 1 THEN Done(goals[j])
                                                ELSE mk[goals[j]] # "unseen"
    BY <1>2 DEF GoalReached
  <2>2. goals \in Seq(Targets)
    BY GoalsAreTargets DEF OrderInv
  <2>3. Len(goals) \in Nat /\ 1 \in 1..Len(goals) /\ goals[1] \in Targets
    BY <2>1, <2>2
  <2>4. goals[1][2] \in Commands \cup {"dirclean"}
    BY <2>3, GoalsFirst DEF OrderInv, CleansFirst, CleansFor, Commands
  <2>5. i # 1
    BY <1>0, <2>1, <2>4 DEF Cleaning
  <2>6. Jobs = 1
    BY <2>1, <2>3, <2>4, <2>5, GoalsFirst DEF OrderInv, CleansFirst, Commands
  <2>7. Done(goals[1])
    BY <2>1, <2>3, <2>5, <2>6
  <2>8. CASE goals[1][2] = "dirclean"
    <3>1. goals[1] = <<goals[1][1], "dirclean">>
      BY <2>3, <2>8, CleaningNames DEF Cleaning
    <3> QED
      BY <2>7, <2>8, <3>1 DEF CleansFor
  <2>9. CASE goals[1][2] \in Commands
    <3>1. <<goals[1][1], CleanOf(goals[1][2])>> \in Prereqs(goals[1])
      BY <2>9 DEF Prereqs, Normal, Before, Commands, InstallSteps
    <3>2. Done(<<goals[1][1], CleanOf(goals[1][2])>>)
      BY <2>3, <2>7, <3>1 DEF PrereqsDone, Done
    <3> QED
      BY <2>3, <2>9, <3>2, LesserCleansDone
  <2> QED
    BY <2>4, <2>8, <2>9
<1>3. CASE ~SomeSeen /\ PrereqReached(t)
  <2>1. PICK w \in Targets : Waiting(w) /\ t \in Prereqs(w) /\ AfterWait(w, t)
    BY <1>3 DEF PrereqReached
  <2>2. mk[w] # "unseen" /\ w \notin Packaged
    BY <1>3, <2>1 DEF Waiting, Seen, SomeSeen
  <2>3. w[2] \in Cleaning
    BY <2>2, CleaningNames
  <2>4. w[2] \in Commands /\ t = <<w[1], "pkg">>
    <3>1. ~(t[2] \in Cleans)
      BY <1>0 DEF Cleaning
    <3>2. w[2] \in Commands => CleanOf(w[2]) \in Cleans
      BY DEF CleanOf, Commands, Cleans
    <3> QED
      BY <2>1, <2>3, <3>1, <3>2, CleaningPrereqs DEF Cleans
  <2>5. goals # <<>> /\ w = goals[1]
    <3>1. \A x \in CleansFor(goals[1]) : x[2] \in Cleans \cup {"dirclean"}
      BY DEF CleansFor, Cleans
    <3>2. w[2] \notin Cleans \cup {"dirclean"}
      BY <2>4 DEF Cleans, Commands
    <3>3. goals # <<>> /\ (w = goals[1] \/ w \in CleansFor(goals[1]))
      BY <2>2, <2>3 DEF OrderInv, OnlyFirst
    <3> QED
      BY <3>1, <3>2, <3>3
  <2>6. HasWait \/ Jobs = 1
    <3>1. 1 \in 1..Len(goals)
      BY <2>5, GoalsAreTargets DEF OrderInv
    <3> QED
      BY <2>4, <2>5, <3>1, GoalsFirst DEF OrderInv, CleansFirst, Commands
  <2>7. Done(<<w[1], CleanOf(w[2])>>)
    BY <2>1, <2>4, <2>6 DEF AfterWait
  <2> QED
    BY <2>4, <2>5, <2>7, LesserCleansDone
<1> QED
  BY <1>0, <1>1, <1>2, <1>3, NewlySeen DEF SomeSeen

LEMMA OrderStep ==
  ASSUME CommandLinesCleanFirst, Types, PrereqsDone, OrderInv, [Next]_vars
  PROVE  OrderInv'
<1>1. GoalsGiven'
  BY DEF Next, MakeStep, TargetStep, Finish, Consider, Keep, Group, Prepare, BeginStep, EndStep,
         BeginClean, RemoveStamp, EndClean, BeginDirClean, EndDirClean, Interrupt, FailStep,
         Edit, StartRun, vars, make, OrderInv, GoalsGiven
<1>2. CASE Forgotten
  <2>1. \A t \in Targets : mk'[t] = "unseen"
    BY <1>2 DEF Forgotten
  <2>2. \A t \in Packaged : mk'[t] = "unseen"
    BY <2>1, PackagedClosed
  <2> QED
    BY <1>1, <2>1, <2>2 DEF OrderInv, OnlyFirst, CleanedFirst, SomeSeen
<1>3. CASE ~Forgotten
  <2>1. goals' = goals
    BY <1>3, GoalsStay
  <2>2. \A t \in Targets : Done(t) => Done(t)'
    BY <1>3, KnowledgeGrows, DoneStays
  <2>3. CleansFor(goals[1])' = CleansFor(goals[1])
    BY <2>1 DEF CleansFor
  <2>4. OnlyFirst'
    BY <1>3, <2>1, <2>3, OnlyFirstStep DEF OnlyFirst
  <2>5. CleanedFirst'
    BY <1>3, <2>1, <2>2, <2>3, CleanedFirstStep DEF CleanedFirst, SomeSeen
  <2> QED
    BY <1>1, <2>4, <2>5 DEF OrderInv
<1> QED
  BY <1>2, <1>3

(* While something is being cleaned, or waits to be, no stamp was seen.    *)
LEMMA NothingSeen ==
  ASSUME CommandLinesCleanFirst, OrderInv, NEW u \in Targets,
         u[2] \in Cleans \cup {"dirclean"}, mk[u] # "unseen", ~Done(u), NEW t \in Packaged
  PROVE  mk[t] = "unseen"
<1>1. goals # <<>> /\ (u = goals[1] \/ u \in CleansFor(goals[1]))
  BY DEF OrderInv, OnlyFirst, Cleaning
<1>2. u = <<u[1], u[2]>>
  BY CleaningNames DEF Cleaning
<1>3. u \in CleansFor(goals[1])
  BY <1>1, <1>2, CleansOfFirst DEF OrderInv, CleansFor, Cleans, Commands
<1> QED
  BY <1>3 DEF OrderInv, CleanedFirst, SomeSeen

-----------------------------------------------------------------------------
Cleaner(u) == BeginClean(u) \/ RemoveStamp(u) \/ EndClean(u) \/ BeginDirClean(u) \/ EndDirClean(u)

LEMMA CleanerIsFirst ==
  ASSUME CommandLinesCleanFirst, OrderInv, NEW u \in Targets, Cleaner(u), NEW t \in Stamps
  PROVE  mk[t] = "unseen"
<1>1. u[2] \in Cleans \cup {"dirclean"}
  BY DEF Cleaner, BeginClean, RemoveStamp, EndClean, BeginDirClean, EndDirClean, IsClean
<1>2. mk[u] # "unseen" /\ ~Done(u)
  BY DEF Cleaner, BeginClean, RemoveStamp, EndClean, BeginDirClean, EndDirClean, Ready, Waiting,
         Seen, Done
<1> QED
  BY <1>1, <1>2, NothingSeen DEF Packaged

LEMMA AllHoldStep ==
  ASSUME CommandLinesCleanFirst, IndInv, PrereqsDone, OrderInv, AllHold, [Next]_vars
  PROVE  AllHold'
<1> SUFFICES ASSUME NEW t \in Stamps PROVE Holds(t)'
  BY DEF AllHold
<1>1. t \in Targets /\ Normal(t) \subseteq Stamps /\ mk \in [Targets -> Status]
  BY StampNames, NormalAreStamps DEF IndInv, Types
<1>2. CASE mk'[t] = "unseen"
  BY <1>2 DEF Holds, Done
<1>3. CASE mk'[t] # "unseen"
  <2>1. ~Forgotten
    BY <1>1, <1>3 DEF Forgotten
  <2>2. ASSUME NEW u \in Targets, Cleaner(u) PROVE FALSE
    <3>1. mk[t] = "unseen" /\ u \notin Stamps
      BY <2>2, CleanerIsFirst, StampNames
         DEF Cleaner, BeginClean, RemoveStamp, EndClean, BeginDirClean, EndDirClean, IsClean
    <3>2. mk'[t] = mk[t]
      BY <1>1, <2>2, <3>1
         DEF Cleaner, BeginClean, RemoveStamp, EndClean, BeginDirClean, EndDirClean
    <3> QED
      BY <1>3, <3>1, <3>2
  <2>3. Holds(t) /\ \A q \in Normal(t) : Done(q) => q \in present
    BY <1>1 DEF AllHold, Holds
  <2> QED
    BY <2>1, <2>2, <2>3, HoldsStep DEF Cleaner
<1> QED
  BY <1>2, <1>3

-----------------------------------------------------------------------------
(* What a step may do to one stamp.                                        *)
LEMMA StampChange ==
  ASSUME Types, SourceTypes, [Next]_vars, ~Forgotten, NEW t \in Stamps
  PROVE  \/ /\ mk'[t] = mk[t] \/ mk'[t] \in {"running", "failed"}
            /\ t \in present' => t \in present
            /\ version'[t] = version[t]
         \/ Consider(t) \/ Keep(t) \/ EndStep(t)
<1>1. t \in Targets /\ mk \in [Targets -> Status] /\ version \in [Stamps -> Nat]
  BY StampNames DEF Types, SourceTypes
<1> DEFINE Quiet == /\ mk'[t] = mk[t] \/ mk'[t] \in {"running", "failed"}
                    /\ t \in present' => t \in present
                    /\ version'[t] = version[t]
<1>2. ASSUME NEW u \in Targets, TargetStep(u) PROVE Quiet \/ Consider(t) \/ Keep(t) \/ EndStep(t)
  <2>1. CASE (Consider(u) \/ Keep(u)) /\ u # t
    BY <1>1, <2>1 DEF Consider, Keep, disk
  <2>2. CASE Group(u) \/ Prepare(u) \/ BeginClean(u) \/ EndClean(u)
    <3>1. u # t
      BY <2>2, StampNames DEF Group, Prepare, BeginClean, EndClean, IsClean
    <3> QED
      BY <1>1, <2>2, <3>1 DEF Group, Prepare, BeginClean, EndClean, disk
  <2>3. CASE BeginStep(u)
    BY <1>1, <2>3 DEF BeginStep
  <2>4. CASE EndStep(u) /\ u # t
    BY <1>1, <2>4 DEF EndStep, Touch
  <2>5. CASE RemoveStamp(u)
    BY <2>5 DEF RemoveStamp, Remove
  <2>6. CASE BeginDirClean(u) \/ EndDirClean(u)
    <3>1. u # t
      BY <2>6, StampNames DEF BeginDirClean, EndDirClean
    <3> QED
      BY <1>1, <2>6, <3>1 DEF BeginDirClean, EndDirClean, Remove
  <2> QED
    BY <1>2, <2>1, <2>2, <2>3, <2>4, <2>5, <2>6 DEF TargetStep
<1>3. ASSUME NEW u \in Targets, FailStep(u) PROVE Quiet
  BY <1>1, <1>3 DEF FailStep, disk
<1>4. CASE Finish \/ (\E p \in Packages : Edit(p)) \/ UNCHANGED vars
  BY <1>4 DEF Finish, Edit, vars, disk, make
<1>5. ~Interrupt /\ ~(\E g \in GoalLists : StartRun(g))
  BY DEF Interrupt, StartRun, Forgotten
<1> QED
  BY <1>2, <1>3, <1>4, <1>5 DEF Next, MakeStep

LEMMA PhonyStep ==
  ASSUME Types, PhonyNeverKept, [Next]_vars
  PROVE  PhonyNeverKept'
<1> SUFFICES ASSUME NEW t \in Targets \ Stamps PROVE mk'[t] \notin {"fresh", "kept"}
  BY DEF PhonyNeverKept
<1>1. mk[t] \notin {"fresh", "kept"} /\ mk \in [Targets -> Status]
  BY DEF PhonyNeverKept, Types
<1>2. ASSUME NEW u \in Targets, TargetStep(u) PROVE mk'[t] \notin {"fresh", "kept"}
  <2>1. CASE Consider(u)
    BY <1>1, <2>1 DEF Consider, IsStamp
  <2>2. CASE Keep(u)
    <3>1. u # t
      BY <1>1, <2>2 DEF Keep, Needed
    <3> QED
      BY <1>1, <2>2, <3>1 DEF Keep
  <2>3. CASE Group(u) \/ Prepare(u) \/ BeginStep(u) \/ EndStep(u)
    BY <1>1, <2>3 DEF Group, Prepare, BeginStep, EndStep
  <2>4. CASE Cleaner(u)
    BY <1>1, <2>4 DEF Cleaner, BeginClean, RemoveStamp, EndClean, BeginDirClean, EndDirClean
  <2> QED
    BY <1>2, <2>1, <2>2, <2>3, <2>4 DEF TargetStep, Cleaner
<1>3. ASSUME NEW u \in Targets, FailStep(u) PROVE mk'[t] \notin {"fresh", "kept"}
  BY <1>1, <1>3 DEF FailStep
<1>4. CASE Forgotten
  BY <1>4 DEF Forgotten
<1>5. CASE Finish \/ (\E p \in Packages : Edit(p)) \/ UNCHANGED vars
  BY <1>1, <1>5 DEF Finish, Edit, vars, make
<1>6. CASE Interrupt \/ \E g \in GoalLists : StartRun(g)
  BY <1>4, <1>6 DEF Interrupt, StartRun, Forgotten
<1> QED
  BY <1>2, <1>3, <1>5, <1>6 DEF Next, MakeStep

-----------------------------------------------------------------------------
(* The cleanings of a package follow each other.                           *)
LEMMA OneClean ==
  ASSUME PrereqsDone, NEW c \in Targets, NEW u \in Targets, IsClean(c), IsClean(u), c[1] = u[1],
         mk[c] = "running", mk[u] = "running" \/ Ready(u)
  PROVE  u = c
<1> DEFINE p == c[1]
           R == <<p, "clean-for-reinstall">>
           B == <<p, "clean-for-rebuild">>
           F == <<p, "clean-for-reconfigure">>
<1>1. p \in Packages /\ c \in {R, B, F} /\ u \in {R, B, F}
  <2>1. c \notin Packaged /\ u \notin Packaged
    BY CleaningNames DEF IsClean, Cleaning
  <2> QED
    BY <2>1, CleaningNames DEF IsClean, Cleans
<1>2. R \in Targets /\ B \in Targets /\ F \in Targets
  BY <1>1 DEF Targets, Cleans
<1>3. R \in Prereqs(B) /\ B \in Prereqs(F)
  BY DEF Prereqs, Normal, Before, InstallSteps, Commands
<1>4. \A t \in {c, u} : ~Done(t)
  BY DEF Ready, Waiting, Seen, Done
<1>5. \A t \in {c, u} : \A q \in Prereqs(t) : Done(q)
  BY DEF PrereqsDone, Ready
<1>6. Done(B) => Done(R)
  BY <1>2, <1>3 DEF PrereqsDone, Done
<1> HIDE DEF p, R, B, F
<1> QED
  BY <1>1, <1>3, <1>4, <1>5, <1>6

LEMMA RemovalStep ==
  ASSUME CommandLinesCleanFirst, Types, PrereqsDone, OwnStampsLeft, OrderInv, RemovalGoesOn,
         [Next]_vars, ~Forgotten,
         NEW c \in Targets, IsClean(c), mk'[c] = "running", NEW t \in RemovedBy(c), t \in present'
  PROVE  \E i \in 1..Len(rmleft'[c[1]]) : t = rmleft'[c[1]][i]
<1>0. c \notin Stamps /\ c[1] \in Packages /\ mk \in [Targets -> Status] /\ DOMAIN rmleft = Packages
  BY StampNames, CleanIsOwn DEF IsClean, Types, OwnStampsLeft
<1>1. CASE mk[c] # "running"
  <2>1. PICK u \in Targets : \E v \in Status : Progress(u, v)
    BY <1>1, KnowledgeGrows
  <2>2. u = c /\ Ready(c)
    BY <1>1, <2>1 DEF Progress, Types, Seen
  <2>3. BeginClean(c)
    <3>1. \A w \in Targets : TargetStep(w) => w = c \/ mk'[c] = mk[c]
      BY <1>0 DEF TargetStep, Consider, Keep, Group, Prepare, BeginStep, EndStep, BeginClean, RemoveStamp,
                  EndClean, BeginDirClean, EndDirClean
    <3>2. TargetStep(c) => BeginClean(c)
      BY <1>0, <1>1, StampNames
         DEF TargetStep, Consider, Keep, Group, Prepare, BeginStep, EndStep, RemoveStamp, EndClean,
             BeginDirClean, EndDirClean, IsClean, IsStamp, Cleans, Commands, Preparations
    <3>3. ASSUME NEW w \in Targets, FailStep(w) PROVE mk'[c] # "running"
      BY <1>0, <1>1, <3>3 DEF FailStep
    <3>4. ~Finish /\ ~(\E p \in Packages : Edit(p)) /\ vars' # vars
      BY <1>1 DEF Finish, Edit, vars, make
    <3>5. ~Interrupt /\ ~(\E g \in GoalLists : StartRun(g))
      BY DEF Interrupt, StartRun, Forgotten
    <3> QED
      BY <1>1, <3>1, <3>2, <3>3, <3>4, <3>5 DEF Next, MakeStep
  <2>4. rmleft'[c[1]] = Removes(c)
    BY <1>0, <2>3 DEF BeginClean
  <2> QED
    BY <2>4 DEF RemovedBy
<1>2. CASE mk[c] = "running"
  <2>1. \A s \in Stamps : mk[s] = "unseen"
    BY <1>2, NothingSeen DEF Packaged, IsClean, Done
  <2>2. ASSUME t \in present, rmleft'[c[1]] = rmleft[c[1]]
        PROVE  \E i \in 1..Len(rmleft'[c[1]]) : t = rmleft'[c[1]][i]
    BY <1>2, <2>2 DEF RemovalGoesOn
  <2>3. ASSUME NEW u \in Targets, TargetStep(u)
        PROVE  \E i \in 1..Len(rmleft'[c[1]]) : t = rmleft'[c[1]][i]
    <3>1. CASE Consider(u) \/ Keep(u) \/ Group(u) \/ Prepare(u) \/ BeginStep(u) \/ EndClean(u)
      BY <2>2, <3>1 DEF Consider, Keep, Group, Prepare, BeginStep, EndClean, disk
    <3>2. CASE EndStep(u)
      BY <2>1, <3>2 DEF EndStep, IsStamp
    <3>3. CASE BeginClean(u)
      <4>1. u[1] # c[1]
        BY <1>2, <3>3, OneClean DEF BeginClean, Ready, Waiting, Seen
      <4> QED
        BY <1>0, <2>2, <3>3, <4>1 DEF BeginClean, disk
    <3>4. CASE RemoveStamp(u) /\ u[1] # c[1]
      BY <1>0, <2>2, <3>4 DEF RemoveStamp, Remove
    <3>5. CASE RemoveStamp(u) /\ u[1] = c[1]
      <4> DEFINE l == rmleft[c[1]]
      <4>1. l \in Seq(Removable(c[1])) /\ l # <<>>
        BY <1>0, <3>5 DEF RemoveStamp, OwnStampsLeft
      <4>2. rmleft'[c[1]] = Tail(l) /\ t # Head(l) /\ t \in present
        BY <1>0, <3>5 DEF RemoveStamp, Remove
      <4>3. PICK i \in 1..Len(l) : t = l[i]
        BY <1>2, <4>2 DEF RemovalGoesOn
      <4> HIDE DEF l
      <4>4. i # 1
        BY <4>1, <4>2, <4>3
      <4>5. i - 1 \in 1..Len(Tail(l)) /\ Tail(l)[i - 1] = l[i]
        BY <4>1, <4>3, <4>4
      <4> QED
        BY <4>2, <4>3, <4>5
    <3>6. CASE BeginDirClean(u) \/ EndDirClean(u)
      BY <2>2, <3>6 DEF BeginDirClean, EndDirClean, Remove
    <3> QED
      BY <2>3, <3>1, <3>2, <3>3, <3>4, <3>5, <3>6 DEF TargetStep
  <2>4. ASSUME NEW u \in Targets, FailStep(u)
        PROVE  \E i \in 1..Len(rmleft'[c[1]]) : t = rmleft'[c[1]][i]
    BY <2>2, <2>4 DEF FailStep, disk
  <2>5. CASE Finish \/ (\E p \in Packages : Edit(p)) \/ UNCHANGED vars
    BY <2>2, <2>5 DEF Finish, Edit, vars, disk, make
  <2>6. ~Interrupt /\ ~(\E g \in GoalLists : StartRun(g))
    BY DEF Interrupt, StartRun, Forgotten
  <2> QED
    BY <2>3, <2>4, <2>5, <2>6 DEF Next, MakeStep
<1> QED
  BY <1>1, <1>2

(* Every stamp that a clean target removes stays removed until its step    *)
(* ends.                                                                   *)
LEMMA RemadeStep ==
  ASSUME CommandLinesCleanFirst, Types, SourceTypes, OrderInv, PhonyNeverKept, RemovalGoesOn,
         RemovedIsRemade, [Next]_vars
  PROVE  RemovedIsRemade'
<1> SUFFICES ASSUME NEW c \in Targets, IsClean(c), Done(c)', NEW t \in RemovedBy(c) \cap Stamps
             PROVE  /\ mk'[t] \in {"unseen", "absent", "running", "failed", "remade"}
                    /\ mk'[t] = "unseen" => t \notin present'
  BY DEF RemovedIsRemade, RemovedBy, Removes
<1>0. c \notin Stamps /\ t \in Targets /\ mk \in [Targets -> Status]
  BY StampNames DEF IsClean, Types
<1>1. ~Forgotten
  BY DEF Forgotten, Done
<1>2. CASE Done(c)
  <2>1. mk[t] \in {"unseen", "absent", "running", "failed", "remade"}
        /\ (mk[t] = "unseen" => t \notin present)
    BY <1>2 DEF RemovedIsRemade
  <2>2. CASE Consider(t)
    <3>1. mk[t] = "unseen" /\ mk'[t] = Stat(t)
      BY <1>0, <2>2 DEF Consider, IsStamp
    <3>2. mk'[t] = "absent"
      BY <2>1, <3>1 DEF Stat
    <3> QED
      BY <3>2
  <2>3. CASE Keep(t)
    BY <2>1, <2>3 DEF Keep, Needed
  <2>4. CASE EndStep(t)
    BY <1>0, <2>4 DEF EndStep
  <2> QED
    BY <1>1, <2>1, <2>2, <2>3, <2>4, StampChange
<1>3. CASE ~Done(c)
  <2>1. EndClean(c)
    <3>1. \A w \in Targets : TargetStep(w) => w = c \/ mk'[c] = mk[c]
      BY <1>0 DEF TargetStep, Consider, Keep, Group, Prepare, BeginStep, EndStep, BeginClean, RemoveStamp,
                  EndClean, BeginDirClean, EndDirClean
    <3>2. TargetStep(c) => EndClean(c)
      <4>1. ~Consider(c) /\ ~BeginClean(c) /\ ~RemoveStamp(c) /\ ~BeginStep(c) /\ ~EndStep(c)
        BY <1>0, <1>3 DEF Consider, BeginClean, RemoveStamp, BeginStep, EndStep, IsStamp, Done
      <4>2. ~Keep(c)
        BY <1>0 DEF Keep, Needed, PhonyNeverKept
      <4>3. ~Group(c) /\ ~BeginDirClean(c) /\ ~EndDirClean(c)
        BY <1>0 DEF Group, BeginDirClean, EndDirClean, IsClean, Cleans, Commands
      <4>4. ~Prepare(c)
        BY <1>0 DEF Prepare, Preparations, IsClean, Cleans
      <4> QED
        BY <4>1, <4>2, <4>3, <4>4 DEF TargetStep
    <3>3. ASSUME NEW w \in Targets, FailStep(w) PROVE FALSE
      BY <1>0, <1>3, <3>3 DEF FailStep, Done
    <3>4. ~Finish /\ ~(\E p \in Packages : Edit(p)) /\ vars' # vars
      BY <1>3 DEF Finish, Edit, vars, make, Done
    <3>5. ~Interrupt /\ ~(\E g \in GoalLists : StartRun(g))
      BY <1>1 DEF Interrupt, StartRun, Forgotten
    <3> QED
      BY <1>3, <3>1, <3>2, <3>3, <3>4, <3>5 DEF Next, MakeStep, Done
  <2>2. mk[c] = "running" /\ rmleft[c[1]] = <<>> /\ UNCHANGED present
    BY <2>1 DEF EndClean, disk
  <2>3. t \notin present
    <3>1. Len(rmleft[c[1]]) = 0
      BY <2>2
    <3>2. t \in present => \E i \in 1..0 : t = rmleft[c[1]][i]
      BY <2>2, <3>1 DEF RemovalGoesOn
    <3> QED
      BY <3>2
  <2>4. mk[t] = "unseen"
    BY <2>1, CleanerIsFirst DEF Cleaner
  <2>5. mk'[t] = mk[t]
    BY <1>0, <2>1 DEF EndClean
  <2> QED
    BY <2>2, <2>3, <2>4, <2>5
<1> QED
  BY <1>2, <1>3

-----------------------------------------------------------------------------
(* What a step works on is the result of one that is done, or the sources. *)
LEMMA InputDone ==
  ASSUME PrereqsDone, NEW t \in Stamps, mk[t] \in {"running", "remade"}
  PROVE  Input(t) = {} \/ \E q \in Stamps \ {t} : Input(t) = {q} /\ Done(q)
<1> DEFINE p == t[1]
           At(s) == <<p, s>>
<1>1. /\ p \in Packages /\ t[2] \in StampSteps(p) /\ t = <<p, t[2]>>
      /\ t \in Targets /\ Stamps \subseteq Targets
  BY StampNames
<1>2. ASSUME NEW r \in Stamps, mk[r] \in {"running", "remade", "kept"}, NEW q \in Normal(r)
      PROVE  q \in Stamps /\ Done(q)
  BY <1>1, <1>2, NormalAreStamps DEF PrereqsDone, Prereqs
<1>3. ASSUME NEW r \in Stamps, r = At("configure"), mk[r] \in {"running", "remade", "kept"}
      PROVE  At(TreeStep(p)) \in Stamps /\ Done(At(TreeStep(p)))
  <2>1. CASE p \in Override
    <3>1. At("rsync") \in OrderOnly(r)
      BY <1>3, <2>1 DEF OrderOnly, OrderOnlySteps
    <3>2. Done(At("rsync"))
      BY <1>1, <1>3, <3>1 DEF PrereqsDone, Prereqs
    <3> QED
      BY <1>1, <2>1, <3>2, TreeStepIsStamp DEF TreeStep
  <2>2. CASE p \notin Override
    <3>1. At("patch") \in Normal(r)
      BY <1>3, <2>2 DEF Normal, Before, ConfigureAfter, Commands, InstallSteps
    <3> QED
      BY <1>2, <1>3, <2>2, <3>1 DEF TreeStep
  <2> QED
    BY <2>1, <2>2
<1>4. At(TreeStep(p))[2] \in {"rsync", "patch"}
  BY DEF TreeStep
<1>5. CASE t[2] = "extract"
  <2>1. Input(t) = {At("source")} /\ At("source") \in Normal(t)
    BY <1>5 DEF Input, Normal, Before, Commands, InstallSteps
  <2>2. At("source") # t
    BY <1>5
  <2>3. At("source") \in Stamps \ {t} /\ Done(At("source"))
    BY <1>2, <2>1, <2>2
  <2> HIDE DEF At
  <2>4. Input(t) = {At("source")}
    BY <2>1
  <2> QED
    BY <2>3, <2>4
<1>6. CASE t[2] = "patch"
  <2>1. Input(t) = {At("extract")} /\ At("extract") \in Normal(t)
    BY <1>6 DEF Input, Normal, Before, Commands, InstallSteps
  <2>2. At("extract") # t
    BY <1>6
  <2>3. At("extract") \in Stamps \ {t} /\ Done(At("extract"))
    BY <1>2, <2>1, <2>2
  <2> HIDE DEF At
  <2>4. Input(t) = {At("extract")}
    BY <2>1
  <2> QED
    BY <2>3, <2>4
<1>7. CASE t[2] = "configure"
  <2>1. Input(t) = {At(TreeStep(p))}
    BY <1>7 DEF Input, InstallSteps
  <2>2. At(TreeStep(p)) \in Stamps /\ Done(At(TreeStep(p)))
    BY <1>1, <1>3, <1>7
  <2>3. At(TreeStep(p)) # t
    BY <1>4, <1>7
  <2> HIDE DEF At
  <2> QED
    BY <2>1, <2>2, <2>3
<1>8. CASE t[2] = "build"
  <2>1. Input(t) = {At(TreeStep(p))} /\ At("configure") \in Normal(t)
    BY <1>8 DEF Input, Normal, Before, Commands, InstallSteps
  <2>2. At("configure") \in Stamps /\ Done(At("configure"))
    BY <1>2, <2>1
  <2> QED
    BY <1>3, <1>4, <1>8, <2>1, <2>2 DEF Done
<1>9. CASE t[2] \in InstallSteps \cup {"install"}
  <2>1. Input(t) = {At("build")}
    BY <1>9 DEF Input, InstallSteps
  <2>2. At("build") \in Normal(t)
    <3>1. CASE t[2] = "install"
      BY <3>1 DEF Normal, Before, InstalledAfter, Commands, InstallSteps
    <3>2. CASE t[2] \in InstallSteps
      BY <3>2, InstallAfterBuild DEF BuildOf
    <3> QED
      BY <1>9, <3>1, <3>2
  <2>3. "build" \notin InstallSteps \cup {"install"}
    BY DEF InstallSteps
  <2> QED
    BY <1>2, <1>9, <2>1, <2>2, <2>3
<1>10. CASE t[2] \notin {"extract", "patch", "configure", "build", "install"} \cup InstallSteps
  BY <1>10 DEF Input
<1> QED
  BY <1>5, <1>6, <1>7, <1>8, <1>9, <1>10

LEMMA EndVersion ==
  ASSUME PrereqsDone, SourceTypes, VersionsReal, NEW u \in Stamps, EndStep(u)
  PROVE  \E v \in Nat : /\ version' = [version EXCEPT ![u] = v] /\ v >= 1
                        /\ Input(u) = {} => v >= atStart.src[u[1]]
                        /\ \A q \in Input(u) : v = version[q] /\ q # u
<1>1. mk[u] = "running" /\ u[1] \in Packages
  BY StampNames DEF EndStep
<1>2. PICK v \in VersionsFor(u) : version' = [version EXCEPT ![u] = v]
  BY DEF EndStep
<1>3. CASE Input(u) = {}
  <2>1. v \in atStart.src[u[1]] .. src[u[1]]
    BY <1>2, <1>3 DEF VersionsFor
  <2>2. atStart.src[u[1]] \in Nat \ {0} /\ src[u[1]] \in Nat \ {0}
    BY <1>1 DEF SourceTypes
  <2>3. v \in Nat /\ v >= 1 /\ v >= atStart.src[u[1]]
    BY <2>1, <2>2
  <2> QED
    BY <1>2, <1>3, <2>3
<1>4. CASE Input(u) # {}
  <2>1. PICK q \in Stamps \ {u} : Input(u) = {q} /\ Done(q)
    BY <1>1, <1>4, InputDone
  <2>2. v = version[q]
    BY <1>2, <1>4, <2>1 DEF VersionsFor
  <2>3. version[q] \in Nat /\ version[q] >= 1
    BY <2>1 DEF SourceTypes, VersionsReal, Done
  <2> QED
    BY <1>2, <2>1, <2>2, <2>3
<1> QED
  BY <1>3, <1>4

LEMMA SourceStep ==
  ASSUME PrereqsDone, SourceTypes, VersionsReal, [Next]_vars
  PROVE  SourceTypes'
<1>1. ASSUME NEW u \in Targets, EndStep(u) PROVE SourceTypes'
  <2>1. u \in Stamps /\ UNCHANGED <<src, atStart>>
    BY <1>1 DEF EndStep, IsStamp
  <2>2. PICK v \in Nat : version' = [version EXCEPT ![u] = v]
    BY <1>1, <2>1, EndVersion
  <2> QED
    BY <2>1, <2>2 DEF SourceTypes
<1>2. ASSUME NEW p \in Packages, Edit(p) PROVE SourceTypes'
  <2>1. p \in Override /\ src' = [src EXCEPT ![p] = src[p] + 1] /\ UNCHANGED <<version, atStart>>
    BY <1>2 DEF Edit, disk
  <2>2. src[p] + 1 \in Nat \ {0}
    BY DEF SourceTypes
  <2> QED
    BY <2>1, <2>2 DEF SourceTypes
<1>3. ASSUME NEW g \in GoalLists, StartRun(g) PROVE SourceTypes'
  BY <1>3 DEF StartRun, SourceTypes, disk
<1>4. ASSUME UNCHANGED <<src, version, atStart>> PROVE SourceTypes'
  BY <1>4 DEF SourceTypes
<1>5. ASSUME NEW u \in Targets, TargetStep(u) PROVE SourceTypes'
  BY <1>1, <1>4, <1>5
     DEF TargetStep, Consider, Keep, Group, Prepare, BeginStep, BeginClean, RemoveStamp, EndClean,
         BeginDirClean, EndDirClean, disk
<1>6. ASSUME NEW u \in Targets, FailStep(u) PROVE SourceTypes'
  BY <1>6, <1>4 DEF FailStep, disk
<1>7. CASE Finish \/ Interrupt \/ UNCHANGED vars
  BY <1>7, <1>4 DEF Finish, Interrupt, vars, disk
<1> QED
  BY <1>2, <1>3, <1>5, <1>6, <1>7 DEF Next, MakeStep

(* A new run, or the end of one, leaves the files alone.                   *)
LEMMA ForgottenKeeps ==
  ASSUME Types, [Next]_vars, Forgotten
  PROVE  UNCHANGED disk
<1>1. \A t \in Targets : mk'[t] = "unseen"
  BY DEF Forgotten
<1>2. mk \in [Targets -> Status]
  BY DEF Types
<1>3. ASSUME NEW u \in Targets, TargetStep(u) PROVE UNCHANGED disk
  <2>1. CASE Consider(u) \/ Keep(u) \/ Group(u) \/ Prepare(u) \/ BeginClean(u) \/ EndClean(u)
    BY <2>1 DEF Consider, Keep, Group, Prepare, BeginClean, EndClean
  <2>2. CASE BeginStep(u) \/ EndStep(u) \/ RemoveStamp(u) \/ BeginDirClean(u) \/ EndDirClean(u)
    BY <1>1, <1>2, <2>2 DEF BeginStep, EndStep, RemoveStamp, BeginDirClean, EndDirClean
  <2> QED
    BY <1>3, <2>1, <2>2 DEF TargetStep
<1>4. ASSUME NEW u \in Targets, FailStep(u) PROVE UNCHANGED disk
  BY <1>4 DEF FailStep
<1>5. CASE Finish \/ Interrupt \/ (\E p \in Packages : Edit(p)) \/ (\E g \in GoalLists : StartRun(g))
  BY <1>5 DEF Finish, Interrupt, Edit, StartRun
<1>6. CASE UNCHANGED vars
  BY <1>6 DEF vars
<1> QED
  BY <1>3, <1>4, <1>5, <1>6 DEF Next, MakeStep

LEMMA VersionStep ==
  ASSUME Types, PrereqsDone, SourceTypes, VersionsReal, VersionFollows, [Next]_vars
  PROVE  VersionsReal' /\ VersionFollows'
<1>1. CASE Forgotten
  <2>1. UNCHANGED disk /\ \A t \in Stamps : mk'[t] = "unseen"
    BY <1>1, ForgottenKeeps, StampNames DEF Forgotten
  <2> QED
    BY <2>1 DEF disk, VersionsReal, VersionFollows
<1>2. ASSUME ~Forgotten, NEW t \in Stamps,
             t \in present' \/ mk'[t] \in {"fresh", "remade", "kept"}
      PROVE  version'[t] >= 1
  <2>1. t \in Targets /\ mk \in [Targets -> Status] /\ version \in [Stamps -> Nat]
    BY StampNames DEF Types, SourceTypes
  <2>2. CASE Consider(t)
    <3>1. mk'[t] = Stat(t) /\ UNCHANGED <<present, version>>
      BY <2>1, <2>2 DEF Consider, IsStamp, disk
    <3>2. t \in present
      BY <1>2, <3>1 DEF Stat
    <3> QED
      BY <3>1, <3>2 DEF VersionsReal
  <2>3. CASE Keep(t)
    <3>1. mk[t] = "fresh" /\ UNCHANGED version
      BY <2>3 DEF Keep, Needed, disk
    <3> QED
      BY <3>1 DEF VersionsReal
  <2>4. CASE EndStep(t)
    <3>1. PICK v \in Nat : version' = [version EXCEPT ![t] = v] /\ v >= 1
      BY <2>4, EndVersion
    <3> QED
      BY <2>1, <3>1
  <2>5. ASSUME mk'[t] = mk[t] \/ mk'[t] \in {"running", "failed"},
               t \in present' => t \in present, version'[t] = version[t]
        PROVE  version'[t] >= 1
    BY <1>2, <2>5 DEF VersionsReal
  <2> QED
    BY <1>2, <2>2, <2>3, <2>4, <2>5, StampChange
<1>3. ASSUME ~Forgotten, NEW t \in Stamps, mk'[t] = "remade"
      PROVE  IF Input(t) = {} THEN version'[t] >= atStart'.src[t[1]]
             ELSE \A q \in Input(t) : version'[t] = version'[q]
  <2>1. t \in Targets /\ mk \in [Targets -> Status] /\ version \in [Stamps -> Nat]
    BY StampNames DEF Types, SourceTypes
  <2>2. atStart' = atStart
    BY <1>3, GoalsStay
  <2>3. CASE EndStep(t)
    <3>1. PICK v \in Nat : /\ version' = [version EXCEPT ![t] = v]
                           /\ Input(t) = {} => v >= atStart.src[t[1]]
                           /\ \A q \in Input(t) : v = version[q] /\ q # t
      BY <2>3, EndVersion
    <3>2. version'[t] = v /\ \A q \in Input(t) : version'[q] = version[q]
      BY <2>1, <3>1
    <3> QED
      BY <2>2, <3>1, <3>2
  <2>4. CASE ~EndStep(t)
    <3>1. ~Consider(t) /\ ~Keep(t)
      BY <1>3, <2>1 DEF Consider, Keep, Stat, IsStamp
    <3>2. mk[t] = "remade" /\ version'[t] = version[t]
      BY <1>3, <2>4, <3>1, StampChange
    <3>3. ASSUME NEW q \in Input(t) PROVE version'[q] = version[q]
      <4>1. q \in Stamps /\ Done(q)
        BY <3>2, InputDone
      <4>2. ~EndStep(q)
        BY <4>1 DEF EndStep, Done
      <4>3. (Consider(q) \/ Keep(q)) => version' = version
        BY DEF Consider, Keep, disk
      <4> QED
        BY <1>3, <4>1, <4>2, <4>3, StampChange
    <3> QED
      BY <2>2, <3>2, <3>3 DEF VersionFollows
  <2> QED
    BY <2>3, <2>4
<1> QED
  BY <1>1, <1>2, <1>3 DEF VersionsReal, VersionFollows

LEMMA GoalsDoneStep ==
  ASSUME Types, GoalsGiven, GoalsDone, [Next]_vars
  PROVE  GoalsDone'
<1> SUFFICES ASSUME run' = "ok"
             PROVE  \A i \in 1..Len(goals') : mk'[goals'[i]] \in {"remade", "kept"}
  BY DEF GoalsDone, Done
<1>1. goals' = goals /\ (mk' = mk \/ \E u \in Targets : \E v \in Status : Progress(u, v))
  <2>1. ~Interrupt /\ ~(\E g \in GoalLists : StartRun(g))
    BY DEF Interrupt, StartRun
  <2>2. CASE Finish \/ (\E p \in Packages : Edit(p)) \/ UNCHANGED vars
    BY <2>2 DEF Finish, Edit, vars, make
  <2>3. ASSUME NEW u \in Targets, TargetStep(u) \/ FailStep(u)
        PROVE  goals' = goals /\ ~Forgotten
    BY <2>3
       DEF TargetStep, FailStep, Consider, Keep, Group, Prepare, BeginStep, EndStep, BeginClean, RemoveStamp,
           EndClean, BeginDirClean, EndDirClean, Forgotten, Types, Stat
  <2> QED
    BY <2>1, <2>2, <2>3, KnowledgeGrows DEF Next, MakeStep
<1>2. \A i \in 1..Len(goals) : Done(goals[i])
  <2>1. CASE run = "ok"
    BY <2>1 DEF GoalsDone
  <2>2. CASE run # "ok"
    <3>1. Finish
      BY <2>2 DEF Next, MakeStep, TargetStep, FailStep, Interrupt, Edit, StartRun, vars, make,
                  Consider, Keep, Group, Prepare, BeginStep, EndStep, BeginClean, RemoveStamp,
                  EndClean, BeginDirClean, EndDirClean
    <3> QED
      BY <3>1 DEF Finish
  <2> QED
    BY <2>1, <2>2
<1>3. \A i \in 1..Len(goals) : goals[i] \in Targets
  BY GoalsAreTargets
<1>4. \A t \in Targets : Done(t) => mk'[t] \in {"remade", "kept"}
  BY <1>1, DoneStays DEF Done
<1> QED
  BY <1>1, <1>2, <1>3, <1>4

-----------------------------------------------------------------------------
LEMMA SuccessInit == Init => SuccessInv
<1> SUFFICES ASSUME Init PROVE SuccessInv
  OBVIOUS
<1>1. DependsInv
  BY DependsInit
<1>2. \A t \in Targets : mk[t] = "unseen"
  BY DEF Init
<1>3. \A t \in Stamps : mk[t] = "unseen"
  BY <1>2, StampNames
<1>4. OrderInv
  BY <1>2, PackagedClosed DEF Init, OrderInv, GoalsGiven, OnlyFirst, CleanedFirst, SomeSeen
<1>5. AllHold
  BY <1>3 DEF AllHold, Holds, Done
<1>6. PhonyNeverKept /\ RemovalGoesOn /\ RemovedIsRemade
  BY <1>2 DEF PhonyNeverKept, RemovalGoesOn, RemovedIsRemade, Done
<1>7. SourceTypes
  BY DEF Init, SourceTypes
<1>8. VersionsReal /\ VersionFollows
  BY <1>3 DEF Init, VersionsReal, VersionFollows
<1>9. GoalsDone
  BY DEF Init, GoalsDone
<1> QED
  BY <1>1, <1>4, <1>5, <1>6, <1>7, <1>8, <1>9 DEF SuccessInv

LEMMA SuccessStep ==
  ASSUME CommandLinesCleanFirst, SuccessInv, [Next]_vars
  PROVE  SuccessInv'
<1>1. DependsInv /\ DependsInv'
  BY DependsStep DEF SuccessInv
<1>2. IndInv /\ Types /\ PrereqsDone /\ OwnStampsLeft
  BY <1>1 DEF DependsInv, IndInv
<1>3. /\ OrderInv /\ AllHold /\ PhonyNeverKept /\ RemovalGoesOn /\ RemovedIsRemade
      /\ SourceTypes /\ VersionsReal /\ VersionFollows /\ GoalsDone /\ GoalsGiven
  BY DEF SuccessInv, OrderInv
<1>4. OrderInv' /\ AllHold' /\ PhonyNeverKept'
  BY <1>2, <1>3, OrderStep, AllHoldStep, PhonyStep
<1>5. RemovalGoesOn'
  <2>1. CASE Forgotten
    BY <2>1 DEF Forgotten, RemovalGoesOn
  <2>2. CASE ~Forgotten
    <3>1. \A c \in Targets : IsClean(c) /\ mk'[c] = "running" =>
            \A t \in RemovedBy(c) \cap present' :
              \E i \in 1..Len(rmleft'[c[1]]) : t = rmleft'[c[1]][i]
      BY <1>2, <1>3, <2>2, RemovalStep
    <3> QED
      BY <3>1 DEF RemovalGoesOn
  <2> QED
    BY <2>1, <2>2
<1>6. RemovedIsRemade'
  BY <1>2, <1>3, RemadeStep
<1>7. SourceTypes' /\ VersionsReal' /\ VersionFollows'
  BY <1>2, <1>3, SourceStep, VersionStep
<1>8. GoalsDone'
  BY <1>2, <1>3, GoalsDoneStep
<1> QED
  BY <1>1, <1>4, <1>5, <1>6, <1>7, <1>8 DEF SuccessInv

(* The stamps that a stamp follows from are of its package.                *)
LEMMA ChainIsOwn ==
  ASSUME NEW t \in Stamps
  PROVE  Chain[t] \subseteq StampsOf(t[1])
<1> DEFINE p == t[1]
           Own(s) == <<p, s>> \in Stamps => Chain[<<p, s>>] \subseteq StampsOf(p)
<1>1. p \in Packages /\ t[2] \in StampSteps(p) /\ t = <<p, t[2]>>
  BY StampNames
<1>2. ASSUME NEW s, \A r \in Before(p, s) : Own(r) PROVE Own(s)
  <2> SUFFICES ASSUME <<p, s>> \in Stamps PROVE Chain[<<p, s>>] \subseteq StampsOf(p)
    OBVIOUS
  <2>1. Chain[<<p, s>>] = {<<p, s>>} \cup UNION {Chain[q] : q \in Normal(<<p, s>>)}
    BY ChainEquation
  <2>2. ASSUME NEW q \in Normal(<<p, s>>) PROVE Chain[q] \subseteq StampsOf(p)
    <3>1. PICK r \in Before(p, s) : q = <<p, r>>
      BY DEF Normal
    <3>2. q \in Stamps
      BY NormalAreStamps
    <3> QED
      BY <1>2, <3>1, <3>2
  <2>3. <<p, s>> \in StampsOf(p)
    BY DEF StampsOf
  <2> QED
    BY <2>1, <2>2, <2>3
<1> HIDE DEF Own
<1>3. Own("source") /\ Own("rsync")
  BY <1>2 DEF Before, InstallSteps, Commands
<1>4. Own("extract")
  BY <1>2, <1>3 DEF Before, InstallSteps, Commands
<1>5. Own("patch")
  BY <1>2, <1>4 DEF Before, InstallSteps, Commands
<1>6. Own("configure")
  BY <1>2, <1>5 DEF Before, ConfigureAfter, InstallSteps, Commands
<1>7. Own("build")
  BY <1>2, <1>6 DEF Before, InstallSteps, Commands
<1>8. \A s \in InstallSteps \ {"target"} : Own(s)
  <2> SUFFICES ASSUME NEW s \in InstallSteps \ {"target"} PROVE Own(s)
    OBVIOUS
  <2>1. Before(p, s) = {"build"}
    BY DEF Before, InstallAfter, InstallSteps, Commands
  <2> QED
    BY <1>2, <1>7, <2>1
<1>9. Own("target")
  <2>1. Before(p, "target") \subseteq {"build", "staging"}
    BY DEF Before, InstallAfter, InstallSteps, Commands
  <2>2. Own("staging")
    BY <1>8 DEF InstallSteps
  <2> QED
    BY <1>2, <1>7, <2>1, <2>2
<1>10. Own("install")
  <2>1. Before(p, "install") \subseteq {"build"} \cup InstallSteps
    BY <1>1, GraphAssumption DEF Before, InstalledAfter, InstallSteps, Commands
  <2> QED
    BY <1>2, <1>7, <1>8, <1>9, <2>1
<1>11. Own(t[2])
  <2>1. Installs[p] \subseteq InstallSteps
    BY <1>1, GraphAssumption
  <2> QED
    BY <1>1, <1>3, <1>4, <1>5, <1>6, <1>7, <1>8, <1>9, <1>10, <2>1 DEF StampSteps, SourceSteps
<1> QED
  BY <1>1, <1>11 DEF Own

(* A goal that is done leaves all the stamps of its package done.          *)
LEMMA GoalIsAll ==
  ASSUME CommandLinesCleanFirst, SuccessInv, run = "ok", NEW i \in 1..Len(goals),
         goals[i][2] # "dirclean"
  PROVE  /\ goals[i] \in Targets /\ Done(goals[i])
         /\ goals[i][2] \in Commands \cup {"pkg"} /\ goals[i] = <<goals[i][1], goals[i][2]>>
         /\ goals[i][1] \in Packages /\ \A t \in StampsOf(goals[i][1]) : Done(t)
<1> DEFINE g == goals[i]
<1>1. g \in Targets /\ Done(g)
  BY GoalsAreTargets DEF SuccessInv, OrderInv, GoalsDone
<1>2. g[2] \in Commands \cup {"pkg"}
  BY GoalsFirst DEF SuccessInv, OrderInv, CleansFirst
<1>3. g \notin Stamps
  BY <1>2, StampNames
<1>4. g[1] \in Packages /\ g = <<g[1], g[2]>>
  BY <1>1, <1>2, <1>3 DEF Targets, Preparations, Commands
<1>5. Done(<<g[1], "pkg">>)
  <2>1. CASE g[2] = "pkg"
    BY <1>1, <1>4, <2>1
  <2>2. CASE g[2] \in Commands
    <3>1. <<g[1], "pkg">> \in Prereqs(g)
      BY <2>2 DEF Prereqs, Normal, Before, Commands, InstallSteps
    <3> QED
      BY <1>1, <3>1 DEF SuccessInv, DependsInv, PrereqsDone, Done
  <2> QED
    BY <1>2, <2>1, <2>2
<1>6. \A t \in StampsOf(g[1]) : Done(t)
  BY <1>4, <1>5, PackageIsAll DEF SuccessInv, DependsInv
<1> QED
  BY <1>1, <1>2, <1>4, <1>6

LEMMA SuccessComplete ==
  ASSUME CommandLinesCleanFirst, SuccessInv
  PROVE  SuccessIsComplete
<1> SUFFICES ASSUME run = "ok", NEW i \in 1..Len(goals), goals[i][2] # "dirclean",
                    NEW t \in StampsOf(goals[i][1]), t[1] \notin torn
             PROVE  t \in UpToDate \cap complete
  BY DEF SuccessIsComplete, StampsOf
<1>1. t \in Stamps /\ t[1] = goals[i][1]
  BY DEF StampsOf
<1>2. \A q \in StampsOf(t[1]) : Holds(q) /\ Done(q)
  BY <1>1, GoalIsAll DEF SuccessInv, AllHold, StampsOf
<1>3. t \in complete
  BY <1>2 DEF Holds, StampsOf
<1>4. \A q \in Chain[t] : q \in present /\ stale[q] = {}
  BY <1>1, <1>2, ChainIsOwn DEF Holds
<1> QED
  BY <1>1, <1>3, <1>4 DEF UpToDate

(* The stamps that each of the clean targets removes.                      *)
LEMMA RemovedStamps ==
  ASSUME NEW p \in Packages
  PROVE  /\ \A s \in InstallSteps \cup {"install"} :
              <<p, s>> \in RemovedBy(<<p, "clean-for-reinstall">>)
         /\ p \in Override => <<p, "rsync">> \in RemovedBy(<<p, "clean-for-reinstall">>)
         /\ <<p, "build">> \in RemovedBy(<<p, "clean-for-rebuild">>)
         /\ <<p, "configure">> \in RemovedBy(<<p, "clean-for-reconfigure">>)
<1> DEFINE R == <<p, "clean-for-reinstall">>
           first == IF p \in Override THEN <<<<p, "rsync">>>> ELSE <<>>
           others == <<<<p, "install">>, <<p, "staging">>, <<p, "target">>,
                       <<p, "images">>, <<p, "host">>>>
<1>1. Removes(R) = first \o others
  BY DEF Removes
<1>2. /\ first \in Seq(Removable(p)) /\ others \in Seq(Removable(p))
      /\ Len(others) = 5 /\ (p \in Override => Len(first) = 1 /\ first[1] = <<p, "rsync">>)
  BY DEF Removable
<1>3. \A s \in InstallSteps \cup {"install"} : \E j \in 1..5 : others[j] = <<p, s>>
  <2>1. /\ others[1] = <<p, "install">> /\ others[2] = <<p, "staging">>
        /\ others[3] = <<p, "target">> /\ others[4] = <<p, "images">>
        /\ others[5] = <<p, "host">>
    OBVIOUS
  <2> HIDE DEF others
  <2> QED
    BY <2>1 DEF InstallSteps
<1> HIDE DEF first, others
<1>4. /\ Len(first) \in Nat /\ Len(first \o others) = Len(first) + 5
      /\ \A j \in 1..Len(first) + 5 : (first \o others)[j] =
           IF j <= Len(first) THEN first[j] ELSE others[j - Len(first)]
  <2>1. /\ Len(first \o others) = Len(first) + Len(others)
        /\ \A j \in 1..Len(first) + Len(others) : (first \o others)[j] =
             IF j <= Len(first) THEN first[j] ELSE others[j - Len(first)]
    BY <1>2, ConcatProperties
  <2>2. Len(first) \in Nat /\ Len(others) = 5
    BY <1>2, LenProperties
  <2> QED
    BY <2>1, <2>2
<1>5. RemovedBy(R) = {(first \o others)[j] : j \in 1..Len(first \o others)}
  BY <1>1 DEF RemovedBy
<1>6. ASSUME NEW s \in InstallSteps \cup {"install"} PROVE <<p, s>> \in RemovedBy(R)
  <2>1. PICK j \in 1..5 : others[j] = <<p, s>>
    BY <1>3
  <2>2. /\ Len(first) + j \in 1..Len(first) + 5 /\ ~(Len(first) + j <= Len(first))
        /\ (Len(first) + j) - Len(first) = j
    BY <1>4
  <2>3. /\ Len(first) + j \in 1..Len(first \o others)
        /\ (first \o others)[Len(first) + j] = others[j]
    BY <1>4, <2>2
  <2> QED
    BY <1>5, <2>1, <2>3
<1>7. ASSUME p \in Override PROVE <<p, "rsync">> \in RemovedBy(R)
  <2>1. Len(first) = 1 /\ first[1] = <<p, "rsync">>
    BY <1>2, <1>7
  <2>2. 1 \in 1..Len(first) + 5 /\ 1 <= Len(first) /\ Len(first \o others) = Len(first) + 5
    BY <1>4, <2>1
  <2>3. (first \o others)[1] = first[1]
    BY <1>4, <2>2
  <2> QED
    BY <1>5, <2>1, <2>2, <2>3
<1>8. <<p, "build">> \in RemovedBy(<<p, "clean-for-rebuild">>)
  <2>1. Removes(<<p, "clean-for-rebuild">>) = <<<<p, "build">>>>
    BY DEF Removes
  <2> QED
    BY <2>1 DEF RemovedBy
<1>9. <<p, "configure">> \in RemovedBy(<<p, "clean-for-reconfigure">>)
  <2>1. Removes(<<p, "clean-for-reconfigure">>) = <<<<p, "configure">>>>
    BY DEF Removes
  <2> QED
    BY <2>1 DEF RemovedBy
<1> QED
  BY <1>6, <1>7, <1>8, <1>9

(* What a command removes is made again, and from sources that are not     *)
(* older than the run.                                                     *)
LEMMA CommandsRedo ==
  ASSUME CommandLinesCleanFirst, SuccessInv, run = "ok", NEW i \in 1..Len(goals),
         goals[i][2] \in Commands, NEW t \in Redone(goals[i])
  PROVE  t \in StampsOf(goals[i][1]) /\ mk[t] = "remade"
<1> DEFINE g == goals[i]
           p == g[1]
           R == <<p, "clean-for-reinstall">>
           B == <<p, "clean-for-rebuild">>
           F == <<p, "clean-for-reconfigure">>
<1>1. g \in Targets /\ Done(g) /\ p \in Packages /\ \A q \in StampsOf(p) : Done(q)
  BY GoalIsAll DEF Commands
<1>2. Done(<<p, CleanOf(g[2])>>)
  <2>1. <<p, CleanOf(g[2])>> \in Prereqs(g)
    BY DEF Prereqs, Normal, Before, Commands, InstallSteps
  <2> QED
    BY <1>1, <2>1 DEF SuccessInv, DependsInv, PrereqsDone, Done
<1>3. \A c \in Targets : c \in CleansFor(g) => Done(c)
  BY <1>1, <1>2, LesserCleansDone DEF SuccessInv, DependsInv
<1>4. R \in Targets /\ B \in Targets /\ F \in Targets
  BY <1>1 DEF Targets, Cleans
<1>5. /\ R \in CleansFor(g)
      /\ g[2] \in {"rebuild", "reconfigure"} => B \in CleansFor(g)
      /\ g[2] = "reconfigure" => F \in CleansFor(g)
  BY DEF CleansFor, Commands, Cleans
<1>6. ASSUME NEW c \in {R, B, F}, c \in CleansFor(g), NEW q \in RemovedBy(c), q \in StampsOf(p)
      PROVE  mk[q] = "remade"
  <2>1. c \in Targets /\ IsClean(c) /\ Done(c) /\ Done(q) /\ q \in Stamps
    BY <1>1, <1>3, <1>4, <1>6 DEF IsClean, Cleans, StampsOf
  <2> QED
    BY <2>1 DEF SuccessInv, RemovedIsRemade, Done
<1> DEFINE install == Installs[p] \cup {"install"} \cup (IF p \in Override THEN {"rsync"} ELSE {})
<1>7. \E s \in install \cup {"build", "configure"} :
        /\ t = <<p, s>>
        /\ s = "build" => g[2] \in {"rebuild", "reconfigure"}
        /\ s = "configure" => g[2] = "reconfigure"
  <2>1. "build" \notin install /\ "configure" \notin install
    BY <1>1, GraphAssumption DEF InstallSteps
  <2>2. Redone(g) = {<<p, s>> : s \in CASE g[2] = "reinstall" -> install
                                      [] g[2] = "rebuild" -> install \cup {"build"}
                                      [] g[2] = "reconfigure" -> install \cup {"build", "configure"}
                                      [] g[2] = "dirclean" -> StampSteps(p)
                                      [] OTHER -> {}}
    BY DEF Redone
  <2> HIDE DEF install
  <2>3. CASE g[2] = "reinstall"
    BY <2>1, <2>2, <2>3
  <2>4. CASE g[2] = "rebuild"
    BY <2>1, <2>2, <2>4
  <2>5. CASE g[2] = "reconfigure"
    BY <2>1, <2>2, <2>5
  <2> QED
    BY <2>3, <2>4, <2>5 DEF Commands
<1>8. PICK s \in install \cup {"build", "configure"} :
        /\ t = <<p, s>>
        /\ s = "build" => g[2] \in {"rebuild", "reconfigure"}
        /\ s = "configure" => g[2] = "reconfigure"
  BY <1>7
<1>9. t \in StampsOf(p)
  <2>1. s \in StampSteps(p)
    BY DEF StampSteps, SourceSteps
  <2> QED
    BY <1>1, <1>8, <2>1, StepIsStamp DEF StampsOf
<1>10. CASE s \in install
  <2>1. t \in RemovedBy(R)
    BY <1>1, <1>8, <1>10, RemovedStamps, GraphAssumption
  <2> QED
    BY <1>5, <1>6, <1>9, <2>1
<1>11. CASE s = "build"
  BY <1>1, <1>5, <1>6, <1>8, <1>9, <1>11, RemovedStamps
<1>12. CASE s = "configure"
  BY <1>1, <1>5, <1>6, <1>8, <1>9, <1>12, RemovedStamps
<1> QED
  BY <1>8, <1>9, <1>10, <1>11, <1>12

(* What a command made again has every edit made before the run.           *)
LEMMA SuccessRedoes ==
  ASSUME CommandLinesCleanFirst, SuccessInv
  PROVE  RebuildTakesEffect
<1> SUFFICES ASSUME run = "ok", NEW i \in 1..Len(goals), goals[i][2] \in Commands,
                    NEW t \in Redone(goals[i])
             PROVE  /\ mk[t] = "remade"
                    /\ goals[i][2] # "reinstall" => version[t] >= atStart.src[t[1]]
  BY DEF RebuildTakesEffect
<1> DEFINE g == goals[i]
           p == g[1]
<1>1. \A u \in Redone(g) : u \in Stamps /\ u[1] = p /\ mk[u] = "remade"
  BY CommandsRedo DEF StampsOf
<1>2. ASSUME g[2] # "reinstall" PROVE version[t] >= atStart.src[t[1]]
  <2>1. p \in Packages /\ version[t] \in Nat /\ t \in Stamps /\ t[1] = p
    BY <1>1, StampNames DEF SuccessInv, SourceTypes
  <2>2. CASE p \notin Override
    <3>1. atStart.src[p] = 1
      BY <2>1, <2>2 DEF SuccessInv, SourceTypes
    <3>2. version[t] >= 1
      BY <1>1 DEF SuccessInv, VersionsReal
    <3> QED
      BY <2>1, <3>1, <3>2
  <2>3. CASE p \in Override
    <3> DEFINE rsync == <<p, "rsync">>
               build == <<p, "build">>
    <3>1. rsync \in Redone(g) /\ build \in Redone(g)
      BY <1>2, <2>3 DEF Redone, Commands
    <3>2. \E s \in InstallSteps \cup {"install", "rsync", "build", "configure"} : t = <<p, s>>
      BY <2>1, GraphAssumption DEF Redone, Commands
    <3>3. version[rsync] >= atStart.src[p]
      <4>1. Input(rsync) = {}
        BY DEF Input, InstallSteps
      <4> QED
        BY <1>1, <3>1, <4>1 DEF SuccessInv, VersionFollows
    <3>4. Input(build) = {rsync}
      BY <2>3 DEF Input, InstallSteps, TreeStep
    <3>5. version[build] = version[rsync]
      <4> HIDE DEF rsync, build
      <4> QED
        BY <1>1, <3>1, <3>4 DEF SuccessInv, VersionFollows
    <3>6. CASE t = rsync \/ t = build
      BY <2>1, <3>3, <3>5, <3>6
    <3>7. CASE t = <<p, "configure">>
      <4>1. Input(t) = {rsync}
        BY <2>3, <3>7 DEF Input, InstallSteps, TreeStep
      <4>2. version[t] = version[rsync]
        BY <1>1, <4>1 DEF SuccessInv, VersionFollows
      <4> QED
        BY <2>1, <3>3, <4>2
    <3>8. CASE \E s \in InstallSteps \cup {"install"} : t = <<p, s>>
      <4>1. Input(t) = {build}
        BY <3>8 DEF Input, InstallSteps
      <4>2. version[t] = version[build]
        BY <1>1, <4>1 DEF SuccessInv, VersionFollows
      <4> QED
        BY <2>1, <3>3, <3>5, <4>2
    <3> QED
      BY <3>2, <3>6, <3>7, <3>8
  <2> QED
    BY <2>2, <2>3
<1> QED
  BY <1>1, <1>2

(* When a run of make succeeds, the packages it was asked for are installed*)
(* and up to date, and what pkg-rebuild, pkg-reinstall or pkg-reconfigure  *)
(* has to make again was made again, with every edit made before the run,  *)
(* whatever runs failed or were killed before it, and whatever was edited  *)
(* meanwhile.                                                              *)
THEOREM SuccessEffective ==
  ASSUME CommandLinesCleanFirst
  PROVE  Spec => []SuccessTakesEffect
<1>1. SuccessInv => SuccessTakesEffect
  BY SuccessRedoes, SuccessComplete DEF SuccessTakesEffect
<1>2. SuccessInv /\ [Next]_vars => SuccessInv'
  BY SuccessStep
<1> QED
  BY SuccessInit, <1>1, <1>2, PTL DEF Spec
=============================================================================
