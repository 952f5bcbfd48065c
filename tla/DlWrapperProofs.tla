-------------------------- MODULE DlWrapperProofs --------------------------
(***************************************************************************)
(* Proofs about DlWrapper.tla for any number of processes, uris, contents  *)
(* and runs, and any choice of .hash files.                                *)
(***************************************************************************)
EXTENDS DlWrapper, TLAPS

USE DEF vars, config, locals

(* What the operators on files give, so that records need not be expanded. *)
LEMMA FileFacts ==
  /\ \A d \in Data : WholeFile(d) \in WholeFiles /\ PartialFile(d) \in Files
  /\ \A d \in Data : ~PartialFile(d).whole
  /\ \A f \in WholeFiles : f \in Files /\ f.whole /\ f.data \in Data
  /\ \A f \in Files : f.data \in Data
  /\ NoFile \notin Files
  /\ NoFile \notin WholeFiles
BY ConstantsAssumption DEF Files, WholeFiles, WholeFile, PartialFile

LEMMA UriCount ==
  /\ NbUris \in Nat
  /\ \A u \in Nat : u >= 1 /\ u <= NbUris => Served[u] \subseteq Data
BY ConstantsAssumption DEF NbUris

(* A step of one process leaves the place and the status of the others.    *)
LEMMA OthersStay ==
  ASSUME TypeOK, NEW p \in Procs, Start(p) \/ Step(p) \/ Kill(p)
  PROVE  \A q \in Procs \ {p} : pc'[q] = pc[q] /\ rc'[q] = rc[q]
<1> USE DEF TypeOK, Goto
<1>1. CASE Start(p)
  BY <1>1 DEF Start
<1>2. CASE Kill(p)
  BY <1>2 DEF Kill
<1>3. CASE Acquire(p)
  BY <1>3 DEF Acquire
<1>4. CASE Legacy(p)
  BY <1>4 DEF Legacy
<1>5. CASE Link(p)
  BY <1>5 DEF Link
<1>6. CASE CopyBegin(p)
  BY <1>6 DEF CopyBegin
<1>7. CASE CopyEnd(p)
  BY <1>7 DEF CopyEnd
<1>8. CASE Existing(p)
  BY <1>8 DEF Existing
<1>9. CASE Remove(p)
  BY <1>9 DEF Remove
<1>10. CASE NextUri(p)
  BY <1>10 DEF NextUri, Exit
<1>11. CASE Backend(p)
  BY <1>11 DEF Backend, TryNext
<1>12. CASE Post(p)
  BY <1>12 DEF Post, TryNext
<1>13. CASE Check(p)
  BY <1>13 DEF Check, TryNext
<1>14. CASE Save(p)
  BY <1>14 DEF Save, Exit
<1>15. CASE Chmod(p)
  BY <1>15 DEF Chmod, Exit
<1>16. CASE Cat(p)
  BY <1>16 DEF Cat, Exit
<1>17. CASE Cleanup(p)
  BY <1>17 DEF Cleanup
<1>18. CASE Rename(p)
  BY <1>18 DEF Rename, Exit
<1>19. CASE Return(p)
  BY <1>19 DEF Return, Exit
<1> QED
  BY <1>1, <1>2, <1>3, <1>4, <1>5, <1>6, <1>7, <1>8, <1>9, <1>10, <1>11, <1>12, <1>13, <1>14, <1>15, <1>16, <1>17, <1>18, <1>19 DEF Step

(* The .hash files of the trees and the legacy copy do not change.         *)
LEMMA ConfigStays == [Next]_vars => UNCHANGED config
BY DEF Next, Step, Start, Kill, Acquire, Legacy, Link, CopyBegin, CopyEnd, Existing, Remove, NextUri, Backend, Post, Check, Save, Chmod, Cat, Cleanup, Rename, Return

-----------------------------------------------------------------------------
(* The initial states, and the steps, one part of the invariant at a time. *)
LEMMA IndInit == Init => IndInv
<1> SUFFICES ASSUME Init PROVE IndInv
  OBVIOUS
<1>1. TypeOK
  BY ConstantsAssumption, FileFacts DEF Init, TypeOK, Critical, Ended, NbUris
<1>2. LockInv
  BY ConstantsAssumption DEF Init, LockInv, Critical
<1>3. PlaceInv
  BY DEF Init, PlaceInv, PlaceOf, Critical, Downloading, HasDownload, Saving, Saved, Undecided
<1>4. SuccessInv
  BY DEF Init, SuccessInv
<1> QED
  BY <1>1, <1>2, <1>3, <1>4 DEF IndInv

(* What going to another place, and ending, do to the types.               *)
LEMMA GotoTypes ==
  ASSUME TypeOK, NEW p \in Procs,
         NEW place \in {"idle", "wait"} \cup Critical \cup Ended, Goto(p, place)
  PROVE  pc' \in [Procs -> {"idle", "wait"} \cup Critical \cup Ended]
BY DEF TypeOK, Goto

LEMMA ExitTypes ==
  ASSUME TypeOK, NEW p \in Procs, NEW status \in {0, 1}, Exit(p, status)
  PROVE  /\ pc' \in [Procs -> {"idle", "wait"} \cup Critical \cup Ended]
         /\ rc' \in [Procs -> {0, 1}]
         /\ lock' \in {NoProc} \cup Procs
<1>1. "exited" \in {"idle", "wait"} \cup Critical \cup Ended
  BY DEF Ended
<1>2. Goto(p, "exited")
  BY DEF Exit
<1>3. pc' \in [Procs -> {"idle", "wait"} \cup Critical \cup Ended]
  BY <1>1, <1>2, GotoTypes
<1>4. rc' \in [Procs -> {0, 1}] /\ lock' \in {NoProc} \cup Procs
  BY DEF TypeOK, Exit
<1> QED
  BY <1>3, <1>4

LEMMA TypeNext ==
  ASSUME IndInv, NEW p \in Procs, Start(p) \/ Step(p) \/ Kill(p)
  PROVE  TypeOK'
<1> USE ConstantsAssumption, FileFacts DEF IndInv, TypeOK, Goto
<1>1. CASE Start(p)
  BY <1>1 DEF Start, NbUris
<1>2. CASE Kill(p)
  BY <1>2 DEF Kill, Ended
<1>3. CASE Acquire(p)
  BY <1>3 DEF Acquire, Critical
<1>4. CASE Legacy(p)
  BY <1>4 DEF Legacy, Critical
<1>5. CASE Link(p)
  BY <1>5 DEF Link, Critical, PlaceInv, PlaceOf
<1>6. CASE CopyBegin(p)
  <2>1. old \in WholeFiles /\ PartialFile(old.data) \in Files
    BY <1>6 DEF CopyBegin, PlaceInv, PlaceOf
  <2> QED
    BY <1>6, <2>1 DEF CopyBegin, Critical
<1>7. CASE CopyEnd(p)
  BY <1>7 DEF CopyEnd, Critical, PlaceInv, PlaceOf
<1>8. CASE Existing(p)
  BY <1>8 DEF Existing, Critical
<1>9. CASE Remove(p)
  BY <1>9 DEF Remove, Critical
<1>10. CASE NextUri(p)
  BY <1>10 DEF NextUri, Exit, Critical, Ended
<1>11. CASE Backend(p)
  <2>1. uri[p] \in Nat /\ uri[p] <= NbUris
    BY <1>11 DEF Backend, PlaceInv, PlaceOf
  <2>2. CASE TryNext(p)
    BY <1>11, <2>1, <2>2, UriCount DEF Backend, TryNext, Critical
  <2>3. CASE ~TryNext(p)
    <3>1. PICK d \in Served[uri[p]] : tmpf' = [tmpf EXCEPT ![p] = WholeFile(d)]
      BY <1>11, <2>3 DEF Backend
    <3>2. d \in Data
      BY <2>1, <3>1, UriCount
    <3> QED
      BY <1>11, <2>3, <3>1, <3>2 DEF Backend, Critical
  <2> QED
    BY <2>2, <2>3
<1>12. CASE Post(p)
  <2>1. uri[p] \in Nat /\ uri[p] <= NbUris
    BY <1>12 DEF Post, PlaceInv, PlaceOf
  <2>2. WholeFile(Processed[tmpf[p].data]) \in WholeFiles
    BY <1>12 DEF Post, PlaceInv, PlaceOf, HasDownload
  <2>3. CASE TryNext(p)
    BY <1>12, <2>1, <2>3, UriCount DEF Post, TryNext, Critical
  <2>4. CASE ~TryNext(p)
    <3>1. Goto(p, "check") /\ tmpf' = [tmpf EXCEPT ![p] = WholeFile(Processed[tmpf[p].data])]
      BY <1>12, <2>4 DEF Post
    <3>2. "check" \in {"idle", "wait"} \cup Critical \cup Ended
      BY DEF Critical
    <3>3. pc' \in [Procs -> {"idle", "wait"} \cup Critical \cup Ended]
      BY <3>1, <3>2, GotoTypes
    <3>4. tmpf' \in [Procs -> {NoFile} \cup WholeFiles]
      BY <2>2, <3>1
    <3>5. UNCHANGED <<config, output, lock, runs, uri, tmpd, tmp_output, rc>>
      BY <1>12, <2>4 DEF Post
    <3> QED
      BY <3>3, <3>4, <3>5
  <2> QED
    BY <2>3, <2>4
<1>13. CASE Check(p)
  <2>1. uri[p] \in Nat /\ uri[p] <= NbUris
    BY <1>13 DEF Check, PlaceInv, PlaceOf
  <2>2. CASE TryNext(p)
    BY <1>13, <2>1, <2>2, UriCount DEF Check, TryNext, Critical
  <2>3. CASE ~TryNext(p)
    BY <1>13, <2>3 DEF Check, Critical
  <2> QED
    BY <2>2, <2>3
<1>14. CASE Save(p)
  <2>1. PartialFile(tmpf[p].data) \in Files
    BY <1>14 DEF Save, PlaceInv, PlaceOf, HasDownload
  <2>2. tmp_output' \in [Procs -> {NoFile} \cup Files]
    BY <1>14, <2>1 DEF Save
  <2>3. /\ pc' \in [Procs -> {"idle", "wait"} \cup Critical \cup Ended]
        /\ rc' \in [Procs -> {0, 1}]
        /\ lock' \in {NoProc} \cup Procs
    <3>1. CASE Exit(p, 1)
      BY <3>1, ExitTypes
    <3>2. CASE Goto(p, "chmod") /\ UNCHANGED <<lock, rc>>
      <4>1. "chmod" \in {"idle", "wait"} \cup Critical \cup Ended
        BY DEF Critical
      <4> QED
        BY <3>2, <4>1, GotoTypes
    <3> QED
      BY <1>14, <3>1, <3>2 DEF Save
  <2>4. UNCHANGED <<config, output, runs, uri, tmpd, tmpf>>
    BY <1>14 DEF Save
  <2> QED
    BY <2>2, <2>3, <2>4
<1>15. CASE Chmod(p)
  <2>1. /\ pc' \in [Procs -> {"idle", "wait"} \cup Critical \cup Ended]
        /\ rc' \in [Procs -> {0, 1}]
        /\ lock' \in {NoProc} \cup Procs
    <3>1. CASE Exit(p, 1)
      BY <3>1, ExitTypes
    <3>2. CASE Goto(p, "cat") /\ UNCHANGED <<lock, rc>>
      <4>1. "cat" \in {"idle", "wait"} \cup Critical \cup Ended
        BY DEF Critical
      <4> QED
        BY <3>2, <4>1, GotoTypes
    <3> QED
      BY <1>15, <3>1, <3>2 DEF Chmod
  <2>2. UNCHANGED <<config, output, runs, uri, tmpd, tmpf, tmp_output>>
    BY <1>15 DEF Chmod
  <2> QED
    BY <2>1, <2>2
<1>16. CASE Cat(p)
  <2>1. CASE Exit(p, 1) /\ tmp_output' = [tmp_output EXCEPT ![p] = NoFile]
             /\ tmpd' = [tmpd EXCEPT ![p] = FALSE] /\ tmpf' = [tmpf EXCEPT ![p] = NoFile]
    <3>1. /\ pc' \in [Procs -> {"idle", "wait"} \cup Critical \cup Ended]
          /\ rc' \in [Procs -> {0, 1}]
          /\ lock' \in {NoProc} \cup Procs
      BY <2>1, ExitTypes
    <3>2. UNCHANGED <<config, output, runs, uri>>
      BY <1>16 DEF Cat
    <3> QED
      BY <2>1, <3>1, <3>2
  <2>2. CASE Goto(p, "cleanup") /\ tmp_output' = [tmp_output EXCEPT ![p] = tmpf[p]]
             /\ UNCHANGED <<tmpd, tmpf, lock, rc>>
    BY <1>16, <2>2 DEF Cat, Critical
  <2> QED
    BY <1>16, <2>1, <2>2 DEF Cat
<1>17. CASE Cleanup(p)
  BY <1>17 DEF Cleanup, Critical
<1>18. CASE Rename(p)
  <2>1. output' \in {NoFile} \cup Files
    BY <1>18 DEF Rename
  <2> QED
    BY <1>18, <2>1 DEF Rename, Exit, Critical, Ended
<1>19. CASE Return(p)
  BY <1>19 DEF Return, Exit, Ended
<1> QED
  BY <1>1, <1>2, <1>3, <1>4, <1>5, <1>6, <1>7, <1>8, <1>9, <1>10, <1>11, <1>12, <1>13, <1>14, <1>15, <1>16, <1>17, <1>18, <1>19 DEF Step

LEMMA LockNext ==
  ASSUME IndInv, NEW p \in Procs, Start(p) \/ Step(p) \/ Kill(p)
  PROVE  LockInv'
<1> USE ConstantsAssumption DEF IndInv, TypeOK, LockInv, Critical, Goto
<1>1. CASE Start(p)
  BY <1>1 DEF Start, Ended
<1>2. CASE Kill(p)
  BY <1>2 DEF Kill
<1>3. CASE Acquire(p)
  BY <1>3 DEF Acquire
<1>4. CASE Legacy(p)
  BY <1>4 DEF Legacy
<1>5. CASE Link(p)
  BY <1>5 DEF Link
<1>6. CASE CopyBegin(p)
  BY <1>6 DEF CopyBegin
<1>7. CASE CopyEnd(p)
  BY <1>7 DEF CopyEnd
<1>8. CASE Existing(p)
  BY <1>8 DEF Existing
<1>9. CASE Remove(p)
  BY <1>9 DEF Remove
<1>10. CASE NextUri(p)
  BY <1>10 DEF NextUri, Exit
<1>11. CASE Backend(p)
  BY <1>11 DEF Backend, TryNext
<1>12. CASE Post(p)
  BY <1>12 DEF Post, TryNext
<1>13. CASE Check(p)
  BY <1>13 DEF Check, TryNext
<1>14. CASE Save(p)
  BY <1>14 DEF Save, Exit
<1>15. CASE Chmod(p)
  BY <1>15 DEF Chmod, Exit
<1>16. CASE Cat(p)
  BY <1>16 DEF Cat, Exit
<1>17. CASE Cleanup(p)
  BY <1>17 DEF Cleanup
<1>18. CASE Rename(p)
  BY <1>18 DEF Rename, Exit
<1>19. CASE Return(p)
  BY <1>19 DEF Return, Exit
<1> QED
  BY <1>1, <1>2, <1>3, <1>4, <1>5, <1>6, <1>7, <1>8, <1>9, <1>10, <1>11, <1>12, <1>13, <1>14, <1>15, <1>16, <1>17, <1>18, <1>19 DEF Step

(* Only the holder of the lock is at a place that knows something of the
   shared file, so nobody else can invalidate what it knows.               *)
LEMMA PlaceNextOthers ==
  ASSUME IndInv, NEW p \in Procs, Start(p) \/ Step(p) \/ Kill(p),
         NEW q \in Procs \ {p}
  PROVE  PlaceOf(q)'
<1> USE DEF PlaceOf, Downloading, HasDownload, Saving, Saved, Undecided
<1>1. pc'[q] = pc[q] /\ rc'[q] = rc[q]
  BY OthersStay DEF IndInv
<1>2. CASE pc[q] \notin Critical
  BY <1>1, <1>2 DEF Critical, IndInv, PlaceInv
<1>3. CASE pc[q] \in Critical
  <2>1. lock = q /\ pc[p] \notin Critical
    BY <1>3, ConstantsAssumption DEF IndInv, LockInv
  <2>2. CASE Start(p)
    BY <1>1, <2>2 DEF Start, IndInv, TypeOK, PlaceInv, Checked, HashStatus
  <2>3. CASE Kill(p)
    BY <1>1, <2>3 DEF Kill, IndInv, PlaceInv, Checked, HashStatus
  <2>4. ~Step(p)
    BY <2>1, ConstantsAssumption DEF Step, Critical, Acquire, Legacy, Link, CopyBegin, CopyEnd, Existing, Remove, NextUri, Backend, Post, Check, Save, Chmod, Cat, Cleanup, Rename, Return
  <2> QED
    BY <2>2, <2>3, <2>4
<1> QED
  BY <1>2, <1>3

LEMMA PlaceNextOwn ==
  ASSUME IndInv, NEW p \in Procs, Start(p) \/ Step(p) \/ Kill(p)
  PROVE  PlaceOf(p)'
<1> USE FileFacts DEF IndInv, TypeOK, PlaceInv, PlaceOf, Checked, HashStatus, Downloading,
    HasDownload, Saving, Saved, Undecided, Goto
<1>1. CASE Start(p)
  BY <1>1 DEF Start
<1>2. CASE Kill(p)
  BY <1>2 DEF Kill
<1>3. CASE Acquire(p)
  BY <1>3 DEF Acquire
<1>4. CASE Legacy(p)
  BY <1>4 DEF Legacy
<1>5. CASE Link(p)
  BY <1>5 DEF Link
<1>6. CASE CopyBegin(p)
  BY <1>6 DEF CopyBegin
<1>7. CASE CopyEnd(p)
  BY <1>7 DEF CopyEnd
<1>8. CASE Existing(p)
  BY <1>8 DEF Existing
<1>9. CASE Remove(p)
  BY <1>9 DEF Remove
<1>10. CASE NextUri(p)
  BY <1>10 DEF NextUri, Exit
<1>11. CASE Backend(p)
  <2>1. CASE TryNext(p)
    BY <1>11, <2>1 DEF Backend, TryNext
  <2>2. CASE ~TryNext(p)
    <3>1. PICK d \in Served[uri[p]] : tmpf' = [tmpf EXCEPT ![p] = WholeFile(d)]
      BY <1>11, <2>2 DEF Backend
    <3>2. WholeFile(d) \in WholeFiles
      BY <1>11, <3>1, UriCount DEF Backend
    <3>3. pc' = [pc EXCEPT ![p] = IF PostProcess THEN "post" ELSE "check"]
      BY <1>11, <2>2 DEF Backend
    <3> QED
      BY <1>11, <2>2, <3>1, <3>2, <3>3 DEF Backend
  <2> QED
    BY <2>1, <2>2
<1>12. CASE Post(p)
  <2>1. CASE TryNext(p)
    BY <1>12, <2>1 DEF Post, TryNext
  <2>2. CASE ~TryNext(p)
    <3>1. WholeFile(Processed[tmpf[p].data]) \in WholeFiles
      BY <1>12, ConstantsAssumption DEF Post
    <3> QED
      BY <1>12, <2>2, <3>1 DEF Post
  <2> QED
    BY <2>1, <2>2
<1>13. CASE Check(p)
  BY <1>13 DEF Check, TryNext
<1>14. CASE Save(p)
  BY <1>14 DEF Save, Exit
<1>15. CASE Chmod(p)
  BY <1>15 DEF Chmod, Exit
<1>16. CASE Cat(p)
  BY <1>16 DEF Cat, Exit
<1>17. CASE Cleanup(p)
  BY <1>17 DEF Cleanup
<1>18. CASE Rename(p)
  BY <1>18 DEF Rename, Exit
<1>19. CASE Return(p)
  BY <1>19 DEF Return, Exit
<1> QED
  BY <1>1, <1>2, <1>3, <1>4, <1>5, <1>6, <1>7, <1>8, <1>9, <1>10, <1>11, <1>12, <1>13, <1>14, <1>15, <1>16, <1>17, <1>18, <1>19 DEF Step

(* A file that a finished run accepted cannot be touched: the steps that
   change the file find none, or find one that the hashes refute.          *)
LEMMA SuccessNext ==
  ASSUME IndInv, NEW p \in Procs, Start(p) \/ Step(p) \/ Kill(p)
  PROVE  SuccessInv'
<1> SUFFICES ASSUME AllAgree', NEW q \in Procs, pc'[q] = "exited", rc'[q] = 0
             PROVE  /\ output' # NoFile /\ HashStatus(q, output)' = 0
                    /\ \A r \in Procs : pc'[r] # "copying"
  BY DEF SuccessInv
<1>1. hashes' = hashes /\ AllAgree
  BY ConfigStays DEF Next, AllAgree
<1>2. CASE q = p
  <2>1. Return(p) /\ rc[p] = 0
    BY <1>2 DEF Step, Start, Kill, IndInv, TypeOK, Goto, Exit, TryNext,
                Acquire, Legacy, Link, CopyBegin, CopyEnd, Existing, Remove, NextUri, Backend, Post, Check, Save, Chmod, Cat, Cleanup, Rename, Return
  <2>2. \A r \in Procs : pc[r] # "copying"
    BY <2>1, ConstantsAssumption DEF Return, IndInv, LockInv, Critical
  <2> QED
    BY <1>1, <1>2, <2>1, <2>2, OthersStay
    DEF Return, Exit, Goto, IndInv, PlaceInv, PlaceOf, HashStatus, TypeOK
<1>3. CASE q # p
  <2>1. pc[q] = "exited" /\ rc[q] = 0
    BY <1>3, OthersStay DEF IndInv
  <2>2. /\ output # NoFile /\ HashStatus(q, output) = 0
        /\ \A r \in Procs : pc[r] # "copying"
    BY <1>1, <2>1 DEF IndInv, SuccessInv
  <2>3. HashStatus(p, output) = 0
    BY <1>1, <2>2 DEF AllAgree, HashStatus
  <2>4. ~Link(p) /\ ~CopyBegin(p) /\ ~CopyEnd(p) /\ ~Remove(p) /\ ~Rename(p)
    BY <2>2, <2>3 DEF Link, CopyBegin, CopyEnd, Remove, Rename, IndInv, PlaceInv,
                      PlaceOf, Downloading, Saved
  <2>5. output' = output /\ pc'[p] # "copying"
    BY <2>4 DEF Step, Start, Kill, IndInv, TypeOK, Goto, Exit, TryNext,
                Acquire, Legacy, Existing, NextUri, Backend, Post, Check, Save, Chmod, Cat, Cleanup, Return
  <2> QED
    BY <1>1, <2>2, <2>5, OthersStay DEF IndInv, HashStatus
<1> QED
  BY <1>2, <1>3

THEOREM IndInvariant == Spec => []IndInv
<1>1. IndInv /\ [Next]_vars => IndInv'
  <2> SUFFICES ASSUME IndInv, [Next]_vars PROVE IndInv'
    OBVIOUS
  <2>1. CASE UNCHANGED vars
    BY <2>1 DEF IndInv, TypeOK, LockInv, PlaceInv, PlaceOf, Checked, HashStatus,
                SuccessInv, AllAgree
  <2>2. ASSUME NEW p \in Procs, Start(p) \/ Step(p) \/ Kill(p)
        PROVE  IndInv'
    <3>1. PlaceInv'
      BY <2>2, PlaceNextOwn, PlaceNextOthers DEF PlaceInv
    <3> QED
      BY <2>2, <3>1, TypeNext, LockNext, SuccessNext DEF IndInv
  <2> QED
    BY <2>1, <2>2 DEF Next
<1> QED
  BY IndInit, <1>1, PTL DEF Spec

-----------------------------------------------------------------------------
(* The variables keep their types: a run returns 0 or 1, tries a uri that
   was given, and holds complete downloads only.                           *)
THEOREM TypeCorrect == Spec => []TypeOK
BY IndInvariant, PTL DEF IndInv

(* A run is about to return 0 only on a file its own hashes accept.        *)
THEOREM ReturnVerified == Spec => []ReturnIsVerified
<1>1. IndInv => ReturnIsVerified
  BY DEF IndInv, PlaceInv, PlaceOf, ReturnIsVerified
<1> QED
  BY <1>1, IndInvariant, PTL

(* Where the trees agree, the file of a successful run stays there and stays
   verified, whatever the later runs do.                                   *)
THEOREM SuccessVerified == Spec => []SuccessIsVerified
<1>1. IndInv => SuccessIsVerified
  BY DEF IndInv, SuccessInv, SuccessIsVerified
<1> QED
  BY <1>1, IndInvariant, PTL

(* The steps that change the shared file, and what each of them finds.     *)
LEMMA OutputChanges ==
  ASSUME IndInv, NEW p \in Procs, Start(p) \/ Step(p) \/ Kill(p), output' # output
  PROVE  \/ (Link(p) \/ CopyBegin(p)) /\ output = NoFile
         \/ CopyEnd(p) /\ output = PartialFile(old.data) /\ old # NoFile
         \/ Remove(p) /\ output # NoFile /\ HashStatus(p, output) = 2 /\ output' = NoFile
         \/ Rename(p) /\ output = NoFile /\ Checked(p, output')
<1>1. Link(p) \/ CopyBegin(p) \/ CopyEnd(p) \/ Remove(p) \/ Rename(p)
  BY DEF Step, Start, Kill, Acquire, Legacy, Existing, NextUri, Backend, Post, Check, Save, Chmod, Cat, Cleanup, Return
<1> QED
  BY <1>1 DEF Link, CopyBegin, CopyEnd, Remove, Rename, IndInv, PlaceInv, PlaceOf,
              Downloading, Saved

(* A whole file that every tree accepts is never removed, replaced or
   truncated.                                                              *)
THEOREM GoodFileKept == Spec => GoodFileIsKept
<1>1. IndInv /\ [Next]_vars => [GoodForAll(output) => output' = output]_vars
  <2> SUFFICES ASSUME IndInv, NEW p \in Procs, Start(p) \/ Step(p) \/ Kill(p),
                      GoodForAll(output), output' # output
               PROVE  FALSE
    BY DEF Next
  <2>1. old # NoFile => old \in WholeFiles
    BY ConstantsAssumption DEF IndInv, TypeOK
  <2>2. output # PartialFile(old.data) \/ old = NoFile
    BY <2>1, FileFacts DEF GoodForAll
  <2> QED
    BY <2>2, OutputChanges DEF GoodForAll
<1> QED
  BY <1>1, IndInvariant, PTL DEF Spec, GoodFileIsKept

(* A run that ends by itself leaves no file that its own hashes refute.    *)
THEOREM NoMismatch == Spec => NoMismatchAtExit
<1> DEFINE Leaves(p) == pc[p] # "exited" /\ pc'[p] = "exited" =>
                          output' = NoFile \/ HashStatus(p, output') # 2
<1>1. IndInv /\ [Next]_vars => [\A p \in Procs : Leaves(p)]_vars
  <2> SUFFICES ASSUME IndInv, NEW p \in Procs, Start(p) \/ Step(p) \/ Kill(p),
                      NEW q \in Procs, pc[q] # "exited", pc'[q] = "exited"
               PROVE  output' = NoFile \/ HashStatus(q, output') # 2
    BY DEF Next
  <2>1. q = p
    BY OthersStay DEF IndInv
  <2>2. \/ Exit(p, 1) /\ pc[p] \in Downloading /\ output' = output
        \/ Return(p)
    BY <2>1 DEF Step, Start, Kill, IndInv, TypeOK, Goto, Exit, TryNext, Downloading,
                Saving, Saved, Acquire, Legacy, Link, CopyBegin, CopyEnd, Existing, Remove, NextUri, Backend, Post, Check, Save, Chmod, Cat, Cleanup, Rename, Return
  <2> QED
    BY <2>1, <2>2 DEF Return, IndInv, PlaceInv, PlaceOf
<1> QED
  BY <1>1, IndInvariant, PTL DEF Spec, NoMismatchAtExit

(* Without a copy in the legacy directory, the final name never holds a
   part of a file.                                                         *)
LEMMA WholeNext ==
  ASSUME OldCopies = {NoFile}, IndInv, OutputIsWhole, [Next]_vars
  PROVE  OutputIsWhole'
<1>1. old = NoFile
  BY DEF IndInv, TypeOK
<1>2. ASSUME NEW p \in Procs, Start(p) \/ Step(p) \/ Kill(p), output' # output
      PROVE  OutputIsWhole'
  <2>1. ~Link(p) /\ ~CopyBegin(p)
    BY <1>1 DEF IndInv, PlaceInv, PlaceOf, Link, CopyBegin
  <2> QED
    BY <1>1, <1>2, <2>1, OutputChanges, FileFacts DEF OutputIsWhole, Checked
<1> QED
  BY <1>2 DEF Next, OutputIsWhole

THEOREM OutputWhole ==
  ASSUME OldCopies = {NoFile}
  PROVE  Spec => []OutputIsWhole
<1>1. Init => OutputIsWhole
  BY FileFacts DEF Init, OutputIsWhole
<1>2. IndInv /\ OutputIsWhole /\ [Next]_vars => OutputIsWhole'
  BY WholeNext
<1> QED
  BY <1>1, <1>2, IndInvariant, PTL DEF Spec

-----------------------------------------------------------------------------
(***************************************************************************)
(* The wrapper implements the abstract store.                              *)
(***************************************************************************)
Busy == {"wait"} \cup Critical
Requests == [p \in Procs |-> RequestStatus(p)]

(* What a step does to the requests: only that of p changes, and how.      *)
LEMMA RequestSteps ==
  ASSUME IndInv, NEW p \in Procs, Start(p) \/ Step(p) \/ Kill(p)
  PROVE  /\ Start(p) => pc[p] \notin Busy /\ pc'[p] \in Busy
         /\ Kill(p) => pc[p] \in Busy /\ pc'[p] = "killed"
         /\ Step(p) => /\ pc[p] \in Busy
                       /\ \/ pc'[p] \in Busy
                          \/ pc'[p] = "exited" /\ rc'[p] = 1 /\ output' = output
                          \/ Return(p) /\ pc'[p] = "exited" /\ rc'[p] = rc[p]
<1> USE DEF IndInv, TypeOK, Busy, Critical, Ended, Goto, Exit, TryNext
<1>1. CASE Start(p)
  BY <1>1 DEF Start, Kill, Step, Acquire, Legacy, Link, CopyBegin, CopyEnd, Existing, Remove, NextUri, Backend, Post, Check, Save, Chmod, Cat, Cleanup, Rename, Return
<1>2. CASE Kill(p)
  BY <1>2 DEF Start, Kill, Step, Acquire, Legacy, Link, CopyBegin, CopyEnd, Existing, Remove, NextUri, Backend, Post, Check, Save, Chmod, Cat, Cleanup, Rename, Return
<1>3. CASE Step(p)
  BY <1>3 DEF Start, Kill, Step, Acquire, Legacy, Link, CopyBegin, CopyEnd, Existing, Remove, NextUri, Backend, Post, Check, Save, Chmod, Cat, Cleanup, Rename, Return
<1> QED
  BY <1>1, <1>2, <1>3

LEMMA RequestStatuses ==
  /\ \A p \in Procs : pc[p] \in Busy => RequestStatus(p) = "busy"
  /\ \A p \in Procs : pc[p] \notin Busy /\ TypeOK => RequestStatus(p) # "busy"
  /\ \A p \in Procs : pc[p] = "killed" => RequestStatus(p) = "failed"
  /\ \A p \in Procs : pc[p] = "exited" /\ rc[p] = 1 => RequestStatus(p) = "failed"
  /\ \A p \in Procs : pc[p] = "exited" /\ rc[p] = 0 => RequestStatus(p) = "ok"
BY DEF RequestStatus, Busy, Critical, TypeOK, Ended

LEMMA StoreStep ==
  ASSUME OldCopies = {NoFile}, IndInv, IndInv', [Next]_vars
  PROVE  [Store!Next]_(Store!vars)
<1> SUFFICES ASSUME NEW p \in Procs, Start(p) \/ Step(p) \/ Kill(p)
             PROVE  [Store!Next]_(Store!vars)
  BY DEF Next, Store!vars, FilesOfStatus, HashStatus, RequestStatus
<1>1. FilesOfStatus(0)' = FilesOfStatus(0) /\ FilesOfStatus(2)' = FilesOfStatus(2)
  BY ConfigStays DEF Next, FilesOfStatus, HashStatus
<1>2. \A q \in Procs \ {p} : RequestStatus(q)' = RequestStatus(q)
  BY OthersStay DEF IndInv, RequestStatus
<1>3. \A v : RequestStatus(p)' = v => Requests' = [Requests EXCEPT ![p] = v]
  BY <1>2 DEF Requests
<1>4. Requests[p] = RequestStatus(p) /\ (RequestStatus(p)' = RequestStatus(p) => Requests' = Requests)
  BY <1>2 DEF Requests
<1>5. old = NoFile
  BY DEF IndInv, TypeOK
<1>6. CASE Start(p)
  <2>1. RequestStatus(p) # "busy" /\ RequestStatus(p)' = "busy"
    BY <1>6, RequestSteps, RequestStatuses DEF IndInv, RequestStatus, Busy, Critical
  <2>2. output' = output
    BY <1>6 DEF Start
  <2>3. Store!Begin(p)
    BY <1>1, <1>3, <1>4, <2>1, <2>2 DEF Store!Begin, Requests
  <2> QED
    BY <2>3 DEF Store!Next
<1>7. CASE Kill(p)
  <2>1. RequestStatus(p) = "busy" /\ RequestStatus(p)' = "failed"
    BY <1>7, RequestSteps, RequestStatuses DEF RequestStatus
  <2>2. output' = output
    BY <1>7 DEF Kill
  <2>3. Store!Fail(p)
    BY <1>1, <1>3, <1>4, <2>1, <2>2 DEF Store!Fail, Requests
  <2> QED
    BY <2>3 DEF Store!Next
<1>8. CASE Step(p)
  <2>1. RequestStatus(p) = "busy" /\ pc[p] \in Busy
    BY <1>8, RequestSteps, RequestStatuses
  <2>2. CASE pc'[p] \in Busy
    <3>1. Requests' = Requests
      BY <1>4, <2>1, <2>2 DEF RequestStatus, Busy, Critical
    <3>2. CASE output' = output
      BY <1>1, <3>1, <3>2 DEF Store!vars, Requests
    <3>3. CASE output' # output
      <4>1. \/ Remove(p) /\ output # NoFile /\ HashStatus(p, output) = 2 /\ output' = NoFile
            \/ output = NoFile /\ Checked(p, output')
        BY <1>5, <1>8, <3>3, OutputChanges DEF Link, CopyBegin, IndInv, PlaceInv, PlaceOf
      <4>2. CASE Remove(p) /\ output # NoFile /\ HashStatus(p, output) = 2 /\ output' = NoFile
        <5>1. output \in FilesOfStatus(2)[p]
          BY <4>2 DEF FilesOfStatus, IndInv, TypeOK
        <5>2. Store!Discard(p)
          BY <1>1, <1>4, <2>1, <3>1, <4>2, <5>1 DEF Store!Discard, Requests
        <5> QED
          BY <5>2 DEF Store!Next
      <4>3. CASE output = NoFile /\ Checked(p, output')
        <5>1. output' \in WholeFiles \ FilesOfStatus(2)[p]
          BY <4>3 DEF FilesOfStatus, Checked
        <5>2. Store!Publish(p)
          BY <1>1, <1>4, <2>1, <3>1, <4>3, <5>1 DEF Store!Publish, Requests
        <5> QED
          BY <5>2 DEF Store!Next
      <4> QED
        BY <4>1, <4>2, <4>3
    <3> QED
      BY <3>2, <3>3
  <2>3. CASE pc'[p] = "exited" /\ rc'[p] = 1 /\ output' = output
    <3>1. RequestStatus(p)' = "failed"
      BY <2>3 DEF RequestStatus
    <3>2. Store!Fail(p)
      BY <1>1, <1>3, <1>4, <2>1, <2>3, <3>1 DEF Store!Fail, Requests
    <3> QED
      BY <3>2 DEF Store!Next
  <2>4. CASE Return(p) /\ pc'[p] = "exited" /\ rc'[p] = rc[p] /\ rc[p] = 0
    <3>1. RequestStatus(p)' = "ok" /\ output' = output
      BY <2>4 DEF RequestStatus, Return
    <3>2. output \in FilesOfStatus(0)[p]
      BY <2>4 DEF FilesOfStatus, Return, IndInv, TypeOK, PlaceInv, PlaceOf
    <3>3. Store!Succeed(p)
      BY <1>1, <1>3, <1>4, <2>1, <3>1, <3>2 DEF Store!Succeed, Requests
    <3> QED
      BY <3>3 DEF Store!Next
  <2>5. CASE Return(p) /\ rc[p] = 1
    BY <2>3, <2>5 DEF Return, Exit, Goto, IndInv, TypeOK
  <2> QED
    BY <1>8, <2>2, <2>3, <2>4, <2>5, RequestSteps DEF IndInv, TypeOK
<1> QED
  BY <1>6, <1>7, <1>8

(* Where the legacy directory holds no copy, every run of the wrapper is a
   behaviour of the abstract store.                                        *)
THEOREM WrapperImplementsStore ==
  ASSUME OldCopies = {NoFile}
  PROVE  Spec => ImplementsStore
<1>1. Init => Store!Init
  BY DEF Init, Store!Init, RequestStatus
<1>2. IndInv /\ IndInv' /\ [Next]_vars => [Store!Next]_(Store!vars)
  BY StoreStep
<1> QED
  BY <1>1, <1>2, IndInvariant, PTL DEF Spec, ImplementsStore, Store!Spec
=============================================================================
