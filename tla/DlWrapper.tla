----------------------------- MODULE DlWrapper -----------------------------
(***************************************************************************)
(* support/download/dl-wrapper: several runs of the wrapper for one source *)
(* archive in one (possibly shared) download directory, each under the     *)
(* flock taken by the DOWNLOAD macro of package/pkg-download.mk.  A run    *)
(* may be killed between any two steps, and every external command whose   *)
(* failure the script handles, or dies of because of "set -e", may fail.   *)
(*                                                                         *)
(* The variables keep the names of the script.  Temporaries have random    *)
(* names in the script, so a run never meets the leftovers of another one: *)
(* Start forgets those of the process's previous run.                      *)
(***************************************************************************)
EXTENDS CheckHash, FiniteSets

CONSTANTS
  Procs,        \* processes (make invocations) that run the wrapper
  Data,         \* complete contents of a download
  Served,       \* Served[u]: the contents that the u-th uri may deliver
  Processed,    \* Processed[d]: content d after the -p post-processing
  PostProcess,  \* a -p option is given
  HashChoices,  \* the lists of .hash files that a process may be given
  NoHash,       \* the archive is listed in BR_NO_CHECK_HASH_FOR
  OldCopies,    \* what ${old_dl_dir}/${filename} may be
  NoFile, NoProc,
  MaxRuns       \* bound: runs started by all the processes together

Files == [data : Data, whole : BOOLEAN]
WholeFile(d) == [data |-> d, whole |-> TRUE]
PartialFile(d) == [data |-> d, whole |-> FALSE]
WholeFiles == {f \in Files : f.whole}
NbUris == Len(Served)

ASSUME ConstantsAssumption ==
  /\ Served \in Seq(SUBSET Data)
  /\ Processed \in [Data -> Data]
  /\ PostProcess \in BOOLEAN
  /\ NoHash \in BOOLEAN
  /\ NoFile \notin Files
  /\ OldCopies \subseteq {NoFile} \cup WholeFiles
  /\ NoProc \notin Procs
  /\ MaxRuns \in Nat

VARIABLES
  hashes,      \* hashes[p]: the .hash files of p's tree
  old,         \* ${old_dl_dir}/${filename}
  output,      \* ${output}, shared by all the processes
  lock,        \* who holds ${PKG}_DL_DIR/.lock
  runs,        \* runs started so far
  pc,
  uri,         \* the uri being tried
  tmpd,        \* ${tmpd} exists
  tmpf,        \* ${tmpf}
  tmp_output,  \* ${tmp_output}
  rc           \* the status to return, or returned

locals == <<uri, tmpd, tmpf, tmp_output, rc>>
config == <<hashes, old>>
vars == <<config, output, lock, runs, pc, locals>>

Ended == {"exited", "killed"}
Critical == {"legacy", "link", "copy", "copying", "existing", "remove", "loop",
             "backend", "post", "check", "save", "chmod", "cat", "cleanup",
             "rename", "return"}

HashStatus(p, f) == ExitCode(hashes[p], NoHash, f)

Goto(p, place) == pc' = [pc EXCEPT ![p] = place]

(* The script ends: flock sees its command terminate and drops the lock.   *)
Exit(p, status) ==
  /\ Goto(p, "exited")
  /\ rc' = [rc EXCEPT ![p] = status]
  /\ lock' = NoProc

Init ==
  /\ hashes \in [Procs -> HashChoices]
  /\ old \in OldCopies
  /\ output \in {NoFile} \cup WholeFiles
  /\ lock = NoProc
  /\ runs = 0
  /\ pc = [p \in Procs |-> "idle"]
  /\ uri = [p \in Procs |-> 1]
  /\ tmpd = [p \in Procs |-> FALSE]
  /\ tmpf = [p \in Procs |-> NoFile]
  /\ tmp_output = [p \in Procs |-> NoFile]
  /\ rc = [p \in Procs |-> 1]

(* make runs the recipe of DOWNLOAD: flock starts, with fresh variables.   *)
Start(p) ==
  /\ pc[p] \in {"idle"} \cup Ended
  /\ runs < MaxRuns
  /\ runs' = runs + 1
  /\ Goto(p, "wait")
  /\ uri' = [uri EXCEPT ![p] = 1]
  /\ tmpd' = [tmpd EXCEPT ![p] = FALSE]
  /\ tmpf' = [tmpf EXCEPT ![p] = NoFile]
  /\ tmp_output' = [tmp_output EXCEPT ![p] = NoFile]
  /\ rc' = [rc EXCEPT ![p] = 1]
  /\ UNCHANGED <<config, output, lock>>

(* Mutant: the wrapper is run without flock.                               *)
Acquire_WithoutFlock(p) ==
  /\ pc[p] = "wait"
  /\ lock' = p
  /\ Goto(p, "legacy")
  /\ UNCHANGED <<config, output, runs, locals>>

Acquire(p) ==
  /\ pc[p] = "wait"
  /\ lock = NoProc
  /\ lock' = p
  /\ Goto(p, "legacy")
  /\ UNCHANGED <<config, output, runs, locals>>

(***************************************************************************)
(* Legacy handling of a copy in the global download directory.             *)
(***************************************************************************)
(* Mutant: the copy is taken even when the output exists.                  *)
Legacy_OverOutput(p) ==
  /\ pc[p] = "legacy"
  /\ Goto(p, IF old # NoFile THEN "link" ELSE "existing")
  /\ UNCHANGED <<config, output, lock, runs, locals>>

Legacy(p) ==
  /\ pc[p] = "legacy"
  /\ Goto(p, IF output = NoFile /\ old # NoFile THEN "link" ELSE "existing")
  /\ UNCHANGED <<config, output, lock, runs, locals>>

(* ln succeeds, or fails and cp is tried.                                  *)
Link(p) ==
  /\ pc[p] = "link"
  /\ \/ /\ output = NoFile
        /\ output' = old
        /\ Goto(p, "existing")
     \/ /\ UNCHANGED output
        /\ Goto(p, "copy")
  /\ UNCHANGED <<config, lock, runs, locals>>

(* cp cannot create its destination, or starts to write it in place.       *)
CopyBegin(p) ==
  /\ pc[p] = "copy"
  /\ \/ /\ UNCHANGED output
        /\ Goto(p, "existing")
     \/ /\ output' = PartialFile(old.data)
        /\ Goto(p, "copying")
  /\ UNCHANGED <<config, lock, runs, locals>>

(* cp finishes, or fails part-way (`|| true` hides the failure).           *)
CopyEnd(p) ==
  /\ pc[p] = "copying"
  /\ output' \in {old, PartialFile(old.data)}
  /\ Goto(p, "existing")
  /\ UNCHANGED <<config, lock, runs, locals>>

Existing(p) ==
  /\ pc[p] = "existing"
  /\ \/ /\ output = NoFile
        /\ Goto(p, "loop")
        /\ UNCHANGED rc
     \/ /\ output # NoFile /\ HashStatus(p, output) = 0
        /\ Goto(p, "return")
        /\ rc' = [rc EXCEPT ![p] = 0]
     \/ /\ output # NoFile /\ HashStatus(p, output) \in {3, 4}
        /\ Goto(p, "return")
        /\ UNCHANGED rc
     \/ /\ output # NoFile /\ HashStatus(p, output) = 2
        /\ Goto(p, "remove")
        /\ UNCHANGED rc
  /\ UNCHANGED <<config, output, lock, runs, uri, tmpd, tmpf, tmp_output>>

Remove(p) ==
  /\ pc[p] = "remove"
  /\ output' = NoFile
  /\ Goto(p, "loop")
  /\ UNCHANGED <<config, lock, runs, locals>>

(***************************************************************************)
(* The loop over the uris.                                                 *)
(***************************************************************************)
(* mktemp -d in BUILD_DIR, which "set -e" makes fatal; or no uri is left.  *)
NextUri(p) ==
  /\ pc[p] = "loop"
  /\ \/ /\ uri[p] <= NbUris
        /\ tmpd' = [tmpd EXCEPT ![p] = TRUE]
        /\ Goto(p, "backend")
        /\ UNCHANGED <<lock, rc>>
     \/ /\ Exit(p, 1)
        /\ UNCHANGED tmpd
  /\ UNCHANGED <<config, output, runs, uri, tmpf, tmp_output>>

(* Mutant: the same uri is tried again.                                    *)
TryNext_SameUri(p) ==
  /\ tmpd' = [tmpd EXCEPT ![p] = FALSE]
  /\ tmpf' = [tmpf EXCEPT ![p] = NoFile]
  /\ Goto(p, "loop")
  /\ UNCHANGED uri

(* Give up this uri: rm -rf "${tmpd}"; continue.                           *)
TryNext(p) ==
  /\ tmpd' = [tmpd EXCEPT ![p] = FALSE]
  /\ tmpf' = [tmpf EXCEPT ![p] = NoFile]
  /\ uri' = [uri EXCEPT ![p] = @ + 1]
  /\ Goto(p, "loop")

Backend(p) ==
  /\ pc[p] = "backend"
  /\ \/ TryNext(p)
     \/ \E d \in Served[uri[p]] :
          /\ tmpf' = [tmpf EXCEPT ![p] = WholeFile(d)]
          /\ Goto(p, IF PostProcess THEN "post" ELSE "check")
          /\ UNCHANGED <<tmpd, uri>>
  /\ UNCHANGED <<config, output, lock, runs, tmp_output, rc>>

Post(p) ==
  /\ pc[p] = "post"
  /\ \/ TryNext(p)
     \/ /\ tmpf' = [tmpf EXCEPT ![p] = WholeFile(Processed[tmpf[p].data])]
        /\ Goto(p, "check")
        /\ UNCHANGED <<tmpd, uri>>
  /\ UNCHANGED <<config, output, lock, runs, tmp_output, rc>>

(* Mutant: a mismatch is saved as a file without a hash is.                *)
Check_KeepsMismatch(p) ==
  /\ pc[p] = "check"
  /\ \/ /\ HashStatus(p, tmpf[p]) \in {0, 2, 3}
        /\ rc' = [rc EXCEPT ![p] = IF HashStatus(p, tmpf[p]) = 0 THEN 0 ELSE 1]
        /\ Goto(p, "save")
        /\ UNCHANGED <<uri, tmpd, tmpf>>
     \/ /\ HashStatus(p, tmpf[p]) = 4
        /\ TryNext(p)
        /\ UNCHANGED rc
  /\ UNCHANGED <<config, output, lock, runs, tmp_output>>

(* Only status 3 keeps a file that was not verified, and fails afterwards. *)
Check(p) ==
  /\ pc[p] = "check"
  /\ \/ /\ HashStatus(p, tmpf[p]) = 0
        /\ rc' = [rc EXCEPT ![p] = 0]
        /\ Goto(p, "save")
        /\ UNCHANGED <<uri, tmpd, tmpf>>
     \/ /\ HashStatus(p, tmpf[p]) = 3
        /\ rc' = [rc EXCEPT ![p] = 1]
        /\ Goto(p, "save")
        /\ UNCHANGED <<uri, tmpd, tmpf>>
     \/ /\ HashStatus(p, tmpf[p]) \in {2, 4}
        /\ TryNext(p)
        /\ UNCHANGED rc
  /\ UNCHANGED <<config, output, lock, runs, tmp_output>>

(***************************************************************************)
(* Saving the file next to its final name, and renaming it.                *)
(***************************************************************************)
(* mktemp "${output}.XXXXXX"; "set -e" makes its failure fatal.            *)
Save(p) ==
  /\ pc[p] = "save"
  /\ \/ /\ tmp_output' = [tmp_output EXCEPT ![p] = PartialFile(tmpf[p].data)]
        /\ Goto(p, "chmod")
        /\ UNCHANGED <<lock, rc>>
     \/ /\ Exit(p, 1)
        /\ UNCHANGED tmp_output
  /\ UNCHANGED <<config, output, runs, uri, tmpd, tmpf>>

Chmod(p) ==
  /\ pc[p] = "chmod"
  /\ \/ /\ Goto(p, "cat")
        /\ UNCHANGED <<lock, rc>>
     \/ Exit(p, 1)
  /\ UNCHANGED <<config, output, runs, uri, tmpd, tmpf, tmp_output>>

(* cat >>: all of it, or a part and a failure that removes both files.     *)
Cat(p) ==
  /\ pc[p] = "cat"
  /\ \/ /\ tmp_output' = [tmp_output EXCEPT ![p] = tmpf[p]]
        /\ Goto(p, "cleanup")
        /\ UNCHANGED <<tmpd, tmpf, lock, rc>>
     \/ /\ tmp_output' = [tmp_output EXCEPT ![p] = NoFile]
        /\ tmpd' = [tmpd EXCEPT ![p] = FALSE]
        /\ tmpf' = [tmpf EXCEPT ![p] = NoFile]
        /\ Exit(p, 1)
  /\ UNCHANGED <<config, output, runs, uri>>

Cleanup(p) ==
  /\ pc[p] = "cleanup"
  /\ tmpd' = [tmpd EXCEPT ![p] = FALSE]
  /\ tmpf' = [tmpf EXCEPT ![p] = NoFile]
  /\ Goto(p, "rename")
  /\ UNCHANGED <<config, output, lock, runs, uri, tmp_output, rc>>

(* mv -f is one rename(), or fails and the temporary is removed.           *)
Rename(p) ==
  /\ pc[p] = "rename"
  /\ tmp_output' = [tmp_output EXCEPT ![p] = NoFile]
  /\ \/ /\ output' = tmp_output[p]
        /\ Goto(p, "return")
        /\ UNCHANGED <<lock, rc>>
     \/ /\ Exit(p, 1)
        /\ UNCHANGED output
  /\ UNCHANGED <<config, runs, uri, tmpd, tmpf>>

Return(p) ==
  /\ pc[p] = "return"
  /\ Exit(p, rc[p])
  /\ UNCHANGED <<config, output, runs, uri, tmpd, tmpf, tmp_output>>

(* Ctrl-C, the OOM killer or a power cut: flock drops the lock, what the
   run had created stays behind.                                           *)
Kill(p) ==
  /\ pc[p] \in {"wait"} \cup Critical
  /\ Goto(p, "killed")
  /\ lock' = IF lock = p THEN NoProc ELSE lock
  /\ UNCHANGED <<config, output, runs, locals>>

Step(p) ==
  \/ Acquire(p) \/ Legacy(p) \/ Link(p) \/ CopyBegin(p) \/ CopyEnd(p)
  \/ Existing(p) \/ Remove(p) \/ NextUri(p) \/ Backend(p) \/ Post(p)
  \/ Check(p) \/ Save(p) \/ Chmod(p) \/ Cat(p) \/ Cleanup(p) \/ Rename(p)
  \/ Return(p)

Next == \E p \in Procs : Start(p) \/ Step(p) \/ Kill(p)

Spec == Init /\ [][Next]_vars

(* The steps of a run are taken: the commands it calls terminate, and
   flock lets a waiter in when the lock stays free.                        *)
Fairness == \A p \in Procs : WF_vars(Step(p))

FairSpec == Spec /\ Fairness

-----------------------------------------------------------------------------
TypeOK ==
  /\ hashes \in [Procs -> HashChoices]
  /\ old \in OldCopies
  /\ output \in {NoFile} \cup Files
  /\ lock \in {NoProc} \cup Procs
  /\ runs \in 0..MaxRuns
  /\ pc \in [Procs -> {"idle", "wait"} \cup Critical \cup Ended]
  /\ uri \in [Procs -> 1..NbUris + 1]
  /\ tmpd \in [Procs -> BOOLEAN]
  /\ tmpf \in [Procs -> {NoFile} \cup WholeFiles]
  /\ tmp_output \in [Procs -> {NoFile} \cup Files]
  /\ rc \in [Procs -> {0, 1}]

(* "If the output file already exists ..." and the final rename both rely on
   nobody touching the file meanwhile: a run that is about to return 0 leaves
   a file that its own hashes accept, whatever the runs of the other
   processes, killed ones included, did before.                            *)
ReturnIsVerified ==
  \A p \in Procs : pc[p] = "return" /\ rc[p] = 0 =>
    output # NoFile /\ HashStatus(p, output) = 0

AllAgree == \A p, q \in Procs : hashes[p] = hashes[q]

(* After the lock is gone the file stays good for the package that asked for
   it, as long as all the trees that share the directory agree on the hashes:
   later runs, their failures and their kills never take it away.          *)
SuccessIsVerified ==
  AllAgree =>
    \A p \in Procs : pc[p] = "exited" /\ rc[p] = 0 =>
      output # NoFile /\ HashStatus(p, output) = 0

(* dl-wrapper:3-6, "to ensure atomicity when saving downloaded files back to
   BR2_DL_DIR, and not clutter BR2_DL_DIR with partial, failed downloads":
   the final name never holds a part of a file.                            *)
OutputIsWhole == output # NoFile => output.whole

(* A whole file that every tree accepts is never removed, replaced or
   truncated.                                                              *)
GoodForAll(f) ==
  f # NoFile /\ f.whole /\ \A p \in Procs : HashStatus(p, f) = 0

GoodFileIsKept == [][GoodForAll(output) => output' = output]_vars

(* A run that ends by itself, however it failed, does not leave a file that
   its own hashes refute for the next run or for another tree to find.     *)
NoMismatchAtExit ==
  [][ \A p \in Procs : pc[p] # "exited" /\ pc'[p] = "exited" =>
        output' = NoFile \/ HashStatus(p, output') # 2 ]_vars

(***************************************************************************)
(* The inductive invariant behind these properties: who holds the lock,    *)
(* and what each place of the script knows of the shared file and of its   *)
(* own temporaries.                                                        *)
(***************************************************************************)
(* A download that was checked, on its way to the final name.              *)
Checked(p, f) ==
  f \in WholeFiles /\ HashStatus(p, f) = IF rc[p] = 0 THEN 0 ELSE 3

HasDownload == {"post", "check", "save", "chmod", "cat"}
Saving == {"save", "chmod", "cat"}
Saved == {"cleanup", "rename"}
Downloading == {"loop", "backend", "post", "check"} \cup Saving \cup Saved
Undecided == {"wait", "legacy", "link", "copy", "copying", "existing", "remove",
              "loop", "backend", "post", "check"}

LockInv == \A p \in Procs : pc[p] \in Critical <=> lock = p

PlaceOf(p) ==
  /\ pc[p] \in {"link", "copy"} => output = NoFile /\ old # NoFile
  /\ pc[p] = "copying" => old # NoFile /\ output = PartialFile(old.data)
  /\ pc[p] = "remove" => output # NoFile /\ HashStatus(p, output) = 2
  /\ pc[p] \in Downloading => output = NoFile
  /\ pc[p] \in {"backend", "post", "check"} => uri[p] <= NbUris
  /\ pc[p] \in HasDownload => tmpf[p] # NoFile
  /\ pc[p] \in Undecided => rc[p] = 1
  /\ pc[p] \in Saving => Checked(p, tmpf[p])
  /\ pc[p] \in Saved => Checked(p, tmp_output[p])
  /\ pc[p] = "return" =>
       /\ output # NoFile
       /\ HashStatus(p, output) # 2
       /\ rc[p] = 0 => HashStatus(p, output) = 0

PlaceInv == \A p \in Procs : PlaceOf(p)

SuccessInv ==
  AllAgree => \A p \in Procs : pc[p] = "exited" /\ rc[p] = 0 =>
    /\ output # NoFile /\ HashStatus(p, output) = 0
    /\ \A q \in Procs : pc[q] # "copying"

IndInv == TypeOK /\ LockInv /\ PlaceInv /\ SuccessInv

(* The download directory as the packages see it: the abstract store.       *)
FilesOfStatus(n) == [p \in Procs |-> {f \in Files : HashStatus(p, f) = n}]

RequestStatus(p) ==
  CASE pc[p] = "idle" -> "idle"
    [] pc[p] = "exited" -> IF rc[p] = 0 THEN "ok" ELSE "failed"
    [] pc[p] = "killed" -> "failed"
    [] OTHER -> "busy"

Store == INSTANCE DlStore WITH
  store    <- output,
  accepted <- FilesOfStatus(0),
  refuted  <- FilesOfStatus(2),
  status   <- [p \in Procs |-> RequestStatus(p)]

(* Where the legacy directory holds no copy, the wrapper implements the
   abstract store: whole files appear in one step, where there was none,
   disappear only when a run refutes them, and a run succeeds only on a file
   that its hashes accept.                                                 *)
ImplementsStore == Store!Spec

(* Every run that waits for the lock ends, whoever was killed holding it.  *)
EveryRunEnds == \A p \in Procs : pc[p] = "wait" ~> pc[p] \in Ended
=============================================================================
