------------------------------ MODULE DlStore ------------------------------
(***************************************************************************)
(* What the download directory promises for one archive.  No lock, no      *)
(* temporaries, no uris: the file is there or not, and each request of a   *)
(* process succeeds or fails.  DlWrapper.tla implements this.              *)
(***************************************************************************)
CONSTANTS Procs, WholeFiles, NoFile

VARIABLES
  store,     \* the file under its final name
  accepted,  \* accepted[p]: the files that p's hashes accept
  refuted,   \* refuted[p]: the files that p's hashes prove wrong
  status     \* of the last request of each process

vars == <<store, accepted, refuted, status>>

Init ==
  /\ store \in {NoFile} \cup WholeFiles
  /\ status = [p \in Procs |-> "idle"]

Begin(p) ==
  /\ status[p] # "busy"
  /\ status' = [status EXCEPT ![p] = "busy"]
  /\ UNCHANGED <<store, accepted, refuted>>

(* A download appears whole, never in the place of another file.           *)
Publish(p) ==
  /\ status[p] = "busy"
  /\ store = NoFile
  /\ store' \in WholeFiles \ refuted[p]
  /\ UNCHANGED <<accepted, refuted, status>>

Discard(p) ==
  /\ status[p] = "busy"
  /\ store \in refuted[p]
  /\ store' = NoFile
  /\ UNCHANGED <<accepted, refuted, status>>

Succeed(p) ==
  /\ status[p] = "busy"
  /\ store \in accepted[p]
  /\ status' = [status EXCEPT ![p] = "ok"]
  /\ UNCHANGED <<store, accepted, refuted>>

Fail(p) ==
  /\ status[p] = "busy"
  /\ status' = [status EXCEPT ![p] = "failed"]
  /\ UNCHANGED <<store, accepted, refuted>>

Next == \E p \in Procs :
  Begin(p) \/ Publish(p) \/ Discard(p) \/ Succeed(p) \/ Fail(p)

Spec == Init /\ [][Next]_vars
=============================================================================
