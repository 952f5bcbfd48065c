-------------------------- MODULE GitCacheProofs ---------------------------
(***************************************************************************)
(* Proofs about GitCache.tla for any commits, changesets and requests, and *)
(* any number of runs, kills, damages and moved tags.                      *)
(***************************************************************************)
EXTENDS GitCache, TLAPS

USE DEF vars, outside, options, refs, gitdir, tree

-----------------------------------------------------------------------------
(* The error handler.  A step fails because of trouble or because of what  *)
(* it finds in the clone; and nothing is found in one that was made in the *)
(* second try, since only a kill or somebody else damages a clone.         *)
ErrorHasCause == pc = "error" => trouble \/ repo = "damaged" \/ lock

SecondTryIsClean ==
  second /\ pc \in Working => trouble \/ (repo # "damaged" /\ ~lock)

MissingIsMissing ==
  /\ pc \in {"special", "verify"} => want = tags[cset]
  /\ pc = "missing" /\ ~trouble => want = NoCommit \/ (repo = "damaged" /\ ~second)

HealInv ==
  /\ ErrorHasCause /\ SecondTryIsClean /\ MissingIsMissing
  /\ pc = "failed" => trouble

LEMMA HealInit == Init => HealInv
BY DEF Init, NoRepository, HealInv, ErrorHasCause, SecondTryIsClean, MissingIsMissing, Working,
       Steps

LEMMA HealStep ==
  ASSUME HealInv, [Next]_vars
  PROVE  HealInv'
<1> USE DEF HealInv, ErrorHasCause, SecondTryIsClean, MissingIsMissing, Working, Steps, Ended, Goto
<1>1. CASE InitRepo
  BY <1>1 DEF InitRepo
<1>2. CASE AddOrigin
  BY <1>2 DEF AddOrigin
<1>3. CASE FetchAll
  BY <1>3 DEF FetchAll
<1>4. CASE FetchSpecial
  BY <1>4 DEF FetchSpecial
<1>5. CASE Verify
  BY <1>5 DEF Verify
<1>6. CASE Deregister
  BY <1>6 DEF Deregister
<1>7. CASE Checkout
  BY <1>7 DEF Checkout
<1>8. CASE Clean
  BY <1>8 DEF Clean
<1>9. CASE UpdateSubmodules
  BY <1>9 DEF UpdateSubmodules
<1>10. CASE GetLargeFiles
  BY <1>10 DEF GetLargeFiles
<1>11. CASE SubstituteHints
  BY <1>11 DEF SubstituteHints
<1>12. CASE MakeArchive
  BY <1>12 DEF MakeArchive
<1>13. CASE StumbleOnClone
  BY <1>13 DEF StumbleOnClone, Failure
<1>14. CASE HaveTrouble
  BY <1>14 DEF HaveTrouble, Failure
<1>15. CASE OnError
  BY <1>15 DEF OnError, Wiped
<1>16. CASE Kill
  BY <1>16 DEF Kill, Killed, KillBetween, KillFetch, KillDeregister, KillCheckout, KillUpdate,
               KillLfs, KillSubst, KillWipe
<1>17. CASE Damage
  BY <1>17 DEF Damage
<1>18. ASSUME NEW n \in Names, NEW c \in Commits, MoveTag(n, c) PROVE HealInv'
  BY <1>18 DEF MoveTag
<1>19. ASSUME NEW request \in Requests, StartRun(request) PROVE HealInv'
  BY <1>19 DEF StartRun
<1>20. CASE UNCHANGED vars
  BY <1>20
<1> QED
  BY <1>1, <1>2, <1>3, <1>4, <1>5, <1>6, <1>7, <1>8, <1>9, <1>10, <1>11, <1>12, <1>13, <1>14, <1>15,
     <1>16, <1>17, <1>18, <1>19, <1>20 DEF Next, Step

LEMMA HealInvariant == Spec => []HealInv
BY HealInit, HealStep, PTL DEF Spec

(* A run fails only for a reason outside of the clone, and takes a         *)
(* changeset to be missing only when it is, or when a first try cannot     *)
(* read it in a damaged clone (git:31-52, git:148-154).                    *)
THEOREM HealsItself == Spec => []SelfHealing
<1>1. HealInv => SelfHealing
  BY DEF HealInv, MissingIsMissing, SelfHealing
<1> QED
  BY <1>1, HealInvariant, PTL

(* The error handler (git:49) is the only one to remove a clone, and it    *)
(* has a cause.                                                            *)
THEOREM GoodCloneKept == Spec => CacheKept
<1> DEFINE Kept == repo # "none" /\ repo' = "none" => trouble \/ repo = "damaged" \/ lock
<1>1. HealInv /\ [Next]_vars => [Kept]_vars
  <2> SUFFICES ASSUME HealInv, Next, repo # "none", repo' = "none"
               PROVE  trouble \/ repo = "damaged" \/ lock
    OBVIOUS
  <2>1. OnError
    <3>1. CASE Step
      BY <3>1 DEF Step, InitRepo, AddOrigin, FetchAll, FetchSpecial, Verify, Deregister, Checkout,
                  Clean, UpdateSubmodules, GetLargeFiles, SubstituteHints, MakeArchive,
                  StumbleOnClone, HaveTrouble
    <3>2. CASE Kill
      BY <3>2 DEF Kill, KillBetween, KillFetch, KillDeregister, KillCheckout, KillUpdate,
                  KillLfs, KillSubst, KillWipe
    <3>3. CASE Damage
      BY <3>3 DEF Damage
    <3> QED
      BY <3>1, <3>2, <3>3 DEF Next, MoveTag, StartRun
  <2> QED
    BY <2>1 DEF OnError, HealInv, ErrorHasCause
<1> QED
  BY <1>1, HealInvariant, PTL DEF Spec, CacheKept

-----------------------------------------------------------------------------
(* The changeset.  As long as no tag is moved, or since the second try has *)
(* begun, the refs of the clone are those of the remote repository, so     *)
(* that the branch that "git checkout" prefers to the tag is the same.     *)
RefTypes ==
  /\ upstream \in [Names -> Commits \cup {NoCommit}]
  /\ tags \in [Names -> Commits \cup {NoCommit}]
  /\ branches \in [Names -> Commits \cup {NoCommit}]
  /\ cset \in Names /\ moves \in Nat

OnlyPublished ==
  \A n \in Names : upstream[n] = NoCommit => tags[n] = NoCommit /\ branches[n] = NoCommit

RefsOfUnmoved ==
  moves = 0 => \A n \in Names : {tags[n], branches[n]} \subseteq {NoCommit, upstream[n]}

BranchesOfSecondTry ==
  second /\ pc \in Working => \A n \in Names : branches[n] \in {NoCommit, upstream[n]}

Fetched == {"special", "verify", "deregister", "checkout"} \cup {"clean", "submodules", "lfs", "subst", "archive"}
CheckedOutPlaces == {"clean", "submodules", "lfs", "subst", "archive", "done"}

WantIsUpstream == pc \in Fetched => want = upstream[cset] /\ tags[cset] = want

HeadIsWanted == pc \in CheckedOutPlaces /\ (moves = 0 \/ second) => head = want

RefInv ==
  /\ RefTypes /\ OnlyPublished /\ RefsOfUnmoved /\ BranchesOfSecondTry
  /\ WantIsUpstream /\ HeadIsWanted

LEMMA RefInit == Init => RefInv
BY GitAssumption DEF Init, NoRepository, RefInv, RefTypes, OnlyPublished, RefsOfUnmoved,
  BranchesOfSecondTry, WantIsUpstream, HeadIsWanted, Working, Steps, Fetched, CheckedOutPlaces

LEMMA RefStep ==
  ASSUME RefInv, [Next]_vars
  PROVE  RefInv'
<1> USE GitAssumption
    DEF RefInv, RefTypes, OnlyPublished, RefsOfUnmoved, BranchesOfSecondTry, WantIsUpstream,
        HeadIsWanted, Working, Steps, Ended, Fetched, CheckedOutPlaces, Goto
<1>1. CASE InitRepo
  BY <1>1 DEF InitRepo
<1>2. CASE AddOrigin
  BY <1>2 DEF AddOrigin
<1>3. CASE FetchAll
  BY <1>3 DEF FetchAll
<1>4. CASE FetchSpecial
  BY <1>4 DEF FetchSpecial
<1>5. CASE Verify
  BY <1>5 DEF Verify
<1>6. CASE Deregister
  BY <1>6 DEF Deregister
<1>7. CASE Checkout
  BY <1>7 DEF Checkout, Target
<1>8. CASE Clean
  BY <1>8 DEF Clean
<1>9. CASE UpdateSubmodules
  BY <1>9 DEF UpdateSubmodules
<1>10. CASE GetLargeFiles
  BY <1>10 DEF GetLargeFiles
<1>11. CASE SubstituteHints
  BY <1>11 DEF SubstituteHints
<1>12. CASE MakeArchive
  BY <1>12 DEF MakeArchive
<1>13. CASE StumbleOnClone
  BY <1>13 DEF StumbleOnClone, Failure
<1>14. CASE HaveTrouble
  BY <1>14 DEF HaveTrouble, Failure
<1>15. CASE OnError
  BY <1>15 DEF OnError, Wiped
<1>16. CASE Kill
  BY <1>16 DEF Kill, Killed, KillBetween, KillFetch, KillDeregister, KillCheckout, KillUpdate,
               KillLfs, KillSubst, KillWipe
<1>17. CASE Damage
  BY <1>17 DEF Damage
<1>18. ASSUME NEW n \in Names, NEW c \in Commits, MoveTag(n, c) PROVE RefInv'
  BY <1>18 DEF MoveTag
<1>19. ASSUME NEW request \in Requests, StartRun(request) PROVE RefInv'
  BY <1>19 DEF StartRun
<1>20. CASE UNCHANGED vars
  BY <1>20
<1> QED
  BY <1>1, <1>2, <1>3, <1>4, <1>5, <1>6, <1>7, <1>8, <1>9, <1>10, <1>11, <1>12, <1>13, <1>14, <1>15,
     <1>16, <1>17, <1>18, <1>19, <1>20 DEF Next, Step

LEMMA RefInvariant == Spec => []RefInv
BY RefInit, RefStep, PTL DEF Spec

(* The commit that is archived is the one that the changeset names, as long *)
(* as no tag was moved, or when the run has started afresh (git:133-185).   *)
THEOREM HeadCorrect == Spec => []HeadIsTheChangeset
<1>1. RefInv => HeadIsTheChangeset
  BY DEF RefInv, HeadIsWanted, CheckedOutPlaces, HeadIsTheChangeset
<1> QED
  BY <1>1, RefInvariant, PTL
-----------------------------------------------------------------------------
(* The working tree.  Git keeps the directory of the submodule and its     *)
(* .git together, but for the files that a killed removal leaves behind;   *)
(* so a run that removes the submodule before it checks its commit out     *)
(* begins with an empty directory, and each place of the script knows what *)
(* the two directories hold.                                               *)
SubInv ==
  /\ subgit => head \in Linked
  /\ ~subgit /\ ~orphans => sub = EmptyDir
  /\ pc \in {"checkout", "clean", "submodules"} => ~subgit

CommitInv ==
  /\ pc \in {"deregister", "checkout"} => tags[cset] # NoCommit \/ branches[cset] # NoCommit
  /\ pc \in CheckedOutPlaces => head \in Commits

WithSub == recurse /\ head \in Linked
FilesOfSub == IF WithSub THEN Sub[head] ELSE {}
FormsAgree == filters # {} => large_file

TopInv ==
  /\ pc = "clean" => Part(top, Main[head]) = CheckedOut(Main[head], "top" \in filters)
  /\ pc \in {"submodules", "lfs"} => top = CheckedOut(Main[head], "top" \in filters)
  /\ pc = "subst" /\ FormsAgree => top = CheckedOut(Main[head], large_file)
  /\ pc = "archive" /\ FormsAgree => top = Expanded(CheckedOut(Main[head], large_file), head)

SubFilesInv ==
  /\ pc = "lfs" => (subgit <=> WithSub)
  /\ pc = "lfs" /\ ~orphans => sub = CheckedOut(FilesOfSub, "sub" \in filters)
  /\ pc = "subst" /\ ~orphans /\ FormsAgree => sub = CheckedOut(FilesOfSub, large_file)
  /\ pc = "archive" /\ ~orphans /\ FormsAgree =>
       sub = Expanded(CheckedOut(FilesOfSub, large_file), head)

DirInv == SubInv /\ CommitInv /\ TopInv /\ SubFilesInv /\ ArchiveIsTheCommit
(* Directories: what the operators on them do to a directory that was just *)
(* checked out.                                                            *)
LEMMA EmptyDirFacts ==
  /\ \A c : Expanded(EmptyDir, c) = EmptyDir
  /\ WithContents(EmptyDir) = EmptyDir
  /\ \A l : CheckedOut({}, l) = EmptyDir
BY DEF Expanded, EmptyDir, WithContents, CheckedOut

LEMMA OverEmptyDir ==
  /\ \A d \in Parts(EmptyDir) : d = EmptyDir
  /\ Over(EmptyDir, EmptyDir) = EmptyDir
BY DEF Parts, Part, Over, EmptyDir

LEMMA ContentsOfCheckedOut ==
  ASSUME NEW F, NEW l, NEW m, m
  PROVE  WithContents(CheckedOut(F, l)) = CheckedOut(F, m)
BY DEF WithContents, CheckedOut, Form

LEMMA StoredCheckedOut ==
  ASSUME NEW F, NEW l, NEW m, ~l, ~m
  PROVE  CheckedOut(F, l) = CheckedOut(F, m)
BY DEF CheckedOut, Form

LEMMA PartOfCheckedOut ==
  ASSUME NEW F, NEW l, NEW dir
  PROVE  Part(Over(CheckedOut(F, l), dir), F) = CheckedOut(F, l)
<1> DEFINE Out == CheckedOut(F, l)
<1>1. DOMAIN Out = F /\ Out = [f \in F |-> Out[f]]
  BY DEF CheckedOut
<1> HIDE DEF Out
<1>2. /\ DOMAIN Over(Out, dir) = F \cup DOMAIN dir
      /\ \A f \in F : Over(Out, dir)[f] = Out[f]
  BY <1>1 DEF Over
<1>3. (F \cup DOMAIN dir) \cap F = F
  OBVIOUS
<1>4. Part(Over(Out, dir), F) = [f \in F |-> Over(Out, dir)[f]]
  BY <1>2, <1>3 DEF Part
<1>5. Part(Over(Out, dir), F) = Out
  BY <1>1, <1>2, <1>4
<1> QED
  BY <1>5 DEF Out

LEMMA CheckedOutWhole ==
  ASSUME NEW F, NEW l
  PROVE  /\ Part(CheckedOut(F, l), F) = CheckedOut(F, l)
         /\ Over(CheckedOut(F, l), EmptyDir) = CheckedOut(F, l)
BY DEF CheckedOut, Part, Over, EmptyDir

LEMMA ArchivedTogether ==
  ASSUME NEW A, NEW B, NEW l, NEW c
  PROVE  Over(Expanded(CheckedOut(B, l), c), Expanded(CheckedOut(A, l), c))
           = Expanded(CheckedOut(A \cup B, l), c)
<1> DEFINE Of(F) == Expanded(CheckedOut(F, l), c)
           form(f) == IF f \in Subst THEN c ELSE Form(f, l)
<1>1. \A F : Of(F) = [f \in F |-> form(f)]
  BY DEF Expanded, CheckedOut
<1> HIDE DEF Of
<1>2. /\ DOMAIN Of(A) = A /\ DOMAIN Of(B) = B
      /\ \A f \in A : Of(A)[f] = form(f)
      /\ \A f \in B : Of(B)[f] = form(f)
  BY <1>1
<1> HIDE DEF form
<1>3. Over(Of(B), Of(A)) = [f \in B \cup A |-> IF f \in B THEN Of(B)[f] ELSE Of(A)[f]]
  BY <1>2 DEF Over
<1>4. Over(Of(B), Of(A)) = [f \in A \cup B |-> form(f)]
  BY <1>2, <1>3
<1>5. Over(Of(B), Of(A)) = Of(A \cup B)
  BY <1>1, <1>4
<1> QED
  BY <1>5 DEF Of

-----------------------------------------------------------------------------
LEMMA DirInit == Init => DirInv
BY GitAssumption DEF Init, NoRepository, DirInv, SubInv, CommitInv, TopInv, SubFilesInv,
   ArchiveIsTheCommit, CheckedOutPlaces

LEMMA SubStep ==
  ASSUME SubInv, [Next]_vars
  PROVE  SubInv'
<1> USE DEF SubInv, Goto, Ended, Steps
<1>1. CASE InitRepo
  BY <1>1 DEF InitRepo
<1>2. CASE AddOrigin
  BY <1>2 DEF AddOrigin
<1>3. CASE FetchAll
  BY <1>3 DEF FetchAll
<1>4. CASE FetchSpecial
  BY <1>4 DEF FetchSpecial
<1>5. CASE Verify
  BY <1>5 DEF Verify
<1>6. CASE Deregister
  BY <1>6 DEF Deregister, Populated
<1>7. CASE Checkout
  BY <1>7 DEF Checkout
<1>8. CASE Clean
  BY <1>8 DEF Clean
<1>9. CASE UpdateSubmodules
  BY <1>9 DEF UpdateSubmodules
<1>10. CASE GetLargeFiles
  BY <1>10, EmptyDirFacts DEF GetLargeFiles, Populated
<1>11. CASE SubstituteHints
  BY <1>11, EmptyDirFacts DEF SubstituteHints
<1>12. CASE MakeArchive
  BY <1>12 DEF MakeArchive
<1>13. CASE StumbleOnClone
  BY <1>13 DEF StumbleOnClone, Failure
<1>14. CASE HaveTrouble
  BY <1>14 DEF HaveTrouble, Failure
<1>15. CASE OnError
  BY <1>15 DEF OnError, Wiped
<1>16. CASE Kill
  <2> USE DEF Killed
  <2>1. CASE KillBetween \/ KillFetch \/ KillCheckout
    BY <2>1 DEF KillBetween, KillFetch, KillCheckout
  <2>2. CASE KillDeregister
    BY <2>2 DEF KillDeregister, Populated
  <2>3. CASE KillUpdate
    BY <2>3 DEF KillUpdate
  <2>4. CASE KillWipe
    BY <2>4 DEF KillWipe
  <2>5. CASE KillLfs
    BY <2>5, OverEmptyDir, EmptyDirFacts DEF KillLfs, Populated
  <2>6. CASE KillSubst
    BY <2>6, OverEmptyDir, EmptyDirFacts DEF KillSubst, WithTemp
  <2> QED
    BY <1>16, <2>1, <2>2, <2>3, <2>4, <2>5, <2>6 DEF Kill
<1>17. CASE Damage
  BY <1>17 DEF Damage
<1>18. ASSUME NEW n \in Names, NEW c \in Commits, MoveTag(n, c) PROVE SubInv'
  BY <1>18 DEF MoveTag
<1>19. ASSUME NEW request \in Requests, StartRun(request) PROVE SubInv'
  BY <1>19 DEF StartRun
<1>20. CASE UNCHANGED vars
  BY <1>20
<1> QED
  BY <1>1, <1>2, <1>3, <1>4, <1>5, <1>6, <1>7, <1>8, <1>9, <1>10, <1>11, <1>12, <1>13, <1>14, <1>15,
     <1>16, <1>17, <1>18, <1>19, <1>20 DEF Next, Step

(* A step that does not go to one of the places past the fetch, nor change *)
(* what an archive that was made is compared with.                         *)
PastFetch == {"deregister", "checkout"} \cup CheckedOutPlaces

LEMMA ElsewhereKeeps ==
  ASSUME pc' \notin PastFetch
  PROVE  CommitInv' /\ TopInv' /\ SubFilesInv' /\ ArchiveIsTheCommit'
BY DEF PastFetch, CommitInv, TopInv, SubFilesInv, ArchiveIsTheCommit, CheckedOutPlaces

LEMMA DirStep ==
  ASSUME DirInv, RefInv, [Next]_vars
  PROVE  DirInv'
<1> USE DEF DirInv
<1>0. SubInv'
  BY SubStep
<1> DEFINE Rest == CommitInv /\ TopInv /\ SubFilesInv /\ ArchiveIsTheCommit
<1> SUFFICES Rest'
  BY <1>0
<1>1. ASSUME InitRepo \/ AddOrigin \/ FetchAll \/ FetchSpecial \/ StumbleOnClone \/ HaveTrouble
             \/ OnError \/ Kill
      PROVE  Rest'
  <2>1. pc' \notin PastFetch
    BY <1>1 DEF InitRepo, AddOrigin, FetchAll, FetchSpecial, StumbleOnClone, HaveTrouble, Failure,
         OnError, Kill, KillBetween, KillFetch, KillDeregister, KillCheckout, KillUpdate, KillLfs,
         KillSubst, KillWipe,
         Killed, Goto, PastFetch, CheckedOutPlaces
  <2> QED
    BY <2>1, ElsewhereKeeps
<1>2. ASSUME NEW request \in Requests, StartRun(request) PROVE Rest'
  <2>1. pc' \notin PastFetch
    BY <1>2 DEF StartRun, PastFetch, CheckedOutPlaces
  <2> QED
    BY <2>1, ElsewhereKeeps
<1>3. CASE UNCHANGED <<options, filters, head, orphans, archive, tags, branches, pc>> /\ pc \in Ended
  BY <1>3 DEF CommitInv, TopInv, SubFilesInv, ArchiveIsTheCommit, Ended, CheckedOutPlaces, Expected
<1>4. CASE Damage
  BY <1>3, <1>4 DEF Damage
<1>5. ASSUME NEW n \in Names, NEW c \in Commits, MoveTag(n, c) PROVE Rest'
  BY <1>3, <1>5 DEF MoveTag
<1>6. CASE Verify
  BY <1>6 DEF Verify, Goto, CommitInv, TopInv, SubFilesInv, ArchiveIsTheCommit, CheckedOutPlaces
<1>7. CASE Deregister
  BY <1>7 DEF Deregister, Goto, CommitInv, TopInv, SubFilesInv, ArchiveIsTheCommit, CheckedOutPlaces
<1>8. CASE Checkout
  <2>1. pc' = "clean" /\ head' = Target /\ UNCHANGED filters
    BY <1>8 DEF Checkout, Goto
  <2>2. Target \in Commits
    BY <1>8 DEF Checkout, Target, CommitInv, RefInv, RefTypes
  <2>3. Part(top', Main[Target]) = CheckedOut(Main[Target], "top" \in filters)
    BY <1>8, PartOfCheckedOut DEF Checkout
  <2> QED
    BY <2>1, <2>2, <2>3 DEF CommitInv, TopInv, SubFilesInv, ArchiveIsTheCommit, CheckedOutPlaces
<1>9. CASE Clean
  <2>1. pc = "clean" /\ pc' = "submodules" /\ UNCHANGED <<head, filters>>
    BY <1>9 DEF Clean, Goto
  <2>2. top' = CheckedOut(Main[head], "top" \in filters)
    BY <1>9, <2>1 DEF Clean, TopInv
  <2> QED
    BY <2>1, <2>2 DEF CommitInv, TopInv, SubFilesInv, ArchiveIsTheCommit, CheckedOutPlaces
<1>10. CASE UpdateSubmodules
  <2>1. pc = "submodules" /\ pc' = "lfs" /\ UNCHANGED <<head, filters, top, orphans, recurse, large_file>>
    BY <1>10 DEF UpdateSubmodules, Goto
  <2>2. ~subgit /\ (~orphans => sub = EmptyDir)
    BY <2>1 DEF SubInv
  <2>3. subgit' <=> WithSub
    BY <1>10, <2>2 DEF UpdateSubmodules, WithSub
  <2>4. ASSUME ~orphans PROVE sub' = CheckedOut(FilesOfSub, "sub" \in filters)
    <3>1. CASE WithSub
      BY <1>10, <2>2, <2>4, <3>1, CheckedOutWhole DEF UpdateSubmodules, WithSub, FilesOfSub
    <3>2. CASE ~WithSub
      BY <1>10, <2>2, <2>4, <3>2, EmptyDirFacts DEF UpdateSubmodules, WithSub, FilesOfSub
    <3> QED
      BY <3>1, <3>2
  <2> QED
    BY <2>1, <2>3, <2>4
    DEF CommitInv, TopInv, SubFilesInv, ArchiveIsTheCommit, CheckedOutPlaces, WithSub, FilesOfSub
<1>11. CASE GetLargeFiles
  <2>1. pc = "lfs" /\ pc' = "subst" /\ UNCHANGED <<head, orphans, recurse, large_file>>
    BY <1>11 DEF GetLargeFiles, Goto
  <2>2. subgit <=> WithSub
    BY <2>1 DEF SubFilesInv
  <2>3. ASSUME FormsAgree' PROVE top' = CheckedOut(Main[head], large_file)
    <3>1. top = CheckedOut(Main[head], "top" \in filters)
      BY <2>1 DEF TopInv
    <3>2. CASE large_file
      <4>1. top' = WithContents(top)
        BY <1>11, <3>2 DEF GetLargeFiles
      <4> QED
        BY <3>1, <3>2, <4>1, ContentsOfCheckedOut
    <3>3. CASE ~large_file
      <4>1. top' = top /\ filters = {}
        BY <1>11, <2>1, <2>3, <3>3 DEF GetLargeFiles, FormsAgree
      <4>2. CheckedOut(Main[head], "top" \in filters) = CheckedOut(Main[head], large_file)
        BY ONLY <3>3, <4>1, StoredCheckedOut
      <4> QED
        BY <3>1, <4>1, <4>2
    <3> QED
      BY <3>2, <3>3
  <2>4. ASSUME FormsAgree', ~orphans PROVE sub' = CheckedOut(FilesOfSub, large_file)
    <3>1. sub = CheckedOut(FilesOfSub, "sub" \in filters)
      BY <2>1, <2>4 DEF SubFilesInv
    <3>2. CASE large_file /\ WithSub
      <4>1. sub' = WithContents(sub)
        BY <1>11, <2>2, <3>2 DEF GetLargeFiles, Populated, WithSub
      <4> QED
        BY <3>1, <3>2, <4>1, ContentsOfCheckedOut
    <3>3. CASE large_file /\ ~WithSub
      <4>1. sub' = sub
        BY <1>11, <2>2, <3>3 DEF GetLargeFiles, Populated, WithSub
      <4> QED
        BY <3>1, <3>3, <4>1, EmptyDirFacts DEF FilesOfSub
    <3>4. CASE ~large_file
      <4>1. sub' = sub /\ filters = {}
        BY <1>11, <2>1, <2>4, <3>4 DEF GetLargeFiles, FormsAgree
      <4>2. CheckedOut(FilesOfSub, "sub" \in filters) = CheckedOut(FilesOfSub, large_file)
        BY ONLY <3>4, <4>1, StoredCheckedOut
      <4> QED
        BY <3>1, <4>1, <4>2
    <3> QED
      BY <3>2, <3>3, <3>4
  <2> QED
    BY <2>1, <2>3, <2>4
    DEF CommitInv, TopInv, SubFilesInv, ArchiveIsTheCommit, CheckedOutPlaces, WithSub, FilesOfSub
<1>12. CASE SubstituteHints
  <2>1. pc = "subst" /\ pc' = "archive" /\ UNCHANGED <<head, orphans, recurse, large_file, filters>>
    BY <1>12 DEF SubstituteHints, Goto
  <2>2. top' = Expanded(top, head) /\ sub' = Expanded(sub, head)
    BY <1>12 DEF SubstituteHints
  <2> QED
    BY <2>1, <2>2
    DEF CommitInv, TopInv, SubFilesInv, ArchiveIsTheCommit, CheckedOutPlaces, WithSub, FilesOfSub,
        FormsAgree
<1>13. CASE MakeArchive
  <2>1. pc = "archive" /\ pc' = "done" /\ UNCHANGED <<head, orphans, recurse, large_file, filters>>
    BY <1>13 DEF MakeArchive, Goto
  <2>2. head \in Commits
    BY <2>1 DEF CommitInv, CheckedOutPlaces
  <2>3. ASSUME ~orphans, FormsAgree PROVE archive' = Expected(head)
    <3>1. archive' = Over(Expanded(CheckedOut(FilesOfSub, large_file), head),
                          Expanded(CheckedOut(Main[head], large_file), head))
      BY <1>13, <2>1, <2>3 DEF MakeArchive, TopInv, SubFilesInv
    <3>2. FilesOfSub = IF recurse THEN Sub[head] ELSE {}
      BY <2>2, GitAssumption DEF FilesOfSub, WithSub
    <3> QED
      BY <3>1, <3>2, ArchivedTogether DEF Expected
  <2> QED
    BY <2>1, <2>2, <2>3
    DEF CommitInv, TopInv, SubFilesInv, ArchiveIsTheCommit, CheckedOutPlaces, FormsAgree, Expected
<1>14. CASE UNCHANGED vars
  BY <1>14 DEF CommitInv, TopInv, SubFilesInv, ArchiveIsTheCommit, Expected, WithSub, FilesOfSub,
     FormsAgree
<1> QED
  BY <1>1, <1>2, <1>4, <1>5, <1>6, <1>7, <1>8, <1>9, <1>10, <1>11, <1>12, <1>13, <1>14 DEF Next, Step

(* The archive of a run holds the files of the commit that it checked out, *)
(* in the form its options ask for and no others (git:170-237), whatever   *)
(* the runs before it did and however they were killed.                    *)
THEOREM ArchiveCorrect == Spec => []ArchiveIsTheCommit
<1>1. DirInv => ArchiveIsTheCommit
  BY DEF DirInv
<1> QED
  BY <1>1, DirInit, DirStep, RefInvariant, PTL DEF Spec
=============================================================================
