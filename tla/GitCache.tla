------------------------------ MODULE GitCache -----------------------------
(***************************************************************************)
(* support/download/git: the download backend that keeps, in ${dl_dir}/git,*)
(* a clone of the repository of a package from one run to the next.  The   *)
(* runs follow each other under the lock of the download directory; what a *)
(* killed run, a full disk or a user left in the clone is what the next    *)
(* run, possibly for another changeset, starts from.                       *)
(*                                                                         *)
(* A directory is a function from the files in it to their form: "stored"  *)
(* as in the repository, "large" when git-lfs has replaced the pointer by  *)
(* the contents, or the commit whose data export-subst has written into    *)
(* it.  At most one submodule is considered, whose repository git keeps in *)
(* .git/modules, and git is trusted to notice the damaged objects that it  *)
(* reads.                                                                  *)
(***************************************************************************)
EXTENDS Naturals, FiniteSets

CONSTANTS
  Names,        \* changesets that packages ask for: tags
  Commits,
  Main,         \* Main[c]: the files of commit c
  Linked,       \* commits that have the submodule
  Sub,          \* Sub[c]: the files of the submodule at the commit c records
  Large,        \* files that are git-lfs pointers in the repository
  Subst,        \* files with the export-subst attribute
  Junk,         \* a file of no commit
  Descends,     \* pairs <<c, d>>: d descends from c
  NoCommit,
  Published,    \* what the tags may name before the first run
  Requests,     \* what the packages of the directory ask for: triples of a
                \* changeset and the options -r and -l
  MaxAccidents, \* bound: tags moved in the remote repository, and times that
                \* something else damages the clone
  MaxRuns       \* bound: runs of the script

Files == UNION {Main[c] \cup Sub[c] : c \in Commits} \cup {Junk}
Forms == {"stored", "large"} \cup Commits
ASSUME GitAssumption ==
  /\ Linked \subseteq Commits
  /\ \A c \in Commits : Main[c] \cap Sub[c] = {} /\ Junk \notin Main[c] \cup Sub[c]
  /\ \A c \in Commits \ Linked : Sub[c] = {}
  /\ NoCommit \notin Commits
  /\ Published \subseteq [Names -> Commits \cup {NoCommit}]
  /\ Requests \subseteq Names \X BOOLEAN \X BOOLEAN
  /\ MaxAccidents \in Nat /\ MaxRuns \in Nat

VARIABLES
  upstream,     \* upstream[n]: the commit of tag n in the remote repository
  repo,         \* .git: "none", "ok", or "damaged", which git may stumble on
  origin,       \* the remote is configured
  tags,         \* refs/tags
  branches,     \* refs/heads, made by fetching "${cset}:${cset}"
  current,      \* the branch that HEAD is on
  head,         \* the commit that is checked out
  lock,         \* .git/index.lock exists
  filters,      \* the repositories where "git lfs install --local" was run
  top,          \* the files of the working tree
  sub,          \* the files in the directory of the submodule
  subgit,       \* ... and whether its .git is there
  pc,
  cset, recurse, large_file,    \* options: -c, -r, -l
  second,       \* BR_GIT_BACKEND_FIRST_FAULT
  archive,      \* what ${output} holds, at first nothing
  want,         \* history: the commit of cset, as of the last fetch
  trouble,      \* history: a command of this run failed for another reason
                \* than the state of the clone
  orphans,      \* history: a kill has left files of the submodule without
                \* their .git, and they are still there
  runs, moves, damages

outside == <<upstream, runs, moves, damages>>
options == <<cset, recurse, large_file>>
refs == <<tags, branches>>
gitdir == <<repo, origin, refs, current, head, lock, filters>>
tree == <<top, sub, subgit, orphans>>
vars == <<outside, options, gitdir, tree, pc, second, archive, want, trouble>>

Steps == {"init", "origin", "fetch", "special", "verify", "deregister", "checkout",
          "clean", "submodules", "lfs", "subst", "archive"}
Working == Steps \cup {"error"}
Ended == {"idle", "done", "missing", "failed", "killed"}

-----------------------------------------------------------------------------
(* Directories.                                                            *)
EmptyDir == [f \in {} |-> "stored"]
Over(new, dir) ==
  [f \in DOMAIN new \cup DOMAIN dir |-> IF f \in DOMAIN new THEN new[f] ELSE dir[f]]
Part(dir, S) == [f \in DOMAIN dir \cap S |-> dir[f]]
Parts(dir) == {Part(dir, S) : S \in SUBSET DOMAIN dir}

Form(f, contents) == IF contents /\ f \in Large THEN "large" ELSE "stored"
CheckedOut(F, contents) == [f \in F |-> Form(f, contents)]
WithContents(dir) == [f \in DOMAIN dir |-> IF f \in Large THEN "large" ELSE dir[f]]
Expanded(dir, c) == [f \in DOMAIN dir |-> IF f \in Subst THEN c ELSE dir[f]]

(* What an archive of commit c should hold.                                *)
Expected(c) ==
  Expanded(CheckedOut(Main[c] \cup (IF recurse THEN Sub[c] ELSE {}), large_file), c)

-----------------------------------------------------------------------------
NoRepository ==
  /\ repo = "none" /\ origin = FALSE /\ current = NoCommit /\ head = NoCommit
  /\ tags = [n \in Names |-> NoCommit] /\ branches = [n \in Names |-> NoCommit]
  /\ lock = FALSE /\ filters = {}

Init ==
  /\ upstream \in Published
  /\ NoRepository
  /\ top = EmptyDir /\ sub = EmptyDir /\ subgit = FALSE /\ orphans = FALSE
  /\ pc = "idle" /\ second = FALSE /\ archive = EmptyDir
  /\ cset \in Names /\ recurse = FALSE /\ large_file = FALSE
  /\ want = NoCommit /\ trouble = FALSE
  /\ runs = 0 /\ moves = 0 /\ damages = 0

(* Somebody publishes a tag, or moves it to another commit.                *)
MoveTag(n, c) ==
  /\ pc \in Ended
  /\ IF upstream[n] = NoCommit THEN UNCHANGED moves
     ELSE moves + damages < MaxAccidents /\ c # upstream[n] /\ moves' = moves + 1
  /\ upstream' = [upstream EXCEPT ![n] = c]
  /\ UNCHANGED <<runs, damages, options, gitdir, tree, pc, second,
                 archive, want, trouble>>

(* The disk, or a user who works in the clone.                             *)
Damage ==
  /\ pc \in Ended /\ repo # "none" /\ moves + damages < MaxAccidents
  /\ damages' = damages + 1
  /\ \/ repo' = "damaged" /\ UNCHANGED <<origin, refs, current, head, lock, filters, tree>>
     \/ /\ top' \in {Over([f \in {Junk} |-> "stored"], d) : d \in Parts(top)}
        /\ UNCHANGED <<gitdir, sub, subgit, orphans>>
  /\ UNCHANGED <<upstream, runs, moves, options, pc, second, archive,
                 want, trouble>>

StartRun(request) ==
  /\ pc \in Ended /\ runs < MaxRuns
  /\ runs' = runs + 1
  /\ pc' = "init" /\ second' = FALSE
  /\ cset' = request[1] /\ recurse' = request[2] /\ large_file' = request[3]
  /\ archive' = EmptyDir /\ want' = NoCommit /\ trouble' = FALSE
  /\ UNCHANGED <<upstream, moves, damages, gitdir, tree>>

-----------------------------------------------------------------------------
(* The steps of the script, when their commands succeed.                   *)
Goto(place) == pc' = place /\ UNCHANGED <<outside, options, second, trouble>>

(* git init .                                                              *)
InitRepo ==
  /\ pc = "init" /\ Goto("origin")
  /\ repo' = IF repo = "none" THEN "ok" ELSE repo
  /\ UNCHANGED <<origin, refs, current, head, lock, filters, tree, archive, want>>

(* git remote add origin, unless there is one; git remote set-url.         *)
AddOrigin ==
  /\ pc = "origin" /\ Goto("fetch")
  /\ origin' = TRUE
  /\ UNCHANGED <<repo, refs, current, head, lock, filters, tree, archive, want>>

(* git fetch origin; git fetch origin -t -f                                *)
FetchAll ==
  /\ pc = "fetch" /\ Goto("special")
  /\ tags' = [n \in Names |-> IF upstream[n] # NoCommit THEN upstream[n] ELSE tags[n]]
  /\ want' = tags'[cset]
  /\ UNCHANGED <<repo, origin, branches, current, head, lock, filters, tree, archive>>

(* git fetch origin "${cset}:${cset}", whose failure is ignored: it makes
   or advances a branch, other than the one that HEAD is on.               *)
FetchSpecial ==
  /\ pc = "special" /\ Goto("verify")
  /\ \/ /\ upstream[cset] # NoCommit /\ current # cset
        /\ branches[cset] = NoCommit \/ <<branches[cset], upstream[cset]>> \in Descends
        /\ branches' = [branches EXCEPT ![cset] = upstream[cset]]
     \/ UNCHANGED branches
  /\ UNCHANGED <<repo, origin, tags, current, head, lock, filters, tree, archive, want>>

Verify_IsAnError ==
  /\ pc = "verify"
  /\ Goto(IF tags[cset] = NoCommit /\ branches[cset] = NoCommit THEN "error" ELSE "deregister")
  /\ UNCHANGED <<gitdir, tree, archive, want>>

(* git rev-parse --verify "${cset}^{commit}"                               *)
Verify ==
  /\ pc = "verify"
  /\ Goto(IF tags[cset] = NoCommit /\ branches[cset] = NoCommit THEN "missing" ELSE "deregister")
  /\ UNCHANGED <<gitdir, tree, archive, want>>

(* git submodule foreach: a submodule of the commit that is checked out,
   if its .git is there, is removed.                                       *)
Populated == head \in Linked /\ subgit

Deregister ==
  /\ pc = "deregister" /\ Goto("checkout")
  /\ sub' = IF Populated THEN EmptyDir ELSE sub
  /\ subgit' = (subgit /\ ~Populated) /\ orphans' = (orphans /\ ~Populated)
  /\ UNCHANGED <<gitdir, top, archive, want>>

(* "git checkout v1" prefers the branch v1 to the tag v1.                  *)
Target == IF branches[cset] # NoCommit THEN branches[cset] ELSE tags[cset]

(* git checkout -f: the untracked files of either commit stay.             *)
Checkout ==
  /\ pc = "checkout" /\ ~lock /\ Goto("clean")
  /\ head' = Target
  /\ current' = IF branches[cset] # NoCommit THEN cset ELSE NoCommit
  /\ top' = LET removed == IF head = NoCommit THEN {} ELSE Main[head]
            IN Over(CheckedOut(Main[Target], "top" \in filters), Part(top, DOMAIN top \ removed))
  /\ UNCHANGED <<repo, origin, refs, lock, filters, sub, subgit, orphans, archive, want>>

(* Mutant: untracked files are left alone.                                 *)
Clean_Nothing ==
  /\ pc = "clean" /\ Goto("submodules")
  /\ UNCHANGED <<gitdir, tree, archive, want>>

(* git clean -ffdx, which does not enter the directory of a submodule.     *)
Clean ==
  /\ pc = "clean" /\ Goto("submodules")
  /\ top' = Part(top, Main[head])
  /\ sub' = IF head \in Linked THEN sub ELSE EmptyDir
  /\ subgit' = (subgit /\ head \in Linked) /\ orphans' = (orphans /\ head \in Linked)
  /\ UNCHANGED <<gitdir, archive, want>>

(* git submodule update --init --recursive                                 *)
UpdateSubmodules ==
  /\ pc = "submodules" /\ Goto("lfs")
  /\ IF recurse /\ head \in Linked
     THEN sub' = Over(CheckedOut(Sub[head], "sub" \in filters), sub) /\ subgit' = TRUE
     ELSE UNCHANGED <<sub, subgit>>
  /\ UNCHANGED <<gitdir, top, orphans, archive, want>>

(* git lfs install, fetch and checkout, here and in the submodule.         *)
GetLargeFiles ==
  /\ pc = "lfs" /\ Goto("subst")
  /\ LET reached == IF ~large_file THEN {}
                     ELSE {"top"} \cup (IF recurse /\ Populated THEN {"sub"} ELSE {})
     IN /\ filters' = filters \cup reached
        /\ top' = IF "top" \in reached THEN WithContents(top) ELSE top
        /\ sub' = IF "sub" \in reached THEN WithContents(sub) ELSE sub
  /\ UNCHANGED <<repo, origin, refs, current, head, lock, subgit, orphans, archive, want>>

(* The hints of the export-subst files, in all the directories.            *)
SubstituteHints ==
  /\ pc = "subst" /\ Goto("archive")
  /\ top' = Expanded(top, head) /\ sub' = Expanded(sub, head)
  /\ UNCHANGED <<gitdir, subgit, orphans, archive, want>>

(* mk_tar_gz                                                               *)
MakeArchive ==
  /\ pc = "archive" /\ Goto("done")
  /\ archive' = Over(sub, top)
  /\ UNCHANGED <<gitdir, tree, want>>

-----------------------------------------------------------------------------
(* What a failed command leads to: when it is the search for the changeset,
   the script takes the changeset to be missing.                           *)
Failure == IF pc = "verify" THEN "missing" ELSE "error"

(* A command fails because of what it finds in the clone: damaged objects
   or a lock file.                                                         *)
StumbleOnClone ==
  /\ pc \in Steps \ {"special"}
  /\ \/ repo = "damaged"
     \/ pc = "checkout" /\ lock
  /\ Goto(Failure)
  /\ UNCHANGED <<gitdir, tree, archive, want>>

(* It fails for another reason: the server, the disk, memory.              *)
HaveTrouble ==
  /\ pc \in Steps \ {"special"}
  /\ pc' = Failure /\ trouble' = TRUE
  /\ UNCHANGED <<outside, options, gitdir, tree, second, archive, want>>

Wiped ==
  /\ repo' = "none" /\ origin' = FALSE /\ current' = NoCommit /\ head' = NoCommit
  /\ tags' = [n \in Names |-> NoCommit] /\ branches' = [n \in Names |-> NoCommit]
  /\ lock' = FALSE /\ filters' = {}
  /\ top' = EmptyDir /\ sub' = EmptyDir /\ subgit' = FALSE /\ orphans' = FALSE

(* Mutants: the clone is kept; every error starts afresh.                  *)
OnError_KeepsClone ==
  /\ pc = "error"
  /\ pc' = IF second THEN "failed" ELSE "init"
  /\ second' = TRUE
  /\ UNCHANGED <<outside, options, gitdir, tree, archive, want, trouble>>
(* The ERR trap: once, the script removes the clone and starts again.      *)
OnError ==
  /\ pc = "error"
  /\ \/ second /\ pc' = "failed" /\ UNCHANGED <<gitdir, tree, second>>
     \/ ~second /\ Wiped /\ pc' = "init" /\ second' = TRUE
  /\ UNCHANGED <<outside, options, archive, want, trouble>>

-----------------------------------------------------------------------------
(* The run is killed: what the interrupted command leaves.  The variables
   of the process are lost, and so is what it would have archived.         *)
Killed ==
  /\ pc' = "killed" /\ recurse' = FALSE /\ large_file' = FALSE /\ second' = FALSE
  /\ want' = NoCommit /\ trouble' = FALSE
  /\ UNCHANGED <<outside, cset, origin, refs, current, archive>>

KillBetween == pc \in Working /\ Killed /\ UNCHANGED <<repo, head, lock, filters, tree>>

KillFetch ==
  /\ pc \in {"init", "fetch", "special"} /\ Killed
  /\ repo' = "damaged" /\ UNCHANGED <<head, lock, filters, tree>>

(* rm -rf of the submodule, part-way.                                      *)
KillDeregister ==
  /\ pc = "deregister" /\ Populated /\ Killed
  /\ sub' \in Parts(sub) /\ subgit' \in BOOLEAN
  /\ orphans' = (sub' # EmptyDir /\ (orphans \/ ~subgit'))
  /\ UNCHANGED <<repo, head, lock, filters, top>>

KillCheckout ==
  /\ pc = "checkout" /\ ~lock /\ Killed
  /\ lock' = TRUE
  /\ top' \in Parts(Over(CheckedOut(Main[Target], "top" \in filters), top))
  /\ UNCHANGED <<repo, head, filters, sub, subgit, orphans>>

KillUpdate ==
  /\ pc = "submodules" /\ recurse /\ head \in Linked /\ Killed
  /\ sub' \in {Over(d, sub) : d \in Parts(CheckedOut(Sub[head], "sub" \in filters))}
  /\ subgit' = TRUE /\ repo' = "damaged"
  /\ UNCHANGED <<head, lock, filters, top, orphans>>

(* The filter is installed before the files are fetched and replaced, here
   and then in the submodule.                                              *)
KillLfs ==
  /\ pc = "lfs" /\ large_file /\ Killed
  /\ \/ /\ filters' = filters \cup {"top"} /\ UNCHANGED sub
        /\ top' \in {Over(WithContents(d), top) : d \in Parts(top)}
     \/ /\ recurse /\ Populated /\ filters' = filters \cup {"top", "sub"}
        /\ top' = WithContents(top)
        /\ sub' \in {Over(WithContents(d), sub) : d \in Parts(sub)}
  /\ UNCHANGED <<repo, head, lock, subgit, orphans>>

(* Some of the files are rewritten, of either directory, and the next one
   is beside its "br-temp".                                                *)
WithTemp(dir) == IF dir = EmptyDir THEN dir ELSE Over([f \in {Junk} |-> "stored"], dir)

KillSubst ==
  /\ pc = "subst" /\ Killed
  /\ \E t \in Parts(top), s \in Parts(sub) :
       LET newTop == Over(Expanded(t, head), top)
           newSub == Over(Expanded(s, head), sub)
       IN \/ top' = WithTemp(newTop) /\ sub' = newSub
          \/ top' = newTop /\ sub' = WithTemp(newSub)
  /\ UNCHANGED <<repo, head, lock, filters, subgit, orphans>>

(* rm -rf of the clone, part-way: "git init" makes anew what it needs.     *)
KillWipe ==
  /\ pc = "error" /\ ~second /\ Killed
  /\ repo' = "damaged" /\ head' = NoCommit
  /\ lock' \in {lock, FALSE} /\ filters' = {}
  /\ top' \in Parts(top) /\ sub' \in Parts(sub) /\ subgit' = FALSE
  /\ orphans' = (sub' # EmptyDir)

Kill ==
  \/ KillBetween \/ KillFetch \/ KillDeregister \/ KillCheckout
  \/ KillUpdate \/ KillLfs \/ KillSubst \/ KillWipe

Step ==
  \/ InitRepo \/ AddOrigin \/ FetchAll \/ FetchSpecial \/ Verify \/ Deregister
  \/ Checkout \/ Clean \/ UpdateSubmodules \/ GetLargeFiles \/ SubstituteHints
  \/ MakeArchive \/ StumbleOnClone \/ HaveTrouble \/ OnError

Next ==
  \/ Step \/ Kill \/ Damage
  \/ \E n \in Names, c \in Commits : MoveTag(n, c)
  \/ \E request \in Requests : StartRun(request)

Spec == Init /\ [][Next]_vars

-----------------------------------------------------------------------------
(* Properties.                                                             *)

(* Whatever the earlier runs fetched, checked out, rewrote or left when they
   were killed, the archive of a run holds the files of the commit that it
   checked out, in the form its options ask for, and no others: except for
   the files of a submodule that a killed removal left without their .git
   (git:181), and for the git-lfs filters that a run with -l leaves behind
   (git:217).                                                              *)
ArchiveIsTheCommit ==
  pc = "done" /\ ~orphans /\ (filters # {} => large_file) => archive = Expected(head)

(* The commit that is archived is the one that the changeset names in the
   remote repository when the run fetches it: as long as no tag was moved
   there, or when the run has started afresh.  (A clone may stay on the old
   commit of a tag that was moved: on the branch git:144 has made of it.)  *)
HeadIsTheChangeset == pc = "done" /\ (moves = 0 \/ second) => head = want

(* "Its job is to attempt a clone from scratch (only once!) in case the git
   tree is borked" (git:31-35): a run fails only for a reason outside of
   the clone.  It says that a changeset is missing only when it is, with one
   exemption: "git rev-parse" (git:151) is not under the ERR trap, so that a
   first try can take what it cannot read in a damaged clone to be missing,
   and does not start afresh; the second try never does.                   *)
SelfHealing ==
  /\ pc = "failed" => trouble
  /\ pc = "missing" /\ ~trouble => want = NoCommit \/ (repo = "damaged" /\ ~second)

(* "re-cloning from scratch won't help, so we don't want to trash the
   repository for a missing commit" (git:148-150): a good clone goes only
   when some other command has failed.                                     *)
CacheKept ==
  [][repo # "none" /\ repo' = "none" => trouble \/ repo = "damaged" \/ lock]_vars
=============================================================================
