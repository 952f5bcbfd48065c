# TLA+ models of the jebrish build system

jebrish is a Buildroot tree for handheld consoles: Buildroot's infrastructure
(GNU make macros, shell scripts, a few C programs, kconfig), about 3000 package
recipes, and board files of its own. The logic that is hard to get right is in two
places. One is what outlives a command: a download directory shared by several
trees, a clone kept from one download to the next, a build directory whose stamp
files tell the next `make` what has been done, a `.config` from which the files of
the build follow. Runs are killed, commands fail, and the next run starts from
whatever is there. The other is kconfig: symbols whose values depend on each other,
are computed on demand and cached, and are set in any order from front ends that
keep positions, windows and cursors by hand.

Paths below are relative to the repository. `git:190` stands for line 190 of
`support/download/git`, and so on; the C files of kconfig are in `support/kconfig`.

1. [Inventory](#1-inventory)
2. [Modules](#2-modules)
3. [Runs](#3-runs)
4. [Fairness](#4-fairness)
5. [Proofs](#5-proofs)
6. [Where the code and its documentation disagree](#6-where-the-code-and-its-documentation-disagree)
7. [What is not modelled](#7-what-is-not-modelled)
8. [Plan](#8-plan)

## 1. Inventory

| Component | State it keeps | Operations | What makes it correct |
| --- | --- | --- | --- |
| Download wrapper: `support/download/dl-wrapper`, under the `flock` of the `DOWNLOAD` macro (`package/pkg-download.mk`) | `$(<PKG>_DL_DIR)/<file>`, temporaries in `$(BUILD_DIR)` and next to the file, `.lock` | one run per archive: legacy copy, check of an existing file, backends in turn, post-processing, check, save | a file under its final name is whole and verified; a good file is never lost; a wrong one never survives a run |
| Hash check: `support/download/check-hash` | none | exit code for a file and its `.hash` files | the first failing line decides; no hash for an archive is told apart from a wrong one |
| Git backend: `support/download/git`, `helpers` | the clone `${dl_dir}/git`: refs, HEAD, index lock, LFS filters, working tree, submodules | init, fetch, checkout, clean, submodules, LFS, export-subst, archive; wipe and retry once | the archive is the changeset's files and nothing else, whatever earlier runs left; a broken clone is replaced, a good one kept |
| Other backends and post-processors: `wget`, `svn`, `hg`, `cvs`, `bzr`, `scp`, `sftp`, `file`, `cargo-post-process`, `go-post-process` | none | one command each | deliver the content or fail |
| Package steps: `package/pkg-generic.mk`, run by `Makefile` | stamp files with their times, build directories | source, extract, rsync, patch, configure, build, install steps; `reinstall`, `rebuild`, `reconfigure`, `dirclean` | stamps stand for finished work; a dependency is complete before a configure; the commands have the effect the manual promises |
| kconfig core: `expr.c`, `menu.c`, `symbol.c`, `confdata.c` | expressions, the menu tree, per symbol the value, visibility, reverse dependencies and flags; `.config`, `.config.old`, `auto.conf`, `tristate.conf`, `autoconf.h`, `include/config/` | build and finalize the tree; compute, query and set values; check for recursion; read, write, defconfig, autoconf, all*config | rewriting keeps the meaning of conditions; what is cached is what a fresh computation gives; a choice has one member; files survive a kill and read back as written |
| conf: `conf.c` | the pass over the menus, the counter of questions | oldconfig and its relatives, the all*config commands, savedefconfig | nothing new stays unasked; a saved file is final |
| menuconfig: `mconf.c`, `lxdialog/` | the open menus and dialogs, `filename`, `save_and_exit`, scroll positions, text buffers | every dialog and key, search, load, save, exit, resize | no change is lost in silence; all that is visible can be reached; the screen shows what the program believes |
| nconfig: `nconf.c`, `nconf.gui.c` | the highlighted item, the search, the input field, the scroll window | the same over ncurses' menus, search as you type | a search finds the nearest match or says there is none; the field and the pages show the text |
| Kconfig parser; gconf, qconf | tables; widgets | | see section 7 |
| mkusers: `support/scripts/mkusers` | `/etc/passwd`, `shadow`, `group`, `gshadow` of a target directory | five passes over the table of users | ids are unique, given ids are used, members and homes are right |
| makedevs: `package/makedevs/makedevs.c` | the files of a root filesystem; the file of the last entry | one kind of line after the other: files, directories, recursion, devices, links, capabilities | a table that succeeds is what the files have, and nothing else is touched |
| Toolchain wrapper: `toolchain/toolchain-wrapper.c` | the array of arguments | options added, the paths checked, `execv` | the array is never overrun; no directory of the build machine passes |
| Patch application: `support/scripts/apply-patches.sh` | `.applied_patches_list`, the build directory | recursive scan, apply | each patch once, in order; a restart after an interruption |
| Per-package directories: `package/pkg-utils.mk`, `Makefile` (finalize) | `per-package/<pkg>/{host,target}` | rsync from dependencies, merge | a package sees exactly its dependencies; the merge is independent of the order of the build |
| Root filesystems: `fs/common.mk` | one copy of `target/` per image | copy, fakeroot script, compress | images made side by side do not disturb each other |
| Package flavours: `package/pkg-*.mk` | `.stamp_dotconfig` (kconfig) | define the recipes of the steps | right dependencies |
| br2-external, dependency checks, legal-info, graph-depends, pkg-stats, fix-rpath, utils, test infrastructure | reports, generated files | | see section 7 |
| Board files: `board/jebrish`, `configs` | none | post-build and post-image scripts | see section 7 |

How they interact. A front end of kconfig (`conf`, `mconf`, `nconf`) sets symbols
through the core and writes `.config`; `conf --syncconfig` makes `auto.conf`, which
make includes. `make` runs the steps of the packages. A package's source step calls
the DOWNLOAD macro, which calls the wrapper under a lock; the wrapper calls a
backend (for git, one that has a clone of its own beside the archives) and
check-hash. The extract step reads the archive after the lock is gone. The build
steps call the compiler through the toolchain wrapper. Installed packages are merged
into `target/`; each filesystem image takes a copy of it and runs mkusers and
makedevs there. But for the front ends, which are linked with the core, no two of
these talk to each other but through files and exit codes, so the modules are joined
at those: `DlWrapper` uses the exit code that `CheckHash` defines and `HashScan`
computes, and what its `Backend` step assumes (it ends, with some content or a
failure) is what `GitCache` shows for git. The models of the front ends extend those
of the core.

The behaviours that are hard: several runs for one archive at a time, from trees
that may disagree on its hashes; kills between any two steps; commands that fail
part-way; a retry after a failure; state from a run for another version or with
other options; parallel recipes; several goals on one command line, where GNU
make does not look twice at a file; ids that some packages give and others leave
to the script; values that are cached while others they depend on change; a choice
whose selection is kept in several places; a question that makes other questions
appear; indices of a list, a text and a window that must move together; and lines
of one table that overlap. `PROJECT.json` lists the hazards, each at its line with
the properties about it.

## 2. Modules

| Module | Models | EXTENDS |
| --- | --- | --- |
| `CheckHash` | check-hash as a function of the file and its `.hash` files | |
| `HashScan` | the loop of check-hash, shown to compute that function | `CheckHash` |
| `DlStore` | abstract: what a download directory promises for one archive | |
| `DlWrapper` | dl-wrapper and the lock; implements `DlStore` | `CheckHash` |
| `GitCache` | the git backend and its clone, over several runs | |
| `PkgGraph` | the targets, prerequisites and recipes that pkg-generic.mk declares | |
| `PkgSteps` | runs of make over them | `PkgGraph` |
| `MkUsers` | mkusers | |
| `MakeDevs` | makedevs | |
| `ToolchainWrapper` | toolchain-wrapper.c | |
| `KconfigExpr` | expressions: value, comparison, rewriting (expr.c) | |
| `KconfigRewrite` | what `menu_finalize` does with one condition | `KconfigExpr` |
| `KconfigMenu` | the menu tree and `menu_finalize` (menu.c) | `KconfigExpr` |
| `KconfigSymbol` | values of symbols and choices, and setting them (symbol.c) | `KconfigMenu` |
| `KconfigDeps` | the check for recursive dependencies (symbol.c) | `KconfigSymbol` |
| `KconfigValues` | one configurator: queries and settings in any order | `KconfigDeps` |
| `KconfigFile` | reading and writing (confdata.c) | `KconfigSymbol` |
| `KconfigConf` | conf, one command after the other, each perhaps killed | `KconfigFile` |
| `Mconf` | menuconfig as a stack of calls and dialogs (mconf.c) | `KconfigFile` |
| `ListBox` | menubox.c, checklist.c, yesno.c | |
| `LineEditor` | abstract: a line of text and a cursor | |
| `InputBox` | inputbox.c; implements `LineEditor` | |
| `TextBox` | textbox.c, and `update_text` of mconf.c | |
| `NconfMenu` | the menus of nconf and the search in them (nconf.c) | |
| `NconfBoxes` | the dialogs of nconf (nconf.gui.c) | |
| `MC_*` | instances for TLC; `MC_HostTools` joins the four programs of the host, `MC_Screens` menuconfig and the boxes | |
| `*Proofs` | theorems | |

Operators whose name ends in `_Something` and whose comment says "Mutant" are
plausible bugs of the operator that follows. `PROJECT.json` names, for every
property that holds, one that breaks it; nothing else uses them.

### CheckHash, HashScan

A file is its data and whether all of it was written; a line of a `.hash` file is
whether it is about the file, whether its hash type is known, and the data its
hash belongs to. `LineStatus` is `check_one_hash`, `ExitCode` what the script exits with: 0, 2
(mismatch), 3 (no hash), 4 (unknown type). `HashScan` has one action per turn of
the two loops. `read` fails on a last line without a newline, so that this line is
not looked at (`ReadableLines`); `Verdict` is the exit code that its header promises,
which counts all the lines.

### DlWrapper

One action per command of the script whose outcome or moment matters, with the
script's names for the variables. `Start` is the recipe of DOWNLOAD, `Acquire` the
moment `flock` gets the lock; the lock goes with the process (`Exit`, `Kill`).
`Link`, `CopyBegin` and `CopyEnd` are lines 62-64: `ln || cp || true`, in place,
with a cp that may leave a part of the file. `Save` and `Chmod` have the exits that
`set -e` gives them. A process keeps the `.hash` files of its tree; other trees may
have others. The temporaries of a killed run have random names and are never met
again, so `Start` forgets them.

Abstracted: the contents of a file is a model value; a backend delivers a content
that its uri serves, or fails; post-processing is a function on contents.

`DlStore` has no lock, no temporaries and no uris: a file appears whole where there
was none, is removed by a request that its hashes refute, and a request succeeds on
a file its hashes accept. `DlWrapper!ImplementsStore` is the refinement, where there
is no legacy directory.

### GitCache

The clone outlives the run: `repo` (absent, usable, damaged), `origin`, tags,
branches, HEAD, the index lock, the repositories in which `git lfs install` has
set filters, and the files of the working tree and of one submodule. A directory is
a function from file names to the form of the file: as stored, with the contents of
git-lfs, or with the hints of a commit expanded. One action per command of the
script (`InitRepo` to `MakeArchive`); `StumbleOnClone` and `HaveTrouble` are the
commands that fail, because of the clone or not: `Failure` says where the run goes then,
which for git rev-parse (git:151), outside of the trap, is the message that the changeset
does not exist. `OnError` is the ERR trap, which wipes and starts again once. `Kill...`
actions say what each interrupted command may leave, of both directories. `Damage` is the
disk or a user, `MoveTag` the upstream.

Git itself is external and modelled as observed with git 2.39. What matters here:
`git fetch origin v1:v1` (git:144) makes a *branch* v1, which `git checkout v1` then
prefers, and which a later fetch may not advance while HEAD is on it; `git submodule
foreach` skips a submodule without its `.git`; `git clean` does not enter the
directory of a submodule.

Abstracted: at most one submodule, of one level; changesets are tags (a sha1 is a tag
that never moves); git notices the damaged objects that it reads; file names of the
submodule and of the main tree are disjoint; users leave files in the main tree only;
failures before the ERR trap is set (git:54-77), which end the run and change nothing;
`.git` files of submodules in the archive.

### PkgGraph, PkgSteps

A target is a pair of a package and a step: stamps (`source` … `install`, one per
kind of installation), the phony `pkg`, the clean recipes, and the commands. `PkgGraph`
defines which stamps a package has (with or without `OVERRIDE_SRCDIR`), normal and
order-only prerequisites, those for downloading and extracting among them, and which stamps
each clean recipe removes in which order (those of installations that are not enabled too:
its `rm -f` do not ask), from the `inner-generic-package` macro.

`PkgSteps` is make. On disk: `present`, and `stale[t]`, the normal prerequisites
touched after t (all that comparing times can tell). `complete` and `version` say what
the stamps claim: whether the work of a step ran to its end, and from which sources.
In a run: `mk[t]`, what make knows of a target. GNU make looks at a file when it first
considers it and keeps that (`Consider`), also if a clean recipe of the same run
removes it (`RemoveStamp`). A prerequisite that is circular is dropped (`PrereqReached`).
A step is `BeginStep`, then `EndStep`, `FailStep`, or
nothing if the run dies (`Interrupt`). `Jobs` is 1 unless per-package directories are
used, because of `.NOTPARALLEL` (Makefile:237-242); `HasWait` says that make is at
least 4.4. `make` without goals is represented by the goals of the packages that
nothing else needs.

Abstracted: what the commands of a step do; the sources of a package are one version
number; rsync copies it all, although `rsync -au` without `--delete` (pkg-generic.mk:222)
keeps files that have gone. A package whose `rm -Rf` (dirclean) was killed is `torn` and
exempt: its stamps may outlive its files, and no text promises otherwise.

### MkUsers

`turn` is the place of `main`: which of its five passes, which line, which call. `Calls` are
the calls of `add_one_group` and `add_one_user` that a pass makes for a line, taken one at a
time; each rewrites the group and user files, and the script stops at the first that fails;
a home that is no absolute path is found after the old lines of the user have been removed
(`BadHome`). `check_user_validity` is in `UidValid`, `GidValid` and
`SameGroup`, with its order against the rewriting kept: the check of a group comes
after the group was written. Automatic ids are the lowest free ones of the two ranges
at lines 6-13.

### MakeDevs

One action per kind of line (`Directory`, `RegularFile`, `Recursive`, `Batch`, ...), and one
per file that `nftw` visits in an `r` line (`Visit`) and per node of a batch (`MakeNode`).
`Apply` is the owner and then the mode of a file, each of which may fail. A file is its type,
mode, owner and capability; stat, chown and chmod follow links, lchown does not, and chown may
take the set-id bits and the capability away, as the kernel has it. What fails sets the exit
code, with or without stopping the table. `full_name`, which an `|xattr` line uses, is what the
line before left there. The files are a small tree with links, one of which may lead nowhere;
the parts of a path are names, not strings.

### ToolchainWrapper

`main`, block by block: each adds its options unless the caller gave one that excludes
them; then the check of the paths, one turn of its inner loop at a time, in which `i` is
moved on for a path that is an argument of its own; then `execv`. An argument is a word
with what it begins with (`Opt`, `Path`). `Builds` are the sets of macros, of which ARM's
float ABI and MIPS's mode exclude each other (`Sensible`).

### The kconfig core

`KconfigExpr` gives each function of expr.c that menu_finalize uses (negation,
`expr_transform`, the elimination of equal and of implied operands, `expr_trans_compare`,
`expr_trans_bool`, `expr_contains_symbol`, `expr_depends_symbol`) as an operator on trees;
`KconfigRewrite` applies them in menu_finalize's order to one condition, and keeps the
condition it started from to compare their values. Numbers in comparisons are those of
`strtoull`: their width is `WordSize`. Where the source recurs, the operator is a recursive
function on the constant `Exprs`, the set of expressions there are: all trees in the proofs,
those up to a height for TLC.

`KconfigMenu` turns a Kconfig file, given as the sequence of calls that the parser makes,
into the finished tree: dependencies handed down, choices, submenus, reverse dependencies.
`KconfigSymbol` keeps what symbol.c keeps and has the recursion of `sym_calc_value`,
`sym_calc_visibility`, `sym_calc_choice` with its order: a value is flagged as valid
*before* what it depends on is computed, so that half-computed values may be read.
`SetTristate`, `SetString`, and `ClearAllValid` are the ways to change one.
`KconfigDeps` is `sym_check_deps` with its marks and its stack. `KconfigValues` puts a
program around these: any query, any setting that the front ends would offer, in any order.

`KconfigFile` reads (`conf_read_simple`, `conf_read`, with what it does to choices) and
writes (`conf_write`, `conf_write_defconfig`, `conf_write_autoconf`, `conf_split_config`,
`conf_set_all_new_symbols`). A file is its lines; a line is a name and a value.

Abstracted: names and texts are model values, with their order and number given by tables;
prefixes, quotes and escapes; headings; warnings; symbols from the environment.

### KconfigConf

One command after another on one `.config`. `conf` and `check_conf` recurse over the menus
with questions in between; the calls still to be made are an `agenda`, so that each
question is a step and can be answered in any way, or the command killed (`Kill`) before
or after any of the file operations of its end, or while it writes the file of savedefconfig,
whose beginning a later `defconfig` reads: temporary, `.config.old`, `.config`, the
files of `include/config` one by one, `auto.conf` last.

### Mconf, ListBox, InputBox, TextBox

`Mconf` keeps the recursion of mconf.c as a stack of frames; the innermost frame shows a
dialog, and what the user does there is an action: the keys of the menus, values, the
choice, the search and its jump keys, loading, saving, ESC and ^C. A write that fails, or is
interrupted while its message is shown, has cleared the flags of what it wrote (`NotWritten`,
`halfSaved`). `BuildConf` is
`build_conf`, `MenuItems` its items. The dialogs have their insides in modules of their own, from
their call to their return, with the variables of the C code: `ListBox` draws rows and
scrolls them, `InputBox` has the buffer with what is behind its NUL, `TextBox` walks over
the text in both directions. Resizing the display is an action of each.

### NconfMenu, NconfBoxes

`NconfMenu` is the loop of `conf` and `conf_choice` in nconf.c around ncurses' menu, which
is external: the highlighted item and the first row (`SetCurrent` scrolls no further than
it must; what ncurses does can differ, and no property depends on it). A search is started
by `/`, by a letter or by an arrow key (`TypeGlyph`, `NextHit`), and each turn of the loop
of `get_mext_match` is a step (`Look`). `NconfBoxes` has `dialog_inputbox`,
`show_scroll_win` and `btn_dialog`.


## 3. Runs

All bounds are constants of the modules, given in the `.cfg` or, where TLC's configuration
cannot write them, in the `MC_` module. States are distinct states; times are for two
workers.

| Run | Instance | Shows | States |
| --- | --- | --- | --- |
| `dl_sharing` | 2 processes, 3 runs, 2 uris, 4 kinds of `.hash` files, no legacy copy | `SuccessIsVerified`, `ImplementsStore`: a file that a run returned 0 for stays and stays verified; the wrapper is the store | 67,000 |
| `dl_trees` | 2 trees with equal or contradicting hashes, legacy copies, post-processing, 3 runs | `GoodFileIsKept`, `EveryRunEnds` | 53,000 |
| `git_cache` | 3 commits, 2 tags, 3 combinations of changeset and options, 3 runs, 1 moved tag or damage | `ArchiveIsTheCommit`, `SelfHealing`, `CacheKept` | 3,060,000, 1 min |
| `steps_serial` | a library with OVERRIDE_SRCDIR and an application, 3 serial runs of `make` and `make lib-rebuild all`, 1 edit | `StampsTellTheTruth`, `InstalledIsBuilt`, `SuccessTakesEffect` | 359,000, 2 min |
| `steps_parallel` | the same, `-j2` and make 4.4, 2 runs of all, rebuild, reinstall, reconfigure, dirclean | `DependenciesComplete`, `SuccessTakesEffect` | 257,000, 1 min |
| `kconfig_expr` | every pair of comparisons, negations and symbols, and nested ones, over all values of three symbols | `ValueKept`: rewriting keeps the value; `SubmenuReachable`: what is moved into a submenu is not hidden by it | 105,000, 1 min |
| `kconfig_values` | 8 Kconfig files, any queries, 3 settings | `CachedIsCurrent`, `ChoiceHasOne`, `RecursionFound`, `SetTakesEffect` | 19,000 |
| `kconfig_conf` | 5 Kconfig files, 3 commands on one `.config`, any answers, killed anywhere | `SavedIsFinal`, `DefconfigIsEnough`, `NothingNew`, `FilesFollowConfig` | 196,000 |
| `host_tools` | wrapper: all command lines of at most 3 of 14 words, 3 sets of macros; makedevs: all tables of 1 or 2 of 21 lines, then perhaps a capability, 2 trees; mkusers: all tables of 1 or 2 lines, 3 skeletons; check-hash: at most 2 files of at most 2 lines | `ArgsFit`, `UnsafeNeverPassed`; `TableIsApplied`, `NothingElseChanged`; `UidsUnique`, `TableIsHonoured`; `ScanComputesVerdict` | 1,892,000 |
| `screens` | menuconfig: 3 Kconfig files, 5 keys; lists of at most 5 items on displays of 0 to 5 rows; a field of 3 columns and at most 5 characters; 3 texts; nconf menus of at most 4 items, its boxes on 4 displays | `NothingLost`, `ShownIsCurrent`, `EverythingReachable`; `WindowIsRight`; `FieldIsRight`, `ImplementsEditor`; `ReadingIsRight`; `FoundIsNearest`; `EntryIsRight`, `NothingIsPassed` | 807,000, 1 min |
| `users_moved_group` | as mkusers above, every line with a user | **violated**: a group of the skeleton changes its gid under its users | |
| `nconf_search` | as nconf above, fair | **violated**: a search that finds nothing may never end | |

`host_tools` and `screens` join programs that have nothing to do with each other: each of
their behaviours runs one of them, and the others keep still.

Why the bounds are enough to be interesting:

* Download: a run matters to another one through the one shared file and the lock; three
  runs of two processes have a run before, during and after another, killed or not. Two
  uris give a retry after a wrong content.
* Git: state goes from run to run through the clone, and three runs are one that fills it,
  one that is killed or served another version, and one that is hurt. The commits differ
  in having the submodule, in its files, and in git-lfs files and hints, so that files of
  one show up in the archive of another if they stay.
* Steps: two packages are enough for a dependency, one with a source directory of its own
  for edits; three runs are one to build, one to be stopped in the middle of a command,
  one to recover.
* mkusers: collisions are between two lines, or a line and the skeleton; the range of system
  ids has one element, so that it runs out.
* makedevs: what a line does wrong is seen by the line after it, or by the exit code; the
  third line is there because a capability goes to the file of the line before. The lines
  overlap: a directory, all below it, a file in it, a link to that file from elsewhere.
* Toolchain wrapper: the longest path is an option, its argument, and the argument that
  follows. The sets of macros are none, the largest that ARM has, the largest that MIPS has:
  each block adds at most a number of options that depends on macros only.
* kconfig, expressions: the trees of a height up to 7. A function of TLC is undefined outside
  of its domain, so a run that passes has not met a higher tree; the conditions written are
  of height 2 at most, and the rewriting adds the others' junctions.
* kconfig, values: the value of a symbol depends on others through one of a few relations (a
  prompt's condition, a default, `select`, `imply`, a range, a choice, `modules`); the files
  are one for each that is involved in keeping state, and two of them at a time where they
  meet (a choice of tristates with modules, an implied member). Two or three settings are
  the one that makes a cached value wrong and those that show it. Three commands on a
  `.config`: the one that writes it, the one that is killed, the one that reads what is
  left.
* Screens: lists longer and shorter than each display, texts longer and shorter than a
  page, fields narrower than the text; a display of no row is one that cannot show the list.

Deadlock is checked in `kconfig_conf`, whose commands either end (`Done`) or ask a question
that can be answered. Everywhere else the system really stops: runs are bounded, tables and
command lines end, and the users of a program leave it.

## 4. Fairness

* `DlWrapper!FairSpec`: each process that is in the script goes on, and a process waiting
  for the lock gets it: the kernel wakes the waiters of `flock`, and a backend ends (git's
  tries twice and leaves). Nothing makes a run start, and kills are not fair.
* `NconfMenuSpec`: the turns of the loop of `get_mext_match` go on (`WF(Look)`): it waits
  for nothing. Users need not press keys.

The other specifications have none: their properties are about safety.

## 5. Proofs

Checked by TLAPS for every value of the constants that the modules' assumptions allow.

**DlWrapperProofs** (any number of processes, runs, uris, contents and `.hash` files).
The properties are not inductive: that a run returns 0 on a verified file depends on the
check it made many steps before, and on nobody touching the file since. `IndInv` adds who
holds the lock (`LockInv`: exactly the process in the critical section), what each place
of the script knows of the shared file and of its temporaries (`PlaceInv`), and what
remains true after a success (`SuccessInv`: no other process is in the middle of an
in-place copy). One lemma shows that a step of one process leaves the others' places
alone, then one lemma per part of the invariant has a case per action. From `IndInv`
follow `TypeCorrect`, `ReturnVerified`, `SuccessVerified`, and the action properties
`GoodFileKept` and `NoMismatch`. Where `OldCopies = {NoFile}`, that is without a legacy
directory, `OutputWhole` and `WrapperImplementsStore`: every step of the wrapper is a step
of `DlStore` or leaves its variables alone.

**PkgStepsProofs** (any packages, dependencies, command lines, `-j`, with and without
`.WAIT`, any failures and kills). `StampsTrue`: a stamp that make would trust stands for
work that ran to its end. What is inductive is about what make knows: a step that has not
run to its end has a stamp that shows it (`UndoneSuspect`), so has one that this run has
seen missing or outdated, is running, or has failed (`AttemptedSuspect`), and one whose
normal prerequisite was made again in this run (`FollowersSuspect`). Without the last two,
a step that begins on a stamp that is still there would break the first.

**PkgStepsProofs** also has, with any edits, `InstalledTrue`: what make would take for
installed is of the build it would take for built. The property speaks of stamps with all
they follow from, which is a recursive function (`Chain`); the module first shows that its
equation has a solution, the least sets closed under prerequisites. What is inductive is
about two stamps only: an installation that its build has not overtaken has the build's
version (`InstallFollowsBuild`).

Then `DependenciesInstalled`: when a package is being configured, each dependency that the
same run does not clean is complete, with none of its steps running. The invariant is again
about what make knows: nothing is begun before all it waits for is done (`PrereqsDone`); a
stamp seen fresh is still there, and outdated only by what this run has remade
(`FreshStillHolds`); what is done is complete (`DoneIsComplete`, which needs the invariant
of `StampsTrue` for steps that are kept); a clean recipe removes stamps of its own package
only (`OwnStampsLeft`). That the dependency is not cleaned cannot be dropped: `make lib
lib-dirclean app` configures app without lib. `DependenciesAlwaysComplete`: where no command
line asks for a cleaning (`make`, `make <pkg>`), all dependencies are complete, which is the
property `DependenciesComplete` that `steps_parallel` checks with cleanings of one package
at a time.

And `SuccessEffective`, with any edits: a run that succeeds has
brought everything it was asked for up to date, with every edit made before it. It has the
hypothesis `CommandLinesCleanFirst`, without which it is false: in `make app-rebuild
lib-rebuild` make has looked at the stamps of lib for app before lib is cleaned, and it
never looks again. The hypothesis allows any packages on one line, and one command that
cleans in front (with `-j` only alone and where `.WAIT` orders it), and TLC evaluates it for
the command lines of both runs. The invariant `SuccessInv` says that cleaning is over before
a stamp is looked at (`CleanedFirst`), that what was seen then holds until the end
(`AllHold`), that what a cleaning removed is missing until its step has run again
(`RemovedIsRemade`), and from which sources the work of each step came (`VersionFollows`,
`VersionsReal`).

**GitCacheProofs** (any commits, changesets and requests; any number of runs, kills,
damages and moved tags). `HealsItself` and `GoodCloneKept` follow from `HealInv`: the
error handler is reached only because of trouble, or because the clone is damaged or
locked (`ErrorHasCause`), and so is a changeset reported as missing that is not; neither can
be so in the second try, which made the clone itself and has not been killed
(`SecondTryIsClean`), hence the second failure, which ends the run, is due to trouble.
`HeadCorrect` needs `RefInv`: while no tag was moved, and in the second try, each branch and
tag of the clone is that of the remote repository or absent, so that it does not matter that
`git checkout` prefers the branch to the tag. `ArchiveCorrect`: the archive holds the files
of the commit checked out, and no others, but for the two leftovers the property names.
`DirInv` says what each place of the script knows of the two directories (`TopInv`,
`SubFilesInv`), and what holds between runs: a submodule's directory without its `.git` is
empty unless a removal was killed (`SubInv`).

**BoxProofs** (any characters, texts, lists, widths and heights). `FieldAlwaysRight`, of the
input box: after every
key and resize the cursor stands in the field on the character it stands on in the text,
and the field shows the text around it. It is inductive with the type of the text. Its
heart is `PrintedIsCurrent`: the loop that draws the field stops after the first empty
column, so that it only draws rightly over a field whose rest is empty already, which the
action of each key has to bring about. `InputImplementsEditor`: each key is a step of
`LineEditor` or none. `WindowAlwaysRight`, of menus and checklists: a key that moves the
highlight reprints one or two rows, or scrolls the window by one and prints the row that
comes in, so that `ListInv` has to know all rows of the window. It needs that before the
first drawing nothing is shown (`NotYetDrawn`), that a menu is opened where the highlight is
in sight (`OpenRight`), and that the row highlighted is the choice (`PickIsHighlighted`).

Of nconf, `NoLinePassed`: Page Down and the Down key leave out no line, since the text
never stands so far up that the pane has lines beyond its end (`PaneOnText`). And
`EntryAlwaysRight`: the entry is a `LineEditor` too, one that starts anew for each question,
and its cursor on the screen never overtakes the one on the text (`CaretIsInField`). That
the field has a column at all follows from the prompt: lemmas about `LineFrom`, `LineLength`
and `Widest` show that a text with a visible character has a line that is not empty.
`SearchFindsNearest`: the search in nconf's menus ends at the nearest item that has the
pattern, or has passed them all. No item between the start of the search and the one looked at
has the pattern (`PassedHasNone`), and the loop goes to the item that comes next
(`DistanceFacts`, about the remainders it computes with).

`ReadingAlwaysRight`, of the text box. Its places are offsets and its steps are lines, so the
proof first numbers the lines (`lineOf`) and shows what `get_line` and `back_lines`, and any
number of calls of them, do to the number of the line (`GetLinesMoves`, `BackLinesMoves`:
the first step back from the end counts only if the end was met). The invariant `TextInv` keeps
what is shown and the place behind it together: how many lines `page_length` counts at the end
of the text (`PlaceAfter`), and that with results the last page is full (`PageShown`), without
which printing the same page again would move it. That the keys given before the page is printed
are those of the page (`SettledIs`, `KeysAreRight`) needs that the results are in the order of
their offsets, as `get_symbol_str` appends them.

**HostToolsProofs** (any command line, macros, table of users, `.hash` files). In the
toolchain wrapper, `ArgsAlwaysFit`: `main` never writes behind its array. `RoomInv` counts
what the blocks up to the current one may have added. That the sum is not more than
`EXCLUSIVE_ARGS` needs `FirstOnly`: the first two blocks are about different architectures,
and only one of them adds an option. `UnsafeNeverReachesCompiler`: `PathInv` says that the
arguments before the loop's place are good, and that the one at its place is good as far as
the options that it was compared with go. Which argument is the path of the one before it is
a recursive function (`Taken`); that its equation has a solution is shown by counting back
(`OddRun`).

In `mkusers`, `UidsAreUnique`; the property is inductive by itself, because each uid is
checked against the file it is added to. `TableAlwaysHonoured`: once main is past a call, the
group of it is there, or its user has the ids, groups and home of the line (`CallsMade`,
`ChownsOwned`), and later calls leave that so: in the passes over users no gid changes, and a
user that comes again is refused unless its group and uid are the same. Two groups can share a
gid only by a line that demands it (`CollisionsForced`), which is then refused when its user is
entered. For the two lines about one user, `PairFits` says what is in the files at each place
of main. In `check-hash`, `ScanCorrect`: the loop over the
lines of the files, with its early exit, ends with the exit code that `DlWrapper` takes the
script to have, and that its header promises where no line is dropped, because the lines
before its place that are about the file all match (`ScanInv`) and the first that does not
decides (`FirstDecides`).

**MakeDevsProofs** (any table, tree and table of ids, any calls that fail). `TableApplied`: after
a success every file bears the owner, the mode and the device numbers of the last line about
it. What is inductive speaks of the lines read so far and of the part of the current one that
its loop has behind it (`SeenLine`): a file of such a line bears the line's marks unless a
later one of them is about it (`RowApplied`). That `nftw` leaves nothing out needs where files
come from: each was there at first or was made by a line (`Origin`), and what lines were to
make is there while nothing has failed (`DirsMade`). That a line is about the same file
whenever it is read needs that files keep their kind and links their target (`KindKept`).
`OthersAlwaysLeft`: each action is shown to change only files of its line (`LineGrows`), which
the invariant sums up (`OthersInv`); that a capability goes to the file of the entry before it
needs to know of which line the name kept is (`NameInv`). `Above`, all directories above a
file, is a recursive function on names of any depth; that its equation has a solution is
shown by least sets closed under `Parent`.

**RewriteProofs** (any symbols, values and conditions of any size). `RewritingKeepsValue`:
whatever `menu_finalize` has done to a condition, it has the value that was written, for all
values of the symbols. Most of the proof is about expr.c:

* The definitions are recursive functions, of which one knows nothing before it is shown
  that their equation has a solution (`Recursion`: it has one if some rank falls at every
  recursive call). The rank is not the size of the tree. `expr_transform` calls itself on
  trees that it has just built and which may be larger (`Weights` counts a negation above a
  junction more); `expr_eq` calls `__expr_eliminate_eq`, which rebuilds both trees and calls
  `expr_eq` on their operands (`Depths`: a chain of one junction is one level, so that an
  operand is lower wherever it stands in the chain).
* The value of a chain is the least or greatest of its operands' (`IsExtreme`), which does not
  depend on how the chain is nested, so that an operand can be replaced, two can be joined in
  one place with the other neutral (`Joined`), and one be struck. Two chains of which operands
  of equal value were struck still have in common what makes up the difference (`Shared`);
  hence `ExprEqSound`: what `expr_eq` takes for equal has the same value.
* `JoinKeeps`: each case of `expr_join_or` and `expr_join_and`. It needs what the callers see
  to: that negations are of symbols only (`IsNormal`, which `TransformKeeps` brings about and
  the others keep), and that tristates are compared with y, m and n only among the constants
  (`IsOrdinary`; section 6 says what happens otherwise).
* `DupsTurnIs`: the two nested walks of `expr_eliminate_dups1` over a tree that changes below
  them. A turn that joins something leaves a tree with fewer operands (`Width`), since each
  join makes an operand neutral that `expr_eliminate_yn` then removes; so the loop ends
  (`EliminateDupsEnds`).

The invariant adds to the value what the next call needs of the condition (`IInv`, `Good`). The
theorems have the hypothesis `AllTrees`, that `Exprs` are the trees of all heights: it takes the
place of the height that TLC needs, which is the only reason why it is no ASSUME.

`SubmenusReachable`: an entry in the submenu of a symbol is hidden when the symbol is n and its
prompt is hidden, so that nothing is visible in a submenu that cannot be opened. An entry gets
there in two ways. If its condition depends on the symbol (`DependsSymbol`), it is n when the
symbol is (`DependsHolds`). Otherwise `expr_eliminate_eq` has left y of the other prompt's
condition: the conditions are first made to say whether they are n (`CompareTells`, `IsTrueIs`),
and striking common operands from two trees never turns the order of their values around
(`StruckValues`, `EliminateEqOrders`), so that y, the greatest value, was at least the other
one before (`SupersetIs`). `CompareTells` is where the code needs more than `ValueKept` does:
it turns `!T != n` into `T = n`, which is wrong for a tristate (section 6). Where the code had
to compare, the property is therefore about the cases in which no tristate is negated in the
conditions that are written, however far below the negation, and no string or number stands for
a condition (`PlainCase`); and it is about a bool or tristate before the entry. The theorem has
the hypothesis `PlainModules` as well, that the symbol with "option modules" is a bool. The
invariant says that the rewriting keeps to such expressions (`FineSoFar`) and that the decision
was about the condition that is left (`Decided`). Buildroot's own entries have no tristates, so
that what the property asks of them is only that the entry above is a bool.

**Induction** has what these proofs need of the natural numbers, in the form of statements
about sets: a set of numbers has a least element, one that contains 0 and with a number the
next contains all, and one that is bounded has a greatest; that a function on a set can be
applied over and over; induction over a rank, and that a recursive definition whose calls go
down a rank has a solution. They are derived from the well-foundedness of inclusion on finite
sets.

Assumptions: only the named ASSUMEs of the modules, and `CommandLinesCleanFirst`, `AllTrees`
and `PlainModules` as hypotheses of the theorems named above. They are types of the
constants; for `PkgGraph`, that the sets of installations and dependencies are of the right
kind and that no packages depend on each other in a circle (which no proof uses); for
`MkUsers`, that the skeleton's own uids differ, and its gids; for `ToolchainWrapper`, which
macros exclude each other, that `Opt` gives each word one of the options of `unsafe_opts` or
none, and that an unsafe path is not empty; for `InputBox`, that a field has a column and
NUL is no character; for `TextBox`, that a text ends in a newline and that its results are
in the order of their offsets; for `NconfBoxes`, that a prompt has a visible character, that
a page ends in a newline and that the display is wide enough for a field; for `MakeDevs`,
that names form a tree without cycles, that a file is in a directory that is there, and that
the nodes of a batch have different names; for `KconfigExpr`, that y, m and n are constants
and no numbers, and that strings are ordered; for `KconfigRewrite`, that conditions are as
described above (that of the enclosing menu has been through `expr_transform` before), and
that symbols have values of their types. TLC evaluates them in every run that uses the
module.

Only model-checked. Out of the prover's reach are liveness (`EveryRunEnds`) and
everything in a module that declares a RECURSIVE operator or extends one: the properties of
the values of symbols, of `conf` and of menuconfig, which walk the tree of menus.
Induction over data is not out of reach: where the recursion is a function, its equation and
what follows from it are proved with `Induction`.

## 6. Where the code and its documentation disagree

Runs that TLC must find violated:

* `users_moved_group`: the check "the group does not already exist with another gid"
  (mkusers:126) reads the file after add_one_group has rewritten it, and never fails: a line
  for a new user that gives its group another gid takes the group from the users in it.
* `nconf_search`: `get_mext_match` promises "-1 if no such item exists" (nconf.c:496), but
  the place where its loop has to end was moved by one and, unlike the index, not brought
  back into the menu. From the first item upwards, or from the last downwards, a search for
  what is not there never ends.

Seen while modelling, and stated here without a run. Where a property would be broken by
one of these, its comment says how it leaves the case out.

Downloads:

* check-hash:82: `while read` drops a last line that does not end in a newline, although the
  header (13) says that exit code 0 means that "the file to check matches all its hashes": a
  wrong hash there goes unnoticed where another one matches. `ScanComputesVerdict` leaves
  out the files whose last line is dropped so and is about the file.
* dl-wrapper:62-64: the legacy copy is written in place and `|| true` hides its failure.
  Without a `.hash` file a run succeeds on the part that was copied; dl-wrapper:3-6
  promises atomicity.
* dl-wrapper:182, 197: when mktemp or chmod fails, `set -e` ends the run without removing
  its temporaries (line 14 wants no clutter).
* git:187-190: after a kill inside `rm -rf` of a submodule or of the clone, the next run may
  archive files that were left; the comment says that untracked directories of an
  interrupted run are got rid of.
* git:151: `git rev-parse` is outside of the ERR trap, so that what it cannot read in a
  damaged clone is reported as a changeset that does not exist, and the clone stays as it
  is; git:31-35 says that a clone from scratch is tried when "the git tree is borked". (Seen
  with git 2.39: after the object of a commit that no ref names was lost, both fetches
  succeed and rev-parse fails.) `SelfHealing` names the case; a retry never meets it.
* git:144, 185: a tag that was moved upstream is not followed by an existing clone when its
  HEAD is on the branch of that name: the run succeeds with the old commit, where a new
  clone gives the new one.
* git:217: `git lfs install --local` stays in the clone, so a later run without `-l`
  archives contents instead of pointers.

Package steps:

* pkg-generic.mk:944, 1066: `make app-rebuild lib-rebuild`, with app depending on lib,
  succeeds without rebuilding lib, and leaves its stamps removed
  (docs/manual/rebuilding-packages.adoc:113): lib's stamps were looked at for app.
* Makefile:1273-1274: before make 4.4, which docs/manual/prerequisite.adoc:23 allows,
  `.WAIT` is an ordinary target; with `-j2` a `make lib-rebuild` may look at the stamps
  before they are removed and succeed without building. `PkgSteps` with `HasWait = FALSE`
  and `Jobs = 2` shows it.

Tables:

* mkusers:258: a group of the skeleton that is written again loses its members in
  `/etc/gshadow` only, although line 48 wants it in sync with `/etc/group`. mkusers:467:
  lines without a user (`-`) skip the checks, and two of them can give one gid to two groups.
* makedevs: `r` stops at a link that leads nowhere, half-way, with an error. `d` on a file
  reports an error but may leave the exit code 0; a directory it makes on the way gets 0777,
  and one it makes with the mode -1 all bits. A mode "-" leaves the names of user and group
  unset, that is, those of an earlier line. A line that is indented and cannot be read is
  ignored in silence. A missing file of type `F` is no error, but the capability after it
  is. `minor + i * inc` has no limit. The manual's loop "incrementing its counter by inc until
  it reaches count" (makedev-syntax.adoc:42-44) is not the program's: that makes count nodes
  from start on, and adds inc to the minor number, as the lines for `/dev/uio` of the usage
  text say (makedevs.c:424, 435), on which `TableIsApplied` rests. The usage text in turn gives
  the minor numbers 0 to 4 to `/dev/rtp`, whose inc is 0 (makedevs.c:422, 433); they all are 0.

Toolchain wrapper:

* A path that begins like an option brings the check of the paths out of step with the
  compiler (`InStep`); response files, `-B` and `-iprefix` are not looked at; the prefix
  `/lib` also refuses `/library`. The comment that lists what `EXCLUSIVE_ARGS` counts leaves
  out `-mfp`, and the number is right nevertheless.

kconfig:

* menu.c:449, 472: `expr_trans_compare` takes `!T != n` for `T = n`, although `!T` is m where
  the tristate T is m. An entry that depends on `!A && !T`, after the entry of the bool A,
  whose own prompt has `if T = n`, goes to A's submenu as one whose dependencies are "a
  superset of sym's" (menu.c:463); with A at n and T at m it is visible there and the submenu
  cannot be reached (the program does so when it is given such a file). `SubmenuReachable`
  leaves that case out.
* symbol.c:304-334: an optional choice forgets that the user chose, and a stale member of a
  choice is written as "is not set". `select X if T != n` counts as m, not y, where the
  tristate T is m, in a symbol that is a bool (menu.c:397, `expr_trans_bool`); expr.c:561
  says "a='m'" where the code rightly gives y. A recursion is reported, and the program goes
  on and returns 0.
* expr.c:538, 546: a tristate that is compared with a constant like "2" (which is possible,
  since the comparison is by numbers, with y as 2) loses a `!=` beside it: `T = "2" && T != y`
  becomes `T = "2"`, which is y where T is y. The constants of Buildroot's conditions on
  tristates are y, m and n.
* expr.c:888: below a symbol that is no bool or tristate, `!= n` counts as depending on it and
  is always true; `SubmenuReachable` is not about such a symbol.
* confdata.c:804-807, 832: after a failed rename, the next try to write saves a part of the
  configuration, for SYMBOL_WRITE has been cleared (`NothingLost` names the case, `halfSaved`);
  errors of writing are not looked at; a failed load forgets that there were changes
  (confdata.c:413, mconf.c:918); writing to another name forgets them too.
* conf.c: `oldconfig` never ends on a choice whose default is not among its entries.
* mconf.c: ^C while "configuration written to" is shown, then "yes", writes an almost empty
  `.config` for the same reason (`NothingLost` names it, too); ^C or ESC at the question
  whether to save leaves without saving. On a display that is too small, menus return, and
  the program leaves with 0 and nothing saved, while the dialogs for names and values try
  again without waiting. `save_and_exit` outlives an ESC. A jump to an entry whose parent is
  hidden shows an empty menu, one to a member of a choice shows only the choice, and a
  location of more than eight levels is lost. Saving elsewhere changes the name that later
  saves use.
* menubox.c:44, 53: a menu that is drawn on a smaller display leaves old rows on the
  screen; the button that is highlighted after a resize is not the one that will be taken.
* textbox.c: a text that does not end in a newline moves by a line when it is scrolled
  sideways; a resize goes back by more than a page; an empty text divides by zero. On a display of
  8 lines the box has none for the text, which `TextBox` leaves out.
* nconf.c: a search in an empty menu divides by zero; `conf_choice` whose active member has
  gone uses the index -1; Backspace on an empty pattern writes before it, and a pattern has
  no limit; the low bytes of the page keys are typed into it. Leaving after a failed write
  leaves.
* nconf.gui.c: Page Up skips lines (`text_lines + 2` against `- 2`), and where the pane has
  two lines, Page Down does not go on; the last line of a text without a newline is never
  shown; Delete moves one byte from behind the text.

## 7. What is not modelled

* The other backends, the vendoring post-processors, the recipes that the package flavours
  define: single commands without state of their own; they are the nondeterministic
  outcome of a step of `DlWrapper` or `PkgSteps`.
* The Kconfig parser (`zconf.y`, `zconf.l`): a grammar and generated tables; `KconfigMenu`
  starts from the calls it makes. gconf and qconf: callbacks of GTK and Qt, whose state is
  in the widgets of toolkits. Of nconf, what its keys do to the symbols (as in mconf), its
  search over symbols, function keys and colours. Of the core: the hash table, printing,
  warnings, symbols from the environment, `KCONFIG_ALLCONFIG`, `KCONFIG_NOSILENTUPDATE` and
  `KCONFIG_OVERWRITECONFIG`.
* Patch application, per-package directories, root filesystems, the kconfig stamps of
  pkg-kconfig.mk: planned below.
* fix-rpath, check-bin-arch, check-uniq-files and other checks of binaries: sequential
  programs over the contents of files, with no state between runs.
* br2-external, dependency checks, legal-info, statistics, utilities, the test
  infrastructure: they generate reports or files that each run makes anew.
* Package recipes and board files are data. The scripts of `board/jebrish` (post-build,
  post-image) fill in templates and call genimage, once per build.
* `show-*`, `graph-*`, `external-deps`, `legal-info` targets and virtual packages of
  pkg-generic.mk.

`PROJECT.json` lists every component with its sources.

## 8. Plan

Done, in this order: `CheckHash`, `HashScan`, `DlWrapper` with `DlStore` and its proofs;
`PkgGraph`, `PkgSteps` and their proofs; `MkUsers` and `UidsUnique`; `GitCache` and its
proofs; the kconfig core and `conf`; menuconfig and its boxes, with `LineEditor` and their
proofs; nconfig, with the proofs of its boxes; `MakeDevs`, `HashScan` and `ToolchainWrapper`
with their proofs.

Next, most important first:

1. `ApplyPatches`: the recursive scan, `series` files, the duplicate check and an
   interruption between the list and the patch (apply-patches.sh:118-119); refinement to
   "each patch once, in order". Bounds: 3 patches in 2 directories, 2 runs.
2. `PerPackage`: the directories of the packages as functions from files to their origin,
   prepared by rsync from the dependencies and merged by the finalize targets, composed
   with `PkgSteps`; a package sees nothing but its dependencies, and the merge does not
   depend on the order of parallel builds.
3. The walks of the kconfig core as recursive functions, so that its properties come into
   the prover's reach.
4. `RootFs`: several images at a time over one `target/`, the scripts that run on a copy and
   those that run on the original; composes `MkUsers` and `MakeDevs` as the steps that fill
   in the copy.
5. The kconfig stamps of `pkg-kconfig.mk` as an extension of `PkgGraph`.
6. `graph-depends` and `brpkgutil.py`: transitive reduction and the cycle check as functions,
   compared with a definition by paths over all graphs of 4 packages.
