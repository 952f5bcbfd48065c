----------------------------- MODULE KconfigConf -----------------------------
(***************************************************************************)
(* support/kconfig/conf.c: one command after the other on one .config,     *)
(* each of them perhaps killed.  A command reads the configuration, asks   *)
(* or completes it, and saves it with the steps of conf_write,             *)
(* conf_write_autoconf or conf_write_defconfig (confdata.c).               *)
(*                                                                         *)
(* The recursion of conf and check_conf is kept as an agenda: the calls    *)
(* that are still to be made, the next one first.                          *)
(***************************************************************************)
EXTENDS KconfigFile

CONSTANTS
  Kconfigs,      \* names of Kconfig files |-> [src, modules]
  Order,         \* the order of the symbols in the hash table
  Starts,        \* Starts[k]: the files [config, auto] that Kconfigs[k] may start from
  Words,         \* what a user may type
  Commands,      \* Commands[k]: the commands that are given
  MaxCommands    \* bounds their number

Modes == {"oldaskconfig", "oldconfig", "syncconfig", "listnewconfig", "olddefconfig",
          "defconfig", "savedefconfig",
          "allnoconfig", "allyesconfig", "allmodconfig", "alldefconfig", "randconfig"}

ASSUME CommandsAssumption == \A k \in DOMAIN Kconfigs : Commands[k] \subseteq Modes

VARIABLES
  file,          \* the Kconfig file that is used
  graph,         \* its finished tree
  mode,          \* input_mode
  step,          \* what the command does next; "none" between commands
  st,            \* the symbols
  agenda,        \* calls of conf, check_conf and what they call
  root,          \* rootEntry
  cnt,           \* conf_cnt # 0
  rounds,        \* turns of the loop around check_conf
  disk,          \* the files
  left           \* how many commands may follow

vars == <<file, graph, mode, step, st, agenda, root, cnt, rounds, disk, left>>

InUse(s) == s \in graph.used
Used == SelectSeq(Order, InUse)

Partly == <<Line(NoSym, NotSet)>>     \* a file whose writer was killed

(* The files: config is .config, old .config.old, tmp .tmpconfig.<pid>, def    *)
(* the file of savedefconfig; auto, tristate and header are what the build     *)
(* reads, touched the symbols whose files in include/config are newer than     *)
(* auto; current: auto.conf is newer than .config.                             *)
Init ==
  /\ file \in DOMAIN Kconfigs
  /\ graph = Graph(Kconfigs[file].src, Kconfigs[file].modules)
  /\ \E start \in Starts[file] :
       disk = [config |-> start.config, old |-> NoFile, tmp |-> NoFile, def |-> NoFile,
               auto |-> start.auto, tristate |-> NoFile, header |-> NoFile,
               touched |-> {}, current |-> FALSE]
  /\ mode = "oldconfig" /\ step = "none"
  /\ st = StartState(graph)
  /\ agenda = <<>> /\ root = 0 /\ cnt = FALSE /\ rounds = 0
  /\ left = MaxCommands

\* What follows in the same process, and its end.
Go(next) == step' = next /\ UNCHANGED <<file, graph, mode, agenda, root, cnt, rounds, left>>
Exit ==
  /\ step' = "none" /\ st' = StartState(graph)
  /\ agenda' = <<>> /\ root' = 0 /\ cnt' = FALSE /\ rounds' = 0
  /\ UNCHANGED <<file, graph, mode, left>>

-----------------------------------------------------------------------------
(* main: reading, and the modes that do not ask. *)

Asking == {"oldaskconfig", "oldconfig", "syncconfig", "listnewconfig"}

\* syncconfig and defconfig end at once without their file.
Start ==
  /\ step = "none" /\ left > 0 /\ left' = left - 1
  /\ \E m \in Commands[file] :
       /\ mode' = m
       /\ m = "syncconfig" => disk.config # NoFile
       /\ m = "defconfig" => disk.def # NoFile
       /\ step' = IF m \in {"allnoconfig", "allyesconfig", "allmodconfig", "alldefconfig",
                            "randconfig"} THEN "preset" ELSE "read"
  /\ UNCHANGED <<file, graph, st, agenda, root, cnt, rounds, disk>>

\* conf_read of .config, or of the file that defconfig names.
ReadConfig ==
  /\ step = "read"
  /\ st' = Read(graph, Used, st, IF mode = "defconfig" THEN disk.def ELSE disk.config, NoFile)
  /\ step' = CASE mode = "defconfig" -> "preset"
               [] mode \in {"savedefconfig", "olddefconfig"} -> "save"
               [] mode = "oldaskconfig" -> "ask"
               [] OTHER -> "check"
  /\ agenda' = IF mode = "oldaskconfig" THEN <<[do |-> "conf", n |-> 0]>> ELSE <<>>
  /\ UNCHANGED <<file, graph, mode, root, cnt, rounds, disk, left>>

Rolls == [tri : [{s \in graph.used : Type[s] \in Logical} -> {0, 1, 2}],
          pick : [graph.choices -> {s \in graph.used : graph.choiceOf[s] # NoSym}]]
Fair(roll) ==
  /\ \A c \in graph.choices : graph.choiceOf[roll.pick[c]] = c
  /\ \A s \in DOMAIN roll.tri : roll.tri[s] = 1 => Type[s] = "tristate"
Plain == [s \in graph.used |-> 0]

How == CASE mode \in {"alldefconfig", "defconfig"} -> "default"
         [] mode = "allnoconfig" -> "no" [] mode = "allyesconfig" -> "yes"
         [] mode = "allmodconfig" -> "mod" [] mode = "randconfig" -> "random"

\* randconfig goes on until nothing changes.
Preset ==
  /\ step = "preset"
  /\ \E roll \in IF How = "random" THEN {r \in Rolls : Fair(r)} ELSE {Plain} :
       \E r \in {SetAllNew(graph, Used, st, How, roll)} :
         /\ st' = r.st
         /\ step' = IF How = "random" /\ r.changed THEN "preset" ELSE "save"
  /\ UNCHANGED <<file, graph, mode, agenda, root, cnt, rounds, disk, left>>

-----------------------------------------------------------------------------
(* conf and check_conf: one call at a time. *)

Call(do, n) == [do |-> do, n |-> n]
Calls(do, list) == [k \in DOMAIN list |-> Call(do, list[k])]
Next1 == Head(agenda)
Rest == Tail(agenda)
Then(calls) == agenda' = calls \o Rest
Working(do) == step = "ask" /\ agenda # <<>> /\ Next1.do = do
UNCHANGED_REST == UNCHANGED <<file, graph, mode, step, rounds, disk, left>>

IsMenu(n) == n = 0 \/ (graph.src[n].prompt /\ graph.src[n].kind \in {"menu", "menuconfig"})

\* menu_get_parent_menu
RECURSIVE ParentMenu(_)
ParentMenu(n) == IF IsMenu(n) THEN n ELSE ParentMenu(graph.parent[n])

Symbol(n) == IF n = 0 THEN NoSym ELSE graph.src[n].sym

\* What conf does with entry n once it has found it visible.
Ask(n, s) ==
  CASE IsMenu(n) /\ mode # "oldaskconfig" /\ root # n -> <<Call("check", n)>>
    [] s \in graph.choices -> <<Call("choice", n)>>
    [] s = NoSym -> Calls("conf", graph.list[n])
    [] OTHER -> <<Call(IF Type[s] \in Texts THEN "string" ELSE "sym", n)>>
                  \o Calls("conf", graph.list[n])

Conf ==
  /\ Working("conf")
  /\ \E v \in {MenuIsVisible(graph, st, Next1.n)} :
       st' = v.st /\ Then(IF v.is THEN Ask(Next1.n, Symbol(Next1.n)) ELSE <<>>)
  /\ UNCHANGED <<root, cnt>> /\ UNCHANGED_REST

\* A symbol that is new and may be changed: its menu is asked once more.
IsNew(u, s) ==
  /\ s # NoSym /\ s \notin u.has /\ mode # "listnewconfig"
  /\ IsChangable(u, s) \/ (s \in graph.choices /\ u.curr[s] = 2)

CheckConf ==
  /\ Working("check")
  /\ \E v \in {MenuIsVisible(graph, st, Next1.n)} :
     \E new \in {v.is /\ IsNew(v.st, Symbol(Next1.n))} :
       /\ st' = v.st
       /\ cnt' = (cnt \/ new)
       /\ root' = IF new THEN ParentMenu(Next1.n) ELSE root
       /\ Then((IF new THEN <<Call("conf", ParentMenu(Next1.n))>> ELSE <<>>)
               \o (IF v.is THEN Calls("check", graph.list[Next1.n]) ELSE <<>>))
  /\ UNCHANGED_REST

\* conf_askvalue: whether the user is asked.
IsAsked(s) == IsChangable(st, s) /\ (mode = "oldaskconfig" \/ s \notin st.has)

DontAsk ==
  /\ Working("sym") \/ Working("string")
  /\ ~IsAsked(Symbol(Next1.n))
  /\ Then(<<>>)
  /\ UNCHANGED <<st, root, cnt>> /\ UNCHANGED_REST

\* An answer that is refused is asked for again.
AnswerSym ==
  /\ Working("sym") /\ IsAsked(Symbol(Next1.n))
  /\ \E v \in {0, 1, 2} :
     \E r \in {SetTristate(graph, st, Symbol(Next1.n), v)} : r.ok /\ st' = r.st
  /\ Then(<<>>)
  /\ UNCHANGED <<root, cnt>> /\ UNCHANGED_REST

AnswerString ==
  /\ Working("string") /\ IsAsked(Symbol(Next1.n))
  /\ \E w \in Words \cup {st.curr[Symbol(Next1.n)]} :
     \E r \in {SetString(graph, st, Symbol(Next1.n), w)} :
       st' = r.st /\ Then(IF r.ok THEN <<>> ELSE <<Next1>>)
  /\ UNCHANGED <<root, cnt>> /\ UNCHANGED_REST

\* conf_choice: first the choice itself.
AskChoice ==
  /\ Working("choice")
  /\ LET s == Symbol(Next1.n)
     IN  Then((IF IsChangable(st, s) THEN <<Call("sym", Next1.n)>> ELSE <<>>)
              \o <<[do |-> "members", n |-> Next1.n, new |-> s \notin st.has]>>)
  /\ UNCHANGED <<st, root, cnt>> /\ UNCHANGED_REST

\* The visible members, counted from one.
Count(p, v, n) ==
  [st |-> v.st, list |-> IF v.is /\ Symbol(n) # NoSym THEN Append(p.list, n) ELSE p.list]
RECURSIVE Listed(_, _)
Listed(p, nodes) ==
  IF nodes = <<>> THEN p
  ELSE Listed(Count(p, MenuIsVisible(graph, p.st, Head(nodes)), Head(nodes)), Tail(nodes))

\* Then its member; if it is asked for, any other answer asks again.
Answers(l, s) ==
  CASE Len(l.list) = 1 -> {1}
    [] Len(l.list) # 1 /\ mode # "oldaskconfig" /\ ~Next1.new ->
         {k \in DOMAIN l.list : Symbol(l.list[k]) = l.st.pick[s]}
    [] OTHER -> DOMAIN l.list

NoMember ==
  /\ Working("members")
  /\ \E u \in {CalcSymbol(graph, st, Symbol(Next1.n))} :
       /\ u.curr[Symbol(Next1.n)] # 2 /\ st' = u
       /\ Then(IF u.curr[Symbol(Next1.n)] = 1 THEN Calls("conf", graph.list[Next1.n]) ELSE <<>>)
  /\ UNCHANGED <<root, cnt>> /\ UNCHANGED_REST

Member ==
  /\ Working("members")
  /\ \E u \in {CalcSymbol(graph, st, Symbol(Next1.n))} :
     \E l \in {Listed([st |-> u, list |-> <<>>], graph.list[Next1.n])} :
     \E k \in Answers(l, Symbol(Next1.n)) :
       /\ u.curr[Symbol(Next1.n)] = 2
       /\ st' = SetTristate(graph, l.st, Symbol(l.list[k]), 2).st
       /\ Then(Calls("conf", graph.list[l.list[k]]))
  /\ UNCHANGED <<root, cnt>> /\ UNCHANGED_REST

\* The loop of main; oldaskconfig goes on as oldconfig.
Check ==
  /\ step = "check"
  /\ step' = "ask" /\ agenda' = <<Call("check", 0)>> /\ cnt' = FALSE /\ rounds' = rounds + 1
  /\ UNCHANGED <<file, graph, mode, st, root, disk, left>>

\* Mutant: the loop is left after one turn.
Asked_Once ==
  /\ step = "ask" /\ agenda = <<>> /\ mode # "listnewconfig"
  /\ mode' = IF mode = "oldaskconfig" THEN "oldconfig" ELSE mode
  /\ step' = IF mode = "oldaskconfig" THEN "check" ELSE "save"
  /\ UNCHANGED <<file, graph, st, agenda, root, cnt, rounds, disk, left>>

Asked ==
  /\ step = "ask" /\ agenda = <<>> /\ mode # "listnewconfig"
  /\ mode' = IF mode = "oldaskconfig" THEN "oldconfig" ELSE mode
  /\ step' = IF mode = "oldaskconfig" \/ cnt THEN "check" ELSE "save"
  /\ UNCHANGED <<file, graph, st, agenda, root, cnt, rounds, disk, left>>

EndOfList ==
  /\ step = "ask" /\ agenda = <<>> /\ mode = "listnewconfig"
  /\ Exit
  /\ UNCHANGED disk

-----------------------------------------------------------------------------
(* Saving. *)

\* Mutant: writes .config in place.
WriteTemporary_InPlace(w) ==
  Go("backup") /\ st' = w.st /\ disk' = [disk EXCEPT !.tmp = w.lines, !.config = Partly]

WriteTemporary(w) == Go("backup") /\ st' = w.st /\ disk' = [disk EXCEPT !.tmp = w.lines]

Save ==
  /\ step = "save" /\ mode # "savedefconfig" /\ (mode = "syncconfig" => st.dirty)
  /\ \E w \in {Write(graph, st)} : WriteTemporary(w)

\* syncconfig writes .config only when it has changed.
DontSave ==
  /\ step = "save" /\ mode = "syncconfig" /\ ~st.dirty
  /\ Go("split") /\ UNCHANGED <<st, disk>>

Backup ==
  /\ step = "backup"
  /\ disk' = [disk EXCEPT !.old = IF disk.config = NoFile THEN @ ELSE disk.config, !.config = NoFile]
  /\ Go("replace")
  /\ UNCHANGED st

Replace ==
  /\ step = "replace"
  /\ disk' = [disk EXCEPT !.config = disk.tmp, !.tmp = NoFile, !.current = FALSE]
  /\ IF mode = "syncconfig" THEN Go("split") /\ st' = [st EXCEPT !.dirty = FALSE] ELSE Exit

SaveDefconfig ==
  /\ step = "save" /\ mode = "savedefconfig"
  /\ disk' = [disk EXCEPT !.def = Defconfig(graph, st).lines]
  /\ Exit

\* The files of the single symbols, in the order of the symbols.
Split ==
  /\ step = "split"
  /\ \E s \in {SplitConfig(graph, Used, ClearAllValid(graph, st), disk.auto)} :
       st' = s.st /\ disk' = [disk EXCEPT !.touched = @ \cup s.touched]
  /\ Go("header")

RenameHeader ==
  /\ step = "header"
  /\ disk' = [disk EXCEPT !.header = AutoFiles(graph, Used, st).header]
  /\ Go("tristate")
  /\ UNCHANGED st

RenameTristate ==
  /\ step = "tristate"
  /\ disk' = [disk EXCEPT !.tristate = AutoFiles(graph, Used, st).tristate]
  /\ Go("auto")
  /\ UNCHANGED st

RenameAuto ==
  /\ step = "auto"
  /\ disk' = [disk EXCEPT !.auto = AutoFiles(graph, Used, st).auto, !.current = TRUE, !.touched = {}]
  /\ Exit

Beginnings(lines) == {SubSeq(lines, 1, k) : k \in 0 .. Len(lines)}

\* A command is killed, perhaps while it writes a file: what there is of a
\* defconfig may be read by another one.
Kill ==
  /\ step # "none"
  /\ disk' \in CASE step = "save" /\ mode # "savedefconfig" -> {disk, [disk EXCEPT !.tmp = Partly]}
                 [] step = "save" /\ mode = "savedefconfig" ->
                      {disk} \cup {[disk EXCEPT !.def = b] : b \in Beginnings(Defconfig(graph, st).lines)}
                 [] step = "split" ->
                      {[disk EXCEPT !.touched = @ \cup T] :
                         T \in SUBSET SplitConfig(graph, Used, ClearAllValid(graph, st), disk.auto).touched}
                 [] OTHER -> {disk}
  /\ Exit

Done == step = "none" /\ left = 0 /\ UNCHANGED vars

Next ==
  \/ Start \/ ReadConfig \/ Preset
  \/ Conf \/ CheckConf \/ DontAsk \/ AnswerSym \/ AnswerString \/ AskChoice \/ NoMember \/ Member \/ Check \/ Asked \/ EndOfList
  \/ Save \/ DontSave \/ Backup \/ Replace \/ SaveDefconfig
  \/ Split \/ RenameHeader \/ RenameTristate \/ RenameAuto
  \/ Kill \/ Done

Spec == Init /\ [][Next]_vars

-----------------------------------------------------------------------------
Reread(lines) == Read(graph, Used, StartState(graph), lines, NoFile)

(* What was just saved needs no update: when it is read again, every value     *)
(* is as it was saved, and saving it changes nothing (conf_write, conf_read).  *)
SavedIsFinal ==
  step = "backup" =>
    LET again == Reread(disk.tmp)
    IN  ~again.dirty /\ Write(graph, again).lines = disk.tmp

(* The file of savedefconfig stands for the configuration: with the defaults   *)
(* for the rest it gives the same .config (conf_write_defconfig).              *)
DefconfigIsEnough ==
  step = "save" /\ mode = "savedefconfig" =>
    LET d == Defconfig(graph, st).lines
        full == SetAllNew(graph, Used, Reread(d), "default", Plain).st
    IN  Write(graph, full).lines = Write(graph, ClearAllValid(graph, st)).lines

(* After oldconfig, oldaskconfig and syncconfig everything that the user may   *)
(* set has been asked for, however the answers make other symbols appear, and  *)
(* so has the member of every choice (the loop around check_conf).             *)
NothingNew ==
  step = "save" /\ mode \in {"oldconfig", "syncconfig"} =>
    \A n \in DOMAIN graph.src :
      LET s == graph.src[n].sym
          v == MenuIsVisible(graph, st, n)
      IN  s # NoSym /\ v.is /\ IsChangable(CalcSymbol(graph, v.st, s), s) => s \in st.has

Whole(f) == f \notin {NoFile, Partly}
HasConfig == Whole(disk.config) \/ Whole(disk.old)
ConfigSurvives == HasConfig => HasConfig'

AutoMarksCompletion ==
  disk.current /\ disk.config # NoFile =>
    LET f == AutoFiles(graph, Used, Reread(disk.config))
      IN  disk.auto = f.auto /\ disk.header = f.header /\ disk.tristate = f.tristate

ValueIn(auto, s) ==
  {auto[k].val : k \in {j \in DOMAIN auto : auto[j].sym = s}}
ChangesAreNoticed ==
  disk'.auto # disk.auto =>
       \A s \in graph.used : ValueIn(disk'.auto, s) # ValueIn(IF disk.auto = NoFile THEN <<>> ELSE disk.auto, s)
                           => s \in disk.touched

(* Wherever a command dies, or many of them, a whole configuration is left      *)
(* where there was one: .config, or .config.old while a new one takes its place *)
(* (conf_write).  auto.conf marks completion ("This must be the last step",     *)
(* confdata.c): when it is newer than .config, all files are made from that     *)
(* .config.  And a new auto.conf appears only when the files of all symbols     *)
(* that it changes are newer than the one it replaces.                          *)
FilesFollowConfig == []AutoMarksCompletion /\ [][ConfigSurvives /\ ChangesAreNoticed]_vars
=============================================================================
