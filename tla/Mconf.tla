-------------------------------- MODULE Mconf --------------------------------
(***************************************************************************)
(* support/kconfig/mconf.c: menuconfig, from the configuration it reads to *)
(* the one it leaves behind.                                               *)
(*                                                                         *)
(* The calls of conf, conf_choice, conf_string, conf_save, conf_load,      *)
(* search_conf and handle_exit, and the dialog that the last of them       *)
(* shows, are kept as a stack of frames.  A dialog is a choice among what  *)
(* it may return; ListBox, InputBox and TextBox have their insides.  Texts *)
(* that are only to be read are left out, but for the one that conf_write  *)
(* shows in the middle of its work.                                        *)
(***************************************************************************)
EXTENDS KconfigFile

CONSTANTS
  Kconfigs,      \* names of Kconfig files |-> [src, modules]
  Order,         \* the order of the symbols in the hash table
  Alphabet,      \* the symbols in alphabetical order
  Starts,        \* Starts[k]: what .config may be at first
  Words,         \* what a user may type for a value
  Names,         \* what a user may type for a file
  Patterns,      \* patterns |-> the symbols whose name they match [whole, part]
  Interruptible, \* the dialogs in which the user may press ^C
  MaxKeys        \* bounds what the user does

VARIABLES
  graph,         \* the finished tree of the Kconfig file
  single,        \* single_menu_mode
  opened,        \* the menus that are unfolded in it (menu->data)
  showAll,       \* show_all_options
  st,            \* the symbols
  stack,         \* the calls and their dialogs, the innermost last
  drawn, items,  \* whether the innermost dialog is on the screen, and its items
  counted,       \* child_count # 0
  name,          \* filename
  quiet,         \* save_and_exit
  disk,          \* the files: name |-> lines
  forgotten,     \* whether changes that are not saved were forgotten; for the properties
  halfSaved,     \* whether a write stopped after it had cleared SYMBOL_WRITE; for them, too
  ended,         \* "no", or how mconf has ended
  keys           \* how much the user may still do

mconfVars == <<graph, single, opened, showAll, st, stack, drawn, items, counted, name, quiet, disk,
               forgotten, halfSaved, ended, keys>>
fixed == <<graph, single>>
files == <<name, disk, forgotten>>
symbols == <<st, halfSaved>>
modes == <<opened, showAll>>

InUse(s) == s \in graph.used
Used == SelectSeq(Order, InUse)

Frame(is, n, of) == [is |-> is, n |-> n, of |-> of]
AMenu(n) == Frame("menu", n, "")
Dialog(is) == Frame(is, 0, "")

Config == ".config"

\* main: conf_read(NULL), then conf(&rootmenu, NULL).
MconfInit ==
  /\ \E k \in DOMAIN Kconfigs : \E start \in Starts[k] :
       /\ graph = Graph(Kconfigs[k].src, Kconfigs[k].modules)
       /\ st = Read(graph, Used, StartState(graph), start, NoFile)
       /\ disk = [f \in Names |-> IF f = Config THEN start ELSE NoFile]
  /\ single \in BOOLEAN /\ opened = {} /\ showAll = FALSE
  /\ stack = <<AMenu(0)>> /\ drawn = FALSE /\ items = <<>> /\ counted = FALSE
  /\ name = Config /\ quiet = FALSE /\ forgotten = FALSE /\ halfSaved = FALSE /\ ended = "no"
  /\ keys = MaxKeys

-----------------------------------------------------------------------------
(* build_conf.  c: the graph, current_menu, show_all_options,              *)
(* single_menu_mode and the menus unfolded; p: the symbols, the items and  *)
(* child_count so far.  An item has its entry, its tag and the value that  *)
(* it shows, of a choice also the member.                                  *)

Item(n, tag, val, pick) == [n |-> n, tag |-> tag, val |-> val, pick |-> pick]
Add(p, item) == [p EXCEPT !.items = Append(@, item)]
Counted(p) == [p EXCEPT !.count = TRUE]
Plainly(n, tag) == Item(n, tag, 0, NoSym)

HasPrompt(g, n) == n = 0 \/ g.src[n].prompt
KindAt(g, n) == IF n = 0 THEN "menu" ELSE g.src[n].kind
IsMenuEntry(g, n) == KindAt(g, n) \in {"menu", "menuconfig"}     \* P_MENU

RECURSIVE BuildConf(_, _, _), BuildEach(_, _, _), SeekMember(_, _, _, _)
BuildEach(c, p, list) ==
  IF list = <<>> THEN p ELSE BuildEach(c, BuildConf(c, p, Head(list)), Tail(list))
Children(c, p, n) == BuildEach(c, p, c.g.list[n])

\* A menu, comment or the like.
Entitled(c, p, n) ==
  CASE n = c.cur -> Children(c, p, n)
    [] n # c.cur /\ IsMenuEntry(c.g, n) ->
         IF c.single /\ n \in c.opened THEN Children(c, Counted(Add(p, Plainly(n, "m"))), n)
         ELSE Counted(Add(p, Plainly(n, "m")))
    [] OTHER -> Children(c, Counted(Add(p, Plainly(n, ":"))), n)

\* def_menu: the last entry of the member that is visible.
Sought(v, q, n, is) == [st |-> v.st, at |-> IF v.is /\ is THEN n ELSE q.at]
SeekMember(g, q, list, member) ==
  IF list = <<>> THEN q
  ELSE SeekMember(g, Sought(MenuIsVisible(g, q.st, Head(list)), q, Head(list),
                            SymAt(g, Head(list)) = member), Tail(list), member)

\* Mutant: what depends on the member is left to the dialog of the choice.
Chosen_Alone(c, p, n) == p

\* The member and what is below it follow the choice.
Chosen(c, p, n) == IF n # 0 /\ c.g.list[n] # <<>> THEN BuildConf(c, p, n) ELSE p

ChoiceItem(p, n, s, def) ==
  Add(Counted(p), Item(n, IF IsChangable(p.st, s) \/ def # 0 THEN "t" ELSE ":", p.st.curr[s],
                       IF p.st.curr[s] = 2 /\ def # 0 THEN p.st.pick[s] ELSE NoSym))
ChoiceWith(c, p, n, s, def) ==
  IF p.st.curr[s] = 2 THEN Chosen(c, ChoiceItem(p, n, s, def), def)
  ELSE Children(c, ChoiceItem(p, n, s, def), n)
ChoiceSought(c, p, n, s, q) == ChoiceWith(c, [p EXCEPT !.st = q.st], n, s, q.at)
Choice(c, p, n, s) ==
  ChoiceSought(c, p, n, s, SeekMember(c.g, [st |-> p.st, at |-> 0], c.g.list[n], p.st.pick[s]))

SymbolTag(c, p, s) ==
  CASE c.g.choiceOf[s] # NoSym /\ p.st.curr[s] = 2 -> ":"
    [] ~(c.g.choiceOf[s] # NoSym /\ p.st.curr[s] = 2) /\ TypeNow(c.g, p.st, s) \in Logical -> "t"
    [] OTHER -> "s"
Shown(c, p, n, s) == Add(Counted(p), Item(n, SymbolTag(c, p, s), p.st.curr[s], NoSym))
OneSymbol(c, p, n, s) ==
  CASE n = c.cur -> Children(c, Add(p, Plainly(n, ":")), n)
    [] n # c.cur /\ IsMenuEntry(c.g, n) /\ SymbolTag(c, p, s) # "s" -> Shown(c, p, n, s)
    [] OTHER -> Children(c, Shown(c, p, n, s), n)

Entry(c, p, n, s) ==
  CASE s = NoSym -> Entitled(c, p, n)
    [] s \in c.g.choices -> Choice(c, p, n, s)
    [] OTHER -> OneSymbol(c, p, n, s)
IfShown(c, p, v, n) ==
  IF (IF c.all THEN HasPrompt(c.g, n) ELSE v.is)
  THEN Entry(c, [p EXCEPT !.st = v.st], n, SymAt(c.g, n)) ELSE [p EXCEPT !.st = v.st]
BuildConf(c, p, n) == IfShown(c, p, MenuIsVisible(c.g, p.st, n), n)

Context(g, cur, all, folds, unfolded) ==
  [g |-> g, cur |-> cur, all |-> all, single |-> folds, opened |-> unfolded]
MenuItems(c, u) == BuildConf(c, [st |-> u, items |-> <<>>, count |-> FALSE], c.cur)

\* The items of conf_choice.
Member(g, u, n, choice) ==
  Plainly(n, CASE SymAt(g, n) = NoSym -> ":"
               [] SymAt(g, n) # NoSym /\ SymAt(g, n) = u.pick[choice] -> "X"
               [] OTHER -> " ")
AddMembers(g, p, v, n, choice) ==
  [st |-> v.st, items |-> IF v.is THEN Append(p.items, Member(g, v.st, n, choice)) ELSE p.items]
RECURSIVE Radio(_, _, _, _)
Radio(g, p, list, choice) ==
  IF list = <<>> THEN p
  ELSE Radio(g, AddMembers(g, p, MenuIsVisible(g, p.st, Head(list)), Head(list), choice),
             Tail(list), choice)

-----------------------------------------------------------------------------
(* Help texts and the results of a search: printing them computes values.    *)
(* p: the symbols, and the entries that the results let the user jump to.    *)

\* get_prompt_str: the nearest menu around the entry that is shown, of the
\* eight nearest (at: 0 for none; the main menu does not count).
RECURSIVE Ascend(_, _, _, _)
Located(v, q, m) == [st |-> v.st, at |-> IF q.at = 0 /\ v.is THEN m ELSE q.at]
Ascend(g, q, m, depth) ==
  IF m = 0 \/ depth = 8 THEN q
  ELSE Ascend(g, Located(MenuIsVisible(g, q.st, m), q, m), g.parent[m], depth + 1)

Aimed(v, p, n, location) ==
  [st |-> v.st, jumps |-> Append(p.jumps, IF v.is THEN n ELSE location)]
PromptWith(g, p, q, n, head) ==
  IF head /\ q.at # 0 THEN Aimed(MenuIsVisible(g, q.st, n), p, n, q.at) ELSE [p EXCEPT !.st = q.st]
PromptStr(g, p, n, head) ==
  PromptWith(g, p, Ascend(g, [st |-> p.st, at |-> 0], g.parent[n], 0), n, head)

RECURSIVE PromptsStr(_, _, _, _)
PromptsStr(g, p, nodes, head) ==
  IF nodes = <<>> THEN p ELSE PromptsStr(g, PromptStr(g, p, Head(nodes), head), Tail(nodes), head)

\* get_symbol_str: the range, the prompts, and what selects and implies the symbol.
WithRange(g, p, s) == IF Type[s] \in Numbers THEN [p EXCEPT !.st = RangeOf(g, @, s).st] ELSE p
PrintRevDep(g, p, e) == [p EXCEPT !.st = EvalIf(e # NoExpr, g, @, e).st]
SymbolStr(g, p, s, head) ==
  PrintRevDep(g, PrintRevDep(g, PromptsStr(g, WithRange(g, p, s), g.prompts[s], head), g.rev[s]),
              g.imp[s])
RECURSIVE RelationsStr(_, _, _)
RelationsStr(g, p, syms) ==
  IF syms = <<>> THEN p ELSE RelationsStr(g, SymbolStr(g, p, Head(syms), TRUE), Tail(syms))

\* menu_get_ext_help
ExtHelp(g, u, s) == IF s = NoSym THEN u ELSE SymbolStr(g, [st |-> u, jumps |-> <<>>], s, FALSE).st

\* sym_re_search: what the pattern matches as a whole comes first.
Matches(pattern) ==
  LET IsWhole(s) == InUse(s) /\ s \in pattern.whole
      IsPart(s) == InUse(s) /\ s \in pattern.part \ pattern.whole
  IN  SelectSeq(Alphabet, IsWhole) \o SelectSeq(Alphabet, IsPart)
Searched(g, u, pattern) ==
  LET IsMatch(s) == s \in pattern.whole \cup pattern.part
  IN  CalcSymbols(g, u, SelectSeq(Used, IsMatch))

-----------------------------------------------------------------------------
Top == stack[Len(stack)]
Popped == SubSeq(stack, 1, Len(stack) - 1)
Push(frame) == stack' = Append(stack, frame)
Pop == stack' = Popped
Erased == drawn' = FALSE /\ items' = <<>>

\* Values are computed, or set: a value that is set has all of them computed anew.
Computed(u) == st' = u /\ UNCHANGED halfSaved
Sets(u) == st' = u /\ halfSaved' = (halfSaved /\ st.valid \subseteq u.valid)

In(is) == ended = "no" /\ Top.is = is
InMenu == In("menu") /\ drawn
UserIn(is) == In(is) /\ keys > 0 /\ keys' = keys - 1 /\ UNCHANGED <<fixed, counted>>
UserInMenu == UserIn("menu") /\ drawn /\ Erased /\ UNCHANGED <<files, quiet, ended>>
InDialog(is) == UserIn(is) /\ Erased /\ UNCHANGED <<modes, ended>>
Free == UNCHANGED <<fixed, counted, keys>>

\* handle_exit; the handler of SIGINT calls it, too.
HandleExit(calls, by) ==
  /\ quiet' = TRUE
  /\ stack' = Append(calls, Frame("exit", 0, by))
  /\ ended' = IF st.dirty THEN "no" ELSE "unchanged"

\* conf returns; main calls handle_exit after the main menu.
Return ==
  IF Len(stack) = 1 THEN HandleExit(<<>>, "main") ELSE Pop /\ UNCHANGED <<quiet, ended>>

\* The head of the loop of conf: an empty main menu is not shown.
BuildMenu ==
  /\ In("menu") /\ ~drawn
  /\ \E r \in {MenuItems(Context(graph, Top.n, showAll, single, opened), st)} :
       /\ Computed(r.st) /\ counted' = (counted \/ r.count)
       /\ IF counted \/ r.count
          THEN drawn' = TRUE /\ items' = r.items /\ UNCHANGED <<stack, quiet, ended>>
          ELSE Erased /\ Return
  /\ UNCHANGED <<fixed, modes, files, keys>>

\* The head of the loop of conf_choice.
BuildChoice ==
  /\ In("choice") /\ ~drawn
  /\ \E r \in {Radio(graph, [st |-> st, items |-> <<>>], graph.list[Top.n], graph.src[Top.n].sym)} :
       Computed(r.st) /\ items' = r.items
  /\ drawn' = TRUE
  /\ UNCHANGED <<fixed, modes, stack, counted, files, quiet, ended, keys>>

\* The head of the loop of search_conf.
BuildSearch ==
  /\ In("found") /\ ~drawn
  /\ \E r \in {RelationsStr(graph, [st |-> st, jumps |-> <<>>], Matches(Patterns[Top.of]))} :
       Computed(r.st) /\ items' = [k \in DOMAIN r.jumps |-> Plainly(r.jumps[k], "j")]
  /\ drawn' = TRUE
  /\ UNCHANGED <<fixed, modes, stack, counted, files, quiet, ended, keys>>

-----------------------------------------------------------------------------
(* conf: what the user does with one of the items. *)

Listed == {items[k] : k \in DOMAIN items}
SymOf(item) == SymAt(graph, item.n)
IsOpenChoice(item) == SymOf(item) \in graph.choices /\ st.curr[SymOf(item)] = 2

Enter ==
  /\ UserInMenu
  /\ \E item \in Listed :
       /\ \/ item.tag = "m" /\ ~single
          \/ item.tag = "t" /\ ~IsOpenChoice(item) /\ IsMenuEntry(graph, item.n)
       /\ Push(AMenu(item.n))
  /\ UNCHANGED <<modes, symbols>>

Fold ==
  /\ UserInMenu /\ single
  /\ \E item \in Listed :
       /\ item.tag = "m"
       /\ opened' = IF item.n \in opened THEN opened \ {item.n} ELSE opened \cup {item.n}
  /\ UNCHANGED <<showAll, symbols, stack>>

OpenChoice ==
  /\ UserInMenu
  /\ \E item \in Listed :
       item.tag = "t" /\ IsOpenChoice(item) /\ Push(Frame("choice", item.n, ""))
  /\ UNCHANGED <<modes, symbols>>

OpenString ==
  /\ UserInMenu
  /\ \E item \in Listed : item.tag = "s" /\ Push(Frame("string", item.n, ""))
  /\ UNCHANGED <<modes, symbols>>

\* Y: where y is refused, m.
YesOrMod(g, u, s, r) == IF r.ok THEN r.st ELSE SetTristate(g, u, s, 1).st
Press(key, g, u, s) ==
  CASE key = "y" -> YesOrMod(g, u, s, SetTristate(g, u, s, 2))
    [] key = "n" -> SetTristate(g, u, s, 0).st
    [] key = "m" -> SetTristate(g, u, s, 1).st
    [] key = "space" -> Toggle(g, u, s)
SetValue ==
  /\ UserInMenu
  /\ \E item \in Listed, key \in {"y", "n", "m", "space"} :
       item.tag = "t" /\ Sets(Press(key, graph, st, SymOf(item)))
  /\ UNCHANGED <<modes, stack>>

\* The space bar enters a menu even where it could be unfolded.
EnterFolded ==
  /\ UserInMenu
  /\ \E item \in Listed : item.tag = "m" /\ Push(AMenu(item.n))
  /\ UNCHANGED <<modes, symbols>>

ShowHelp ==
  /\ UserInMenu
  /\ \E item \in Listed : Computed(ExtHelp(graph, st, SymOf(item)))
  /\ UNCHANGED <<modes, stack>>

ShowAll ==
  /\ UserInMenu
  /\ showAll' = ~showAll
  /\ UNCHANGED <<opened, symbols, stack>>

OpenDialog ==
  /\ UserInMenu
  /\ \E is \in {"save", "load", "search"} : Push(Dialog(is))
  /\ UNCHANGED <<modes, symbols>>

\* Exit, escape, or a display that has become too small.
Leave ==
  /\ InMenu /\ Erased /\ Return
  /\ UNCHANGED <<modes, symbols, files>> /\ Free

-----------------------------------------------------------------------------
(* The other dialogs. *)

\* conf_choice: a comment cannot be chosen.
PickMember ==
  /\ InDialog("choice") /\ drawn
  /\ \E item \in Listed :
       IF SymOf(item) = NoSym THEN UNCHANGED <<symbols, stack>>
       ELSE Sets(SetTristate(graph, st, SymOf(item), 2).st) /\ Pop
  /\ UNCHANGED <<files, quiet>>

ChoiceHelp ==
  /\ InDialog("choice") /\ drawn
  /\ \E item \in Listed : Computed(ExtHelp(graph, st, SymOf(item)))
  /\ UNCHANGED <<files, quiet, stack>>

\* conf_string: an invalid value is refused.
Type_ ==
  /\ InDialog("string")
  /\ \E w \in Words : \E r \in {SetString(graph, st, graph.src[Top.n].sym, w)} :
       Sets(r.st) /\ (IF r.ok THEN Pop ELSE UNCHANGED stack)
  /\ UNCHANGED <<files, quiet>>

\* Closing a dialog changes nothing.
Close ==
  /\ \E is \in {"choice", "string", "save", "load", "search", "found"} : In(is)
  /\ Pop /\ Erased
  /\ UNCHANGED <<modes, symbols, files, quiet, ended>> /\ Free

\* conf_save.  conf_write shows a message before it forgets that there are changes,
\* though not after a first attempt to leave.  Before that, it has cleared
\* SYMBOL_WRITE: while there are changes, the next call writes what was computed since.
Kept(u, f) == st' = [u EXCEPT !.dirty = FALSE] /\ name' = f /\ forgotten' = FALSE
Wrote(f, lines) ==
  disk' = [disk EXCEPT ![f] = lines] /\ halfSaved' = (halfSaved /\ st.dirty)

\* The temporary file cannot be created; or it cannot take the place of the old
\* file, which may have been renamed away by then.
NotWritten(f) ==
  \/ UNCHANGED <<disk, symbols>>
  \/ \E lines \in {NoFile, disk[f]} :
       disk' = [disk EXCEPT ![f] = lines] /\ st' = Write(graph, st).st /\ halfSaved' = TRUE

SaveTo ==
  /\ InDialog("save")
  /\ \E f \in Names :
       \/ \E r \in {Write(graph, st)} :
            /\ Wrote(f, r.lines)
            /\ IF quiet THEN Kept(r.st, f) /\ Pop
               ELSE st' = r.st /\ Push(Frame("written", 0, f)) /\ UNCHANGED <<name, forgotten>>
       \/ NotWritten(f) /\ UNCHANGED <<name, forgotten, stack>>
  /\ UNCHANGED quiet

CloseWritten ==
  /\ In("written")
  /\ Kept(st, Top.of)
  /\ stack' = SubSeq(stack, 1, Len(stack) - 2) /\ Erased
  /\ UNCHANGED <<modes, disk, halfSaved, quiet, ended>> /\ Free

\* conf_load: conf_read forgets that there are changes before it looks for the file.
LoadFrom ==
  /\ InDialog("load")
  /\ \E f \in Names :
       \E r \in {ReadFrom(graph, Used, [st EXCEPT !.dirty = FALSE], disk[f])} :
         IF disk[f] = NoFile
         THEN st' = r /\ forgotten' = (forgotten \/ st.dirty) /\ UNCHANGED <<name, stack, halfSaved>>
         ELSE /\ st' = [r EXCEPT !.dirty = TRUE] /\ name' = f /\ Pop
              /\ forgotten' = FALSE /\ halfSaved' = FALSE
  /\ UNCHANGED <<disk, quiet>>

\* search_conf
SearchFor ==
  /\ InDialog("search")
  /\ \E w \in DOMAIN Patterns :
       Computed(Searched(graph, st, Patterns[w])) /\ stack' = Append(Popped, Frame("found", 0, w))
  /\ UNCHANGED <<files, quiet>>

Goal(n) == AMenu(graph.parent[n])
JumpTo ==
  /\ InDialog("found") /\ drawn
  /\ \E item \in Listed : Push(Goal(item.n))
  /\ UNCHANGED <<symbols, files, quiet>>

-----------------------------------------------------------------------------
(* handle_exit, once it asks whether to save. *)

\* Yes; the message of conf_write is not shown.
Yes ==
  /\ In("exit") /\ Erased
  /\ \/ \E r \in {Write(graph, st)} : Wrote(name, r.lines) /\ st' = r.st /\ ended' = "saved"
     \/ NotWritten(name) /\ ended' = "failed"
  /\ UNCHANGED <<modes, stack, name, forgotten, quiet>> /\ Free

\* No, or a display that is too small.
No ==
  /\ In("exit") /\ Erased
  /\ ended' = "not saved"
  /\ UNCHANGED <<modes, symbols, stack, files, quiet>> /\ Free

\* Escape: back to the main menu, but not from the handler of SIGINT.
Escape ==
  /\ In("exit") /\ Erased
  /\ IF Top.of = "main" THEN stack' = <<AMenu(0)>> /\ UNCHANGED ended
     ELSE ended' = "not saved" /\ UNCHANGED stack
  /\ keys > 0 /\ keys' = keys - 1 /\ UNCHANGED <<fixed, counted>>
  /\ UNCHANGED <<modes, symbols, files, quiet>>

\* sig_handler, which is not interrupted itself.
Interrupt ==
  /\ ended = "no" /\ Top.is \in Interruptible /\ Top.of # "signal"
  /\ keys > 0 /\ keys' = keys - 1 /\ UNCHANGED <<fixed, counted>>
  /\ HandleExit(stack, "signal") /\ Erased
  /\ UNCHANGED <<modes, st, files>>
  /\ halfSaved' = (halfSaved \/ Top.is = "written")

MconfNext ==
  \/ BuildMenu \/ BuildChoice \/ BuildSearch
  \/ Enter \/ Fold \/ OpenChoice \/ OpenString \/ SetValue \/ EnterFolded \/ ShowHelp \/ ShowAll
  \/ OpenDialog \/ Leave \/ PickMember \/ ChoiceHelp \/ Type_ \/ Close \/ SaveTo \/ CloseWritten
  \/ LoadFrom \/ SearchFor \/ JumpTo \/ Yes \/ No \/ Escape \/ Interrupt

-----------------------------------------------------------------------------
(* Properties. *)

LinesOf(file) == {file[k] : k \in DOMAIN file}
UpToDate(f) ==
  disk[f] # NoFile /\ LinesOf(disk[f]) = LinesOf(Write(graph, [st EXCEPT !.dirty = FALSE]).lines)

(* When mconf ends without asking, or after it has saved, the file named in     *)
(* its title holds the values that the symbols have: no change is taken for     *)
(* saved (sym_change_count against what is set, read and written).  There are   *)
(* three exemptions.  A failed attempt to load a file makes it forget that      *)
(* there are changes (mconf.c:918, confdata.c:413).  And conf_write clears      *)
(* SYMBOL_WRITE (confdata.c:804-807) before it has succeeded: when its rename   *)
(* fails (832-833), or ^C comes while it says that it has written (836), the    *)
(* next file that is written holds a part of the symbols only, unless one is    *)
(* set or a file is loaded in between.                                          *)
NothingLost ==
  ~halfSaved /\ (ended = "saved" \/ (ended = "unchanged" /\ ~forgotten)) => UpToDate(name)

(* A menu on the screen shows what a computation of all values from nothing but *)
(* the user's settings would show: its order of evaluation does not matter.     *)
ShownIsCurrent ==
  InMenu => items = MenuItems(Context(graph, Top.n, showAll, single, opened),
                              [st EXCEPT !.valid = {}]).items

\* The entries that the user gets to from the menu of entry n.
RECURSIVE From(_), Within(_)
Within(item) ==
  LET radio == Radio(graph, [st |-> st, items |-> <<>>], graph.list[item.n], SymOf(item)).items
  IN  CASE item.tag = "t" /\ IsOpenChoice(item) -> {radio[k].n : k \in DOMAIN radio}
        [] item.tag = "m" \/ (item.tag = "t" /\ ~IsOpenChoice(item) /\ IsMenuEntry(graph, item.n)) ->
             From(item.n)
        [] OTHER -> {}
From(n) ==
  LET list == MenuItems(Context(graph, n, FALSE, FALSE, {}), st).items
  IN  {list[k].n : k \in DOMAIN list} \cup UNION {Within(list[k]) : k \in DOMAIN list}

\* No menu around the entry is hidden.
RECURSIVE Uncovered(_)
Uncovered(n) ==
  \/ n = 0
  \/ n # 0 /\ (IsMenuEntry(graph, n) => MenuIsVisible(graph, st, n).is) /\ Uncovered(graph.parent[n])

ByMenus ==
  InMenu /\ Len(stack) = 1 =>
    \A n \in DOMAIN graph.src :
      SymAt(graph, n) # NoSym /\ MenuIsVisible(graph, st, n).is /\ Uncovered(n) => n \in From(0)

ByJump ==
  In("found") /\ drawn =>
    \A item \in Listed :
      LET menu == Goal(item.n).n
          there == MenuItems(Context(graph, menu, FALSE, FALSE, {}), st).items
      IN  MenuIsVisible(graph, st, menu).is =>
            \E k \in DOMAIN there : there[k].n \in {item.n, menu}

(* Each symbol that is visible, in menus that are, can be reached from the main *)
(* menu: the tree that menu_finalize makes hides nothing behind an entry that   *)
(* build_conf and conf_choice do not descend into.  And a jump from the results *)
(* of a search, which offer entries that are shown or the nearest menu that is, *)
(* leads to a menu that shows the entry, or, for a member, the choice; a menu   *)
(* around it that is hidden shows nothing.                                      *)
EverythingReachable == ByMenus /\ ByJump
=============================================================================
