----------------------------- MODULE KconfigFile -----------------------------
(***************************************************************************)
(* Configuration files (support/kconfig/confdata.c): how they are read,    *)
(* what is written, and the configurations that are made without asking.   *)
(*                                                                         *)
(* A file is the sequence of its lines for symbols, or NoFile; a line has  *)
(* the name and the value, NotSet in "# X is not set".  The text of a line *)
(* (prefix, quotes, escapes) and the headings are left out.  order is the  *)
(* order of the symbols in the hash table.                                 *)
(***************************************************************************)
EXTENDS KconfigSymbol

CONSTANTS NoFile, NotSet

Line(s, v) == [sym |-> s, val |-> v]

-----------------------------------------------------------------------------
(* Reading. *)

\* conf_set_sym_val: whether the text is a value for s.
Accepts(s, v) ==
  CASE v = NotSet -> Type[s] \in Logical
    [] v # NotSet /\ Type[s] = "bool" -> v \in {"y", "n"}
    [] v # NotSet /\ Type[s] # "bool" -> StringValid(s, v)

\* Mutant: what a choice gathers leaves out which member it is.
JoinChoice_NoPick(g, p, s) ==
  LET c == g.choiceOf[s]
  IN  IF c = NoSym THEN p
      ELSE [p EXCEPT !.st = [@ EXCEPT !.user[c] = Greater(p.st.user[c], p.st.user[s])]]

\* A choice gathers what its members are set to.
JoinChoice(g, p, s) ==
  LET c == g.choiceOf[s]
      mine == p.st.user[s]
      whole == p.st.user[c]
      u == CASE mine = 1 /\ whole = 2 -> [p.st EXCEPT !.has = @ \ {c}]
             [] mine = 2 -> [p.st EXCEPT !.userPick[c] = s]
             [] OTHER -> p.st
      odd == (mine = 1 /\ whole = 2) \/ (mine = 2 /\ whole # 0)
  IN  IF c = NoSym THEN p
      ELSE [st |-> [u EXCEPT !.user[c] = Greater(whole, mine)], warned |-> p.warned \/ odd]

ReadLine(g, p, line) ==
  LET s == line.sym
      again == p.warned \/ s \in p.st.has
      v == CASE line.val = NotSet -> 0
             [] line.val # NotSet /\ Type[s] \in Logical -> TriOf(line.val)
             [] OTHER -> line.val
      u == [p.st EXCEPT !.user[s] = v, !.has = @ \cup {s}]
  IN  CASE s \notin g.used -> [p EXCEPT !.st.dirty = TRUE]
        [] s \in g.used /\ Accepts(s, line.val) -> JoinChoice(g, [st |-> u, warned |-> again], s)
        [] OTHER -> [p EXCEPT !.warned = line.val # NotSet \/ again]

\* conf_read_simple, once a file is open: every choice starts with a value.
RECURSIVE ReadLines(_, _, _)
ReadLines(g, p, lines) ==
  IF lines = <<>> THEN p ELSE ReadLines(g, ReadLine(g, p, Head(lines)), Tail(lines))
Forgotten(g, st) ==
  [st EXCEPT !.user = NoValues, !.has = g.choices, !.valid = {}, !.userPick = NoPicks]
ReadSimple(g, st, lines) == ReadLines(g, [st |-> Forgotten(g, st), warned |-> FALSE], lines)

\* Whether the value of s is not the one that the file gives it.
Unsaved(g, st, s) ==
  /\ s \notin g.choices \cup g.auto
  /\ IF s \in st.has /\ s \in st.write THEN st.user[s] # st.curr[s]
     ELSE s \in st.has \cup st.write

Compare(g, st, unsaved, s) == [st |-> st, unsaved |-> unsaved \/ Unsaved(g, st, s)]
RECURSIVE CompareEach(_, _, _)
CompareEach(g, p, list) ==
  IF list = <<>> THEN p
  ELSE CompareEach(g, Compare(g, CalcSymbol(g, p.st, Head(list)), p.unsaved, Head(list)), Tail(list))

\* Values of invisible symbols are dropped when the file fits the Kconfig
\* files, values out of their range always.
Drop(p, s) ==
  IF p.st.vis[s] = 0 /\ ~p.unsaved THEN [p EXCEPT !.st = [@ EXCEPT !.has = @ \ {s}]] ELSE p
DropText(p, in, s) ==
  IF in.ok THEN [p EXCEPT !.st = in.st]
  ELSE [st |-> [in.st EXCEPT !.has = @ \ {s}, !.valid = @ \ {s}], unsaved |-> TRUE]
InRangeOrDropped(g, p, s) ==
  IF Type[s] \in Logical THEN p
  ELSE DropText(p, StringWithinRange(g, p.st, s, p.st.user[s]), s)
Revise(g, p, s) ==
  IF s \notin p.st.has \/ g.choiceOf[s] # NoSym THEN p ELSE InRangeOrDropped(g, Drop(p, s), s)
RECURSIVE ReviseEach(_, _, _)
ReviseEach(g, p, list) ==
  IF list = <<>> THEN p ELSE ReviseEach(g, Revise(g, p, Head(list)), Tail(list))

\* conf_read: what follows conf_read_simple, whose result is r.
Judged(p, warned) == [p.st EXCEPT !.dirty = @ \/ warned \/ p.unsaved]
Calculated(g, order, r) ==
  Judged(ReviseEach(g, CompareEach(g, [st |-> CalcSymbol(g, r.st, g.modules), unsaved |-> FALSE],
                                   order), order), r.warned)

\* conf_read of .config; base is what the default for "option defconfig_list"
\* names, which is read when there is no .config.
ReadFrom(g, order, st, lines) ==
  IF lines = NoFile THEN CalcSymbol(g, st, g.modules)
  ELSE Calculated(g, order, ReadSimple(g, st, lines))
Read(g, order, st, config, base) ==
  ReadFrom(g, order, [st EXCEPT !.dirty = config = NoFile], IF config = NoFile THEN base ELSE config)

-----------------------------------------------------------------------------
(* Writing. *)

\* The entries in the order in which the writers meet them.
RECURSIVE FromEach(_, _)
FromEach(g, list) ==
  IF list = <<>> THEN <<>>
  ELSE <<Head(list)>> \o FromEach(g, g.list[Head(list)]) \o FromEach(g, Tail(list))
Preorder(g) == FromEach(g, g.list[0])

\* kconfig_print_symbol; skip: symbols that are n are left out.
PrintedValue(s, v, skip) ==
  CASE Type[s] \in Logical /\ v = "n" -> IF skip THEN <<>> ELSE <<Line(s, NotSet)>>
    [] OTHER -> <<Line(s, v)>>
Printed(g, st, s, skip) == PrintedValue(s, StringValue(g, st, s), skip)

\* tristate_print_symbol, header_print_symbol ("m": a macro for the module).
PrintedTristate(g, st, s) ==
  IF Type[s] = "tristate" THEN Printed(g, st, s, TRUE) ELSE <<>>
PrintedHeader(g, st, s) == Printed(g, st, s, TRUE)

\* The lines of conf_write, which clears SYMBOL_WRITE of what it has written,
\* so that a symbol of several entries is written once.
WriteSymbol(g, p, s) ==
  IF s \notin p.st.write THEN p
  ELSE [st |-> [p.st EXCEPT !.write = @ \ {s}], lines |-> p.lines \o Printed(g, p.st, s, FALSE)]
WriteEntry(g, p, n) ==
  LET s == g.src[n].sym IN
  CASE s = NoSym -> [p EXCEPT !.st = MenuIsVisible(g, @, n).st]
    [] s \in g.choices -> p
    [] OTHER -> WriteSymbol(g, [p EXCEPT !.st = CalcSymbol(g, @, s)], s)
RECURSIVE WriteEach(_, _, _)
WriteEach(g, p, nodes) ==
  IF nodes = <<>> THEN p ELSE WriteEach(g, WriteEntry(g, p, Head(nodes)), Tail(nodes))
Write(g, st) ==
  WriteEach(g, [st |-> IF st.dirty THEN st ELSE ClearAllValid(g, st), lines |-> <<>>], Preorder(g))

\* A choice value need not be written when the choice comes to it by itself.
IsDefault(g, d, s) ==
  /\ g.choiceOf[s] \notin g.optional /\ d.pick = s
  /\ Type[s] = "bool" /\ d.st.curr[s] = 2
KeepDefault(g, d, p, s) ==
  IF IsDefault(g, d, s) THEN [p EXCEPT !.st = d.st]
  ELSE [st |-> d.st, lines |-> p.lines \o Printed(g, d.st, s, FALSE)]
DefconfigValue(g, p, s) ==
  IF g.choiceOf[s] = NoSym THEN [p EXCEPT !.lines = @ \o Printed(g, p.st, s, FALSE)]
  ELSE KeepDefault(g, ChoiceDefault(g, p.st, g.choiceOf[s], 1), p, s)

\* Mutant: what the symbol has without the user's value is not asked for.
DefconfigDiffers_FromEmpty(g, d, p, s) ==
  IF StringValue(g, p.st, s) = (IF Type[s] \in Logical THEN "n" ELSE "")
  THEN [p EXCEPT !.st = d.st] ELSE DefconfigValue(g, [p EXCEPT !.st = d.st], s)

DefconfigDiffers(g, d, p, s) ==
  IF StringValue(g, p.st, s) = d.val THEN [p EXCEPT !.st = d.st]
  ELSE DefconfigValue(g, [p EXCEPT !.st = d.st], s)

DefconfigSymbol(g, p, s) ==
  CASE s \notin p.st.write -> p
    [] s \in p.st.write /\ ~IsChangable(p.st, s) -> [p EXCEPT !.st = [@ EXCEPT !.write = @ \ {s}]]
    [] s \in p.st.write /\ IsChangable(p.st, s) ->
         DefconfigDiffers(g, StringDefault(g, [p.st EXCEPT !.write = @ \ {s}], s), p, s)
DefconfigEntry(g, p, n) ==
  LET s == g.src[n].sym IN
  CASE s = NoSym -> [p EXCEPT !.st = MenuIsVisible(g, @, n).st]
    [] s \in g.choices -> p
    [] OTHER -> DefconfigSymbol(g, [p EXCEPT !.st = CalcSymbol(g, @, s)], s)

\* conf_write_defconfig
RECURSIVE DefconfigEach(_, _, _)
DefconfigEach(g, p, nodes) ==
  IF nodes = <<>> THEN p ELSE DefconfigEach(g, DefconfigEntry(g, p, Head(nodes)), Tail(nodes))
Defconfig(g, st) ==
  DefconfigEach(g, [st |-> ClearAllValid(g, st), lines |-> <<>>], Preorder(g))

-----------------------------------------------------------------------------
(* auto.conf and the files beside it. *)

\* What conf_read_simple(S_DEF_AUTO) takes from auto.conf: symbol |-> value.
RECURSIVE AutoValues(_, _, _)
AutoValues(g, old, lines) ==
  IF lines = <<>> THEN old
  ELSE LET l == Head(lines)
           taken == l.sym \notin g.used \/ Accepts(l.sym, l.val)
       IN  AutoValues(g, IF taken THEN (l.sym :> l.val) @@ old ELSE old, Tail(lines))

HasChanged(g, st, s, old) ==
  /\ s \notin g.choices \cup g.auto
  /\ CASE s \in st.write /\ s \in DOMAIN old -> SymString(st.curr, s) # old[s]
       [] s \in st.write /\ s \notin DOMAIN old -> ~(Type[s] \in Logical /\ st.curr[s] = 0)
       [] s \notin st.write -> s \in DOMAIN old

\* conf_split_config: touched is what it makes of the files of single symbols;
\* a name in auto.conf that no Kconfig file knows is a symbol, too.
Touch(g, st, touched, s, old) ==
  [st |-> st, touched |-> IF HasChanged(g, st, s, old) THEN touched \cup {s} ELSE touched]
RECURSIVE TouchEach(_, _, _, _)
TouchEach(g, p, list, old) ==
  IF list = <<>> THEN p
  ELSE TouchEach(g, Touch(g, CalcSymbol(g, p.st, Head(list)), p.touched, Head(list), old),
                 Tail(list), old)
SplitFrom(g, order, st, old) ==
  TouchEach(g, [st |-> CalcSymbol(g, st, g.modules), touched |-> DOMAIN old \ g.used], order, old)
SplitConfig(g, order, st, auto) ==
  IF auto = NoFile THEN SplitFrom(g, order, st, <<>>)
  ELSE SplitFrom(g, order, [st EXCEPT !.valid = {}], AutoValues(g, <<>>, auto))

\* The contents of auto.conf, tristate.conf and autoconf.h.
AutoLines(g, p, s) ==
  IF s \notin p.st.write \/ s \in g.choices THEN p
  ELSE [p EXCEPT !.auto = @ \o Printed(g, p.st, s, TRUE),
                 !.tristate = @ \o PrintedTristate(g, p.st, s),
                 !.header = @ \o PrintedHeader(g, p.st, s)]
RECURSIVE AutoEach(_, _, _)
AutoEach(g, p, list) ==
  IF list = <<>> THEN p
  ELSE AutoEach(g, AutoLines(g, [p EXCEPT !.st = CalcSymbol(g, @, Head(list))], Head(list)), Tail(list))
AutoFiles(g, order, st) ==
  AutoEach(g, [st |-> st, auto |-> <<>>, tristate |-> <<>>, header |-> <<>>], order)

-----------------------------------------------------------------------------
(* conf_set_all_new_symbols: mode is "yes", "mod", "no", "default" or        *)
(* "random"; roll: what chance gives to each symbol (a choice: a member).    *)

AllNoConfigY(g, s) == PropsOf(g.src, g, s, "allnoconfig_y") # <<>>

NewTri(g, s, mode, roll) ==
  CASE mode = "yes" -> 2
    [] mode = "mod" -> 1
    [] mode = "no" -> IF AllNoConfigY(g, s) THEN 2 ELSE 0
    [] mode = "random" -> roll.tri[s]

\* randomize_choice_values
RandomizeChoice(g, st, c, member) ==
  LET members == {g.members[c][k] : k \in DOMAIN g.members[c]}
  IN  [st EXCEPT !.user = [s \in members |-> IF s = member THEN 2 ELSE 0] @@ @,
                 !.userPick[c] = member, !.has = @ \cup members \cup {c},
                 !.valid = @ \ (members \cup {c})]

NewSymbols(g, st) == {s \in g.used : s \notin st.has \cup st.valid /\ Type[s] \in Logical}
GiveNew(g, st, new, mode, roll) ==
  IF mode = "default" THEN st
  ELSE [st EXCEPT !.user = [s \in new |-> NewTri(g, s, mode, roll)] @@ @,
                  !.has = @ \cup (IF mode = "random" THEN new \ g.choices ELSE new)]
AskChoices(g, st, mode) ==
  IF mode = "random" THEN st
  ELSE [st EXCEPT !.needSet = @ \cup (g.choices \ st.has) \cup {s \in g.used : g.choiceOf[s] # NoSym}]

\* Each choice without value: the last one decides what is returned.
SetChoice(g, st, c, mode, roll) ==
  CASE mode # "random" -> [st |-> SetAllChoiceValues(g, st, c), changed |-> TRUE]
    [] mode = "random" /\ st.curr[c] = 2 ->
         [st |-> RandomizeChoice(g, st, c, roll.pick[c]), changed |-> TRUE]
    [] OTHER -> [st |-> st, changed |-> FALSE]
RECURSIVE SetChoices(_, _, _, _, _)
SetChoices(g, p, list, mode, roll) ==
  CASE list = <<>> -> p
    [] list # <<>> /\ Head(list) \in g.choices \ p.st.has ->
         SetChoices(g, SetChoice(g, CalcSymbol(g, p.st, Head(list)), Head(list), mode, roll),
                    Tail(list), mode, roll)
    [] OTHER -> SetChoices(g, p, Tail(list), mode, roll)

SetAllNew(g, order, st, mode, roll) ==
  SetChoices(g,
    [st |-> AskChoices(g, ClearAllValid(g, GiveNew(g, st, NewSymbols(g, st), mode, roll)), mode),
     changed |-> NewSymbols(g, st) # {}], order, mode, roll)
=============================================================================
