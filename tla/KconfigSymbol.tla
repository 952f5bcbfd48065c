---------------------------- MODULE KconfigSymbol ----------------------------
(***************************************************************************)
(* The values of configuration symbols (support/kconfig/symbol.c).         *)
(*                                                                         *)
(* g is a graph of KconfigMenu.  st is what the program keeps:             *)
(*   curr, pick: the computed values, and of a choice the selected member, *)
(*   vis, dir, rev, imp: visible, dir_dep.tri, rev_dep.tri, implied.tri,   *)
(*   shown: visible.tri of the prompt of each entry,                       *)
(*   user, userPick: def[S_DEF_USER],                                      *)
(*   has, valid, write, needSet: the symbols with the flags                *)
(*   SYMBOL_DEF_USER, _VALID, _WRITE, _NEED_SET_CHOICE_VALUES,             *)
(*   modules: modules_val, dirty: whether sym_change_count is not 0.       *)
(* SYMBOL_CHANGED, which only tells a graphical front end what to draw     *)
(* again, is left out.                                                     *)
(***************************************************************************)
EXTENDS KconfigMenu

CONSTANTS
  Digits,     \* Digits[t][k]: how the number k is printed for type t
  Prefixed    \* a hex text without 0x |-> the same with it

Numbers == {"int", "hex"}
Texts == Numbers \cup {"string"}
Empty(s) == IF Type[s] \in Logical THEN 0 ELSE ""

Zeros == [s \in Symbols |-> 0]
NoValues == [s \in Symbols |-> Empty(s)]
NoPicks == [s \in Symbols |-> NoSym]

StartState(g) ==
  [curr |-> NoValues, pick |-> NoPicks, vis |-> Zeros, dir |-> Zeros, rev |-> Zeros, imp |-> Zeros,
   shown |-> WithRoot(0, [n \in DOMAIN g.src |-> 0]), user |-> NoValues, userPick |-> NoPicks,
   has |-> {}, valid |-> {}, write |-> {}, needSet |-> {},
   modules |-> 0, dirty |-> TRUE]

\* sym_get_type
TypeNow(g, st, s) ==
  IF /\ Type[s] = "tristate"
     /\ \/ g.choiceOf[s] # NoSym /\ st.vis[s] = 2
        \/ st.modules = 0
  THEN "bool" ELSE Type[s]

Number(t, w) == IF Numeral[t][w] = NaN THEN 0 ELSE Numeral[t][w]

\* "Modules" read as y or n in the way that expressions read it.
ModulesOn(g, st) == SymTri(st.curr, g.modules) # 0

RECURSIVE SymbolsOf(_)
SymbolsOf(e) ==
  CASE e.op = "null" -> <<>>
    [] e.op = "sym" -> <<e.a>>
    [] e.op = "not" -> SymbolsOf(e.l)
    [] e.op \in Junctions -> SymbolsOf(e.l) \o SymbolsOf(e.r)
    [] e.op \in Relations -> <<e.a, e.b>>

-----------------------------------------------------------------------------
(* sym_calc_value and what it calls.  An evaluation is a pair of the state *)
(* after it and a value.                                                   *)

RECURSIVE CalcSymbol(_, _, _), CalcSymbols(_, _, _)
CalcSymbols(g, st, list) ==
  IF list = <<>> THEN st ELSE CalcSymbols(g, CalcSymbol(g, st, Head(list)), Tail(list))

\* CalcValue, for expressions of any height.
Sides(e) == IF e.op = "not" THEN {e.l} ELSE IF e.op \in Junctions THEN {e.l, e.r} ELSE {}
RECURSIVE ValueNow(_, _)
ValueNow(curr, e) == ValueOf(curr, [f \in Sides(e) |-> ValueNow(curr, f)], e)

\* expr_calc_value: calculates each symbol it meets.
Valued(st, e) == [st |-> st, val |-> ValueNow(st.curr, e)]
Eval(g, st, e) == Valued(CalcSymbols(g, st, SymbolsOf(e)), e)

\* The value of a condition of symbol s; a bool has no m.
BoolIfNeeded(g, e, s) == IF e.val = 1 /\ TypeNow(g, e.st, s) = "bool" THEN 2 ELSE e.val

\* The prompts of s, one after the other, and the greatest of their conditions.
PromptValue(g, e, s) ==
  LET choice == g.choiceOf[s]
  IN  IF choice # NoSym /\ Type[s] = "tristate" /\ e.val = 1 /\ e.st.curr[choice] = 2
      THEN 0 ELSE e.val
Show(g, e, s, n, max) ==
  LET v == PromptValue(g, e, s)
  IN  [st |-> [e.st EXCEPT !.shown[n] = v], val |-> Greater(max, v)]

RECURSIVE ShowEach(_, _, _, _)
ShowEach(g, p, s, nodes) ==
  IF nodes = <<>> THEN p
  ELSE ShowEach(g, Show(g, Eval(g, p.st, g.cond[Head(nodes)]), s, Head(nodes), p.val), s, Tail(nodes))

Seen(p, s) ==
  [p.st EXCEPT !.vis[s] =
     IF p.val = 1 /\ (Type[s] # "tristate" \/ p.st.modules = 0) THEN 2 ELSE p.val]
CalcPrompts(g, st, s) == Seen(ShowEach(g, [st |-> st, val |-> 0], s, g.prompts[s]), s)

EvalIf(wanted, g, st, e) == IF wanted THEN Eval(g, st, e) ELSE [st |-> st, val |-> 0]
KeepDir(g, e, s) == [e.st EXCEPT !.dir[s] = BoolIfNeeded(g, e, s)]
KeepRev(g, e, s) == [e.st EXCEPT !.rev[s] = BoolIfNeeded(g, e, s)]
KeepImp(g, e, s) == [e.st EXCEPT !.imp[s] = BoolIfNeeded(g, e, s)]
CalcDir(g, st, s) == KeepDir(g, Eval(g, st, g.dir[s]), s)
CalcRev(g, st, s) == KeepRev(g, EvalIf(g.rev[s] # NoExpr, g, st, g.rev[s]), s)
CalcImp(g, st, s) == KeepImp(g, EvalIf(g.imp[s] # NoExpr /\ st.dir[s] # 0, g, st, g.imp[s]), s)
CalcDependencies(g, st, s) ==
  IF g.choiceOf[s] # NoSym THEN st ELSE CalcImp(g, CalcRev(g, CalcDir(g, st, s), s), s)
CalcVisibility(g, st, s) == CalcDependencies(g, CalcPrompts(g, st, s), s)

\* The first property, from position k on, whose condition is not n (at: its
\* position, or 0).
RECURSIVE FirstFrom(_, _, _, _)
FoundOrNext(g, e, props, k) ==
  IF e.val # 0 THEN [st |-> e.st, at |-> k, val |-> e.val] ELSE FirstFrom(g, e.st, props, k + 1)
FirstFrom(g, st, props, k) ==
  IF k > Len(props) THEN [st |-> st, at |-> 0, val |-> 0]
  ELSE FoundOrNext(g, Eval(g, st, props[k].cond), props, k)
FirstOf(g, st, props) == FirstFrom(g, st, props, 1)

FirstVisible(st, list) ==
  LET V == {k \in DOMAIN list : st.vis[list[k]] # 0}
  IN  IF V = {} THEN NoSym ELSE list[CHOOSE k \in V : \A j \in V : k =< j]

\* sym_choice_default, from the k-th default on: one that is visible, or the
\* first member that is.
RECURSIVE ChoiceDefault(_, _, _, _)
TakeOrNext(g, e, choice, k) ==
  LET m == g.defaults[choice][k].value.a
  IN  IF e.val # 0 /\ e.st.vis[m] # 0 THEN [st |-> e.st, pick |-> m]
      ELSE ChoiceDefault(g, e.st, choice, k + 1)
ChoiceDefault(g, st, choice, k) ==
  IF k > Len(g.defaults[choice])
  THEN [st |-> st, pick |-> FirstVisible(st, g.members[choice])]
  ELSE TakeOrNext(g, Eval(g, st, g.defaults[choice][k].cond), choice, k)

\* sym_calc_choice: a choice has a user value only while all its visible members do.
RECURSIVE SeeMembers(_, _, _)
SeeMembers(g, st, list) ==
  IF list = <<>> THEN st ELSE SeeMembers(g, CalcVisibility(g, st, Head(list)), Tail(list))
ForgetMode(g, st, choice) ==
  IF \A k \in DOMAIN g.members[choice] :
       st.vis[g.members[choice][k]] # 0 => g.members[choice][k] \in st.has
  THEN st ELSE [st EXCEPT !.has = @ \ {choice}]
PickDefault(d, choice) ==
  [d.st EXCEPT !.pick[choice] = d.pick, !.curr[choice] = IF d.pick = NoSym THEN 0 ELSE @]
Pick(g, st, choice) ==
  LET mine == st.userPick[choice]
  IN  IF mine # NoSym /\ st.vis[mine] # 0 THEN [st EXCEPT !.pick[choice] = mine]
      ELSE PickDefault(ChoiceDefault(g, st, choice, 1), choice)
CalcChoice(g, st, choice) ==
  Pick(g, ForgetMode(g, SeeMembers(g, st, g.members[choice]), choice), choice)

\* sym_validate_range: a number below its range becomes the lower bound, one
\* above it the upper bound.
RangeOf(g, st, s) == FirstOf(g, st, g.ranges[s])
BoundNumber(st, s, b) ==
  IF b \in Symbols /\ Type[b] \in Numbers THEN Number(Type[b], st.curr[b])
  ELSE Number(Type[s], SymString(st.curr, b))
Lowered(st, s, most) ==
  IF Number(Type[s], st.curr[s]) > most THEN [st EXCEPT !.curr[s] = Digits[Type[s]][most]] ELSE st
Raised(g, st, s, range) ==
  LET least == BoundNumber(st, s, range.low)
      Above(u) == Lowered(u, s, BoundNumber(u, s, range.high))
  IN  IF Number(Type[s], st.curr[s]) < least THEN [st EXCEPT !.curr[s] = Digits[Type[s]][least]]
      ELSE Above(CalcSymbol(g, st, range.high))
IntoRange(g, r, s) ==
  IF r.at = 0 THEN r.st
  ELSE Raised(g, CalcSymbol(g, r.st, g.ranges[s][r.at].low), s, g.ranges[s][r.at])
ValidateRange(g, st, s) ==
  IF Type[s] \notin Numbers THEN st ELSE IntoRange(g, RangeOf(g, st, s), s)

\* A default of a bool or tristate is no stronger than its condition.
Capped(e, max) == [e EXCEPT !.val = Lesser(@, max)]
DefaultAt(g, d, s) ==
  IF d.at = 0 THEN [st |-> d.st, val |-> 0]
  ELSE Capped(Eval(g, d.st, g.defaults[s][d.at].value), d.val)
DefaultTri(g, st, s) == DefaultAt(g, FirstOf(g, st, g.defaults[s]), s)

\* The value of a bool or tristate without regard to what selects it.
Written(st, s, if) == IF if THEN [st EXCEPT !.write = @ \cup {s}] ELSE st
OrImplied(d, s) ==
  [st |-> Written(d.st, s, d.st.rev[s] # 0 \/ d.val # 0 \/ d.st.imp[s] # 0),
   val |-> Greater(d.val, d.st.imp[s])]
WantedTri(g, st, s) ==
  CASE st.vis[s] # 0 /\ s \in st.has -> [st |-> st, val |-> Lesser(st.user[s], st.vis[s])]
    [] ~(st.vis[s] # 0 /\ s \in st.has) /\ s \notin g.choices ->
         OrImplied(DefaultTri(g, st, s), s)
    [] OTHER -> [st |-> Written(st, s, st.rev[s] # 0), val |-> 0]

OrSelected(g, w, s) ==
  LET v == Greater(w.val, w.st.rev[s])
  IN  [w EXCEPT !.val = IF v = 1 /\ (TypeNow(g, w.st, s) = "bool" \/ w.st.imp[s] = 2)
                        THEN 2 ELSE v]
CalcTri(g, st, s) == OrSelected(g, WantedTri(g, st, s), s)

Copied(st, from) == [st |-> st, val |-> SymString(st.curr, from)]
Copy(g, st, from) == Copied(CalcSymbol(g, st, from), from)
DefaultText(g, d, s, write) ==
  IF d.at = 0 THEN [st |-> d.st, val |-> ""]
  ELSE Copy(g, Written(d.st, s, write), g.defaults[s][d.at].value.a)
CalcText(g, st, s) ==
  IF st.vis[s] # 0 /\ s \in st.has THEN [st |-> st, val |-> st.user[s]]
  ELSE DefaultText(g, FirstOf(g, st, g.defaults[s]), s, TRUE)

\* set_all_choice_values (confdata.c): a member without user value is n for good.
SetAllChoiceValues(g, st, choice) ==
  LET new == {g.members[choice][k] : k \in DOMAIN g.members[choice]} \ st.has
  IN  [st EXCEPT !.user = [s \in new |-> 0] @@ @,
                 !.has = @ \cup {choice}, !.valid = @ \ {choice}, !.needSet = @ \ {choice}]

\* What follows once the value of s is known: old is its value before.
KeepModules(g, st, s, old) ==
  IF g.modules = s /\ st.curr[s] # old THEN [st EXCEPT !.modules = st.curr[s]] ELSE st
WriteMembers(g, st, s) ==
  LET members == {g.members[s][k] : k \in DOMAIN g.members[s]}
  IN  IF s \in g.choices /\ s \in st.write
      THEN [st EXCEPT !.write = @ \cup {m \in members : st.vis[m] # 0}] ELSE st
WriteNoAuto(g, st, s) == IF s \in g.auto THEN [st EXCEPT !.write = @ \ {s}] ELSE st
AnswerMembers(g, st, s) ==
  IF s \in st.needSet /\ s \in g.choices THEN SetAllChoiceValues(g, st, s) ELSE st
Settle(g, st, s, old) ==
  AnswerMembers(g, WriteNoAuto(g, WriteMembers(g, KeepModules(g, st, s, old), s), s), s)

Keep(w, s) == [w.st EXCEPT !.curr[s] = w.val]

\* Mutant: takes the value for up to date although its flag was cleared.
CalcSymbol_KeepsVisibility(g, st, s) ==
  LET Visible(u) == IF u.vis[s] # 0 THEN u ELSE CalcVisibility(g, u, s)
      Value(u) == IF Type[s] \in Logical THEN CalcTri(g, u, s) ELSE CalcText(g, u, s)
  IN  IF s \in Literals \cup st.valid THEN st
      ELSE Keep(Value(Visible([st EXCEPT !.valid = @ \cup {s}, !.write = @ \ {s}])), s)

ChoiceFirst(g, st, s) ==
  IF g.choiceOf[s] # NoSym /\ s \in st.needSet
  THEN CalcSymbol(g, [st EXCEPT !.needSet = @ \ {s}], g.choiceOf[s]) ELSE st
Reset(st, s) ==
  [st EXCEPT !.write = IF st.vis[s] # 0 THEN @ \cup {s} ELSE @,
             !.curr[s] = Empty(s), !.pick[s] = NoSym]
NewValue(g, st, s) ==
  CASE Type[s] \in Texts -> CalcText(g, st, s)
    [] Type[s] \in Logical /\ g.choiceOf[s] # NoSym /\ st.vis[s] = 2 ->
         [st |-> st, val |-> IF st.pick[g.choiceOf[s]] = s THEN 2 ELSE 0]
    [] OTHER -> CalcTri(g, st, s)
Choose(g, st, s) == IF s \in g.choices /\ st.curr[s] = 2 THEN CalcChoice(g, st, s) ELSE st
Recalc(g, st, s) ==
  Reset(CalcVisibility(g, [st EXCEPT !.valid = @ \cup {s}, !.write = @ \ {s}], s), s)
CalcNow(g, st, s) ==
  Settle(g, ValidateRange(g, Choose(g, Keep(NewValue(g, Recalc(g, st, s), s), s), s), s),
         s, st.curr[s])
CalcSymbol(g, st, s) ==
  IF s \in Literals \cup st.valid THEN st ELSE CalcNow(g, ChoiceFirst(g, st, s), s)

\* Mutant: the change is not counted.
ClearAllValid_Uncounted(g, st) == CalcSymbol(g, [st EXCEPT !.valid = {}], g.modules)

ClearAllValid(g, st) == CalcSymbol(g, [st EXCEPT !.valid = {}, !.dirty = TRUE], g.modules)

-----------------------------------------------------------------------------
(* Setting values. *)

\* Mutant: forgets what other symbols select.
TristateWithinRange_Selected(g, st, s, v) ==
  /\ st.vis[s] # 0
  /\ ~(TypeNow(g, st, s) = "bool" /\ v = 1)
  /\ ~(st.imp[s] = 2 /\ v = 1)
  /\ IF g.choiceOf[s] # NoSym /\ st.vis[s] = 2 THEN v = 2 ELSE v =< st.vis[s]

\* sym_tristate_within_range: v is a value that the user may give to s.
TristateWithinRange(g, st, s, v) ==
  /\ Type[s] \in Logical
  /\ st.vis[s] # 0 /\ st.vis[s] > st.rev[s]
  /\ ~(TypeNow(g, st, s) = "bool" /\ v = 1)
  /\ ~(st.imp[s] = 2 /\ v = 1)
  /\ IF g.choiceOf[s] # NoSym /\ st.vis[s] = 2 THEN v = 2
     ELSE v >= st.rev[s] /\ v =< st.vis[s]

\* Selecting a member is an answer to the choice and to all its visible members.
Select(g, st, s) ==
  LET choice == g.choiceOf[s]
      visible == {g.members[choice][k] : k \in {j \in DOMAIN g.members[choice] :
                                                 st.vis[g.members[choice][j]] # 0}}
  IN  [st EXCEPT !.userPick[choice] = s, !.has = @ \cup {choice} \cup visible]

\* Mutant: the symbols that depend on s keep their values.
SetTristate_KeepsValid(g, st, s, v) ==
  LET st1 == [st EXCEPT !.has = @ \cup {s}]
      st2 == IF g.choiceOf[s] # NoSym /\ v = 2 THEN Select(g, st1, s) ELSE st1
      st3 == [st2 EXCEPT !.user[s] = v, !.valid = @ \ {s}, !.dirty = TRUE]
  IN  IF st.curr[s] # v /\ ~TristateWithinRange(g, st, s, v) THEN [ok |-> FALSE, st |-> st]
      ELSE [ok |-> TRUE, st |-> st3]

\* sym_set_tristate_value
SetTristate(g, st, s, v) ==
  LET st1 == [st EXCEPT !.has = @ \cup {s}]
      st2 == IF g.choiceOf[s] # NoSym /\ v = 2 THEN Select(g, st1, s) ELSE st1
      st3 == [st2 EXCEPT !.user[s] = v]
  IN  IF st.curr[s] # v /\ ~TristateWithinRange(g, st, s, v) THEN [ok |-> FALSE, st |-> st]
      ELSE [ok |-> TRUE, st |-> IF st.curr[s] = v THEN st3 ELSE ClearAllValid(g, st3)]

\* sym_toggle_tristate_value: the next value that is accepted, or the old one.
Toggle(g, st, s) ==
  LET Next(k) == (st.curr[s] + k) % 3
      first == CHOOSE k \in 1 .. 3 :
                 /\ k = 3 \/ TristateWithinRange(g, st, s, Next(k))
                 /\ \A j \in 1 .. k - 1 : ~TristateWithinRange(g, st, s, Next(j))
  IN  SetTristate(g, st, s, Next(first)).st

StringValid(s, w) ==
  CASE Type[s] = "string" -> TRUE
    [] Type[s] \in Numbers -> Numeral[Type[s]][w] # NaN
    [] Type[s] \in Logical -> w \in {"y", "m", "n"}

\* sym_string_within_range
NotAbove(st, s, w, range) ==
  [st |-> st, ok |-> Number(Type[s], w) =< BoundNumber(st, s, range.high)]
InRange(g, st, s, w, range) ==
  IF Number(Type[s], w) < BoundNumber(st, s, range.low) THEN [st |-> st, ok |-> FALSE]
  ELSE NotAbove(CalcSymbol(g, st, range.high), s, w, range)
InRangeAt(g, r, s, w) ==
  IF r.at = 0 THEN [st |-> r.st, ok |-> TRUE]
  ELSE InRange(g, CalcSymbol(g, r.st, g.ranges[s][r.at].low), s, w, g.ranges[s][r.at])
StringWithinRange(g, st, s, w) ==
  CASE Type[s] \in Logical ->
         [st |-> st, ok |-> StringValid(s, w) /\ TristateWithinRange(g, st, s, TriOf(w))]
    [] Type[s] = "string" -> [st |-> st, ok |-> TRUE]
    [] Type[s] \in Numbers ->
         IF StringValid(s, w) THEN InRangeAt(g, RangeOf(g, st, s), s, w)
         ELSE [st |-> st, ok |-> FALSE]

\* sym_set_string_value
SetText(g, st, s, w, text) ==
  IF text = w /\ st.user[s] = w THEN st ELSE ClearAllValid(g, [st EXCEPT !.user[s] = text])
SetIfWithin(g, r, s, w) ==
  IF ~r.ok THEN r
  ELSE [ok |-> TRUE,
        st |-> SetText(g, [r.st EXCEPT !.has = @ \cup {s}], s, w,
                       IF Type[s] = "hex" /\ w \in DOMAIN Prefixed THEN Prefixed[w] ELSE w)]
SetString(g, st, s, w) ==
  IF Type[s] \in Logical THEN SetTristate(g, st, s, TriOf(w))
  ELSE SetIfWithin(g, StringWithinRange(g, st, s, w), s, w)

IsChangable(st, s) == st.vis[s] > st.rev[s]

\* sym_get_string_value; "m" needs modules.
StringValue(g, st, s) ==
  IF Type[s] \in Logical /\ st.curr[s] = 1 /\ ~ModulesOn(g, st) THEN "n"
  ELSE SymString(st.curr, s)

\* sym_get_string_default: the value s would have without the user's.
TriDefault(g, st, s, e) ==
  LET v == Greater(e.val, st.rev[s])
      noMod == (g.choiceOf[s] = NoSym /\ ~ModulesOn(g, st)) \/ Type[s] = "bool"
  IN  [st |-> e.st, val |-> TriName[Greater(IF v = 1 /\ noMod THEN 2 ELSE v, st.imp[s]) + 1]]
DefaultNow(g, st, s) ==
  IF Type[s] \in Logical THEN TriDefault(g, st, s, DefaultTri(g, st, s))
  ELSE DefaultText(g, FirstOf(g, st, g.defaults[s]), s, FALSE)
StringDefault(g, st, s) == DefaultNow(g, CalcSymbol(g, CalcVisibility(g, st, s), g.modules), s)

-----------------------------------------------------------------------------
(* Menu entries and the values that decide whether they are shown.         *)

\* menu_is_visible, which takes an entry above a visible one for answered.
RECURSIVE MenuIsVisible(_, _, _), AnyVisible(_, _, _)
SymAt(g, n) == IF n = 0 THEN NoSym ELSE g.src[n].sym

AnyVisible(g, p, list) ==
  IF p.is \/ list = <<>> THEN p ELSE AnyVisible(g, MenuIsVisible(g, p.st, Head(list)), Tail(list))
Answered(p, s) == IF p.is THEN [p EXCEPT !.st.has = @ \cup {s}] ELSE p
VisibleBelow(g, st, n, shown) ==
  CASE shown # 0 -> [st |-> st, is |-> TRUE]
    [] shown = 0 /\ (SymAt(g, n) = NoSym \/ SymTri(st.curr, SymAt(g, n)) = 0) ->
         [st |-> st, is |-> FALSE]
    [] OTHER -> Answered(AnyVisible(g, [st |-> st, is |-> FALSE], g.list[n]), SymAt(g, n))
PromptOf(g, v, n) ==
  IF SymAt(g, n) = NoSym THEN Eval(g, v.st, IF n = 0 THEN NoExpr ELSE g.cond[n])
  ELSE [st |-> CalcSymbol(g, v.st, SymAt(g, n)), val |-> -1]
ShownIn(g, e, n) == VisibleBelow(g, e.st, n, IF SymAt(g, n) = NoSym THEN e.val ELSE e.st.shown[n])
VisibleIn(g, v, n) ==
  IF v.val = 0 THEN [st |-> v.st, is |-> FALSE] ELSE ShownIn(g, PromptOf(g, v, n), n)
MenuIsVisible(g, st, n) ==
  IF n # 0 /\ ~g.src[n].prompt THEN [st |-> st, is |-> FALSE]
  ELSE VisibleIn(g, Eval(g, st, IF n = 0 THEN NoExpr ELSE g.src[n].visibility), n)
=============================================================================
