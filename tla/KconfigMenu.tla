----------------------------- MODULE KconfigMenu -----------------------------
(***************************************************************************)
(* The menu tree of kconfig (support/kconfig/menu.c): how the parser's     *)
(* calls build it and how menu_finalize completes it.                      *)
(*                                                                         *)
(* A Kconfig file is the sequence of its entries, the calls of             *)
(* menu_add_entry in their order:                                          *)
(*   parent: the entry it is in (0: the main menu), sym: its symbol or     *)
(*   NoSym, kind: menu, if, comment, config, menuconfig, choice; prompt:   *)
(*   whether it has one, cond: the "if" of the prompt, dep: "depends on",  *)
(*   visibility: "visible if", props: its other properties, each with type *)
(*   and cond, and with value, or low and high; "option env" and "option   *)
(*   defconfig_list" are of type "auto".                                   *)
(***************************************************************************)
EXTENDS KconfigExpr, FiniteSets, TLC

CONSTANTS
  Symbols,    \* the symbols that are not literals, choices among them
  NoSym       \* an entry without symbol; also "no choice value"

Entries(src) == 0 .. Len(src)

\* Choices that are not optional (zconf.y clears SYMBOL_OPTIONAL of no other).
IsChoice(src, s) == \E n \in DOMAIN src : src[n].sym = s /\ src[n].kind = "choice"

-----------------------------------------------------------------------------
(* Parsing. *)

SelectIn(S) == LET sorted[T \in SUBSET S] ==
                     IF T = {} THEN <<>>
                     ELSE LET least == CHOOSE x \in T : \A y \in T : x =< y
                          IN  <<least>> \o sorted[T \ {least}]
               IN  sorted[S]

\* menu_add_prop: a prompt of a symbol is hidden with every menu around it.
RECURSIVE WithVisibility(_, _, _)
WithVisibility(src, n, e) ==
  IF n = 0 THEN e
  ELSE WithVisibility(src, src[n].parent, AllocAnd(e, src[n].visibility))

PromptCondition(src, n) ==
  IF src[n].kind \in {"config", "menuconfig", "choice"}
  THEN WithVisibility(src, src[n].parent, src[n].cond) ELSE src[n].cond

\* The main menu is entry 0.
WithRoot(root, f) == (0 :> root) @@ f
Below(src, n) == SelectIn({m \in DOMAIN src : src[m].parent = n})
NoExprs == [s \in Symbols |-> NoExpr]
NoMembers == [s \in Symbols |-> <<>>]

Parsed(src) ==
  [list    |-> WithRoot(Below(src, 0), [n \in DOMAIN src |-> Below(src, n)]),
   parent  |-> WithRoot(0, [n \in DOMAIN src |-> src[n].parent]),
   dep     |-> WithRoot(NoExpr, [n \in DOMAIN src |-> src[n].dep]),
   cond    |-> WithRoot(NoExpr, [n \in DOMAIN src |-> PromptCondition(src, n)]),
   props   |-> WithRoot(<<>>, [n \in DOMAIN src |-> src[n].props]),
   dir     |-> NoExprs, rev |-> NoExprs, imp |-> NoExprs, members |-> NoMembers]

-----------------------------------------------------------------------------
(* menu_finalize. *)

ParentDep(src, t, n) ==
  CASE n = 0 -> NoExpr
    [] n # 0 /\ src[n].kind = "choice" -> Sym(src[n].sym)
    [] n # 0 /\ src[n].kind # "choice" /\ src[n].prompt -> t.cond[n]
    [] n # 0 /\ src[n].kind # "choice" /\ ~src[n].prompt -> t.dep[n]

\* A condition of entry n below dependencies base, rewritten and simplified.
Simplified(base, e, modules) ==
  EliminateDups[AllocAnd(base, Transform[RewriteM(e, modules)])]
SuitedTo(s, e) == IF s # NoSym /\ Type[s] # "tristate" THEN TransBool[e] ELSE e
SimplifiedFor(s, base, e, modules) == SuitedTo(s, Simplified(base, e, modules))

\* Select and imply become part of what they select.
Selecting(t, s, prop) ==
  LET by == AllocAnd(Sym(s), prop.cond) IN
  CASE prop.type = "select" -> [t EXCEPT !.rev[prop.value.a] = AllocOr(@, by)]
    [] prop.type = "imply"  -> [t EXCEPT !.imp[prop.value.a] = AllocOr(@, by)]
    [] OTHER -> t

RECURSIVE SelectEach(_, _, _)
SelectEach(t, s, props) ==
  IF props = <<>> THEN t ELSE SelectEach(Selecting(t, s, Head(props)), s, Tail(props))

PutConditions(t, n, s, base, cond, props) ==
  SelectEach([t EXCEPT !.dep[n] = base, !.cond[n] = cond, !.props[n] = props], s, props)
PropagateBase(t, n, s, base, modules) ==
  PutConditions(t, n, s, base, SimplifiedFor(s, base, t.cond[n], modules),
    [k \in DOMAIN t.props[n] |->
       [t.props[n][k] EXCEPT !.cond = SimplifiedFor(s, base, @, modules)]])
PropagateTo(src, t, n, parentdep, modules) ==
  PropagateBase(t, n, src[n].sym, Simplified(parentdep, t.dep[n], modules), modules)

RECURSIVE PropagateToEach(_, _, _, _, _)
PropagateToEach(src, t, children, parentdep, modules) ==
  IF children = <<>> THEN t
  ELSE PropagateToEach(src, PropagateTo(src, t, Head(children), parentdep, modules),
                       Tail(children), parentdep, modules)

Position(list, n) == CHOOSE k \in DOMAIN list : list[k] = n
Without(list, k) == SubSeq(list, 1, k - 1) \o SubSeq(list, k + 1, Len(list))

RECURSIVE Finalize(_, _, _, _), FinalizeFrom(_, _, _, _, _), Gather(_, _, _, _, _)

\* The list grows shorter while its entries gather what follows them.
FinalizeFrom(src, t, n, k, modules) ==
  IF k > Len(t.list[n]) THEN t
  ELSE FinalizeFrom(src, Finalize(src, t, t.list[n][k], modules), n, k + 1, modules)

\* Entry n takes the entries after it, as long as they belong to its symbol.
MoveInto(t, n, m) ==
  [t EXCEPT !.list[t.parent[n]] = Without(@, Position(@, m)),
            !.list[n] = Append(@, m), !.parent[m] = n]
Gather(src, t, n, base, modules) ==
  LET siblings == t.list[t.parent[n]]
      k == Position(siblings, n)
      m == siblings[k + 1]
      e == IF src[m].prompt THEN t.cond[m] ELSE t.dep[m]
  IN  IF k < Len(siblings) /\ BelongsTo(e, src[n].sym, base)
      THEN Gather(src, MoveInto(Finalize(src, t, m, modules), n, m), n, base, modules) ELSE t

\* A value of a tristate choice that is no tristate needs the choice to be y.
AddMember(src, t, n, m) ==
  LET choice == src[n].sym
      u == [t EXCEPT !.members[choice] = Append(@, src[m].sym)]
      isYes == Comp("=", choice, "y")
  IN  IF Type[choice] = "tristate" /\ Type[src[m].sym] # "tristate"
      THEN [u EXCEPT !.dep[m] = AllocAnd(isYes, @), !.cond[m] = AllocAnd(isYes, @),
                     !.props[m] = [j \in DOMAIN t.props[m] |->
                                     [t.props[m][j] EXCEPT !.cond = AllocAnd(isYes, @)]]]
      ELSE u
IsNewMember(src, t, n, m) ==
  /\ n # 0 /\ src[n].kind = "choice" /\ src[m].sym # NoSym
  /\ \A c \in Symbols : \A j \in DOMAIN t.members[c] : t.members[c][j] # src[m].sym
Enrol(src, t, n, m) == IF IsNewMember(src, t, n, m) THEN AddMember(src, t, n, m) ELSE t

\* The entries of an "if", or below a symbol without prompt, move up after it.
Flatten(t, n, m) ==
  LET k == Position(t.list[n], m) IN
  [t EXCEPT !.list[n] = SubSeq(@, 1, k) \o t.list[m] \o SubSeq(@, k + 1, Len(@)),
            !.list[m] = <<>>,
            !.parent = [c \in {t.list[m][j] : j \in DOMAIN t.list[m]} |-> n] @@ @]

MoveUp(src, t, n, m) == IF t.list[m] # <<>> /\ ~src[m].prompt THEN Flatten(t, n, m) ELSE t

RECURSIVE CollectFrom(_, _, _, _)
CollectFrom(src, t, n, k) ==
  IF k > Len(t.list[n]) THEN t
  ELSE LET m == t.list[n][k]
       IN  CollectFrom(src, MoveUp(src, Enrol(src, t, n, m), n, m), n, k + 1)

KeepDependency(t, s, n) == [t EXCEPT !.dir[s] = AllocOr(@, t.dep[n])]
FinalizeBelow(src, t, n, modules) ==
  CASE t.list[n] # <<>> ->
         FinalizeFrom(src, PropagateToEach(src, t, t.list[n], ParentDep(src, t, n), modules),
                      n, 1, modules)
    [] t.list[n] = <<>> /\ n # 0 /\ src[n].sym # NoSym ->
         KeepDependency(Gather(src, t, n, IF src[n].prompt THEN t.cond[n] ELSE NoExpr, modules),
                        src[n].sym, n)
    [] OTHER -> t
SelectChoice(src, t, n) ==
  IF n # 0 /\ src[n].kind = "choice" /\ ~src[n].optional /\ src[n].prompt
  THEN [t EXCEPT !.rev[src[n].sym] = AllocOr(@, AllocAnd(t.cond[n], Sym("m")))] ELSE t
Finalize(src, t, n, modules) ==
  SelectChoice(src, CollectFrom(src, FinalizeBelow(src, t, n, modules), n, 1), n)

-----------------------------------------------------------------------------
(* What the other files of kconfig see: the finished tree, and the         *)
(* properties of each symbol in the order of the file.                     *)

PropsOf(src, t, s, type) ==
  LET walk[n \in Entries(src)] ==
        IF n = 0 THEN <<>>
        ELSE walk[n - 1] \o (IF src[n].sym = s
                             THEN LET IsOf(p) == p.type = type
                                  IN  SelectSeq(t.props[n], IsOf) ELSE <<>>)
  IN  walk[Len(src)]

Finished(src, t, modules) ==
  [src      |-> src,
   modules  |-> modules,
   list     |-> t.list, parent |-> t.parent, cond |-> t.cond, dep |-> t.dep,
   props    |-> t.props,
   prompts  |-> [s \in Symbols |-> SelectIn({n \in DOMAIN src : src[n].sym = s /\ src[n].prompt})],
   defaults |-> [s \in Symbols |-> PropsOf(src, t, s, "default")],
   ranges   |-> [s \in Symbols |-> PropsOf(src, t, s, "range")],
   dir      |-> t.dir, rev |-> t.rev, imp |-> t.imp,
   members  |-> t.members,
   choiceOf |-> [s \in Symbols |->
                   IF \E c \in Symbols : \E k \in DOMAIN t.members[c] : t.members[c][k] = s
                   THEN CHOOSE c \in Symbols : \E k \in DOMAIN t.members[c] : t.members[c][k] = s
                   ELSE NoSym],
   auto     |-> {s \in Symbols : PropsOf(src, t, s, "auto") # <<>>},
   choices  |-> {s \in Symbols : IsChoice(src, s)},
   optional |-> {s \in Symbols : \E n \in DOMAIN src : src[n].sym = s /\ src[n].optional},
   used     |-> {s \in Symbols : \E n \in DOMAIN src : src[n].sym = s}]

Graph(src, modules) == Finished(src, Finalize(src, Parsed(src), 0, modules), modules)
=============================================================================
