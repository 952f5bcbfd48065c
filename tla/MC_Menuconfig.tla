---------------------------- MODULE MC_Menuconfig ----------------------------
(* Small Kconfig files with what menuconfig treats differently: menus in      *)
(* menus, a menuconfig, a comment, numbers, a choice with a symbol below one  *)
(* of its members, and tristates.                                             *)
EXTENDS Mconf

MCSymbols == {"A", "B", "C", "X", "Y", "M", "T", "U", "D", "N", "gone"}
MCOrder == <<"T", "A", "N", "D", "X", "B", "M", "U", "C", "Y">>
MCAlphabet == <<"A", "B", "M", "N", "T", "U", "X", "Y">>
MCWords == {"1", "3"}
MCLiterals == {"y", "m", "n", "1", "2", "3"}
MCType ==
  [s \in MCSymbols \cup MCLiterals |->
     CASE s \in {"A", "B", "C", "X", "Y", "M"} -> "bool"
       [] s \in {"T", "U", "D"} -> "tristate"
       [] s = "N" -> "int"
       [] OTHER -> "unknown"]
Texts_ == <<"", "1", "2", "3", "m", "n", "y">>
MCRank == [w \in {Texts_[i] : i \in 1 .. 7} |-> CHOOSE i \in 1 .. 7 : Texts_[i] = w]
MCNumeral ==
  [t \in {"int", "hex", "string", "unknown"} |->
     [w \in DOMAIN MCRank |-> CASE w = "1" -> 1 [] w = "2" -> 2 [] w = "3" -> 3 [] OTHER -> 1000]]
MCExprs == TreesUpTo(7)
MCDigits == [t \in {"int", "hex"} |-> [k \in 0 .. 3 |-> IF k = 0 THEN "" ELSE Texts_[k + 1]]]
MCPrefixed == [w \in {} |-> ""]

Prop(t, v, c) == [type |-> t, value |-> v, cond |-> c]
DefaultOf(v, c) == Prop("default", v, c)
Range_(l, h, c) == [type |-> "range", low |-> l, high |-> h, cond |-> c]
Node(kind, sym, parent, dep, vis, props) ==
  [kind |-> kind, sym |-> sym, parent |-> parent, prompt |-> TRUE, dep |-> dep, cond |-> NoExpr,
   props |-> props, visibility |-> vis, optional |-> FALSE]
Sym_(s, parent, dep, props) == Node("config", s, parent, dep, NoExpr, props)
Menuconfig(s, parent, dep) == Node("menuconfig", s, parent, dep, NoExpr, <<>>)
Menu_(parent, dep, vis) == Node("menu", NoSym, parent, dep, vis, <<>>)
Comment(parent, dep) == Node("comment", NoSym, parent, dep, NoExpr, <<>>)
ChoiceOf(s, props) == Node("choice", s, 0, NoExpr, NoExpr, props)
Kconfig(modules, src) == [src |-> src, modules |-> modules]

\* A menu that appears with X, with a number and a menuconfig in it; its
\* entries are hidden without A.
MenuFile == Kconfig("n", <<
  Sym_("X", 0, NoExpr, <<DefaultOf(Sym("y"), NoExpr)>>),
  Menu_(0, Sym("X"), Sym("A")),
  Sym_("N", 2, NoExpr, <<DefaultOf(Sym("3"), NoExpr), Range_("1", "2", Sym("X"))>>),
  Menuconfig("B", 2, NoExpr),
  Sym_("Y", 2, Sym("B"), <<>>),
  Sym_("A", 0, NoExpr, <<DefaultOf(Sym("y"), NoExpr)>>)>>)
MenuStarts == {NoFile, <<Line("X", "y"), Line("N", "1"), Line("B", NotSet), Line("A", "y")>>}

\* A choice, a symbol below one of its members, and a comment in it.
ChoiceFile == Kconfig("n", <<
  ChoiceOf("C", <<DefaultOf(Sym("B"), NoExpr)>>),
  Sym_("A", 1, NoExpr, <<>>),
  Sym_("Y", 1, Sym("A"), <<>>),
  Sym_("B", 1, Sym("X"), <<>>),
  Comment(1, NoExpr),
  Sym_("X", 0, NoExpr, <<>>)>>)
ChoiceStarts == {<<Line("A", "y"), Line("Y", "y"), Line("X", NotSet)>>, <<Line("gone", "y")>>}

\* Tristates, and a choice with the modes m and y.
ModulesFile == Kconfig("M", <<
  Sym_("M", 0, NoExpr, <<>>),
  ChoiceOf("D", <<>>),
  Sym_("T", 2, NoExpr, <<>>),
  Sym_("U", 2, NoExpr, <<>>)>>)
ModulesStarts == {<<Line("M", "y"), Line("T", "m"), Line("U", "m")>>}

MCKconfigs == [menu |-> MenuFile, choice |-> ChoiceFile, modules |-> ModulesFile]
MCStarts == [menu |-> MenuStarts, choice |-> ChoiceStarts, modules |-> ModulesStarts]
MCPatterns ==
  [exact |-> [whole |-> {"Y"}, part |-> {}],
   all |-> [whole |-> {"B", "N"}, part |-> {"A", "B", "N", "T", "U", "X", "Y"}]]
MCNames == {".config", "other"}
MCInterruptible == {"menu", "string", "exit", "save", "written"}
=============================================================================
