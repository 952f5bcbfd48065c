--------------------------- MODULE MC_KconfigConf ----------------------------
(* Small Kconfig files with the cases that conf treats differently: menus     *)
(* with new symbols, choices, tristates, ranges and names that have gone.     *)
EXTENDS KconfigConf

MCSymbols == {"A", "B", "C", "X", "Y", "M", "T", "U", "D", "N", "gone"}
MCOrder == <<"T", "A", "N", "D", "X", "B", "M", "U", "C", "Y">>
MCWords == {"1", "3"}
MCLiterals == {"y", "m", "n", "1", "2", "3"}
MCType ==
  [s \in MCSymbols \cup MCLiterals |->
     CASE s \in {"A", "B", "C", "X", "Y", "M"} -> "bool"
       [] s \in {"T", "U", "D"} -> "tristate"
       [] s = "N" -> "int"
       [] OTHER -> "unknown"]
Texts_ == <<"", "1", "2", "3", "m", "n", "y">>
MCRank == [w \in {Texts_[i] : i \in 1 .. 7} |-> CHOOSE i \in 1 .. 7 : Texts_[i] = w]
MCNumeral ==
  [t \in {"int", "hex", "string", "unknown"} |->
     [w \in DOMAIN MCRank |-> CASE w = "1" -> 1 [] w = "2" -> 2 [] w = "3" -> 3 [] OTHER -> 1000]]
MCExprs == TreesUpTo(7)
MCDigits == [t \in {"int", "hex"} |-> [k \in 0 .. 3 |-> IF k = 0 THEN "" ELSE Texts_[k + 1]]]
MCPrefixed == [w \in {} |-> ""]

Prop(t, v, c) == [type |-> t, value |-> v, cond |-> c]
Default(v, c) == Prop("default", v, c)
Selects(s, c) == Prop("select", Sym(s), c)
Implies(s, c) == Prop("imply", Sym(s), c)
Range_(l, h, c) == [type |-> "range", low |-> l, high |-> h, cond |-> c]
Entry(kind, sym, parent, prompt, dep, cond, props) ==
  [kind |-> kind, sym |-> sym, parent |-> parent, prompt |-> prompt, dep |-> dep, cond |-> cond,
   props |-> props, visibility |-> NoExpr, optional |-> FALSE]
Config(s, parent, dep, props) == Entry("config", s, parent, TRUE, dep, NoExpr, props)
Hidden(s, parent, dep, props) == Entry("config", s, parent, FALSE, dep, NoExpr, props)
Menu(parent, dep) == Entry("menu", NoSym, parent, TRUE, dep, NoExpr, <<>>)
ChoiceOf(s, props) == Entry("choice", s, 0, TRUE, NoExpr, NoExpr, props)
New(config) == [config |-> config, auto |-> NoFile]
After(auto, config) == [config |-> config, auto |-> auto]
Kconfig(modules, src) == [src |-> src, modules |-> modules]

\* A menu that appears with an answer, a symbol before it that a later answer
\* makes appear, and what a symbol selects.
MenuFile == Kconfig("n", <<
  Config("B", 0, Sym("A"), <<>>),
  Config("X", 0, NoExpr, <<Default(Sym("y"), NoExpr)>>),
  Menu(0, Sym("X")),
  Config("A", 3, NoExpr, <<Selects("Y", NoExpr)>>),
  Hidden("Y", 0, NoExpr, <<>>)>>)
MenuStarts ==
  {New(NoFile), New(<<Line("X", NotSet), Line("gone", "y")>>),
   After(<<Line("gone", "y"), Line("A", "y"), Line("Y", "y")>>, <<Line("X", "y"), Line("Y", "y")>>)}

\* A choice one of whose members appears with another symbol.
ChoiceFile == Kconfig("n", <<
  Config("X", 0, NoExpr, <<>>),
  ChoiceOf("C", <<Default(Sym("B"), NoExpr)>>),
  Config("A", 2, NoExpr, <<>>),
  Config("B", 2, Sym("X"), <<>>)>>)
ChoiceStarts ==
  {New(<<Line("X", "y"), Line("A", "y"), Line("B", "y")>>), New(<<Line("A", "y")>>)}

\* Numbers whose range depends on a symbol.
RangeFile == Kconfig("n", <<
  Config("X", 0, NoExpr, <<>>),
  Config("N", 0, NoExpr, <<Default(Sym("3"), NoExpr), Range_("1", "2", Sym("X")), Range_("1", "3", NoExpr)>>)>>)
RangeStarts ==
  {After(<<Line("N", "3")>>, <<Line("X", "y"), Line("N", "3")>>), New(<<Line("N", "2"), Line("X", "n")>>)}

\* Tristates, and a choice with the modes m and y.
ModulesFile == Kconfig("M", <<
  Config("M", 0, NoExpr, <<>>),
  ChoiceOf("D", <<>>),
  Config("T", 2, NoExpr, <<>>),
  Config("U", 2, NoExpr, <<>>)>>)
ModulesStarts ==
  {New(<<Line("M", "y"), Line("T", "m"), Line("U", "y")>>),
   After(<<Line("T", "y")>>, <<Line("M", "y"), Line("T", "y")>>)}

\* What is implied, and a choice in a menu with a symbol below a member.
ImplyFile == Kconfig("n", <<
  Config("X", 0, NoExpr, <<Implies("Y", NoExpr)>>),
  ChoiceOf("C", <<Default(Sym("B"), Sym("Y"))>>),
  Config("A", 2, NoExpr, <<>>),
  Config("B", 2, NoExpr, <<>>),
  Config("Y", 0, NoExpr, <<>>)>>)
ImplyStarts ==
  {New(<<>>), New(<<Line("B", "y"), Line("X", "y"), Line("Y", "n")>>)}

MCKconfigs ==
  [menu |-> MenuFile, choice |-> ChoiceFile, range |-> RangeFile, modules |-> ModulesFile,
   imply |-> ImplyFile]
MCStarts ==
  [menu |-> MenuStarts, choice |-> ChoiceStarts, range |-> RangeStarts, modules |-> ModulesStarts,
   imply |-> ImplyStarts]
Saving == {"savedefconfig", "defconfig"}
MCCommands ==
  [menu |-> {"oldaskconfig", "syncconfig", "allyesconfig", "listnewconfig"},
   choice |-> {"oldconfig", "randconfig", "allnoconfig"} \cup Saving,
   range |-> {"oldconfig", "syncconfig", "olddefconfig"} \cup Saving,
   modules |-> {"oldconfig", "allmodconfig", "alldefconfig", "savedefconfig"},
   imply |-> {"oldaskconfig", "allyesconfig"} \cup Saving]
=============================================================================
