-------------------------- MODULE MC_KconfigValues ---------------------------
(* Kconfig files with choices, selects, implies, ranges, modules, menus and   *)
(* recursive dependencies.                                                    *)
EXTENDS KconfigValues

MCSymbols == {"A", "B", "C", "X", "Y", "Z", "T", "U", "D", "M", "N", "L", "H"}
MCOrder == <<"T", "A", "N", "X", "D", "B", "M", "L", "U", "C", "Y", "H", "Z">>
MCWords == {"1", "3", "5", "0x2", "2"}
MCLiterals == {"y", "m", "n", "1", "3", "5", "0x2", "0x4"}
MCType ==
  [s \in MCSymbols \cup MCLiterals |->
     CASE s \in {"A", "B", "C", "X", "Y", "Z", "M"} -> "bool"
       [] s \in {"T", "U", "D"} -> "tristate"
       [] s \in {"N", "L"} -> "int"
       [] s = "H" -> "hex"
       [] OTHER -> "unknown"]
Texts_ == <<"", "0x2", "0x4", "1", "2", "3", "5", "m", "n", "y">>
MCRank == [w \in {Texts_[i] : i \in 1 .. 10} |-> CHOOSE i \in 1 .. 10 : Texts_[i] = w]
MCNumeral ==
  [t \in {"int", "hex", "string", "unknown"} |->
     [w \in DOMAIN MCRank |->
        CASE w = "1" -> 1 [] w = "2" -> 2 [] w = "3" -> 3 [] w = "5" -> 5
          [] w = "0x2" /\ t = "hex" -> 2 [] w = "0x4" /\ t = "hex" -> 4
          [] OTHER -> 1000]]
MCExprs == TreesUpTo(7)
MCDigits == [t \in {"int", "hex"} |->
               IF t = "int" THEN [k \in {0, 1, 2, 3, 5} |->
                                    CASE k = 1 -> "1" [] k = 2 -> "2" [] k = 3 -> "3"
                                      [] k = 5 -> "5" [] OTHER -> ""]
               ELSE [k \in {2, 4} |-> IF k = 2 THEN "0x2" ELSE "0x4"]]
MCPrefixed == [w \in {"2"} |-> "0x2"]

If(c) == Sym(c)
Prop(t, v, c) == [type |-> t, value |-> v, cond |-> c]
Default(v, c) == Prop("default", v, c)
Selects(s, c) == Prop("select", Sym(s), c)
Implies(s, c) == Prop("imply", Sym(s), c)
Range_(l, h, c) == [type |-> "range", low |-> l, high |-> h, cond |-> c]

Entry(kind, sym, parent, prompt, dep, cond, props) ==
  [kind |-> kind, sym |-> sym, parent |-> parent, prompt |-> prompt, dep |-> dep, cond |-> cond,
   props |-> props, visibility |-> NoExpr, optional |-> kind = "config"]
Config(s, parent, dep, props) == Entry("config", s, parent, TRUE, dep, NoExpr, props)
Hidden(s, parent, dep, props) == Entry("config", s, parent, FALSE, dep, NoExpr, props)
VisibleIf(e, v) == [e EXCEPT !.visibility = v]
Kconfig(modules, src) == [src |-> src, modules |-> modules]

ChoiceFile == Kconfig("n", <<
  Config("X", 0, NoExpr, <<>>),
  Entry("choice", "C", 0, TRUE, NoExpr, NoExpr, <<Default(Sym("B"), Sym("X"))>>),
  Config("A", 2, NoExpr, <<>>),
  Config("B", 2, Sym("X"), <<Selects("Y", NoExpr)>>),
  Hidden("Y", 0, NoExpr, <<>>)>>)
SelectFile == Kconfig("n", <<
  Config("Z", 0, NoExpr, <<>>),
  Config("X", 0, NoExpr, <<Selects("Y", Sym("Z")), Implies("B", NoExpr)>>),
  Config("Y", 0, Sym("A"), <<>>),
  Config("A", 0, NoExpr, <<Default(Sym("y"), Not(Sym("Z")))>>),
  Config("B", 0, Two("or", Sym("Z"), Sym("A")), <<>>)>>)
RangeFile == Kconfig("n", <<
  Config("L", 0, NoExpr, <<Default(Sym("1"), NoExpr)>>),
  Config("X", 0, NoExpr, <<>>),
  Config("N", 0, NoExpr, <<Default(Sym("1"), Sym("X")), Range_("L", "5", Sym("X")), Range_("1", "3", NoExpr)>>),
  Config("H", 0, Comp(">", "N", "1"), <<Default(Sym("0x4"), NoExpr), Range_("0x2", "0x4", NoExpr)>>)>>)
ModulesFile == Kconfig("M", <<
  Config("M", 0, NoExpr, <<>>),
  Config("T", 0, NoExpr, <<Default(Sym("m"), NoExpr), Selects("U", NoExpr)>>),
  Config("U", 0, Sym("M"), <<>>),
  Config("A", 0, Comp("=", "T", "y"), <<Default(Sym("T"), NoExpr)>>)>>)
TriChoiceFile == Kconfig("M", <<
  Config("M", 0, NoExpr, <<>>),
  Entry("choice", "D", 0, TRUE, NoExpr, NoExpr, <<>>),
  Config("T", 2, NoExpr, <<>>),
  Config("U", 2, NoExpr, <<>>),
  Config("A", 2, NoExpr, <<>>)>>)
MenuFile == Kconfig("n", <<
  Config("X", 0, NoExpr, <<>>),
  VisibleIf(Entry("menu", NoSym, 0, TRUE, NoExpr, NoExpr, <<>>), Sym("X")),
  Config("A", 2, NoExpr, <<Default(Sym("y"), NoExpr)>>),
  Entry("if", NoSym, 2, FALSE, Sym("A"), NoExpr, <<>>),
  Config("B", 4, NoExpr, <<Default(Sym("y"), NoExpr)>>),
  Hidden("Y", 0, Sym("B"), <<Default(Sym("B"), NoExpr)>>),
  Config("Z", 0, Sym("Y"), <<>>)>>)
LoopFile == Kconfig("n", <<
  Config("A", 0, Sym("B"), <<>>),
  Config("B", 0, NoExpr, <<Default(Sym("X"), NoExpr)>>),
  Config("X", 0, NoExpr, <<Selects("Y", NoExpr)>>),
  Config("Y", 0, NoExpr, <<Selects("B", Sym("A"))>>)>>)
ChoiceLoopFile == Kconfig("n", <<
  Entry("choice", "C", 0, TRUE, NoExpr, NoExpr, <<>>),
  Config("A", 1, NoExpr, <<>>),
  Config("B", 1, Sym("X"), <<>>),
  Config("X", 0, Sym("Y"), <<>>),
  Config("Y", 0, Sym("A"), <<>>),
  Config("Z", 0, Sym("B"), <<>>)>>)
MCKconfigs ==
  {ChoiceFile, SelectFile, RangeFile, ModulesFile, TriChoiceFile, MenuFile, LoopFile, ChoiceLoopFile}
=============================================================================
