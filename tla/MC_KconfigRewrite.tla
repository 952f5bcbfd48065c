------------------------- MODULE MC_KconfigRewrite --------------------------
(* A bool A, a tristate T and a number N, which is compared with "2".        *)
EXTENDS KconfigRewrite

Symbols == {"A", "T", "N"}
MCLiterals == {"y", "m", "n", "2"}
MCType == [s \in Symbols \cup MCLiterals |->
             CASE s = "A" -> "bool" [] s = "T" -> "tristate" [] s = "N" -> "int"
               [] OTHER -> "unknown"]
Strings_ == <<"1", "10", "2", "m", "n", "y">>
MCRank == [w \in {Strings_[i] : i \in 1 .. 6} |-> CHOOSE i \in 1 .. 6 : Strings_[i] = w]
MCNumeral ==
  [t \in {"int", "hex", "string", "unknown"} |->
     [w \in DOMAIN MCRank |->
        CASE w = "1" -> 1 [] w = "10" -> 10 [] w = "2" -> 2 [] OTHER -> 1000]]

MCExprs == TreesUpTo(7)

MCEnvs ==
  {[s \in Symbols |-> CASE s = "A" -> a [] s = "T" -> t [] s = "N" -> n] :
     a \in {0, 2}, t \in {0, 1, 2}, n \in {"1", "2", "10"}}

Atoms ==
  {Sym(s) : s \in {"A", "T", "m", "y"}} \cup
  {Comp(r, s, t) : r \in {"=", "!="}, s \in {"A", "T"}, t \in {"y", "m", "n"}} \cup
  {Comp("<", "N", "2"), Comp(">=", "N", "2")}
Terms == Atoms \cup {Not(e) : e \in Atoms}
Pairs2 == {Two(j, e, f) : j \in {"and", "or"}, e \in Terms, f \in Terms}
Few == {Sym("A"), Sym("T"), Comp("=", "T", "m"), Comp("!=", "T", "n"), Not(Sym("A"))}
FewPairs == {Two(j, e, f) : j \in {"and", "or"}, e \in Few, f \in Few}
Nested == {Two(j, Not(e), f) : j \in {"and", "or"}, e \in FewPairs, f \in FewPairs}

Case(owner, above, base, parent, d, c) ==
  [owner |-> owner, above |-> above, base |-> base, parent |-> parent, dep |-> d, cond |-> c]
\* Conditions with a negated tristate, of the entry and of the symbol before it.
MCNegatedCases ==
  {Case(o, s, b, p, d, Two(j, e, Not(Sym("T")))) :
     o \in {"bool", "tristate"}, s \in {"A", "T"},
     b \in {Sym("T"), Not(Sym("T")), Comp("=", "T", "n"), Comp("<", "N", "2")},
     p \in {NoExpr, Not(Sym("T"))}, d \in {NoExpr, Sym("A")},
     j \in {"and", "or"}, e \in Few \cup {Two("or", Sym("A"), Comp("<", "N", "2"))}}
MCCases ==
  {Case("tristate", "A", NoExpr, NoExpr, NoExpr, e) : e \in Pairs2 \cup Nested} \cup
  {Case("bool", "T", NoExpr, NoExpr, e, f) : e \in FewPairs, f \in FewPairs} \cup
  {Case(o, s, NoExpr, p, e, f) : o \in {"bool", "tristate"}, s \in {"A", "T"},
                               p \in Few \cup FewPairs, e \in Few \cup {NoExpr}, f \in Few} \cup
  {Case("bool", s, b, p, NoExpr, f) : s \in {"A", "T"}, p \in {NoExpr, Comp("<", "N", "2")},
                                    b \in Few, f \in Few \cup FewPairs} \cup
  MCNegatedCases
=============================================================================
