---------------------------- MODULE KconfigExpr ----------------------------
(***************************************************************************)
(* Dependency expressions of kconfig (support/kconfig/expr.c): their value *)
(* and the rewriting that menu_finalize applies to them.                   *)
(*                                                                         *)
(* A tree is a record: "sym" names a symbol a; a comparison has symbols a  *)
(* and b; "not" has a subtree l; "and", "or" have subtrees l and r.  The   *)
(* functions of the source change trees in place; here they return them.   *)
(***************************************************************************)
EXTENDS Integers, Sequences

CONSTANTS
  Type,       \* Type[s]: "bool", "tristate", "int", "hex", "string" or "unknown"
  Literals,   \* the symbols with SYMBOL_CONST: y, m, n and quoted words
  Rank,       \* the order of strcmp() on strings
  Numeral,    \* Numeral[t][w]: the number that w is for strtoll() in the base of
              \*   type t, or NaN when it is not one
  NaN,
  WordSize,   \* the number of values of unsigned long long
  Exprs       \* the expressions: all trees, or for TLC those of a bounded height

Logical == {"bool", "tristate"}
TriWords == {"y", "m", "n"}
Relations == {"=", "!=", "<", "<=", ">", ">="}
Junctions == {"and", "or"}

\* The names are all strings that an expression can mention and a symbol can have
\* as its value; y, m and n are no numbers.
ASSUME WordsAssumption ==
  /\ TriWords \subseteq Literals
  /\ Literals \subseteq DOMAIN Type \cap DOMAIN Rank
  /\ \A w \in Literals : Type[w] \notin Logical
  /\ \A v, w \in DOMAIN Rank : Rank[v] \in Int /\ (Rank[v] = Rank[w] => v = w)
  /\ \A s \in DOMAIN Type : Type[s] \notin Logical => \A w \in DOMAIN Rank : Numeral[Type[s]][w] \in Int
  /\ \A w \in TriWords : Numeral[Type[w]][w] = NaN
  /\ WordSize \in Nat \ {0}

-----------------------------------------------------------------------------
(* Construction. *)

NoExpr == [op |-> "null"]
Sym(s) == [op |-> "sym", a |-> s]
Not(e) == [op |-> "not", l |-> e]
Comp(r, s, t) == [op |-> r, a |-> s, b |-> t]
Two(j, e, f) == [op |-> j, l |-> e, r |-> f]

\* The expressions of a height up to h.
Leaves == {Sym(s) : s \in DOMAIN Type} \cup [op : Relations, a : DOMAIN Type, b : DOMAIN Type]
Over(E) == Leaves \cup [op : {"not"}, l : E] \cup [op : Junctions, l : E, r : E]
TreesUpTo(h) ==
  LET trees[n \in 0 .. h] == IF n = 0 THEN Leaves ELSE Over(trees[n - 1])
  IN  trees[h] \cup {NoExpr}

\* expr_alloc_and and expr_alloc_or take NULL for "no condition".
AllocTwo(j, e, f) ==
  IF e = NoExpr THEN f ELSE IF f = NoExpr THEN e ELSE Two(j, e, f)
AllocAnd(e, f) == AllocTwo("and", e, f)
AllocOr(e, f) == AllocTwo("or", e, f)

-----------------------------------------------------------------------------
(* Values.  env[s] is 0, 1 or 2 (no, mod, yes) for a bool or tristate and  *)
(* a string for the other symbols; a literal is its own string.            *)

TriName == <<"n", "m", "y">>
TriOf(w) == CASE w = "y" -> 2 [] w = "m" -> 1 [] OTHER -> 0

SymTri(env, s) ==
  IF s \in Literals THEN TriOf(s) ELSE IF Type[s] \in Logical THEN env[s] ELSE 0
SymString(env, s) ==
  IF s \in Literals THEN s ELSE IF Type[s] \in Logical THEN TriName[env[s] + 1] ELSE env[s]

\* expr_parse_string
AsText == [kind |-> "string", val |-> 0]
ParseString(w, t) ==
  CASE t \in Logical -> [kind |-> "signed", val |-> IF w \in TriWords THEN TriOf(w) ELSE -1]
    [] t \notin Logical /\ Numeral[t][w] = NaN -> AsText
    [] OTHER -> [kind |-> IF t = "hex" THEN "unsigned" ELSE "signed", val |-> Numeral[t][w]]

\* The sign of the difference that the comparison looks at.
Subtract(v, w, p, q) ==
  CASE "string" \in {p.kind, q.kind}                       -> Rank[v] - Rank[w]
    [] p.kind = "signed" /\ q.kind = "signed"              -> p.val - q.val
    [] OTHER                                               -> (p.val % WordSize) - (q.val % WordSize)
SubtractTexts(v, w, t, u) ==
  IF t = "string" /\ u = "string" THEN Rank[v] - Rank[w]
  ELSE Subtract(v, w, ParseString(v, t), ParseString(w, u))
Difference(env, s, t) == SubtractTexts(SymString(env, s), SymString(env, t), Type[s], Type[t])

Holds(r, d) ==
  CASE r = "="  -> d = 0
    [] r = "!=" -> d # 0
    [] r = "<"  -> d < 0
    [] r = "<=" -> d =< 0
    [] r = ">"  -> d > 0
    [] r = ">=" -> d >= 0

Lesser(v, w) == IF v < w THEN v ELSE w
Greater(v, w) == IF v < w THEN w ELSE v

\* The value of e, from the values of its parts.
ValueOf(env, value, e) ==
  CASE e.op = "null" -> 2
    [] e.op = "sym"  -> SymTri(env, e.a)
    [] e.op = "not"  -> 2 - value[e.l]
    [] e.op = "and"  -> Lesser(value[e.l], value[e.r])
    [] e.op = "or"   -> Greater(value[e.l], value[e.r])
    [] e.op \in Relations -> IF Holds(e.op, Difference(env, e.a, e.b)) THEN 2 ELSE 0

CalcValue(env, expr) ==
  LET value[e \in Exprs] == ValueOf(env, value, e) IN value[expr]

-----------------------------------------------------------------------------
(* What an expression mentions. *)

ContainsSymbol(expr, s) ==
  LET contains[e \in Exprs] ==
        \/ e.op \in Junctions /\ (contains[e.l] \/ contains[e.r])
        \/ e.op = "not" /\ contains[e.l]
        \/ e.op = "sym" /\ e.a = s
        \/ e.op \in Relations /\ s \in {e.a, e.b}
  IN  contains[expr]

\* Mutant: takes a disjunction for a conjunction.
DependsSymbol_Or(expr, s) ==
  LET depends[e \in Exprs] ==
        \/ e.op \in Junctions /\ (depends[e.l] \/ depends[e.r])
        \/ e.op = "sym" /\ e.a = s
        \/ e.op = "=" /\ e.a = s /\ e.b \in {"y", "m"}
        \/ e.op = "!=" /\ e.a = s /\ e.b = "n"
  IN  depends[expr]

\* Whether the expression can only be true when s is not n.
DependsSymbol(expr, s) ==
  LET depends[e \in Exprs] ==
        \/ e.op = "and" /\ (depends[e.l] \/ depends[e.r])
        \/ e.op = "sym" /\ e.a = s
        \/ e.op = "=" /\ e.a = s /\ e.b \in {"y", "m"}
        \/ e.op = "!=" /\ e.a = s /\ e.b = "n"
  IN  depends[expr]

-----------------------------------------------------------------------------
(* Pushing negations down and undoing comparisons of booleans.             *)

\* Mutant: the opposite of < leaves out equality.
Opposite_Strict(r) ==
  CASE r = "=" -> "!=" [] r = "!=" -> "=" [] r = "<=" -> ">" [] r = ">=" -> "<"
    [] r = "<" -> ">" [] r = ">" -> "<="

Opposite(r) ==
  CASE r = "=" -> "!=" [] r = "!=" -> "=" [] r = "<=" -> ">" [] r = ">=" -> "<"
    [] r = "<" -> ">=" [] r = ">" -> "<="

\* A comparison whose left side is a boolean.
BoolTest(e) ==
  CASE e.op = "="  /\ e.b = "n" -> Not(Sym(e.a))
    [] e.op = "="  /\ e.b = "m" -> Sym("n")
    [] e.op = "="  /\ e.b = "y" -> Sym(e.a)
    [] e.op = "!=" /\ e.b = "n" -> Sym(e.a)
    [] e.op = "!=" /\ e.b = "m" -> Sym("y")
    [] e.op = "!=" /\ e.b = "y" -> Not(Sym(e.a))
    [] OTHER -> e

\* transform is the function below.
TransformNot(transform, f) ==
  CASE f.op = "not" -> transform[f.l]
    [] f.op \in Relations -> [f EXCEPT !.op = Opposite(f.op)]
    [] f.op = "or"  -> transform[Two("and", Not(f.l), Not(f.r))]
    [] f.op = "and" -> transform[Two("or", Not(f.l), Not(f.r))]
    [] f.op = "sym" /\ f.a = "y" -> Sym("n")
    [] f.op = "sym" /\ f.a = "m" -> Sym("m")
    [] f.op = "sym" /\ f.a = "n" -> Sym("y")
    [] OTHER -> Not(f)

TransformOf(transform, e) ==
  CASE e.op \in Junctions -> Two(e.op, transform[e.l], transform[e.r])
    [] e.op = "not" -> TransformNot(transform, transform[e.l])
    [] e.op \in {"=", "!="} /\ Type[e.a] = "bool" -> BoolTest(e)
    [] OTHER -> e
Transform[e \in Exprs] == TransformOf(Transform, e)

\* For a property of a symbol that is no tristate, where any value but n counts.
TransBoolOf(bool, e) ==
  CASE e.op \in Junctions -> Two(e.op, bool[e.l], bool[e.r])
    [] e.op = "not" -> Not(bool[e.l])
    [] e.op = "!=" /\ Type[e.a] = "tristate" /\ e.b = "n" -> Sym(e.a)
    [] OTHER -> e
TransBool[e \in Exprs] == TransBoolOf(TransBool, e)

Dual(j) == IF j = "and" THEN "or" ELSE "and"

\* Makes the comparison "= s" or "!= s" of a whole expression one of its parts.
CompareJunction(compared, e, s) ==
  CASE s = "y" -> Two(e.op, compared[<<e.l, "=">>], compared[<<e.r, "=">>])
    [] s = "n" -> Two(Dual(e.op), compared[<<e.l, "=">>], compared[<<e.r, "=">>])
    [] OTHER -> e
CompareOf(compared, e, r, s) ==
  CASE e.op = "null" -> IF r = "!=" THEN Not(Sym(s)) ELSE Sym(s)
    [] e.op \in Junctions /\ r = "="  -> CompareJunction(compared, e, s)
    [] e.op \in Junctions /\ r = "!=" -> Not(CompareJunction(compared, e, s))
    [] e.op = "not" -> compared[<<e.l, Opposite(r)>>]
    [] e.op \in Relations ->
         IF s = "m" THEN Sym(IF r = "=" THEN "n" ELSE "y")
         ELSE IF (r = "=") = (s = "y") THEN e ELSE Not(e)
    [] e.op = "sym" -> Comp(r, e.a, s)
TransCompare(expr, rel, s) ==
  LET compared[p \in Exprs \X {"=", "!="}] == CompareOf(compared, p[1], p[2], s)
  IN  compared[<<expr, rel>>]

-----------------------------------------------------------------------------
(* Removing what is neutral or absorbing, and what occurs twice.           *)

Neutral(j) == IF j = "and" THEN "y" ELSE "n"
Absorbing(j) == IF j = "and" THEN "n" ELSE "y"

Reduced(j, f, g) ==
  LET absorbing == Sym(Absorbing(j))
      neutral == Sym(Neutral(j))
  IN  CASE absorbing \in {f, g} -> absorbing
        [] f = neutral /\ g # absorbing -> g
        [] g = neutral /\ f \notin {absorbing, neutral} -> f
        [] {f, g} \cap {absorbing, neutral} = {} -> Two(j, f, g)
EliminateYN[e \in Exprs] ==
  IF e.op \in Junctions THEN Reduced(e.op, EliminateYN[e.l], EliminateYN[e.r]) ELSE e

\* The operands of a chain of one junction, from left to right, and the same
\* chain with other operands.
Operands(j, chain) ==
  LET operands[e \in Exprs] ==
        IF e.op = j THEN operands[e.l] \o operands[e.r] ELSE <<e>>
  IN  operands[chain]

\* A part of the chain, and how many operands are before it.
Places(j, ops) ==
  {p \in Exprs \X (0 .. Len(ops)) : p[2] + Len(Operands(j, p[1])) =< Len(ops)}
WithOperands(j, chain, ops) ==
  LET put[p \in Places(j, ops)] ==
        IF p[1].op = j
        THEN Two(j, put[<<p[1].l, p[2]>>], put[<<p[1].r, p[2] + Len(Operands(j, p[1].l))>>])
        ELSE ops[p[2] + 1]
  IN  put[<<chain, 0>>]

\* Pairs of positions in the order in which two nested walks visit them.
Pairs(m, n) == [k \in 1 .. m * n |-> <<((k - 1) \div n) + 1, ((k - 1) % n) + 1>>]

\* __expr_eliminate_eq: operands that two chains share become neutral in both.
\* eq is ExprEq, on the operands of the two.
Strike(eq, j, st, p) ==
  LET x == st[1][p[1]]
      y == st[2][p[2]]
      constant == x = y /\ x \in {Sym("y"), Sym("n")}
      neutral == Sym(Neutral(j))
  IN  IF ~constant /\ eq[<<x, y>>]
      THEN <<[st[1] EXCEPT ![p[1]] = neutral], [st[2] EXCEPT ![p[2]] = neutral]>> ELSE st

StrikeAll(eq, j, st, pairs) ==
  LET struck[k \in 0 .. Len(pairs)] ==
        IF k = 0 THEN st ELSE Strike(eq, j, struck[k - 1], pairs[k])
  IN  struck[Len(pairs)]

WithBoth(j, e, f, st) == <<WithOperands(j, e, st[1]), WithOperands(j, f, st[2])>>
StrikeCommon(eq, j, e, f) ==
  LET st == <<Operands(j, e), Operands(j, f)>>
  IN  WithBoth(j, e, f, StrikeAll(eq, j, st, Pairs(Len(st[1]), Len(st[2]))))

StrikeIf(eq, j, p) == IF j \in Junctions THEN StrikeCommon(eq, j, p[1], p[2]) ELSE p
StrikeAgain(eq, p) == IF p[1].op # p[2].op THEN StrikeIf(eq, p[2].op, p) ELSE p
TidyBoth(p) == <<EliminateYN[p[1]], EliminateYN[p[2]]>>
EliminateEq(eq, e, f) ==
  IF NoExpr \in {e, f} THEN <<e, f>>
  ELSE TidyBoth(StrikeAgain(eq, StrikeIf(eq, e.op, <<e, f>>)))

SameSymbol(p) == p[1] = p[2] /\ p[1].op = "sym"
EqOf(eq, e, f) ==
  /\ e.op = f.op
  /\ CASE e.op \in Junctions -> SameSymbol(EliminateEq(eq, e, f))
       [] e.op = "not" -> eq[<<e.l, f.l>>]
       [] OTHER -> e = f
ExprEq[p \in Exprs \X Exprs] == EqOf(ExprEq, p[1], p[2])

-----------------------------------------------------------------------------
(* expr_join_or and expr_join_and: one operand for two, or NoExpr.         *)

\* The symbol that an operand is about; the second operand may not be the
\* negation of a comparison.
Subject(e, negated) ==
  CASE e.op \in {"=", "!=", "sym"} -> e.a
    [] e.op = "not" /\ e.l.op \in negated -> e.l.a
    [] OTHER -> "none"

SameSubject(e, f) ==
  LET s == Subject(e, {"=", "!=", "sym"})
  IN  s # "none" /\ s = Subject(f, {"sym"}) /\ Type[s] \in Logical

Third(S) == CHOOSE w \in TriWords : w \notin S
Distinct(e, f) == e.b # f.b /\ {e.b, f.b} \subseteq TriWords

\* One of the operands is the symbol itself, the other compares it.
Guarded(e, f, r, w) ==
  \/ e.op = "sym" /\ f.op = r /\ f.b = w
  \/ f.op = "sym" /\ e.op = r /\ e.b = w

JoinOr(e, f) ==
  LET s == Subject(e, {"=", "!=", "sym"}) IN
  CASE Type[s] = "tristate" /\ e.op = "=" /\ f.op = "=" /\ Distinct(e, f)
         -> Comp("!=", s, Third({e.b, f.b}))
    [] Type[s] = "bool" /\ Not(Sym(s)) \in {e, f} /\ Sym(s) \in {e, f}
         -> Sym("y")
    [] OTHER -> NoExpr

JoinAnd(e, f) ==
  LET s == Subject(e, {"=", "!=", "sym"})
      tristate == Type[s] = "tristate"
  IN
  CASE Guarded(e, f, "=", "y")  -> Comp("=", s, "y")
    [] Guarded(e, f, "!=", "n") -> Sym(s)
    [] Guarded(e, f, "!=", "m") -> Comp("=", s, "y")
    [] tristate /\ {e.op, f.op} = {"=", "!="} /\ {e.b, f.b} \subseteq Literals
         -> IF e.b = f.b THEN Sym("n") ELSE Comp("=", s, IF e.op = "=" THEN e.b ELSE f.b)
    [] tristate /\ e.op = "!=" /\ f.op = "!=" /\ Distinct(e, f)
         -> Comp("=", s, Third({e.b, f.b}))
    [] OTHER -> NoExpr

Join(j, e, f) ==
  IF ExprEq[<<e, f>>] THEN e
  ELSE IF ~SameSubject(e, f) THEN NoExpr
  ELSE IF j = "or" THEN JoinOr(e, f) ELSE JoinAnd(e, f)

(* expr_eliminate_dups1 walks one tree against itself: each operand is     *)
(* compared with each other one, after its own operands.  "count" is       *)
(* trans_count.                                                            *)
\* dups is that walk, on the operands.
Inner(dups, x) == IF x.op \in Junctions THEN dups[x] ELSE [expr |-> x, count |-> 0]
PutJoined(j, st, p, x, joined) ==
  IF joined = NoExpr
  THEN [ops |-> [st.ops EXCEPT ![p[1]] = x.expr], count |-> st.count + x.count]
  ELSE [ops |-> [st.ops EXCEPT ![p[1]] = Sym(Neutral(j)), ![p[2]] = joined],
        count |-> st.count + x.count + 1]
Meet(j, st, p, x) == PutJoined(j, st, p, x, Join(j, x.expr, st.ops[p[2]]))
Visit(dups, j, st, p) ==
  IF p[1] = p[2] THEN st ELSE Meet(j, st, p, Inner(dups, st.ops[p[1]]))
VisitPairs(dups, j, ops, pairs) ==
  LET visited[k \in 0 .. Len(pairs)] ==
        IF k = 0 THEN [ops |-> ops, count |-> 0] ELSE Visit(dups, j, visited[k - 1], pairs[k])
  IN  visited[Len(pairs)]
Rebuilt(j, e, st) == [expr |-> WithOperands(j, e, st.ops), count |-> st.count]
VisitOperands(dups, j, e, ops) ==
  Rebuilt(j, e, VisitPairs(dups, j, ops, Pairs(Len(ops), Len(ops))))
EliminateDups1[e \in {f \in Exprs : f.op \in Junctions}] ==
  VisitOperands(EliminateDups1, e.op, e, Operands(e.op, e))

Turned(d) ==
  [expr |-> IF d.count > 0 THEN EliminateYN[d.expr] ELSE d.expr, again |-> d.count > 0]

\* One turn of the loop of expr_eliminate_dups.
DupsTurn(e) ==
  IF e.op \in Junctions THEN Turned(EliminateDups1[e]) ELSE [expr |-> e, again |-> FALSE]

TurnAgain(dups, t) == IF t.again THEN dups[t.expr] ELSE t.expr
EliminateDups[e \in Exprs] == TurnAgain(EliminateDups, DupsTurn(e))

-----------------------------------------------------------------------------
(* What menu.c asks of expressions. *)

\* 'm' means "as a module", which needs the symbol with "option modules".
RewriteMOf(rewritten, e, modules) ==
  CASE e.op = "not" -> Not(rewritten[e.l])
    [] e.op \in Junctions -> Two(e.op, rewritten[e.l], rewritten[e.r])
    [] e = Sym("m") -> Two("and", e, Sym(modules))
    [] OTHER -> e
RewriteM(expr, modules) ==
  LET rewritten[e \in Exprs] == RewriteMOf(rewritten, e, modules) IN rewritten[expr]

\* Where something with condition e is visible, so is something with condition f.
IsTrue(e) == EliminateDups[Transform[TransCompare(e, "!=", "n")]]
IsSuperset(e, f) == EliminateEq(ExprEq, IsTrue(e), IsTrue(f))[2] \in {NoExpr, Sym("y")}

\* Whether an entry with condition e, right after an entry for the symbol s with
\* condition base, belongs to the submenu of s.
BelongsTo(e, s, base) ==
  ContainsSymbol(e, s) /\ (DependsSymbol(e, s) \/ IsSuperset(e, base))
=============================================================================
