--------------------------- MODULE KconfigRewrite ---------------------------
(***************************************************************************)
(* What menu_finalize (support/kconfig/menu.c:296) does to the condition   *)
(* of one property of a menu entry, and how it decides whether the entry   *)
(* belongs to the submenu of the symbol before it.                         *)
(***************************************************************************)
EXTENDS KconfigExpr

CONSTANTS
  Cases,      \* [owner, above, base, parent, dep, cond]: the type of the entry's symbol,
              \*   the symbol before it and the condition of that one's prompt, the
              \*   condition of the enclosing menu, the entry's own dependencies, and
              \*   the condition of its prompt
  Modules,    \* the symbol with "option modules", or n
  Envs        \* the values of the symbols

\* The parts of an expression, itself among them.
Parts[e \in Exprs] ==
  {e} \cup IF e.op = "not" THEN Parts[e.l]
          ELSE IF e.op \in Junctions THEN Parts[e.l] \cup Parts[e.r] ELSE {}

\* No tristate is compared with a literal that is a number: expr_join_and expects
\* such comparisons to be by the words y, m and n (expr.c:463).
IsOrdinary(e) ==
  \A f \in Parts[e] :
    f.op \in {"=", "!="} /\ Type[f.a] = "tristate" /\ f.b \in Literals
      => Numeral[Type[f.b]][f.b] = NaN

\* Only symbols are negated; so are the dependencies that Transform has gone through.
IsNormal(e) == \A f \in Parts[e] : f.op = "not" => f.l.op = "sym"

ASSUME CasesAssumption ==
  \A c \in Cases :
    /\ c.above \in DOMAIN Type
    /\ \A e \in {c.base, c.parent, c.dep, c.cond} : e \in Exprs /\ IsOrdinary(e)
    /\ IsNormal(c.parent)

ASSUME ModulesAssumption == Modules \in DOMAIN Type

ASSUME EnvsAssumption ==
  \A env \in Envs : \A s \in DOMAIN Type \ Literals :
    /\ Type[s] = "bool" => env[s] \in {0, 2}
    /\ Type[s] = "tristate" => env[s] \in 0 .. 2
    /\ Type[s] \notin Logical => env[s] \in DOMAIN Rank

VARIABLES
  input,
  phase,      \* where menu_finalize is
  expr,       \* the expression that it works on
  dep,        \* the dependencies of the entry, once they are known
  submenu     \* its decision

vars == <<input, phase, expr, dep, submenu>>

Init ==
  /\ input \in Cases
  /\ phase = "start" /\ expr = NoExpr /\ dep = NoExpr /\ submenu = "undecided"

PropagateToEntry ==
  /\ phase = "start"
  /\ expr' = AllocAnd(input.parent, Transform[RewriteM(input.dep, Modules)])
  /\ phase' = "entry"
  /\ UNCHANGED <<input, dep, submenu>>

\* A turn of the loop of expr_eliminate_dups.
Shorten ==
  /\ phase \in {"entry", "prompt"}
  /\ \E turn \in {DupsTurn(expr)} : turn.again /\ expr' = turn.expr
  /\ UNCHANGED <<input, phase, dep, submenu>>

PropagateToPrompt ==
  /\ phase = "entry" /\ ~DupsTurn(expr).again
  /\ dep' = expr
  /\ expr' = AllocAnd(expr, Transform[RewriteM(input.cond, Modules)])
  /\ phase' = "prompt"
  /\ UNCHANGED <<input, submenu>>

FinishPrompt ==
  /\ phase = "prompt" /\ ~DupsTurn(expr).again
  /\ expr' = IF input.owner # "tristate" THEN TransBool[expr] ELSE expr
  /\ phase' = "visible"
  /\ UNCHANGED <<input, dep, submenu>>

\* When the prompt of the symbol before the entry is visible.
BaseDep ==
  LET Prompt(e) == IF Type[input.above] # "tristate" THEN TransBool[e] ELSE e
  IN  Prompt(EliminateDups[AllocAnd(input.parent, Transform[RewriteM(input.base, Modules)])])

DecideSubmenu ==
  /\ phase = "visible"
  /\ submenu' = IF BelongsTo(expr, input.above, BaseDep) THEN "inside" ELSE "after"
  /\ phase' = "done"
  /\ UNCHANGED <<input, expr, dep>>

Next ==
  \/ PropagateToEntry \/ Shorten \/ PropagateToPrompt \/ FinishPrompt \/ DecideSubmenu

Spec == Init /\ [][Next]_vars

-----------------------------------------------------------------------------
\* The value of the conditions as they were written.
Written(env) ==
  LET Of(e) == CalcValue(env, RewriteM(e, Modules))
      whole == Lesser(CalcValue(env, input.parent), Of(input.dep))
  IN  IF phase = "entry" THEN whole ELSE Lesser(whole, Of(input.cond))

\* Rewriting keeps the value for all values of the symbols; only the last step
\* (expr_trans_bool) may turn y into m for a symbol that is no tristate, which
\* makes no difference to a prompt (expr.c:297-677, menu.c:344-398).
ValueKept ==
  phase # "start" =>
    \A env \in Envs :
      LET now == CalcValue(env, expr)
          written == Written(env)
      IN  IF phase \in {"entry", "prompt"} \/ input.owner = "tristate"
          THEN now = written
          ELSE (now = 0) = (written = 0)

-----------------------------------------------------------------------------
\* An expression whose symbols, outside of comparisons, are bools.
BoolPart(f) == f.op = "sym" => Type[f.a] = "bool" \/ f.a \in TriWords
IsBool(e) == \A f \in Parts[e] : BoolPart(f)

\* A condition as it is written: its symbols stand for conditions, and those that
\* are negated, even far below the negation, are bools.
SimplePart(f) ==
  /\ f.op = "sym" => Type[f.a] \in Logical \/ f.a \in TriWords
  /\ f.op = "not" => IsBool(f.l)
IsSimple(e) == \A f \in Parts[e] : SimplePart(f)

\* The same of a condition that has been through Transform.
PlainPart(f) ==
  /\ f.op = "sym" => Type[f.a] \in Logical \/ f.a \in TriWords
  /\ f.op = "not" /\ f.l.op = "sym" => Type[f.l.a] = "bool"
IsPlain(e) == \A f \in Parts[e] : PlainPart(f)

\* Where no tristate is negated, and no string or number stands for a condition.
PlainCase(c) ==
  IsPlain(c.parent) /\ IsSimple(c.base) /\ IsSimple(c.dep) /\ IsSimple(c.cond)

\* An entry in the submenu of a symbol is never visible while both the symbol is
\* n and its prompt is hidden, so that the submenu can be reached whenever there
\* is something in it (menu.c:454-483).  It is claimed of a bool or tristate
\* before the entry, since expr_depends_symbol takes "!= n" of any other symbol
\* (expr.c:888) for a dependency; and where the code had to compare the two
\* conditions, only of conditions that negate no tristate: expr_trans_compare
\* (menu.c:449, 472) takes "!T" for "T=n", and such an entry can hide there.
SubmenuReachable ==
  submenu = "inside" /\ Type[input.above] \in Logical
    /\ (DependsSymbol(expr, input.above) \/ PlainCase(input)) =>
      \A env \in Envs :
        CalcValue(env, expr) # 0 =>
          SymTri(env, input.above) # 0 \/ CalcValue(env, BaseDep) # 0
=============================================================================
