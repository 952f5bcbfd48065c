----------------------------- MODULE KconfigDeps -----------------------------
(***************************************************************************)
(* The search for symbols whose values depend on themselves                *)
(* (support/kconfig/symbol.c, sym_check_deps), which zconfparse makes for  *)
(* each symbol after menu_finalize.                                        *)
(*                                                                         *)
(* c holds the symbols with SYMBOL_CHECK and with SYMBOL_CHECKED, the      *)
(* symbols of the dep_stack, and what sym_check_print_recursive printed.   *)
(***************************************************************************)
EXTENDS KconfigSymbol

Unchecked == [check |-> {}, checked |-> {}, stack |-> <<>>, reports |-> {}]

Push(c, s) == [c EXCEPT !.stack = Append(@, s)]
Pop(c) == [c EXCEPT !.stack = SubSeq(@, 1, Len(@) - 1)]

\* sym_check_print_recursive: prints the stack from the last occurrence of the
\* symbol on; for a choice value, from that of its choice.
PrintRecursive(g, c, s) ==
  LET inChoice == g.choiceOf[s] # NoSym
      last == IF inChoice THEN g.choiceOf[s] ELSE s
      stack == IF inChoice THEN Append(c.stack, s) ELSE c.stack
      at == {k \in DOMAIN stack : stack[k] = last}
      cycle == IF at = {} THEN <<>>
               ELSE SubSeq(stack, CHOOSE k \in at : \A j \in at : j =< k, Len(stack))
  IN  [c EXCEPT !.reports = @ \cup {cycle}]

\* What sym_check_sym_deps looks at, in its order.
CheckedProps(g, s, p) ==
  CASE p.type = "select" -> <<>>
    [] p.type = "default" /\ s \notin g.choices -> <<p.cond, p.value>>
    [] OTHER -> <<p.cond>>

RECURSIVE PropExprs(_, _, _), EntryExprs(_, _, _)
PropExprs(g, s, props) ==
  IF props = <<>> THEN <<>> ELSE CheckedProps(g, s, Head(props)) \o PropExprs(g, s, Tail(props))
EntryExprs(g, s, nodes) ==
  IF nodes = <<>> THEN <<>>
  ELSE LET n == Head(nodes)
       IN  <<g.dep[n]>> \o (IF g.src[n].prompt THEN <<g.cond[n]>> ELSE <<>>)
             \o PropExprs(g, s, g.props[n]) \o EntryExprs(g, s, Tail(nodes))
CheckedExprs(g, s) ==
  <<g.rev[s]>> \o EntryExprs(g, s, SelectIn({n \in DOMAIN g.src : g.src[n].sym = s}))

\* The result of a check: c afterwards, and the symbol where a cycle was found.
RECURSIVE CheckDeps(_, _, _), CheckEach(_, _, _)
CheckEach(g, r, list) ==
  IF r.sym # NoSym \/ list = <<>> THEN r
  ELSE CheckEach(g, CheckDeps(g, r.c, Head(list)), Tail(list))

RECURSIVE Mentioned(_)
Mentioned(exprs) ==
  IF exprs = <<>> THEN <<>> ELSE SymbolsOf(Head(exprs)) \o Mentioned(Tail(exprs))
Popped(r) == [r EXCEPT !.c = Pop(@)]
CheckSymDeps(g, c, s) ==
  Popped(CheckEach(g, [c |-> Push(c, s), sym |-> NoSym], Mentioned(CheckedExprs(g, s))))

Mark(c, S) == [c EXCEPT !.check = @ \cup S, !.checked = @ \cup S]
Unmarked(r, S) == [r EXCEPT !.c.check = @ \ S]

\* Mutant: the members keep their mark when a member is found in a cycle.
CheckChoiceDeps_OnlyChoice(g, c, choice) ==
  Popped(Unmarked(CheckSymDeps(g, Push(Mark(c, {choice}), choice), choice), {choice}))

\* A choice and its members are checked as one.
MembersOf(g, choice) == {g.members[choice][k] : k \in DOMAIN g.members[choice]}
RECURSIVE CheckMembers(_, _, _)
CheckMembers(g, r, list) ==
  IF r.sym # NoSym \/ list = <<>> THEN r
  ELSE CheckMembers(g, CheckSymDeps(g, r.c, Head(list)), Tail(list))
AsWhole(g, r, choice) == IF r.sym \in MembersOf(g, choice) THEN [r EXCEPT !.sym = choice] ELSE r
CheckChoiceDeps(g, c, choice) ==
  LET both == MembersOf(g, choice) \cup {choice}
      Members(r) == CheckMembers(g, Unmarked(r, {choice}), g.members[choice])
  IN  AsWhole(g, Popped(Unmarked(
        Members(CheckSymDeps(g, Push(Mark(c, both), choice), choice)), both)), choice)

CheckAlone(g, c, s) ==
  CASE g.choiceOf[s] # NoSym -> Popped(CheckDeps(g, Push(c, s), g.choiceOf[s]))
    [] s \in g.choices -> CheckChoiceDeps(g, c, s)
    [] OTHER -> Unmarked(CheckSymDeps(g, Mark(c, {s}), s), {s})
EndAt(r, s) == IF r.sym = s THEN [r EXCEPT !.sym = NoSym] ELSE r

CheckDeps(g, c, s) ==
  CASE s \in Literals -> [c |-> c, sym |-> NoSym]
    [] s \in c.check  -> [c |-> PrintRecursive(g, c, s), sym |-> s]
    [] s \in c.checked \ c.check -> [c |-> c, sym |-> NoSym]
    [] OTHER -> EndAt(CheckAlone(g, c, s), s)

\* zconfparse: all symbols, in the order of the hash table.
RECURSIVE CheckAll(_, _, _)
CheckAll(g, c, order) ==
  IF order = <<>> THEN c ELSE CheckAll(g, CheckDeps(g, c, Head(order)).c, Tail(order))
=============================================================================
