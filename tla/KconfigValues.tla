---------------------------- MODULE KconfigValues ----------------------------
(***************************************************************************)
(* The symbols of one configurator while it runs: any of its parts may ask *)
(* for any value, at any moment, and set the symbols that it has shown.    *)
(***************************************************************************)
EXTENDS KconfigDeps

CONSTANTS
  Kconfigs,      \* the Kconfig files: records [src, modules]
  Order,         \* the order of the symbols in the hash table
  Words,         \* what a user may type
  MaxSettings    \* bounds the settings of one session

VARIABLES
  graph,         \* the finished tree of the Kconfig file that is used
  reports,       \* what the search for recursive dependencies printed
  st,            \* the symbols
  left           \* how many settings may follow

vars == <<graph, reports, st, left>>

Used == LET InUse(s) == s \in graph.used IN SelectSeq(Order, InUse)

Graphs == {Graph(k.src, k.modules) : k \in Kconfigs}

\* conf_parse, and a first sym_calc_value(modules_sym) as in conf_read.
Init ==
  /\ graph \in Graphs
  /\ reports = CheckAll(graph, Unchecked, Used).reports
  /\ st = CalcSymbol(graph, StartState(graph), graph.modules)
  /\ left = MaxSettings

Query ==
  /\ \E s \in graph.used \ st.valid : st' = CalcSymbol(graph, st, s)
  /\ UNCHANGED <<graph, reports, left>>

ShowEntry ==
  /\ \E n \in DOMAIN graph.src : st' = MenuIsVisible(graph, st, n).st
  /\ UNCHANGED <<graph, reports, left>>

\* The front ends set a symbol that they have shown.
Setting == left > 0 /\ left' = left - 1 /\ UNCHANGED <<graph, reports>>

SetTri ==
  /\ Setting
  /\ \E s \in st.valid \cap graph.used, v \in {0, 1, 2} :
       Type[s] \in Logical /\ st' = SetTristate(graph, st, s, v).st

ToggleTri ==
  /\ Setting
  /\ \E s \in st.valid \cap graph.used : Type[s] \in Logical /\ st' = Toggle(graph, st, s)

SetWord ==
  /\ Setting
  /\ \E s \in st.valid \cap graph.used, w \in Words :
       Type[s] \in Texts /\ st.vis[s] # 0 /\ st' = SetString(graph, st, s, w).st

Next == Query \/ ShowEntry \/ SetTri \/ ToggleTri \/ SetWord

Spec == Init /\ [][Next]_vars

-----------------------------------------------------------------------------
\* All values, computed from nothing but the user's settings.
Fresh(x) == CalcSymbols(graph, [x EXCEPT !.valid = {}], Used)

AllKnown == graph.used \subseteq st.valid
NoCycle == reports = {}

\* The mode of a choice comes from what the user has set or from its prompt.
\* It does not when sym_calc_choice has just forgotten the user's mode, because
\* a visible member was never answered: that is lost with the next computation.
ModeForgotten ==
  \E c \in graph.choices \cap st.valid :
    st.curr[c] > Greater(st.rev[c], IF c \in st.has THEN Lesser(st.user[c], st.vis[c]) ELSE 0)

(* A value that counts as computed is the one that a computation of all        *)
(* values, in a fixed order, arrives at: neither a stale cache nor the order   *)
(* of the queries shows, where the check for recursive dependencies finds      *)
(* nothing and no choice is in a forgotten mode (symbol.c:357-509).            *)
CachedIsCurrent ==
  NoCycle /\ ~ModeForgotten =>
    LET f == Fresh(st) IN
    \A s \in st.valid \cap graph.used : st.curr[s] = f.curr[s] /\ st.pick[s] = f.pick[s]

(* A choice that is y has exactly one member that is y, and it is visible; a   *)
(* choice that is n has none (symbol.c:304-334), unless there is a recursion.  *)
ChoiceHasOne ==
  NoCycle /\ AllKnown =>
    \A c \in graph.choices :
      LET on == {s \in graph.used : graph.choiceOf[s] = c /\ st.curr[s] = 2}
      IN  /\ st.curr[c] = 2 => \E s \in on : on = {s} /\ st.vis[s] # 0
          /\ st.curr[c] = 0 => on = {}

(* A setting that is accepted is what the symbol has once everything that      *)
(* depends on it has been computed again (symbol.c:532-566, 676-723).          *)
SetTakesEffect ==
  NoCycle /\ AllKnown =>
    \A s \in st.valid \cap graph.used :
      IF Type[s] \in Logical
      THEN \A v \in {0, 1, 2} : LET r == SetTristate(graph, st, s, v)
                               IN  r.ok => Fresh(r.st).curr[s] = v
      ELSE \A w \in Words : LET r == SetString(graph, st, s, w)
                            IN  r.ok /\ st.vis[s] # 0 => Fresh(r.st).curr[s] = r.st.user[s]

(* The check prints something exactly when a value depends on itself, and it   *)
(* always finds the way back that it prints (symbol.c:1099-1344).              *)
Mentions(s) ==
  LET list == Mentioned(CheckedExprs(graph, s)) IN graph.used \cap {list[k] : k \in DOMAIN list}
Whole(s) == IF graph.choiceOf[s] # NoSym THEN graph.choiceOf[s] ELSE s
DependsOn(s) ==
  LET same == {t \in graph.used : Whole(t) = s} \cup {s}
      mentioned == UNION {Mentions(t) : t \in same}
  IN  {Whole(t) : t \in mentioned} \ (IF s \in graph.choices THEN {s} ELSE {})
RECURSIVE Reach(_)
Reach(S) ==
  LET more == S \cup UNION {DependsOn(s) : s \in S} IN IF more = S THEN S ELSE Reach(more)
RecursionFound ==
  /\ <<>> \notin reports
  /\ reports # {} <=> \E s \in graph.used : Whole(s) \in Reach(DependsOn(Whole(s)))
=============================================================================
