---------------------------- MODULE RewriteProofs ---------------------------
(***************************************************************************)
(* Proof that menu_finalize and the functions of expr.c that it calls keep *)
(* the value of dependency expressions (KconfigRewrite!ValueKept), for     *)
(* expressions of any size.                                                *)
(*                                                                         *)
(* For each function: the recursive definition describes a function (a     *)
(* rank falls at every recursive call), and it keeps the value of its      *)
(* operand.  The definitions that walk over the operands of a chain of one *)
(* junction are dealt with by the least or greatest value of the operands. *)
(***************************************************************************)
EXTENDS KconfigRewrite, Induction

-----------------------------------------------------------------------------
(* Trees.                                                                  *)

(* The expressions are all trees, of any height.                           *)
AllTrees == Exprs = UNION {TreesUpTo(h) : h \in Nat}
Trees == Exprs \ {NoExpr}
Names == DOMAIN Type

LevelsUpTo(h, f) == f = [n \in 0 .. h |-> IF n = 0 THEN Leaves ELSE Over(f[n - 1])]

(* The function by which TreesUpTo is defined exists.                      *)
LEMMA LevelsExist == \A h \in Nat : \E f : LevelsUpTo(h, f)
<1> DEFINE Q == {h \in Nat : \E f : LevelsUpTo(h, f)}
<1>1. 0 \in Q
  <2> DEFINE f == [n \in 0 .. 0 |-> Leaves]
  <2>1. f = [n \in 0 .. 0 |-> IF n = 0 THEN Leaves ELSE Over(f[n - 1])]
    OBVIOUS
  <2> QED
    BY <2>1 DEF LevelsUpTo
<1>2. ASSUME NEW h \in Nat, h \in Q PROVE h + 1 \in Q
  <2>1. PICK f : LevelsUpTo(h, f)
    BY <1>2
  <2> DEFINE g == [n \in 0 .. h + 1 |-> IF n = h + 1 THEN Over(f[h]) ELSE f[n]]
  <2>2. ASSUME NEW n \in 0 .. h + 1 PROVE g[n] = IF n = 0 THEN Leaves ELSE Over(g[n - 1])
    <3>1. CASE n = h + 1
      <4>1. n # 0 /\ n - 1 \in 0 .. h + 1 /\ n - 1 = h /\ n - 1 # h + 1
        BY <3>1
      <4>2. g[n - 1] = f[h] /\ g[n] = Over(f[h])
        BY <3>1, <4>1
      <4> QED
        BY <4>1, <4>2
    <3>2. CASE n # h + 1
      <4>1. n \in 0 .. h /\ g[n] = f[n]
        BY <3>2
      <4>2. f[n] = IF n = 0 THEN Leaves ELSE Over(f[n - 1])
        BY <2>1, <4>1 DEF LevelsUpTo
      <4>3. n # 0 => n - 1 \in 0 .. h + 1 /\ n - 1 # h + 1
        BY <4>1
      <4>4. n # 0 => g[n - 1] = f[n - 1]
        BY <4>3
      <4> QED
        BY <4>1, <4>2, <4>4
    <3> QED
      BY <3>1, <3>2
  <2>3. g = [n \in 0 .. h + 1 |-> g[n]]
    OBVIOUS
  <2> HIDE DEF g
  <2>4. LevelsUpTo(h + 1, g)
    BY <2>2, <2>3 DEF LevelsUpTo
  <2> QED
    BY <2>4
<1>3. Nat \subseteq Q
  <2> HIDE DEF Q
  <2> QED
    BY <1>1, <1>2, InductionOnSet
<1> QED
  BY <1>3

(* Two such functions agree where both are defined.                        *)
LEMMA LevelsAgree ==
  ASSUME NEW h \in Nat, NEW k \in Nat, NEW f, NEW g, LevelsUpTo(h, f), LevelsUpTo(k, g),
         NEW n \in Nat, n =< h, n =< k
  PROVE  f[n] = g[n]
<1> DEFINE S == {m \in Nat : m =< h /\ m =< k => f[m] = g[m]}
<1>1. 0 \in S
  <2>1. 0 \in 0 .. h /\ 0 \in 0 .. k
    OBVIOUS
  <2> QED
    BY <2>1 DEF LevelsUpTo
<1>2. ASSUME NEW m \in Nat, m \in S PROVE m + 1 \in S
  <2> SUFFICES ASSUME m + 1 =< h, m + 1 =< k PROVE f[m + 1] = g[m + 1]
    BY <1>2
  <2>1. m + 1 \in 0 .. h /\ m + 1 \in 0 .. k /\ m + 1 # 0 /\ (m + 1) - 1 = m /\ f[m] = g[m]
    BY <1>2
  <2>2. f[m + 1] = Over(f[(m + 1) - 1]) /\ g[m + 1] = Over(g[(m + 1) - 1])
    BY <2>1 DEF LevelsUpTo
  <2> QED
    BY <2>1, <2>2
<1>3. Nat \subseteq S
  <2> HIDE DEF S
  <2> QED
    BY <1>1, <1>2, InductionOnSet
<1> QED
  BY <1>3

Level(h) == TreesUpTo(h) \ {NoExpr}

(* The trees of height 0 are the leaves, and those of height h + 1 are     *)
(* built over those of height h.                                           *)
LEMMA LevelsAre ==
  /\ Level(0) = Leaves
  /\ \A h \in Nat : Level(h + 1) = Over(Level(h))
<1> DEFINE fn(h) == CHOOSE f : LevelsUpTo(h, f)
<1>1. ASSUME NEW h \in Nat PROVE LevelsUpTo(h, fn(h)) /\ TreesUpTo(h) = fn(h)[h] \cup {NoExpr}
  <2>1. LevelsUpTo(h, fn(h))
    BY LevelsExist
  <2>2. fn(h) = CHOOSE f : f = [n \in 0 .. h |-> IF n = 0 THEN Leaves ELSE Over(f[n - 1])]
    BY DEF LevelsUpTo
  <2> QED
    BY <2>1, <2>2 DEF TreesUpTo
<1> HIDE DEF fn
<1>2. \A E : NoExpr \notin Over(E)
  BY DEF Over, Leaves, NoExpr, Sym, Relations, Junctions
<1>3. NoExpr \notin Leaves
  BY DEF Leaves, NoExpr, Sym, Relations
<1>4. ASSUME NEW h \in Nat PROVE Level(h) = fn(h)[h]
  <2>1. h \in 0 .. h /\ (h # 0 => h - 1 \in 0 .. h)
    OBVIOUS
  <2>2. fn(h)[h] = IF h = 0 THEN Leaves ELSE Over(fn(h)[h - 1])
    BY <1>1, <2>1 DEF LevelsUpTo
  <2>3. NoExpr \notin fn(h)[h]
    BY <1>2, <1>3, <2>2
  <2> QED
    BY <1>1, <2>3 DEF Level
<1>5. Level(0) = Leaves
  <2>1. 0 \in 0 .. 0 /\ 0 \in Nat
    OBVIOUS
  <2>2. fn(0)[0] = Leaves
    BY <1>1, <2>1 DEF LevelsUpTo
  <2> QED
    BY <1>4, <2>1, <2>2
<1>6. ASSUME NEW h \in Nat PROVE Level(h + 1) = Over(Level(h))
  <2>1. h + 1 \in 0 .. h + 1 /\ h + 1 \in Nat /\ (h + 1) - 1 = h /\ h + 1 # 0 /\ h =< h + 1 /\ h =< h
    OBVIOUS
  <2>2. fn(h + 1)[h + 1] = Over(fn(h + 1)[(h + 1) - 1])
    BY <1>1, <2>1 DEF LevelsUpTo
  <2>3. fn(h + 1)[h] = fn(h)[h]
    BY <1>1, <2>1, LevelsAgree
  <2> QED
    BY <1>4, <2>1, <2>2, <2>3
<1> QED
  BY <1>5, <1>6

(* A higher level has all trees of a lower one.                            *)
LEMMA LevelsGrow ==
  ASSUME NEW h \in Nat, NEW k \in Nat, h =< k
  PROVE  Level(h) \subseteq Level(k)
<1>1. \A E, F : E \subseteq F => Over(E) \subseteq Over(F)
  BY DEF Over
<1> DEFINE S == {n \in Nat : Level(n) \subseteq Level(n + 1)}
<1>2. 0 \in S
  <2>1. Level(0 + 1) = Over(Level(0)) /\ Level(0) = Leaves
    BY LevelsAre
  <2>2. Leaves \subseteq Over(Level(0))
    BY DEF Over
  <2> QED
    BY <2>1, <2>2
<1>3. ASSUME NEW n \in Nat, n \in S PROVE n + 1 \in S
  <2>1. Level(n + 1) = Over(Level(n)) /\ Level((n + 1) + 1) = Over(Level(n + 1))
    BY LevelsAre
  <2> QED
    BY <1>1, <1>3, <2>1
<1>4. Nat \subseteq S
  <2> HIDE DEF S
  <2> QED
    BY <1>2, <1>3, InductionOnSet
<1> DEFINE T == {n \in Nat : h =< n => Level(h) \subseteq Level(n)}
<1>5. \A n \in h .. k : n \in T
  <2>1. h \in T
    OBVIOUS
  <2>2. ASSUME NEW n \in h .. k - 1, n \in T PROVE n + 1 \in T
    BY <1>4, <2>2
  <2> HIDE DEF T
  <2>3. h .. k \subseteq T
    BY <2>1, <2>2, InductionUpTo
  <2> QED
    BY <2>3
<1> QED
  BY <1>5

(* The height of an expression.                                            *)
Heights ==
  {rank \in [Exprs -> Nat] :
     \A e \in Trees :
       /\ e.op = "not" => rank[e.l] < rank[e]
       /\ e.op \in Junctions => rank[e.l] < rank[e] /\ rank[e.r] < rank[e]}

(* Every tree is built in one of three ways, and these build trees.        *)
LEMMA TreesAre ==
  ASSUME AllTrees
  PROVE  /\ NoExpr \in Exprs
         /\ Leaves \subseteq Trees
         /\ \A e \in Trees : Not(e) \in Trees
         /\ \A j \in Junctions : \A e, f \in Trees : Two(j, e, f) \in Trees
         /\ \A e \in Trees :
              \/ e \in Leaves
              \/ e.op = "not" /\ e.l \in Trees /\ e = Not(e.l)
              \/ e.op \in Junctions /\ e.l \in Trees /\ e.r \in Trees /\ e = Two(e.op, e.l, e.r)
         /\ Heights # {}
<1>1. NoExpr \in Exprs
  <2>1. NoExpr \in TreesUpTo(0) /\ 0 \in Nat
    BY DEF TreesUpTo
  <2> QED
    BY <2>1 DEF AllTrees
<1>2. \A e : e \in Trees <=> \E h \in Nat : e \in Level(h)
  BY DEF AllTrees, Trees, Level
<1>3. Leaves \subseteq Trees
  BY <1>2, LevelsAre
<1>4. ASSUME NEW e \in Trees PROVE Not(e) \in Trees
  <2>1. PICK h \in Nat : e \in Level(h)
    BY <1>2
  <2>2. Not(e) \in Over(Level(h))
    BY <2>1 DEF Over, Not
  <2>3. Not(e) \in Level(h + 1) /\ h + 1 \in Nat
    BY <2>2, LevelsAre
  <2> QED
    BY <1>2, <2>3
<1>5. ASSUME NEW j \in Junctions, NEW e \in Trees, NEW f \in Trees PROVE Two(j, e, f) \in Trees
  <2>1. PICK h \in Nat : e \in Level(h)
    BY <1>2
  <2>2. PICK k \in Nat : f \in Level(k)
    BY <1>2
  <2>3. PICK n \in Nat : h =< n /\ k =< n
    <3>1. h =< h + k /\ k =< h + k /\ h + k \in Nat
      OBVIOUS
    <3> QED
      BY <3>1
  <2>4. e \in Level(n) /\ f \in Level(n)
    BY <2>1, <2>2, <2>3, LevelsGrow
  <2>5. Two(j, e, f) \in Over(Level(n))
    BY <2>4 DEF Over, Two
  <2>6. Two(j, e, f) \in Level(n + 1) /\ n + 1 \in Nat
    BY <2>5, LevelsAre
  <2> QED
    BY <1>2, <2>6
<1>6. \A e \in Leaves : e.op # "not" /\ e.op \notin Junctions
  BY DEF Leaves, Sym, Relations, Junctions
<1> DEFINE At(e) == {h \in Nat : e \in Level(h)}
           rank == [e \in Exprs |-> IF e = NoExpr THEN 0
                                    ELSE CHOOSE h \in At(e) : \A k \in At(e) : h =< k]
<1>7. ASSUME NEW e \in Trees
      PROVE  rank[e] \in Nat /\ e \in Level(rank[e]) /\ \A k \in Nat : e \in Level(k) => rank[e] =< k
  <2>1. At(e) \subseteq Nat /\ At(e) # {} /\ e # NoExpr /\ e \in Exprs
    BY <1>2 DEF Trees
  <2>2. \E h \in At(e) : \A k \in At(e) : h =< k
    <3> HIDE DEF At
    <3> QED
      BY <2>1, LeastNatural
  <2> QED
    BY <2>1, <2>2
<1> HIDE DEF rank, At
<1>8. ASSUME NEW e \in Trees, e \notin Leaves
      PROVE  /\ \/ e.op = "not" /\ e.l \in Trees /\ e = Not(e.l) /\ rank[e.l] < rank[e]
                \/ /\ e.op \in Junctions /\ e.l \in Trees /\ e.r \in Trees /\ e = Two(e.op, e.l, e.r)
                   /\ rank[e.l] < rank[e] /\ rank[e.r] < rank[e]
  <2>1. rank[e] \in Nat /\ e \in Level(rank[e])
    BY <1>7
  <2>2. rank[e] # 0
    BY <1>8, <2>1, LevelsAre
  <2>3. PICK h \in Nat : rank[e] = h + 1
    <3>1. rank[e] - 1 \in Nat /\ rank[e] = (rank[e] - 1) + 1
      BY <2>1, <2>2
    <3> QED
      BY <3>1
  <2>4. e \in Over(Level(h))
    BY <2>1, <2>3, LevelsAre
  <2>5. ASSUME NEW f \in Level(h) PROVE f \in Trees /\ rank[f] < rank[e]
    <3>1. f \in Trees
      BY <1>2
    <3>2. rank[f] =< h /\ rank[f] \in Nat
      BY <1>7, <3>1
    <3> QED
      BY <2>3, <3>1, <3>2
  <2>6. CASE e \in [op : {"not"}, l : Level(h)]
    BY <2>5, <2>6 DEF Not
  <2>7. CASE e \in [op : Junctions, l : Level(h), r : Level(h)]
    BY <2>5, <2>7 DEF Two
  <2> QED
    BY <1>8, <2>4, <2>6, <2>7 DEF Over
<1>9. rank \in [Exprs -> Nat]
  <2>1. \A e \in Exprs : rank[e] \in Nat
    <3>1. \A e \in Exprs : e = NoExpr => rank[e] = 0
      BY DEF rank
    <3> QED
      BY <1>7, <3>1 DEF Trees
  <2> QED
    BY <2>1 DEF rank
<1>10. \A e \in Trees : e.op = "not" \/ e.op \in Junctions => e \notin Leaves
  BY <1>6
<1>11. "not" \notin Junctions
  BY DEF Junctions
<1>12. rank \in Heights
  BY <1>8, <1>9, <1>10, <1>11 DEF Heights
<1> QED
  BY <1>1, <1>3, <1>4, <1>5, <1>8, <1>12

(* The expressions that the recursive functions go down to.                *)
Below(e) == {f \in Trees : \/ e.op = "not" /\ f = e.l
                           \/ e.op \in Junctions /\ f \in {e.l, e.r}}

(* Induction over trees: what holds of an expression whenever it holds of  *)
(* its operands holds of all.                                              *)
LEMMA TreeInduction ==
  ASSUME AllTrees, NEW P, \A e \in Exprs : Below(e) \subseteq P => e \in P
  PROVE  Exprs \subseteq P
<1>1. PICK rank \in Heights : TRUE
  BY TreesAre
<1>2. \A e \in Exprs : \A f \in Below(e) : f \in Exprs /\ rank[f] < rank[e]
  BY DEF Heights, Below, Trees, NoExpr, Junctions
<1>3. rank \in [Exprs -> Nat]
  BY DEF Heights
<1>4. ASSUME NEW e \in Exprs, \A f \in Exprs : rank[f] < rank[e] => f \in P PROVE e \in P
  BY <1>2, <1>4
<1> QED
  BY <1>3, <1>4, RankInduction

(* Recursion over trees: a definition whose value at a tree depends on the *)
(* values at its operands only describes a function.                       *)
LEMMA TreeRecursion ==
  ASSUME AllTrees, NEW U, U # {}, NEW D \in [[Exprs -> U] -> [Exprs -> U]],
         \A f, g \in [Exprs -> U] : \A e \in Exprs :
           (\A x \in Below(e) : f[x] = g[x]) => D[f][e] = D[g][e]
  PROVE  \E f \in [Exprs -> U] : D[f] = f
<1>1. PICK rank \in Heights : TRUE
  BY TreesAre
<1>2. \A e \in Exprs : \A f \in Below(e) : f \in Exprs /\ rank[f] < rank[e]
  BY DEF Heights, Below, Trees, NoExpr, Junctions
<1>3. rank \in [Exprs -> Nat]
  BY DEF Heights
<1> DEFINE V == [e \in Exprs |-> U]
<1>4. Choices(Exprs, U, V) = [Exprs -> U]
  BY DEF Choices
<1>5. [Exprs -> U] # {}
  <2>1. PICK u \in U : TRUE
    OBVIOUS
  <2>2. [e \in Exprs |-> u] \in [Exprs -> U]
    OBVIOUS
  <2> QED
    BY <2>2
<1>6. ASSUME NEW f \in [Exprs -> U], NEW g \in [Exprs -> U], NEW e \in Exprs,
             \A x \in Exprs : rank[x] < rank[e] => f[x] = g[x]
      PROVE  D[f][e] = D[g][e]
  BY <1>2, <1>6
<1> HIDE DEF V
<1>8. D \in [Choices(Exprs, U, V) -> Choices(Exprs, U, V)] /\ Choices(Exprs, U, V) # {}
  BY <1>4, <1>5
<1>9. GoesDown(Exprs, rank, Choices(Exprs, U, V), D)
  BY <1>4, <1>6 DEF GoesDown
<1>7. \E f \in Choices(Exprs, U, V) : D[f] = f
  BY <1>3, <1>8, <1>9, Recursion
<1> QED
  BY <1>4, <1>7

-----------------------------------------------------------------------------
(* Values.                                                                 *)
Tri == 0 .. 2
IsTri(env) == \A s \in Names : SymTri(env, s) \in Tri

(* expr_calc_value returns no, mod or yes, and is what its definition      *)
(* says.                                                                   *)
LEMMA ValueIs ==
  ASSUME AllTrees, NEW env, IsTri(env), NEW e \in Exprs
  PROVE  /\ CalcValue(env, e) \in Tri
         /\ CalcValue(env, e) = ValueOf(env, [x \in Exprs |-> CalcValue(env, x)], e)
<1> DEFINE Body(f, x) == ValueOf(env, f, x)
           Is(f) == f = [x \in Exprs |-> Body(f, x)]
           T == CHOOSE f : Is(f)
           D == [f \in [Exprs -> Tri] |-> [x \in Exprs |-> Body(f, x)]]
<1>1. ASSUME NEW x \in Exprs, NEW f, \A y \in Below(x) : f[y] \in Tri PROVE Body(f, x) \in Tri
  <2>1. x \in Trees /\ x.op = "not" => f[x.l] \in Tri
    BY <1>1, TreesAre DEF Below, Leaves, Sym, Relations
  <2>2. x \in Trees /\ x.op \in Junctions => f[x.l] \in Tri /\ f[x.r] \in Tri
    BY <1>1, TreesAre DEF Below, Leaves, Sym, Relations, Junctions
  <2>3. CASE x = NoExpr
    BY <2>3 DEF NoExpr, ValueOf, Tri, Relations
  <2>4. CASE x \in Leaves
    BY <2>4 DEF ValueOf, Tri, Relations, Leaves, Sym, IsTri, Names
  <2>5. CASE x \in Trees /\ x.op = "not"
    BY <2>1, <2>5 DEF ValueOf, Tri, Relations
  <2>6. CASE x \in Trees /\ x.op \in Junctions
    BY <2>2, <2>6 DEF ValueOf, Tri, Relations, Junctions, Lesser, Greater
  <2> QED
    BY <2>3, <2>4, <2>5, <2>6, TreesAre DEF Trees
<1>2. ASSUME NEW x \in Exprs, NEW f, NEW g, \A y \in Below(x) : f[y] = g[y]
      PROVE  Body(f, x) = Body(g, x)
  <2>1. x \in Trees /\ x.op = "not" => f[x.l] = g[x.l]
    BY <1>2, TreesAre DEF Below, Leaves, Sym, Relations
  <2>2. x \in Trees /\ x.op \in Junctions => f[x.l] = g[x.l] /\ f[x.r] = g[x.r]
    BY <1>2, TreesAre DEF Below, Leaves, Sym, Relations, Junctions
  <2> QED
    BY <2>1, <2>2, TreesAre DEF ValueOf, NoExpr, Leaves, Sym, Relations, Junctions, Trees
<1>3. PICK f \in [Exprs -> Tri] : Is(f)
  <2> HIDE DEF Body
  <2>1. D \in [[Exprs -> Tri] -> [Exprs -> Tri]]
    <3>1. ASSUME NEW f \in [Exprs -> Tri], NEW x \in Exprs PROVE Body(f, x) \in Tri
      BY <1>1 DEF Below, Trees
    <3> QED
      BY <3>1
  <2>2. \A f, g \in [Exprs -> Tri] : \A x \in Exprs :
           (\A y \in Below(x) : f[y] = g[y]) => D[f][x] = D[g][x]
    BY <1>2
  <2>3. Tri # {}
    BY DEF Tri
  <2> HIDE DEF D
  <2>4. \E f \in [Exprs -> Tri] : D[f] = f
    BY <2>1, <2>2, <2>3, TreeRecursion
  <2> QED
    BY <2>4 DEF D
<1>4. Is(T)
  <2> HIDE DEF Is
  <2> QED
    BY <1>3
<1>5. CalcValue(env, e) = T[e] /\ \A x : CalcValue(env, x) = T[x]
  BY DEF CalcValue, ValueOf
<1> HIDE DEF T, Body
<1>6. T = f
  <2> DEFINE P == {x \in Exprs : T[x] = f[x]}
  <2>1. ASSUME NEW x \in Exprs, Below(x) \subseteq P PROVE x \in P
    <3>1. \A y \in Below(x) : T[y] = f[y]
      BY <2>1
    <3>2. Body(T, x) = Body(f, x)
      BY <1>2, <3>1
    <3> QED
      BY <1>3, <1>4, <3>2
  <2>2. Exprs \subseteq P
    <3> HIDE DEF P
    <3> QED
      BY <2>1, TreeInduction
  <2> QED
    BY <1>3, <1>4, <2>2
<1>7. [x \in Exprs |-> CalcValue(env, x)] = T
  BY <1>3, <1>5, <1>6
<1>8. T[e] = Body(T, e) /\ T[e] \in Tri
  BY <1>3, <1>4, <1>6
<1> QED
  BY <1>5, <1>7, <1>8 DEF Body

(* Parts of an expression.                                                 *)
LEMMA PartsAre ==
  ASSUME AllTrees, NEW e \in Exprs
  PROVE  Parts[e] = {e} \cup IF e.op = "not" THEN Parts[e.l]
                             ELSE IF e.op \in Junctions THEN Parts[e.l] \cup Parts[e.r] ELSE {}
<1> DEFINE Body(f, x) == {x} \cup IF x.op = "not" THEN f[x.l]
                                  ELSE IF x.op \in Junctions THEN f[x.l] \cup f[x.r] ELSE {}
           Is(f) == f = [x \in Exprs |-> Body(f, x)]
           U == SUBSET Exprs
           D == [f \in [Exprs -> U] |-> [x \in Exprs |-> Body(f, x)]]
<1>1. ASSUME NEW x \in Exprs, NEW f, NEW g, \A y \in Below(x) : f[y] = g[y]
      PROVE  Body(f, x) = Body(g, x)
  <2>1. x \in Trees /\ x.op = "not" => f[x.l] = g[x.l]
    BY <1>1, TreesAre DEF Below, Leaves, Sym, Relations
  <2>2. x \in Trees /\ x.op \in Junctions => f[x.l] = g[x.l] /\ f[x.r] = g[x.r]
    BY <1>1, TreesAre DEF Below, Leaves, Sym, Relations, Junctions
  <2> QED
    BY <2>1, <2>2 DEF NoExpr, Trees, Junctions
<1>2. ASSUME NEW x \in Exprs, NEW f \in [Exprs -> U] PROVE Body(f, x) \in U
  <2>1. x \in Trees /\ x.op = "not" => f[x.l] \in U
    BY <1>1, TreesAre DEF Trees, Leaves, Sym, Relations
  <2>2. x \in Trees /\ x.op \in Junctions => f[x.l] \in U /\ f[x.r] \in U
    BY <1>1, TreesAre DEF Trees, Leaves, Sym, Relations, Junctions
  <2> QED
    BY <2>1, <2>2 DEF NoExpr, Trees, Junctions
<1>3. PICK k \in [Exprs -> U] : Is(k)
  <2> HIDE DEF Body
  <2>1. D \in [[Exprs -> U] -> [Exprs -> U]]
    BY <1>2
  <2>2. \A f, g \in [Exprs -> U] : \A x \in Exprs :
           (\A y \in Below(x) : f[y] = g[y]) => D[f][x] = D[g][x]
    BY <1>1
  <2>3. U # {}
    OBVIOUS
  <2> HIDE DEF D, U
  <2>4. \E f \in [Exprs -> U] : D[f] = f
    BY <2>1, <2>2, <2>3, TreeRecursion
  <2> QED
    BY <2>4 DEF D
<1>4. Parts = CHOOSE f : Is(f)
  BY DEF Parts
<1>5. Is(Parts)
  <2> HIDE DEF Is
  <2> QED
    BY <1>3, <1>4
<1> QED
  BY <1>5

FairComparison(f) ==
  f.op \in {"=", "!="} /\ Type[f.a] = "tristate" /\ f.b \in Literals => Numeral[Type[f.b]][f.b] = NaN
FairNegation(f) == f.op = "not" => f.l.op = "sym"

(* IsOrdinary, by the form of the expression.                              *)
LEMMA OrdinaryAre ==
  ASSUME AllTrees
  PROVE  /\ IsOrdinary(NoExpr)
         /\ \A e \in Leaves : IsOrdinary(e) <=> FairComparison(e)
         /\ \A e \in Trees : IsOrdinary(Not(e)) <=> IsOrdinary(e)
         /\ \A j \in Junctions : \A e, f \in Trees :
              IsOrdinary(Two(j, e, f)) <=> IsOrdinary(e) /\ IsOrdinary(f)
<1>0. \A e : IsOrdinary(e) <=> \A f \in Parts[e] : FairComparison(f)
  BY DEF IsOrdinary, FairComparison
<1>1. IsOrdinary(NoExpr)
  <2>1. Parts[NoExpr] = {NoExpr}
    BY PartsAre, TreesAre DEF NoExpr, Junctions
  <2> QED
    BY <1>0, <2>1 DEF FairComparison, NoExpr
<1>2. ASSUME NEW e \in Leaves PROVE IsOrdinary(e) <=> FairComparison(e)
  <2>1. Parts[e] = {e}
    BY PartsAre, TreesAre DEF Trees, Leaves, Sym, Relations, Junctions
  <2> QED
    BY <1>0, <2>1
<1>3. ASSUME NEW e \in Trees PROVE IsOrdinary(Not(e)) <=> IsOrdinary(e)
  <2>1. Not(e) \in Exprs /\ Not(e).op = "not" /\ Not(e).l = e
    BY TreesAre DEF Trees, Not
  <2>2. Parts[Not(e)] = {Not(e)} \cup Parts[e]
    BY <2>1, PartsAre
  <2>3. FairComparison(Not(e))
    BY <2>1 DEF FairComparison
  <2> QED
    BY <1>0, <2>2, <2>3
<1>4. ASSUME NEW j \in Junctions, NEW e \in Trees, NEW f \in Trees
      PROVE  IsOrdinary(Two(j, e, f)) <=> IsOrdinary(e) /\ IsOrdinary(f)
  <2>1. Two(j, e, f) \in Exprs /\ Two(j, e, f).op = j /\ Two(j, e, f).l = e /\ Two(j, e, f).r = f
    BY TreesAre DEF Trees, Two
  <2>2. Parts[Two(j, e, f)] = {Two(j, e, f)} \cup Parts[e] \cup Parts[f]
    BY <2>1, PartsAre DEF Junctions
  <2>3. FairComparison(Two(j, e, f))
    BY <2>1 DEF FairComparison, Junctions
  <2> QED
    BY <1>0, <2>2, <2>3
<1> QED
  BY <1>1, <1>2, <1>3, <1>4

(* IsNormal, by the form of the expression.                                *)
LEMMA NormalAre ==
  ASSUME AllTrees
  PROVE  /\ IsNormal(NoExpr)
         /\ \A e \in Leaves : IsNormal(e)
         /\ \A e \in Trees : IsNormal(Not(e)) <=> e.op = "sym"
         /\ \A j \in Junctions : \A e, f \in Trees :
              IsNormal(Two(j, e, f)) <=> IsNormal(e) /\ IsNormal(f)
<1>0. \A e : IsNormal(e) <=> \A f \in Parts[e] : FairNegation(f)
  BY DEF IsNormal, FairNegation
<1>1. IsNormal(NoExpr)
  <2>1. Parts[NoExpr] = {NoExpr}
    BY PartsAre, TreesAre DEF NoExpr, Junctions
  <2> QED
    BY <1>0, <2>1 DEF FairNegation, NoExpr
<1>2. ASSUME NEW e \in Leaves PROVE IsNormal(e)
  <2>1. Parts[e] = {e}
    BY PartsAre, TreesAre DEF Trees, Leaves, Sym, Relations, Junctions
  <2>2. FairNegation(e)
    BY DEF FairNegation, Leaves, Sym, Relations
  <2> QED
    BY <1>0, <2>1, <2>2
<1>3. ASSUME NEW e \in Trees PROVE IsNormal(Not(e)) <=> e.op = "sym"
  <2>1. Not(e) \in Exprs /\ Not(e).op = "not" /\ Not(e).l = e
    BY TreesAre DEF Trees, Not
  <2>2. Parts[Not(e)] = {Not(e)} \cup Parts[e]
    BY <2>1, PartsAre
  <2>3. FairNegation(Not(e)) <=> e.op = "sym"
    BY <2>1 DEF FairNegation
  <2>4. e.op = "sym" => e \in Leaves
    BY TreesAre DEF Junctions
  <2> QED
    BY <1>0, <1>2, <2>2, <2>3, <2>4
<1>4. ASSUME NEW j \in Junctions, NEW e \in Trees, NEW f \in Trees
      PROVE  IsNormal(Two(j, e, f)) <=> IsNormal(e) /\ IsNormal(f)
  <2>1. Two(j, e, f) \in Exprs /\ Two(j, e, f).op = j /\ Two(j, e, f).l = e /\ Two(j, e, f).r = f
    BY TreesAre DEF Trees, Two
  <2>2. Parts[Two(j, e, f)] = {Two(j, e, f)} \cup Parts[e] \cup Parts[f]
    BY <2>1, PartsAre DEF Junctions
  <2>3. FairNegation(Two(j, e, f))
    BY <2>1 DEF FairNegation, Junctions
  <2> QED
    BY <1>0, <2>2, <2>3
<1> QED
  BY <1>1, <1>2, <1>3, <1>4

(* IsPlain, by the form of the expression.                                 *)
LEMMA PlainAre ==
  ASSUME AllTrees
  PROVE  /\ IsPlain(NoExpr)
         /\ \A e \in Leaves : IsPlain(e) <=> PlainPart(e)
         /\ \A e \in Trees : IsPlain(Not(e)) <=> IsPlain(e) /\ (e.op = "sym" => Type[e.a] = "bool")
         /\ \A j \in Junctions : \A e, f \in Trees :
              IsPlain(Two(j, e, f)) <=> IsPlain(e) /\ IsPlain(f)
<1>0. \A e : IsPlain(e) <=> \A f \in Parts[e] : PlainPart(f)
  BY DEF IsPlain
<1>1. IsPlain(NoExpr)
  <2>1. Parts[NoExpr] = {NoExpr}
    BY PartsAre, TreesAre DEF NoExpr, Junctions
  <2> QED
    BY <1>0, <2>1 DEF PlainPart, NoExpr
<1>2. ASSUME NEW e \in Leaves PROVE IsPlain(e) <=> PlainPart(e)
  <2>1. Parts[e] = {e}
    BY PartsAre, TreesAre DEF Trees, Leaves, Sym, Relations, Junctions
  <2> QED
    BY <1>0, <2>1
<1>3. ASSUME NEW e \in Trees PROVE IsPlain(Not(e)) <=> IsPlain(e) /\ (e.op = "sym" => Type[e.a] = "bool")
  <2>1. Not(e) \in Exprs /\ Not(e).op = "not" /\ Not(e).l = e
    BY TreesAre DEF Trees, Not
  <2>2. Parts[Not(e)] = {Not(e)} \cup Parts[e]
    BY <2>1, PartsAre
  <2>3. PlainPart(Not(e)) <=> (e.op = "sym" => Type[e.a] = "bool")
    BY <2>1 DEF PlainPart
  <2> QED
    BY <1>0, <2>2, <2>3
<1>4. ASSUME NEW j \in Junctions, NEW e \in Trees, NEW f \in Trees
      PROVE  IsPlain(Two(j, e, f)) <=> IsPlain(e) /\ IsPlain(f)
  <2>1. Two(j, e, f) \in Exprs /\ Two(j, e, f).op = j /\ Two(j, e, f).l = e /\ Two(j, e, f).r = f
    BY TreesAre DEF Trees, Two
  <2>2. Parts[Two(j, e, f)] = {Two(j, e, f)} \cup Parts[e] \cup Parts[f]
    BY <2>1, PartsAre DEF Junctions
  <2>3. PlainPart(Two(j, e, f))
    BY <2>1 DEF PlainPart, Junctions
  <2> QED
    BY <1>0, <2>2, <2>3
<1> QED
  BY <1>1, <1>2, <1>3, <1>4

(* The values of the symbols.                                              *)
IsEnv(env) ==
  \A s \in Names \ Literals :
    /\ Type[s] = "bool" => env[s] \in {0, 2}
    /\ Type[s] = "tristate" => env[s] \in 0 .. 2
    /\ Type[s] \notin Logical => env[s] \in DOMAIN Rank

(* In an environment every symbol has a tristate value.                    *)
LEMMA EnvIsTri == ASSUME NEW env, IsEnv(env) PROVE IsTri(env)
<1>1. ASSUME NEW s \in Names PROVE SymTri(env, s) \in Tri
  BY <1>1 DEF IsEnv, SymTri, Tri, TriOf, Logical
<1> QED
  BY <1>1 DEF IsTri

(* A bool is y or n, and no literal.                                       *)
LEMMA BoolIs ==
  ASSUME NEW env, IsEnv(env), NEW s \in Names, Type[s] = "bool"
  PROVE  SymTri(env, s) \in {0, 2} /\ s \notin Literals
BY WordsAssumption DEF IsEnv, SymTri, Logical

(* The value of a junction, from the values of its operands.               *)
Combine(j, v, w) == IF j = "and" THEN Lesser(v, w) ELSE Greater(v, w)

(* The value of each form of expression.                                   *)
LEMMA ValuesAre ==
  ASSUME AllTrees, NEW env, IsTri(env)
  PROVE  /\ CalcValue(env, NoExpr) = 2
         /\ \A s \in Names : CalcValue(env, Sym(s)) = SymTri(env, s)
         /\ \A r \in Relations : \A s, t \in Names :
              CalcValue(env, Comp(r, s, t)) = IF Holds(r, Difference(env, s, t)) THEN 2 ELSE 0
         /\ \A e \in Trees : CalcValue(env, Not(e)) = 2 - CalcValue(env, e)
         /\ \A j \in Junctions : \A e, f \in Trees :
              CalcValue(env, Two(j, e, f)) = Combine(j, CalcValue(env, e), CalcValue(env, f))
<1> DEFINE g == [x \in Exprs |-> CalcValue(env, x)]
<1>1. \A e \in Exprs : CalcValue(env, e) = ValueOf(env, g, e)
  BY ValueIs
<1>2. \A e \in Exprs : g[e] = CalcValue(env, e)
  OBVIOUS
<1> HIDE DEF g
<1>3. CalcValue(env, NoExpr) = 2
  <2>1. ValueOf(env, g, NoExpr) = 2
    BY DEF ValueOf, NoExpr, Relations
  <2> QED
    BY <1>1, <2>1, TreesAre
<1>4. ASSUME NEW s \in Names PROVE CalcValue(env, Sym(s)) = SymTri(env, s)
  <2>1. Sym(s) \in Exprs
    BY TreesAre DEF Trees, Leaves, Names
  <2>2. ValueOf(env, g, Sym(s)) = SymTri(env, s)
    BY DEF ValueOf, Sym, Relations
  <2> QED
    BY <1>1, <2>1, <2>2
<1>5. ASSUME NEW r \in Relations, NEW s \in Names, NEW t \in Names
      PROVE  CalcValue(env, Comp(r, s, t)) = IF Holds(r, Difference(env, s, t)) THEN 2 ELSE 0
  <2>1. Comp(r, s, t) \in Exprs
    BY TreesAre DEF Trees, Leaves, Names, Comp
  <2>2. ValueOf(env, g, Comp(r, s, t)) = IF Holds(r, Difference(env, s, t)) THEN 2 ELSE 0
    BY DEF ValueOf, Comp, Relations
  <2> QED
    BY <1>1, <2>1, <2>2
<1>6. ASSUME NEW e \in Trees PROVE CalcValue(env, Not(e)) = 2 - CalcValue(env, e)
  <2>1. Not(e) \in Exprs /\ e \in Exprs
    BY TreesAre DEF Trees
  <2>2. ValueOf(env, g, Not(e)) = 2 - g[e]
    BY DEF ValueOf, Not, Relations
  <2> QED
    BY <1>1, <1>2, <2>1, <2>2
<1>7. ASSUME NEW j \in Junctions, NEW e \in Trees, NEW f \in Trees
      PROVE  CalcValue(env, Two(j, e, f)) = Combine(j, CalcValue(env, e), CalcValue(env, f))
  <2>1. Two(j, e, f) \in Exprs /\ e \in Exprs /\ f \in Exprs
    BY TreesAre DEF Trees
  <2>2. ValueOf(env, g, Two(j, e, f)) = Combine(j, g[e], g[f])
    BY DEF ValueOf, Two, Relations, Junctions, Combine
  <2> QED
    BY <1>1, <1>2, <2>1, <2>2
<1> QED
  BY <1>3, <1>4, <1>5, <1>6, <1>7

(* y, m and n.                                                             *)
LEMMA ConstantsAre ==
  ASSUME AllTrees, NEW env, IsTri(env)
  PROVE  /\ TriWords \subseteq Names /\ \A w \in TriWords : Sym(w) \in Leaves /\ Sym(w) \in Trees
         /\ CalcValue(env, Sym("y")) = 2
         /\ CalcValue(env, Sym("m")) = 1
         /\ CalcValue(env, Sym("n")) = 0
<1>1. TriWords \subseteq Names /\ TriWords \subseteq Literals
  BY WordsAssumption DEF Names
<1>2. \A w \in TriWords : CalcValue(env, Sym(w)) = TriOf(w)
  BY <1>1, ValuesAre DEF SymTri
<1>3. \A w \in TriWords : Sym(w) \in Leaves /\ Sym(w) \in Trees
  BY <1>1, TreesAre DEF Leaves, Names
<1> QED
  BY <1>1, <1>2, <1>3 DEF TriWords, TriOf

(* A bool or tristate that is compared with a literal that is no number    *)
(* equals it when its text does, and a word of y, m, n when its value      *)
(* does.                                                                   *)
LEMMA DifferencesAre ==
  ASSUME NEW env, IsEnv(env)
  PROVE  /\ \A s, t \in Names : Difference(env, s, t) \in Int
         /\ \A s \in Names : \A w \in Literals :
              /\ Type[s] \in Logical
              /\ Numeral[Type[w]][w] = NaN
              => /\ Difference(env, s, w) = 0 <=> SymString(env, s) = w
                 /\ w \in TriWords => (Difference(env, s, w) = 0 <=> SymTri(env, s) = TriOf(w))
<1>1. \A s \in Names : Type[s] \in Logical => s \notin Literals
  BY WordsAssumption
<1>2. \A s \in Names : Type[s] \in Logical => /\ SymTri(env, s) \in 0 .. 2
                                              /\ SymString(env, s) = TriName[SymTri(env, s) + 1]
  BY <1>1 DEF IsEnv, SymTri, SymString, Logical
<1>3. \A i \in 0 .. 2 : /\ TriName[i + 1] \in TriWords
                        /\ \A w \in TriWords : TriName[i + 1] = w <=> i = TriOf(w)
  <2>1. TriName[1] = "n" /\ TriName[2] = "m" /\ TriName[3] = "y"
    BY DEF TriName
  <2>2. TriOf("n") = 0 /\ TriOf("m") = 1 /\ TriOf("y") = 2
    BY DEF TriOf
  <2> QED
    BY <2>1, <2>2 DEF TriWords
<1>4. \A s \in Names : SymString(env, s) \in DOMAIN Rank
  <2> TAKE s \in Names
  <2>1. CASE s \in Literals
    BY <2>1, WordsAssumption DEF SymString
  <2>2. CASE Type[s] \in Logical
    BY <1>2, <1>3, <2>2, WordsAssumption
  <2>3. CASE s \notin Literals /\ Type[s] \notin Logical
    BY <2>3 DEF SymString, IsEnv
  <2> QED
    BY <2>1, <2>2, <2>3
<1>5. \A s \in Names : \A w \in DOMAIN Rank : /\ ParseString(w, Type[s]).val \in Int
  <2> TAKE s \in Names
  <2> TAKE w \in DOMAIN Rank
  <2>1. CASE Type[s] \in Logical
    <3>1. ParseString(w, Type[s]) = [kind |-> "signed", val |-> IF w \in TriWords THEN TriOf(w) ELSE -1]
      BY <2>1 DEF ParseString
    <3> QED
      BY <3>1 DEF TriOf
  <2>2. CASE Type[s] \notin Logical
    <3>1. Numeral[Type[s]][w] \in Int
      BY <2>2, WordsAssumption DEF Names
    <3>2. CASE Numeral[Type[s]][w] = NaN
      BY <2>2, <3>2 DEF ParseString, AsText
    <3>3. CASE Numeral[Type[s]][w] # NaN
      <4>1. ParseString(w, Type[s]).val = Numeral[Type[s]][w]
        BY <2>2, <3>3 DEF ParseString
      <4> QED
        BY <3>1, <4>1
    <3> QED
      BY <3>2, <3>3
  <2> QED
    BY <2>1, <2>2
<1>6. \A v, w \in DOMAIN Rank : Rank[v] - Rank[w] \in Int
  BY WordsAssumption
<1>7. \A p, q : p.val \in Int /\ q.val \in Int =>
                  /\ p.val - q.val \in Int
                  /\ (p.val % WordSize) - (q.val % WordSize) \in Int
  <2>1. WordSize \in Nat /\ WordSize > 0
    BY WordsAssumption
  <2>2. \A i \in Int : i % WordSize \in Int
    BY <2>1
  <2> TAKE p, q
  <2> HAVE p.val \in Int /\ q.val \in Int
  <2>3. (p.val % WordSize) \in Int /\ (q.val % WordSize) \in Int
    BY <2>2
  <2> QED
    BY <2>3
<1>8. ASSUME NEW s \in Names, NEW t \in Names PROVE Difference(env, s, t) \in Int
  <2> DEFINE v == SymString(env, s)
             w == SymString(env, t)
             p == ParseString(v, Type[s])
             q == ParseString(w, Type[t])
  <2>1. v \in DOMAIN Rank /\ w \in DOMAIN Rank
    BY <1>4
  <2>2. p.val \in Int /\ q.val \in Int
    BY <1>5, <2>1
  <2>3. Difference(env, s, t) = IF Type[s] = "string" /\ Type[t] = "string" THEN Rank[v] - Rank[w]
                                ELSE Subtract(v, w, p, q)
    BY DEF Difference, SubtractTexts
  <2> HIDE DEF v, w, p, q
  <2>4. Subtract(v, w, p, q) \in Int
    <3>1. \/ Subtract(v, w, p, q) = Rank[v] - Rank[w]
          \/ Subtract(v, w, p, q) = p.val - q.val
          \/ Subtract(v, w, p, q) = (p.val % WordSize) - (q.val % WordSize)
      BY DEF Subtract
    <3> QED
      BY <1>6, <1>7, <2>1, <2>2, <3>1
  <2> QED
    BY <1>6, <2>1, <2>3, <2>4
<1>9. ASSUME NEW s \in Names, NEW w \in Literals, Type[s] \in Logical, Numeral[Type[w]][w] = NaN
      PROVE  /\ Difference(env, s, w) = 0 <=> SymString(env, s) = w
             /\ w \in TriWords => (Difference(env, s, w) = 0 <=> SymTri(env, s) = TriOf(w))
  <2>1. SymString(env, w) = w
    BY DEF SymString
  <2>2. ParseString(w, Type[w]) = AsText
    <3>1. Type[w] \notin Logical
      BY WordsAssumption
    <3> QED
      BY <1>9, <3>1 DEF ParseString
  <2>3. Type[s] # "string"
    BY <1>9 DEF Logical
  <2>4. Difference(env, s, w) = Subtract(SymString(env, s), w, ParseString(SymString(env, s), Type[s]), AsText)
    BY <2>1, <2>2, <2>3 DEF Difference, SubtractTexts
  <2>5. \A v, p : Subtract(v, w, p, AsText) = Rank[v] - Rank[w]
    BY DEF Subtract, AsText
  <2>6. SymString(env, s) \in DOMAIN Rank /\ w \in DOMAIN Rank
    BY <1>4, WordsAssumption
  <2>7. Difference(env, s, w) = Rank[SymString(env, s)] - Rank[w]
    BY <2>4, <2>5
  <2>8. Difference(env, s, w) = 0 <=> SymString(env, s) = w
    BY <2>6, <2>7, WordsAssumption
  <2> QED
    BY <1>2, <1>3, <1>9, <2>8
<1> QED
  BY <1>8, <1>9

(* expr_transform turns a negated comparison around.                       *)
LEMMA OppositeIs ==
  ASSUME NEW r \in Relations, NEW d \in Int
  PROVE  Opposite(r) \in Relations /\ (Holds(Opposite(r), d) <=> ~Holds(r, d))
<1>1. CASE r = "="
  BY <1>1 DEF Opposite, Holds, Relations
<1>2. CASE r = "!="
  BY <1>2 DEF Opposite, Holds, Relations
<1>3. CASE r = "<"
  BY <1>3 DEF Opposite, Holds, Relations
<1>4. CASE r = "<="
  BY <1>4 DEF Opposite, Holds, Relations
<1>5. CASE r = ">"
  BY <1>5 DEF Opposite, Holds, Relations
<1>6. CASE r = ">="
  BY <1>6 DEF Opposite, Holds, Relations
<1> QED
  BY <1>1, <1>2, <1>3, <1>4, <1>5, <1>6 DEF Relations

(* A comparison of a boolean or tristate with y, m or n.                   *)
LEMMA ComparisonIs ==
  ASSUME AllTrees, NEW env, IsEnv(env), NEW s \in Names, Type[s] \in Logical, NEW w \in TriWords
  PROVE  /\ Comp("=", s, w) \in Leaves /\ Comp("!=", s, w) \in Leaves
         /\ IsOrdinary(Comp("=", s, w)) /\ IsOrdinary(Comp("!=", s, w))
         /\ CalcValue(env, Comp("=", s, w)) = IF SymTri(env, s) = TriOf(w) THEN 2 ELSE 0
         /\ CalcValue(env, Comp("!=", s, w)) = IF SymTri(env, s) = TriOf(w) THEN 0 ELSE 2
<1>1. w \in Literals /\ w \in Names /\ Numeral[Type[w]][w] = NaN
  BY WordsAssumption DEF Names
<1>2. IsTri(env)
  BY EnvIsTri
<1>3. Difference(env, s, w) = 0 <=> SymTri(env, s) = TriOf(w)
  BY <1>1, DifferencesAre
<1>4. "=" \in Relations /\ "!=" \in Relations
  BY DEF Relations
<1>5. Comp("=", s, w) \in Leaves /\ Comp("!=", s, w) \in Leaves
  BY <1>1, <1>4 DEF Comp, Leaves, Names
<1>6. FairComparison(Comp("=", s, w)) /\ FairComparison(Comp("!=", s, w))
  BY <1>1 DEF FairComparison, Comp
<1>7. IsOrdinary(Comp("=", s, w)) /\ IsOrdinary(Comp("!=", s, w))
  BY <1>5, <1>6, OrdinaryAre
<1>8. \A d : (Holds("=", d) <=> d = 0) /\ (Holds("!=", d) <=> d # 0)
  BY DEF Holds
<1>9. /\ CalcValue(env, Comp("=", s, w)) = IF Holds("=", Difference(env, s, w)) THEN 2 ELSE 0
      /\ CalcValue(env, Comp("!=", s, w)) = IF Holds("!=", Difference(env, s, w)) THEN 2 ELSE 0
  BY <1>1, <1>2, <1>4, ValuesAre
<1> QED
  BY <1>3, <1>5, <1>7, <1>8, <1>9

(* A leaf is a symbol or a comparison.                                     *)
LEMMA LeavesAre ==
  ASSUME NEW e \in Leaves
  PROVE  \/ e.op = "sym" /\ e.a \in Names /\ e = Sym(e.a)
         \/ e.op \in Relations /\ e.a \in Names /\ e.b \in Names /\ e = Comp(e.op, e.a, e.b)
<1>1. CASE e \in {Sym(s) : s \in DOMAIN Type}
  BY <1>1 DEF Sym, Names
<1>2. CASE e \in [op : Relations, a : DOMAIN Type, b : DOMAIN Type]
  BY <1>2 DEF Comp, Names
<1> QED
  BY <1>1, <1>2 DEF Leaves

(* Functions that take trees to trees and no condition to no condition.    *)
TreeMaps == {f \in [Exprs -> Exprs] : f[NoExpr] = NoExpr /\ \A e \in Trees : f[e] \in Trees}

(* Recursion for functions from expressions to expressions that keep NULL. *)
LEMMA MapRecursion ==
  ASSUME AllTrees, NEW D \in [TreeMaps -> TreeMaps],
         \A f, g \in TreeMaps : \A e \in Exprs :
           (\A x \in Below(e) : f[x] = g[x]) => D[f][e] = D[g][e]
  PROVE  \E f \in TreeMaps : D[f] = f
<1>1. PICK rank \in Heights : TRUE
  BY TreesAre
<1>2. \A e \in Exprs : \A f \in Below(e) : f \in Exprs /\ rank[f] < rank[e]
  BY DEF Heights, Below, Trees, NoExpr, Junctions
<1>3. rank \in [Exprs -> Nat]
  BY DEF Heights
<1> DEFINE V == [e \in Exprs |-> IF e = NoExpr THEN {NoExpr} ELSE Trees]
<1>4. Choices(Exprs, Exprs, V) = TreeMaps
  BY TreesAre DEF Choices, TreeMaps, Trees
<1>5. TreeMaps # {}
  <2>1. [e \in Exprs |-> e] \in TreeMaps
    BY TreesAre DEF TreeMaps, Trees
  <2> QED
    BY <2>1
<1>6. ASSUME NEW f \in TreeMaps, NEW g \in TreeMaps, NEW e \in Exprs,
             \A x \in Exprs : rank[x] < rank[e] => f[x] = g[x]
      PROVE  D[f][e] = D[g][e]
  BY <1>2, <1>6
<1> HIDE DEF V
<1>8. D \in [Choices(Exprs, Exprs, V) -> Choices(Exprs, Exprs, V)] /\ Choices(Exprs, Exprs, V) # {}
  BY <1>4, <1>5
<1>9. GoesDown(Exprs, rank, Choices(Exprs, Exprs, V), D)
  BY <1>4, <1>6 DEF GoesDown
<1>7. \E f \in Choices(Exprs, Exprs, V) : D[f] = f
  BY <1>3, <1>8, <1>9, Recursion
<1> QED
  BY <1>4, <1>7

(* expr_alloc_and.                                                         *)
LEMMA AllocAndIs ==
  ASSUME AllTrees, NEW e \in Exprs, NEW f \in Exprs
  PROVE  /\ AllocAnd(e, f) \in Exprs
         /\ IsOrdinary(e) /\ IsOrdinary(f) => IsOrdinary(AllocAnd(e, f))
         /\ IsNormal(e) /\ IsNormal(f) => IsNormal(AllocAnd(e, f))
         /\ IsPlain(e) /\ IsPlain(f) => IsPlain(AllocAnd(e, f))
         /\ \A env : IsTri(env) =>
              CalcValue(env, AllocAnd(e, f)) = Lesser(CalcValue(env, e), CalcValue(env, f))
<1>1. \A v \in Tri : Lesser(2, v) = v /\ Lesser(v, 2) = v
  BY DEF Tri, Lesser
<1>2. ASSUME NEW env, IsTri(env)
      PROVE  CalcValue(env, NoExpr) = 2 /\ CalcValue(env, e) \in Tri /\ CalcValue(env, f) \in Tri
  BY <1>2, ValueIs, ValuesAre
<1>3. CASE e = NoExpr
  <2>1. AllocAnd(e, f) = f
    BY <1>3 DEF AllocAnd, AllocTwo
  <2> QED
    BY <1>1, <1>2, <1>3, <2>1
<1>4. CASE e # NoExpr /\ f = NoExpr
  <2>1. AllocAnd(e, f) = e
    BY <1>4 DEF AllocAnd, AllocTwo
  <2> QED
    BY <1>1, <1>2, <1>4, <2>1
<1>5. CASE e # NoExpr /\ f # NoExpr
  <2>1. AllocAnd(e, f) = Two("and", e, f) /\ e \in Trees /\ f \in Trees /\ "and" \in Junctions
    BY <1>5 DEF AllocAnd, AllocTwo, Trees, Junctions
  <2>2. \A v, w : Combine("and", v, w) = Lesser(v, w)
    BY DEF Combine
  <2> HIDE DEF AllocAnd
  <2>3. AllocAnd(e, f) \in Exprs
    BY <2>1, TreesAre DEF Trees
  <2>4. IsOrdinary(e) /\ IsOrdinary(f) => IsOrdinary(AllocAnd(e, f))
    BY <2>1, OrdinaryAre
  <2>5. IsNormal(e) /\ IsNormal(f) => IsNormal(AllocAnd(e, f))
    BY <2>1, NormalAre
  <2>7. IsPlain(e) /\ IsPlain(f) => IsPlain(AllocAnd(e, f))
    BY <2>1, PlainAre
  <2>6. \A env : IsTri(env) =>
          CalcValue(env, AllocAnd(e, f)) = Lesser(CalcValue(env, e), CalcValue(env, f))
    BY <2>1, <2>2, ValuesAre
  <2> QED
    BY <2>3, <2>4, <2>5, <2>6, <2>7
<1> QED
  BY <1>3, <1>4, <1>5

-----------------------------------------------------------------------------
(* rewrite_m.                                                              *)
LEMMA RewriteMIs ==
  ASSUME AllTrees, NEW m \in Names, NEW e \in Exprs
  PROVE  /\ e = NoExpr => RewriteM(e, m) = NoExpr
         /\ e \in Trees => RewriteM(e, m) \in Trees
         /\ RewriteM(e, m) = RewriteMOf([x \in Exprs |-> RewriteM(x, m)], e, m)
<1> DEFINE Body(f, x) == RewriteMOf(f, x, m)
           Is(f) == f = [x \in Exprs |-> Body(f, x)]
           T == CHOOSE f : Is(f)
           D == [f \in TreeMaps |-> [x \in Exprs |-> Body(f, x)]]
           Maps(f, x) == (x = NoExpr => f[x] = NoExpr) /\ (x \in Trees => f[x] \in Trees)
<1>1. ASSUME NEW x \in Exprs, NEW f, NEW g, \A y \in Below(x) : f[y] = g[y]
      PROVE  Body(f, x) = Body(g, x)
  <2>1. x \in Trees /\ x.op = "not" => f[x.l] = g[x.l]
    BY <1>1, TreesAre DEF Below, Leaves, Sym, Relations
  <2>2. x \in Trees /\ x.op \in Junctions => f[x.l] = g[x.l] /\ f[x.r] = g[x.r]
    BY <1>1, TreesAre DEF Below, Leaves, Sym, Relations, Junctions
  <2> QED
    BY <2>1, <2>2, TreesAre DEF RewriteMOf, NoExpr, Leaves, Sym, Relations, Junctions, Trees
<1>2. ASSUME NEW x \in Exprs, NEW f, \A y \in Below(x) : f[y] \in Trees
      PROVE  (x = NoExpr => Body(f, x) = NoExpr) /\ (x \in Trees => Body(f, x) \in Trees)
  <2>1. CASE x = NoExpr
    BY <2>1 DEF NoExpr, RewriteMOf, Junctions, Sym, Trees
  <2>2. CASE x \in Leaves
    <3>1. Sym(m) \in Trees /\ Two("and", x, Sym(m)) \in Trees /\ x \in Trees
      BY <2>2, TreesAre DEF Leaves, Names, Junctions
    <3>2. Body(f, x) = IF x = Sym("m") THEN Two("and", x, Sym(m)) ELSE x
      BY <2>2 DEF RewriteMOf, Leaves, Sym, Relations, Junctions
    <3> QED
      BY <3>1, <3>2 DEF Trees
  <2>3. CASE x \in Trees /\ x.op = "not"
    <3>1. f[x.l] \in Trees
      BY <1>2, <2>3, TreesAre DEF Below, Leaves, Sym, Relations, Junctions
    <3>2. Body(f, x) = Not(f[x.l])
      BY <2>3 DEF RewriteMOf, Junctions, Sym
    <3> QED
      BY <2>3, <3>1, <3>2, TreesAre DEF Trees
  <2>4. CASE x \in Trees /\ x.op \in Junctions
    <3>1. f[x.l] \in Trees /\ f[x.r] \in Trees
      BY <1>2, <2>4, TreesAre DEF Below, Leaves, Sym, Relations, Junctions
    <3>2. Body(f, x) = Two(x.op, f[x.l], f[x.r])
      BY <2>4 DEF RewriteMOf, Junctions, Sym
    <3> QED
      BY <2>4, <3>1, <3>2, TreesAre DEF Trees
  <2> QED
    BY <2>1, <2>2, <2>3, <2>4, TreesAre DEF Trees
<1>3. PICK k \in TreeMaps : Is(k)
  <2>1. D \in [TreeMaps -> TreeMaps]
    <3>1. ASSUME NEW f \in TreeMaps PROVE [x \in Exprs |-> Body(f, x)] \in TreeMaps
      <4>1. \A x \in Exprs : \A y \in Below(x) : f[y] \in Trees
        BY DEF Below, TreeMaps
      <4> HIDE DEF Body
      <4> QED
        BY <1>2, <4>1, TreesAre DEF TreeMaps, Trees
    <3> HIDE DEF Body
    <3> QED
      BY <3>1
  <2> HIDE DEF Body
  <2>2. \A f, g \in TreeMaps : \A x \in Exprs :
           (\A y \in Below(x) : f[y] = g[y]) => D[f][x] = D[g][x]
    BY <1>1
  <2> HIDE DEF D
  <2>3. \E f \in TreeMaps : D[f] = f
    BY <2>1, <2>2, MapRecursion
  <2> QED
    BY <2>3 DEF D
<1>4. Is(T)
  <2> HIDE DEF Is
  <2> QED
    BY <1>3
<1>5. \A x : RewriteM(x, m) = T[x]
  BY DEF RewriteM, RewriteMOf
<1> HIDE DEF T, Body
<1>6. \A x \in Exprs : T[x] = Body(T, x)
  BY <1>4
<1> DEFINE P == {x \in Exprs : Maps(T, x)}
<1>7. ASSUME NEW x \in Exprs, Below(x) \subseteq P PROVE x \in P
  <2>1. \A y \in Below(x) : T[y] \in Trees
    BY <1>7 DEF Below
  <2> QED
    BY <1>2, <1>6, <2>1
<1>8. Exprs \subseteq P
  <2> HIDE DEF P
  <2> QED
    BY <1>7, TreeInduction
<1>9. [x \in Exprs |-> RewriteM(x, m)] = T
  BY <1>4, <1>5
<1> QED
  BY <1>5, <1>6, <1>8, <1>9 DEF Body

(* rewrite_m adds no comparison.                                           *)
LEMMA RewriteMOrdinary ==
  ASSUME AllTrees, NEW m \in Names, NEW e \in Exprs, IsOrdinary(e)
  PROVE  IsOrdinary(RewriteM(e, m))
<1> DEFINE P == {x \in Exprs : IsOrdinary(x) => IsOrdinary(RewriteM(x, m))}
           f == [x \in Exprs |-> RewriteM(x, m)]
<1>1. ASSUME NEW x \in Exprs, Below(x) \subseteq P PROVE x \in P
  <2> SUFFICES ASSUME IsOrdinary(x) PROVE IsOrdinary(RewriteM(x, m))
    OBVIOUS
  <2>0. \A y \in Below(x) : f[y] = RewriteM(y, m) /\ f[y] \in Trees /\ (IsOrdinary(y) => IsOrdinary(f[y]))
    BY <1>1, RewriteMIs DEF Below, Trees
  <2>00. RewriteM(x, m) = RewriteMOf(f, x, m)
    BY RewriteMIs
  <2> HIDE DEF f, P
  <2>1. CASE x = NoExpr
    BY <2>1, RewriteMIs
  <2>2. CASE x \in Leaves
    <3>1. Sym(m) \in Leaves /\ x \in Trees /\ Sym(m) \in Trees
      BY <2>2, TreesAre DEF Leaves, Names
    <3>2. RewriteM(x, m) = IF x = Sym("m") THEN Two("and", x, Sym(m)) ELSE x
      BY <2>00, <2>2 DEF RewriteMOf, Leaves, Sym, Relations, Junctions
    <3>3. FairComparison(Sym(m))
      BY DEF FairComparison, Sym
    <3>4. "and" \in Junctions
      BY DEF Junctions
    <3> QED
      BY <3>1, <3>2, <3>3, <3>4, OrdinaryAre
  <2>3. CASE x \in Trees /\ x.op = "not"
    <3>1. x.l \in Below(x) /\ x.l \in Trees /\ x = Not(x.l)
      BY <2>3, TreesAre DEF Below, Leaves, Sym, Relations, Junctions
    <3>2. RewriteM(x, m) = Not(f[x.l])
      BY <2>00, <2>3 DEF RewriteMOf, Junctions, Sym
    <3> QED
      BY <2>0, <3>1, <3>2, OrdinaryAre
  <2>4. CASE x \in Trees /\ x.op \in Junctions
    <3>1. x.l \in Below(x) /\ x.r \in Below(x) /\ x.l \in Trees /\ x.r \in Trees /\ x = Two(x.op, x.l, x.r)
      BY <2>4, TreesAre DEF Below, Leaves, Sym, Relations, Junctions
    <3>2. RewriteM(x, m) = Two(x.op, f[x.l], f[x.r])
      BY <2>00, <2>4 DEF RewriteMOf, Junctions, Sym
    <3>3. IsOrdinary(x.l) /\ IsOrdinary(x.r)
      BY <2>4, <3>1, OrdinaryAre
    <3> QED
      BY <2>0, <2>4, <3>1, <3>2, <3>3, OrdinaryAre
  <2> QED
    BY <2>1, <2>2, <2>3, <2>4, TreesAre DEF Trees
<1>2. Exprs \subseteq P
  <2> HIDE DEF P
  <2> QED
    BY <1>1, TreeInduction
<1> QED
  BY <1>2

-----------------------------------------------------------------------------
(* expr_trans_bool.                                                        *)
LEMMA TransBoolIs ==
  ASSUME AllTrees, NEW e \in Exprs
  PROVE  /\ e = NoExpr => TransBool[e] = NoExpr
         /\ e \in Trees => TransBool[e] \in Trees
         /\ TransBool[e] = TransBoolOf(TransBool, e)
<1> DEFINE Body(f, x) == TransBoolOf(f, x)
           Is(f) == f = [x \in Exprs |-> Body(f, x)]
           D == [f \in TreeMaps |-> [x \in Exprs |-> Body(f, x)]]
           Maps(f, x) == (x = NoExpr => f[x] = NoExpr) /\ (x \in Trees => f[x] \in Trees)
<1>1. ASSUME NEW x \in Exprs, NEW f, NEW g, \A y \in Below(x) : f[y] = g[y]
      PROVE  Body(f, x) = Body(g, x)
  <2>1. x \in Trees /\ x.op = "not" => f[x.l] = g[x.l]
    BY <1>1, TreesAre DEF Below, Leaves, Sym, Relations
  <2>2. x \in Trees /\ x.op \in Junctions => f[x.l] = g[x.l] /\ f[x.r] = g[x.r]
    BY <1>1, TreesAre DEF Below, Leaves, Sym, Relations, Junctions
  <2> QED
    BY <2>1, <2>2, TreesAre DEF TransBoolOf, NoExpr, Leaves, Sym, Relations, Junctions, Trees
<1>2. ASSUME NEW x \in Exprs, NEW f, \A y \in Below(x) : f[y] \in Trees
      PROVE  (x = NoExpr => Body(f, x) = NoExpr) /\ (x \in Trees => Body(f, x) \in Trees)
  <2>1. CASE x = NoExpr
    BY <2>1 DEF NoExpr, TransBoolOf, Junctions, Trees
  <2>2. CASE x \in Leaves
    <3>1. x \in Trees
      BY <2>2, TreesAre
    <3>2. Body(f, x) \in {x, Sym(x.a)} /\ (Body(f, x) = x \/ x.op \in Relations)
      BY <2>2 DEF TransBoolOf, Leaves, Sym, Relations, Junctions
    <3>3. x.op \in Relations => Sym(x.a) \in Leaves
      BY <2>2, LeavesAre DEF Leaves, Names, Sym, Relations
    <3> QED
      BY <3>1, <3>2, <3>3, TreesAre DEF Trees
  <2>3. CASE x \in Trees /\ x.op = "not"
    <3>1. f[x.l] \in Trees
      BY <1>2, <2>3, TreesAre DEF Below, Leaves, Sym, Relations, Junctions
    <3>2. Body(f, x) = Not(f[x.l])
      BY <2>3 DEF TransBoolOf, Junctions
    <3> QED
      BY <2>3, <3>1, <3>2, TreesAre DEF Trees
  <2>4. CASE x \in Trees /\ x.op \in Junctions
    <3>1. f[x.l] \in Trees /\ f[x.r] \in Trees
      BY <1>2, <2>4, TreesAre DEF Below, Leaves, Sym, Relations, Junctions
    <3>2. Body(f, x) = Two(x.op, f[x.l], f[x.r])
      BY <2>4 DEF TransBoolOf, Junctions
    <3> QED
      BY <2>4, <3>1, <3>2, TreesAre DEF Trees
  <2> QED
    BY <2>1, <2>2, <2>3, <2>4, TreesAre DEF Trees
<1>3. PICK k \in TreeMaps : Is(k)
  <2>1. D \in [TreeMaps -> TreeMaps]
    <3>1. ASSUME NEW f \in TreeMaps PROVE [x \in Exprs |-> Body(f, x)] \in TreeMaps
      <4>1. \A x \in Exprs : \A y \in Below(x) : f[y] \in Trees
        BY DEF Below, TreeMaps
      <4> HIDE DEF Body
      <4> QED
        BY <1>2, <4>1, TreesAre DEF TreeMaps, Trees
    <3> HIDE DEF Body
    <3> QED
      BY <3>1
  <2> HIDE DEF Body
  <2>2. \A f, g \in TreeMaps : \A x \in Exprs :
           (\A y \in Below(x) : f[y] = g[y]) => D[f][x] = D[g][x]
    BY <1>1
  <2> HIDE DEF D
  <2>3. \E f \in TreeMaps : D[f] = f
    BY <2>1, <2>2, MapRecursion
  <2> QED
    BY <2>3 DEF D
<1>4. TransBool = CHOOSE f : Is(f)
  BY DEF TransBool, TransBoolOf
<1>5. Is(TransBool)
  <2> HIDE DEF Is
  <2> QED
    BY <1>3, <1>4
<1> HIDE DEF Body
<1>6. \A x \in Exprs : TransBool[x] = Body(TransBool, x)
  BY <1>5
<1> DEFINE P == {x \in Exprs : Maps(TransBool, x)}
<1>7. ASSUME NEW x \in Exprs, Below(x) \subseteq P PROVE x \in P
  <2>1. \A y \in Below(x) : TransBool[y] \in Trees
    BY <1>7 DEF Below
  <2> QED
    BY <1>2, <1>6, <2>1
<1>8. Exprs \subseteq P
  <2> HIDE DEF P
  <2> QED
    BY <1>7, TreeInduction
<1> QED
  BY <1>6, <1>8 DEF Body

(* expr_trans_bool keeps whether the value is n.                           *)
LEMMA TransBoolKeeps ==
  ASSUME AllTrees, NEW env, IsEnv(env), NEW e \in Exprs, IsNormal(e)
  PROVE  CalcValue(env, TransBool[e]) = 0 <=> CalcValue(env, e) = 0
<1> DEFINE V(x) == CalcValue(env, x)
           P == {x \in Exprs : IsNormal(x) => (V(TransBool[x]) = 0 <=> V(x) = 0)}
<1>0. IsTri(env)
  BY EnvIsTri
<1>00. \A x \in Exprs : V(x) \in Tri
  BY <1>0, ValueIs
<1>1. ASSUME NEW x \in Exprs, Below(x) \subseteq P PROVE x \in P
  <2> SUFFICES ASSUME IsNormal(x) PROVE V(TransBool[x]) = 0 <=> V(x) = 0
    OBVIOUS
  <2>0. TransBool[x] = TransBoolOf(TransBool, x)
    BY TransBoolIs
  <2>1. CASE x = NoExpr
    BY <2>1, TransBoolIs
  <2>2. CASE x \in Leaves
    <3>1. CASE x.op = "!=" /\ Type[x.a] = "tristate" /\ x.b = "n"
      <4>1. TransBool[x] = Sym(x.a) /\ x = Comp("!=", x.a, "n") /\ x.a \in Names
        BY <2>0, <2>2, <3>1, LeavesAre DEF TransBoolOf, Junctions, Sym
      <4>2. V(Sym(x.a)) = SymTri(env, x.a)
        BY <1>0, <4>1, ValuesAre
      <4>3. V(Comp("!=", x.a, "n")) = IF SymTri(env, x.a) = TriOf("n") THEN 0 ELSE 2
        BY <3>1, <4>1, ComparisonIs DEF TriWords, Logical
      <4>4. TriOf("n") = 0
        BY DEF TriOf
      <4> QED
        BY <4>1, <4>2, <4>3, <4>4
    <3>2. CASE ~(x.op = "!=" /\ Type[x.a] = "tristate" /\ x.b = "n")
      <4>1. TransBool[x] = x
        BY <2>0, <2>2, <3>2 DEF TransBoolOf, Leaves, Sym, Relations, Junctions
      <4> QED
        BY <4>1
    <3> QED
      BY <3>1, <3>2
  <2>3. CASE x \in Trees /\ x.op = "not"
    <3>1. x.l \in Trees /\ x = Not(x.l)
      BY <2>3, TreesAre DEF Leaves, Sym, Relations, Junctions
    <3>2. x.l.op = "sym"
      BY <3>1, NormalAre
    <3>3. TransBool[x.l] = x.l
      BY <3>1, <3>2, TransBoolIs DEF TransBoolOf, Junctions, Trees
    <3>4. TransBool[x] = Not(TransBool[x.l])
      BY <2>0, <2>3 DEF TransBoolOf, Junctions
    <3> QED
      BY <3>1, <3>3, <3>4
  <2>4. CASE x \in Trees /\ x.op \in Junctions
    <3>1. x.l \in Below(x) /\ x.r \in Below(x) /\ x.l \in Trees /\ x.r \in Trees /\ x = Two(x.op, x.l, x.r)
      BY <2>4, TreesAre DEF Below, Leaves, Sym, Relations, Junctions
    <3>2. TransBool[x] = Two(x.op, TransBool[x.l], TransBool[x.r])
      BY <2>0, <2>4 DEF TransBoolOf, Junctions
    <3>3. IsNormal(x.l) /\ IsNormal(x.r)
      BY <2>4, <3>1, NormalAre
    <3>4. TransBool[x.l] \in Trees /\ TransBool[x.r] \in Trees
      BY <3>1, TransBoolIs DEF Trees
    <3> DEFINE a == V(x.l)
               b == V(x.r)
               c == V(TransBool[x.l])
               d == V(TransBool[x.r])
    <3>5. (c = 0 <=> a = 0) /\ (d = 0 <=> b = 0)
      BY <1>1, <3>1, <3>3
    <3>6. V(x) = Combine(x.op, a, b) /\ V(TransBool[x]) = Combine(x.op, c, d)
      BY <1>0, <2>4, <3>1, <3>2, <3>4, ValuesAre
    <3>7. a \in Tri /\ b \in Tri /\ c \in Tri /\ d \in Tri
      BY <1>00, <3>1, <3>4 DEF Trees
    <3> HIDE DEF a, b, c, d, V, P
    <3> QED
      BY <3>5, <3>6, <3>7 DEF Combine, Lesser, Greater, Tri
  <2> QED
    BY <2>1, <2>2, <2>3, <2>4, TreesAre DEF Trees
<1>2. Exprs \subseteq P
  <2> HIDE DEF P
  <2> QED
    BY <1>1, TreeInduction
<1> QED
  BY <1>2

(* expr_trans_bool leaves an expression that the rewriting expects.        *)
LEMMA TransBoolForm ==
  ASSUME AllTrees, NEW e \in Exprs, IsOrdinary(e), IsNormal(e)
  PROVE  /\ IsOrdinary(TransBool[e]) /\ IsNormal(TransBool[e])
         /\ IsPlain(e) => IsPlain(TransBool[e])
<1> DEFINE Fits(x) == IsOrdinary(x) /\ IsNormal(x)
           Stays(x) == Fits(x) => Fits(TransBool[x]) /\ (IsPlain(x) => IsPlain(TransBool[x]))
           P == {x \in Exprs : Stays(x)}
<1>1. ASSUME NEW x \in Exprs, Below(x) \subseteq P PROVE x \in P
  <2> SUFFICES ASSUME Fits(x) PROVE Fits(TransBool[x]) /\ (IsPlain(x) => IsPlain(TransBool[x]))
    OBVIOUS
  <2>0. TransBool[x] = TransBoolOf(TransBool, x)
    BY TransBoolIs
  <2>1. CASE x = NoExpr
    BY <2>1, TransBoolIs
  <2>2. CASE x \in Leaves
    <3>1. CASE x.op = "!=" /\ Type[x.a] = "tristate" /\ x.b = "n"
      <4>1. TransBool[x] = Sym(x.a) /\ x.a \in Names
        BY <2>0, <2>2, <3>1, LeavesAre DEF TransBoolOf, Junctions
      <4>2. Sym(x.a) \in Leaves
        BY <4>1 DEF Leaves, Names
      <4>3. FairComparison(Sym(x.a)) /\ PlainPart(Sym(x.a))
        BY <3>1 DEF FairComparison, PlainPart, Sym, Logical
      <4> QED
        BY <4>1, <4>2, <4>3, OrdinaryAre, NormalAre, PlainAre
    <3>2. CASE ~(x.op = "!=" /\ Type[x.a] = "tristate" /\ x.b = "n")
      <4>1. TransBool[x] = x
        BY <2>0, <2>2, <3>2 DEF TransBoolOf, Leaves, Sym, Relations, Junctions
      <4> QED
        BY <4>1
    <3> QED
      BY <3>1, <3>2
  <2>3. CASE x \in Trees /\ x.op = "not"
    <3>1. x.l \in Trees /\ x = Not(x.l)
      BY <2>3, TreesAre DEF Leaves, Sym, Relations, Junctions
    <3>2. x.l.op = "sym"
      BY <3>1, NormalAre
    <3>3. TransBool[x.l] = x.l
      BY <3>1, <3>2, TransBoolIs DEF TransBoolOf, Junctions, Trees
    <3>4. TransBool[x] = Not(TransBool[x.l])
      BY <2>0, <2>3 DEF TransBoolOf, Junctions
    <3> QED
      BY <3>1, <3>3, <3>4
  <2>4. CASE x \in Trees /\ x.op \in Junctions
    <3>1. x.l \in Below(x) /\ x.r \in Below(x) /\ x.l \in Trees /\ x.r \in Trees /\ x = Two(x.op, x.l, x.r)
      BY <2>4, TreesAre DEF Below, Leaves, Sym, Relations, Junctions
    <3>2. TransBool[x] = Two(x.op, TransBool[x.l], TransBool[x.r])
      BY <2>0, <2>4 DEF TransBoolOf, Junctions
    <3>3. Fits(x.l) /\ Fits(x.r)
      BY <2>4, <3>1, OrdinaryAre, NormalAre
    <3>4. TransBool[x.l] \in Trees /\ TransBool[x.r] \in Trees
      BY <3>1, TransBoolIs DEF Trees
    <3>5. Stays(x.l) /\ Stays(x.r)
      BY <1>1, <3>1
    <3>6. Fits(TransBool[x])
      <4>1. Fits(TransBool[x.l]) /\ Fits(TransBool[x.r])
        BY <3>3, <3>5
      <4> QED
        BY <2>4, <3>2, <3>4, <4>1, OrdinaryAre, NormalAre
    <3>7. ASSUME IsPlain(x) PROVE IsPlain(TransBool[x])
      <4>1. IsPlain(x.l) /\ IsPlain(x.r)
        BY <2>4, <3>1, <3>7, PlainAre
      <4>2. IsPlain(TransBool[x.l]) /\ IsPlain(TransBool[x.r])
        BY <3>3, <3>5, <4>1
      <4> QED
        BY <2>4, <3>2, <3>4, <4>2, PlainAre
    <3> QED
      BY <3>6, <3>7
  <2> QED
    BY <2>1, <2>2, <2>3, <2>4, TreesAre DEF Trees
<1>2. Exprs \subseteq P
  <2> HIDE DEF P
  <2> QED
    BY <1>1, TreeInduction
<1> QED
  BY <1>2

-----------------------------------------------------------------------------
(* expr_eliminate_yn.                                                      *)
LEMMA ReducedIs ==
  ASSUME AllTrees, NEW j \in Junctions, NEW f \in Trees, NEW g \in Trees
  PROVE  /\ Reduced(j, f, g) \in {f, g, Sym("y"), Sym("n"), Two(j, f, g)}
         /\ Reduced(j, f, g) \in Trees
         /\ \A env : IsTri(env) =>
              CalcValue(env, Reduced(j, f, g)) = Combine(j, CalcValue(env, f), CalcValue(env, g))
<1> DEFINE a == Sym(Absorbing(j))
           n == Sym(Neutral(j))
<1>1. a \in {Sym("y"), Sym("n")} /\ n \in {Sym("y"), Sym("n")}
  BY DEF Absorbing, Neutral
<1>2. \/ a \in {f, g} /\ Reduced(j, f, g) = a
      \/ f = n /\ Reduced(j, f, g) = g
      \/ g = n /\ Reduced(j, f, g) = f
      \/ Reduced(j, f, g) = Two(j, f, g)
  <2>1. a # n
    BY DEF Absorbing, Neutral, Sym
  <2>2. Reduced(j, f, g) = CASE a \in {f, g} -> a
                             [] f = n /\ g # a -> g
                             [] g = n /\ f \notin {a, n} -> f
                             [] {f, g} \cap {a, n} = {} -> Two(j, f, g)
    BY DEF Reduced
  <2> HIDE DEF a, n
  <2> QED
    BY <2>1, <2>2
<1>3. Sym("y") \in Trees /\ Sym("n") \in Trees
  <2>1. "y" \in Names /\ "n" \in Names
    BY WordsAssumption DEF TriWords, Names
  <2> QED
    BY <2>1, TreesAre DEF Leaves, Names
<1>4. Two(j, f, g) \in Trees
  BY TreesAre
<1>5. ASSUME NEW env, IsTri(env)
      PROVE  CalcValue(env, Reduced(j, f, g)) = Combine(j, CalcValue(env, f), CalcValue(env, g))
  <2> DEFINE v == CalcValue(env, f)
             w == CalcValue(env, g)
  <2>1. v \in Tri /\ w \in Tri
    BY <1>5, ValueIs DEF Trees
  <2>2. CalcValue(env, a) = (IF j = "and" THEN 0 ELSE 2) /\ CalcValue(env, n) = (IF j = "and" THEN 2 ELSE 0)
    BY <1>5, ConstantsAre DEF Absorbing, Neutral
  <2>3. CalcValue(env, Two(j, f, g)) = Combine(j, v, w)
    BY <1>5, ValuesAre
  <2>4. \/ (v = CalcValue(env, a) \/ w = CalcValue(env, a)) /\ CalcValue(env, Reduced(j, f, g)) = CalcValue(env, a)
        \/ v = CalcValue(env, n) /\ CalcValue(env, Reduced(j, f, g)) = w
        \/ w = CalcValue(env, n) /\ CalcValue(env, Reduced(j, f, g)) = v
        \/ CalcValue(env, Reduced(j, f, g)) = Combine(j, v, w)
    <3> HIDE DEF a, n
    <3> QED
      BY <1>2, <2>3
  <2> HIDE DEF a, n, v, w
  <2>5. CalcValue(env, Reduced(j, f, g)) = Combine(j, v, w)
    BY <2>1, <2>2, <2>4 DEF Combine, Lesser, Greater, Tri
  <2> QED
    BY <2>5 DEF v, w
<1> HIDE DEF a, n
<1> QED
  BY <1>1, <1>2, <1>3, <1>4, <1>5

(* expr_eliminate_yn returns a tree and is what its definition says.       *)
LEMMA EliminateYNIs ==
  ASSUME AllTrees, NEW e \in Exprs
  PROVE  /\ e = NoExpr => EliminateYN[e] = NoExpr
         /\ e \in Trees => EliminateYN[e] \in Trees
         /\ EliminateYN[e] = IF e.op \in Junctions
                             THEN Reduced(e.op, EliminateYN[e.l], EliminateYN[e.r]) ELSE e
<1> DEFINE Body(f, x) == IF x.op \in Junctions THEN Reduced(x.op, f[x.l], f[x.r]) ELSE x
           Is(f) == f = [x \in Exprs |-> Body(f, x)]
           D == [f \in TreeMaps |-> [x \in Exprs |-> Body(f, x)]]
           Maps(f, x) == (x = NoExpr => f[x] = NoExpr) /\ (x \in Trees => f[x] \in Trees)
<1>1. ASSUME NEW x \in Exprs, NEW f, NEW g, \A y \in Below(x) : f[y] = g[y]
      PROVE  Body(f, x) = Body(g, x)
  <2>1. x \in Trees /\ x.op = "not" => f[x.l] = g[x.l]
    BY <1>1, TreesAre DEF Below, Leaves, Sym, Relations
  <2>2. x \in Trees /\ x.op \in Junctions => f[x.l] = g[x.l] /\ f[x.r] = g[x.r]
    BY <1>1, TreesAre DEF Below, Leaves, Sym, Relations, Junctions
  <2> QED
    BY <2>1, <2>2, TreesAre DEF NoExpr, NoExpr, Leaves, Sym, Relations, Junctions, Trees
<1>2. ASSUME NEW x \in Exprs, NEW f, \A y \in Below(x) : f[y] \in Trees
      PROVE  (x = NoExpr => Body(f, x) = NoExpr) /\ (x \in Trees => Body(f, x) \in Trees)
  <2>1. CASE x = NoExpr
    BY <2>1 DEF NoExpr, Junctions, Trees
  <2>2. CASE x \in Trees /\ x.op \in Junctions
    <3>1. f[x.l] \in Trees /\ f[x.r] \in Trees
      BY <1>2, <2>2, TreesAre DEF Below, Leaves, Sym, Relations, Junctions
    <3>2. Body(f, x) = Reduced(x.op, f[x.l], f[x.r])
      BY <2>2
    <3> QED
      BY <2>2, <3>1, <3>2, ReducedIs DEF Trees
  <2>3. CASE x \in Trees /\ x.op \notin Junctions
    BY <2>3 DEF Trees
  <2> QED
    BY <2>1, <2>2, <2>3 DEF Trees
<1>3. PICK k \in TreeMaps : Is(k)
  <2>1. D \in [TreeMaps -> TreeMaps]
    <3>1. ASSUME NEW f \in TreeMaps PROVE [x \in Exprs |-> Body(f, x)] \in TreeMaps
      <4>1. \A x \in Exprs : \A y \in Below(x) : f[y] \in Trees
        BY DEF Below, TreeMaps
      <4> HIDE DEF Body
      <4> QED
        BY <1>2, <4>1, TreesAre DEF TreeMaps, Trees
    <3> HIDE DEF Body
    <3> QED
      BY <3>1
  <2> HIDE DEF Body
  <2>2. \A f, g \in TreeMaps : \A x \in Exprs :
           (\A y \in Below(x) : f[y] = g[y]) => D[f][x] = D[g][x]
    BY <1>1
  <2> HIDE DEF D
  <2>3. \E f \in TreeMaps : D[f] = f
    BY <2>1, <2>2, MapRecursion
  <2> QED
    BY <2>3 DEF D
<1>4. EliminateYN = CHOOSE f : Is(f)
  BY DEF EliminateYN
<1>5. Is(EliminateYN)
  <2> HIDE DEF Is
  <2> QED
    BY <1>3, <1>4
<1> HIDE DEF Body
<1>6. \A x \in Exprs : EliminateYN[x] = Body(EliminateYN, x)
  BY <1>5
<1> DEFINE P == {x \in Exprs : Maps(EliminateYN, x)}
<1>7. ASSUME NEW x \in Exprs, Below(x) \subseteq P PROVE x \in P
  <2>1. \A y \in Below(x) : EliminateYN[y] \in Trees
    BY <1>7 DEF Below
  <2> QED
    BY <1>2, <1>6, <2>1
<1>8. Exprs \subseteq P
  <2> HIDE DEF P
  <2> QED
    BY <1>7, TreeInduction
<1> QED
  BY <1>6, <1>8 DEF Body

(* expr_eliminate_yn keeps the value.                                      *)
LEMMA EliminateYNKeeps ==
  ASSUME AllTrees, NEW e \in Trees
  PROVE  /\ IsOrdinary(e) => IsOrdinary(EliminateYN[e])
         /\ IsNormal(e) => IsNormal(EliminateYN[e])
         /\ IsPlain(e) => IsPlain(EliminateYN[e])
         /\ \A env : IsTri(env) => CalcValue(env, EliminateYN[e]) = CalcValue(env, e)
<1> DEFINE Keeps(x) == /\ IsOrdinary(x) => IsOrdinary(EliminateYN[x])
                       /\ IsNormal(x) => IsNormal(EliminateYN[x])
                       /\ IsPlain(x) => IsPlain(EliminateYN[x])
                       /\ \A env : IsTri(env) => CalcValue(env, EliminateYN[x]) = CalcValue(env, x)
           P == {x \in Exprs : x \in Trees => Keeps(x)}
<1>0. /\ Sym("y") \in Leaves /\ IsOrdinary(Sym("y")) /\ IsNormal(Sym("y")) /\ IsPlain(Sym("y"))
      /\ Sym("n") \in Leaves /\ IsOrdinary(Sym("n")) /\ IsNormal(Sym("n")) /\ IsPlain(Sym("n"))
  <2>1. "y" \in Names /\ "n" \in Names
    BY WordsAssumption DEF TriWords, Names
  <2>2. Sym("y") \in Leaves /\ Sym("n") \in Leaves
    BY <2>1 DEF Leaves, Names
  <2>3. FairComparison(Sym("y")) /\ FairComparison(Sym("n"))
    BY DEF FairComparison, Sym
  <2>4. PlainPart(Sym("y")) /\ PlainPart(Sym("n"))
    BY DEF PlainPart, Sym, TriWords
  <2> QED
    BY <2>2, <2>3, <2>4, OrdinaryAre, NormalAre, PlainAre
<1>1. ASSUME NEW x \in Exprs, Below(x) \subseteq P PROVE x \in P
  <2> SUFFICES ASSUME x \in Trees PROVE Keeps(x)
    OBVIOUS
  <2>1. CASE x.op \notin Junctions
    <3>1. EliminateYN[x] = x
      BY <2>1, EliminateYNIs
    <3> QED
      BY <3>1
  <2>2. CASE x.op \in Junctions
    <3> DEFINE f == EliminateYN[x.l]
               g == EliminateYN[x.r]
               j == x.op
    <3>1. x.l \in Below(x) /\ x.r \in Below(x) /\ x.l \in Trees /\ x.r \in Trees /\ x = Two(j, x.l, x.r)
      BY <2>2, TreesAre DEF Below, Leaves, Sym, Relations, Junctions
    <3>2. EliminateYN[x] = Reduced(j, f, g) /\ f \in Trees /\ g \in Trees
      BY <2>2, <3>1, EliminateYNIs DEF Trees
    <3>3. Keeps(x.l) /\ Keeps(x.r)
      BY <1>1, <3>1
    <3>4. IsOrdinary(x) => IsOrdinary(EliminateYN[x])
      <4>1. IsOrdinary(x) => IsOrdinary(f) /\ IsOrdinary(g)
        BY <2>2, <3>1, <3>3, OrdinaryAre
      <4> HIDE DEF f, g, j
      <4>2. IsOrdinary(f) /\ IsOrdinary(g) => IsOrdinary(Two(j, f, g))
        BY <2>2, <3>2, OrdinaryAre DEF j
      <4>3. Reduced(j, f, g) \in {f, g, Sym("y"), Sym("n"), Two(j, f, g)}
        BY <2>2, <3>2, ReducedIs DEF j
      <4> QED
        BY <1>0, <3>2, <4>1, <4>2, <4>3
    <3>5. IsNormal(x) => IsNormal(EliminateYN[x])
      <4>1. IsNormal(x) => IsNormal(f) /\ IsNormal(g)
        BY <2>2, <3>1, <3>3, NormalAre
      <4> HIDE DEF f, g, j
      <4>2. IsNormal(f) /\ IsNormal(g) => IsNormal(Two(j, f, g))
        BY <2>2, <3>2, NormalAre DEF j
      <4>3. Reduced(j, f, g) \in {f, g, Sym("y"), Sym("n"), Two(j, f, g)}
        BY <2>2, <3>2, ReducedIs DEF j
      <4> QED
        BY <1>0, <3>2, <4>1, <4>2, <4>3
    <3>7. IsPlain(x) => IsPlain(EliminateYN[x])
      <4>1. IsPlain(x) => IsPlain(f) /\ IsPlain(g)
        BY <2>2, <3>1, <3>3, PlainAre
      <4> HIDE DEF f, g, j
      <4>2. IsPlain(f) /\ IsPlain(g) => IsPlain(Two(j, f, g))
        BY <2>2, <3>2, PlainAre DEF j
      <4>3. Reduced(j, f, g) \in {f, g, Sym("y"), Sym("n"), Two(j, f, g)}
        BY <2>2, <3>2, ReducedIs DEF j
      <4> QED
        BY <1>0, <3>2, <4>1, <4>2, <4>3
    <3>6. ASSUME NEW env, IsTri(env) PROVE CalcValue(env, EliminateYN[x]) = CalcValue(env, x)
      <4>1. CalcValue(env, x) = Combine(j, CalcValue(env, x.l), CalcValue(env, x.r))
        BY <2>2, <3>1, <3>6, ValuesAre
      <4>2. CalcValue(env, f) = CalcValue(env, x.l) /\ CalcValue(env, g) = CalcValue(env, x.r)
        BY <3>3, <3>6
      <4>3. CalcValue(env, Reduced(j, f, g)) = Combine(j, CalcValue(env, f), CalcValue(env, g))
        BY <2>2, <3>2, <3>6, ReducedIs
      <4> QED
        BY <3>2, <4>1, <4>2, <4>3
    <3> QED
      BY <3>4, <3>5, <3>6, <3>7
  <2> QED
    BY <2>1, <2>2
<1>2. Exprs \subseteq P
  <2> HIDE DEF P
  <2> QED
    BY <1>1, TreeInduction
<1> QED
  BY <1>2 DEF Trees

-----------------------------------------------------------------------------
(* expr_transform.                                                         *)

(* Transform goes down in weight, though not always to a part: the negation*)
(* of a junction becomes a junction of negations.                          *)
Weights ==
  {w \in [Exprs -> Nat] :
     /\ w[NoExpr] = 1
     /\ \A e \in Leaves : w[e] = IF e.op = "sym" THEN 1 ELSE 2
     /\ \A e \in Trees : w[e] >= 1 /\ w[Not(e)] = 2 * w[e]
     /\ \A j \in Junctions : \A e, f \in Trees : w[Two(j, e, f)] = 1 + w[e] + w[f]}

(* There is a weight that falls at each recursive call of expr_transform,  *)
(* the calls on results of calls among them.                               *)
LEMMA WeightsExist ==
  ASSUME AllTrees
  PROVE  Weights # {}
<1> DEFINE U == Nat \ {0}
           Body(f, x) == IF x.op = "not" THEN 2 * f[x.l]
                         ELSE IF x.op \in Junctions THEN 1 + f[x.l] + f[x.r]
                         ELSE IF x.op \in Relations THEN 2 ELSE 1
           Is(f) == f = [x \in Exprs |-> Body(f, x)]
           D == [f \in [Exprs -> U] |-> [x \in Exprs |-> Body(f, x)]]
<1>1. ASSUME NEW x \in Exprs, NEW f, NEW g, \A y \in Below(x) : f[y] = g[y]
      PROVE  Body(f, x) = Body(g, x)
  <2>1. x \in Trees /\ x.op = "not" => f[x.l] = g[x.l]
    BY <1>1, TreesAre DEF Below, Leaves, Sym, Relations
  <2>2. x \in Trees /\ x.op \in Junctions => f[x.l] = g[x.l] /\ f[x.r] = g[x.r]
    BY <1>1, TreesAre DEF Below, Leaves, Sym, Relations, Junctions
  <2> QED
    BY <2>1, <2>2 DEF NoExpr, Trees, Junctions
<1>2. ASSUME NEW x \in Exprs, NEW f \in [Exprs -> U] PROVE Body(f, x) \in U
  <2>1. x \in Trees /\ x.op = "not" => f[x.l] \in U
    BY TreesAre DEF Trees, Leaves, Sym, Relations
  <2>2. x \in Trees /\ x.op \in Junctions => f[x.l] \in U /\ f[x.r] \in U
    BY TreesAre DEF Trees, Leaves, Sym, Relations, Junctions
  <2>3. x = NoExpr => x.op \notin Junctions /\ x.op # "not"
    BY DEF NoExpr, Junctions
  <2> QED
    BY <2>1, <2>2, <2>3 DEF Trees
<1>3. PICK w \in [Exprs -> U] : Is(w)
  <2> HIDE DEF Body
  <2>1. D \in [[Exprs -> U] -> [Exprs -> U]]
    BY <1>2
  <2>2. \A f, g \in [Exprs -> U] : \A x \in Exprs :
           (\A y \in Below(x) : f[y] = g[y]) => D[f][x] = D[g][x]
    BY <1>1
  <2>3. U # {}
    OBVIOUS
  <2> HIDE DEF D, U
  <2>4. \E f \in [Exprs -> U] : D[f] = f
    BY <2>1, <2>2, <2>3, TreeRecursion
  <2> QED
    BY <2>4 DEF D
<1>4. \A x \in Exprs : w[x] = Body(w, x) /\ w[x] \in Nat /\ w[x] >= 1
  BY <1>3
<1>5. w[NoExpr] = 1
  BY <1>4, TreesAre DEF NoExpr, Relations, Junctions
<1>6. \A e \in Leaves : w[e] = IF e.op = "sym" THEN 1 ELSE 2
  <2> TAKE e \in Leaves
  <2>1. e \in Exprs
    BY TreesAre DEF Trees
  <2>2. e.op # "not" /\ e.op \notin Junctions /\ (e.op \in Relations <=> e.op # "sym")
    BY DEF Leaves, Sym, Relations, Junctions
  <2> QED
    BY <1>4, <2>1, <2>2
<1>7. \A e \in Trees : w[e] >= 1 /\ w[Not(e)] = 2 * w[e]
  <2> TAKE e \in Trees
  <2>1. Not(e) \in Exprs /\ Not(e).op = "not" /\ Not(e).l = e /\ e \in Exprs
    BY TreesAre DEF Trees, Not
  <2> QED
    BY <1>4, <2>1
<1>8. \A j \in Junctions : \A e, f \in Trees : w[Two(j, e, f)] = 1 + w[e] + w[f]
  <2> TAKE j \in Junctions
  <2> TAKE e, f \in Trees
  <2>1. Two(j, e, f) \in Exprs /\ Two(j, e, f).op = j /\ Two(j, e, f).l = e /\ Two(j, e, f).r = f
    BY TreesAre DEF Trees, Two
  <2>2. j # "not"
    BY DEF Junctions
  <2> QED
    BY <1>4, <2>1, <2>2
<1>9. w \in [Exprs -> Nat]
  BY <1>3
<1> QED
  BY <1>5, <1>6, <1>7, <1>8, <1>9 DEF Weights

(* The values of Transform: trees that weigh no more.                      *)
Within(w, x) == IF x = NoExpr THEN {NoExpr} ELSE {t \in Trees : w[t] =< w[x]}

(* The results of a comparison of a bool.                                  *)
LEMMA BoolTestIs ==
  ASSUME AllTrees, NEW e \in Leaves, e.op \in {"=", "!="}
  PROVE  \/ BoolTest(e) = e
         \/ e.b = "n" /\ e.op = "=" /\ BoolTest(e) = Not(Sym(e.a))
         \/ e.b = "m" /\ e.op = "=" /\ BoolTest(e) = Sym("n")
         \/ e.b = "y" /\ e.op = "=" /\ BoolTest(e) = Sym(e.a)
         \/ e.b = "n" /\ e.op = "!=" /\ BoolTest(e) = Sym(e.a)
         \/ e.b = "m" /\ e.op = "!=" /\ BoolTest(e) = Sym("y")
         \/ e.b = "y" /\ e.op = "!=" /\ BoolTest(e) = Not(Sym(e.a))
BY DEF BoolTest

(* What the negation of a tree f that Transform returned can become.       *)
LEMMA TransformNotIs ==
  ASSUME AllTrees, NEW f \in Trees, NEW T
  PROVE  \/ f.op = "not" /\ TransformNot(T, f) = T[f.l]
         \/ f.op \in Relations /\ TransformNot(T, f) = Comp(Opposite(f.op), f.a, f.b)
         \/ f.op = "or" /\ TransformNot(T, f) = T[Two("and", Not(f.l), Not(f.r))]
         \/ f.op = "and" /\ TransformNot(T, f) = T[Two("or", Not(f.l), Not(f.r))]
         \/ f = Sym("y") /\ TransformNot(T, f) = Sym("n")
         \/ f = Sym("m") /\ TransformNot(T, f) = Sym("m")
         \/ f = Sym("n") /\ TransformNot(T, f) = Sym("y")
         \/ f.op = "sym" /\ TransformNot(T, f) = Not(f)
<1>1. CASE f \in Leaves
  <2>1. CASE f.op = "sym" /\ f = Sym(f.a)
    BY <2>1 DEF TransformNot, Relations, Sym
  <2>2. CASE f.op \in Relations /\ f = Comp(f.op, f.a, f.b)
    <3>1. [f EXCEPT !.op = Opposite(f.op)] = Comp(Opposite(f.op), f.a, f.b)
      BY <2>2 DEF Comp
    <3>2. TransformNot(T, f) = [f EXCEPT !.op = Opposite(f.op)]
      BY <2>2 DEF TransformNot, Relations
    <3> QED
      BY <2>2, <3>1, <3>2
  <2> QED
    BY <1>1, <2>1, <2>2, LeavesAre
<1>2. CASE f.op = "not"
  BY <1>2 DEF TransformNot, Relations
<1>3. CASE f.op = "or"
  BY <1>3 DEF TransformNot, Relations
<1>4. CASE f.op = "and"
  BY <1>4 DEF TransformNot, Relations
<1> QED
  BY <1>1, <1>2, <1>3, <1>4, TreesAre DEF Junctions

(* expr_transform ends, returns nothing heavier than its operand, and is   *)
(* what its definition says.                                               *)
LEMMA TransformIs ==
  ASSUME AllTrees, NEW w \in Weights, NEW e \in Exprs
  PROVE  Transform[e] \in Within(w, e) /\ Transform[e] = TransformOf(Transform, e)
<1> DEFINE Body(f, x) == TransformOf(f, x)
           Is(f) == f = [x \in Exprs |-> Body(f, x)]
           V == [x \in Exprs |-> Within(w, x)]
           F == Choices(Exprs, Exprs, V)
           D == [f \in F |-> [x \in Exprs |-> Body(f, x)]]
<1>0. w \in [Exprs -> Nat] /\ \A x \in Trees : w[x] \in Nat /\ w[x] >= 1
  BY DEF Weights, Trees
<1>00. \A x \in Trees : x.op = "not" =>
          x.l \in Trees /\ x = Not(x.l) /\ w[x.l] < w[x] /\ w[x] = 2 * w[x.l]
  <2> TAKE x \in Trees
  <2> HAVE x.op = "not"
  <2>1. x.l \in Trees /\ x = Not(x.l)
    BY TreesAre DEF Leaves, Sym, Relations, Junctions
  <2>2. w[x] = 2 * w[x.l] /\ w[x.l] \in Nat /\ w[x.l] >= 1
    BY <1>0, <2>1 DEF Weights
  <2>3. w[x.l] < 2 * w[x.l]
    BY <2>2
  <2> QED
    BY <2>1, <2>2, <2>3
<1>01. \A x \in Trees : x.op \in Junctions =>
          /\ x.l \in Trees /\ x.r \in Trees /\ x = Two(x.op, x.l, x.r)
          /\ w[x.l] < w[x] /\ w[x.r] < w[x] /\ w[x] = 1 + w[x.l] + w[x.r]
  <2> TAKE x \in Trees
  <2> HAVE x.op \in Junctions
  <2>1. x.l \in Trees /\ x.r \in Trees /\ x = Two(x.op, x.l, x.r)
    BY TreesAre DEF Leaves, Sym, Relations, Junctions
  <2>2. w[x] = 1 + w[x.l] + w[x.r] /\ w[x.l] \in Nat /\ w[x.r] \in Nat
    BY <1>0, <2>1 DEF Weights
  <2>3. w[x.l] < 1 + w[x.l] + w[x.r] /\ w[x.r] < 1 + w[x.l] + w[x.r]
    BY <2>2
  <2> QED
    BY <2>1, <2>2, <2>3
(* The trees that TransformNot goes on with weigh less.                    *)
<1>02. ASSUME NEW x \in Trees, x.op = "not", NEW f \in Trees, w[f] =< w[x.l]
       PROVE  /\ f.op = "not" => f.l \in Trees /\ w[f.l] < w[x]
              /\ \A j \in Junctions : f.op \in Junctions =>
                   /\ Two(j, Not(f.l), Not(f.r)) \in Trees
                   /\ w[Two(j, Not(f.l), Not(f.r))] < w[x]
              /\ w[Not(f)] =< w[x]
              /\ w[f] =< w[x]
  <2>1. w[x] = 2 * w[x.l] /\ x.l \in Trees /\ w[x.l] \in Nat /\ w[x.l] >= 1 /\ w[f] \in Nat /\ w[f] >= 1
    BY <1>0, <1>00, <1>02
  <2>2. f.op = "not" => f.l \in Trees /\ w[f.l] < w[f] /\ w[f.l] \in Nat
    BY <1>0, <1>00
  <2>3. ASSUME NEW j \in Junctions, f.op \in Junctions
        PROVE  /\ Two(j, Not(f.l), Not(f.r)) \in Trees
               /\ w[Two(j, Not(f.l), Not(f.r))] < w[x]
    <3>1. f.l \in Trees /\ f.r \in Trees /\ w[f] = 1 + w[f.l] + w[f.r] /\ w[f.l] \in Nat /\ w[f.r] \in Nat
      BY <1>0, <1>01, <2>3
    <3>2. Not(f.l) \in Trees /\ Not(f.r) \in Trees
      BY <3>1, TreesAre
    <3>3. w[Not(f.l)] = 2 * w[f.l] /\ w[Not(f.r)] = 2 * w[f.r]
      BY <3>1 DEF Weights
    <3>4. w[Two(j, Not(f.l), Not(f.r))] = 1 + 2 * w[f.l] + 2 * w[f.r]
      BY <3>2, <3>3 DEF Weights
    <3>5. 1 + 2 * w[f.l] + 2 * w[f.r] < 2 * w[x.l]
      BY <1>02, <2>1, <3>1
    <3>6. Two(j, Not(f.l), Not(f.r)) \in Trees
      BY <3>2, TreesAre
    <3> QED
      BY <2>1, <3>4, <3>5, <3>6
  <2>4. w[Not(f)] = 2 * w[f]
    BY DEF Weights
  <2>5. w[Not(f)] =< w[x] /\ w[f] =< w[x]
    BY <1>02, <2>1, <2>4
  <2>6. f.op = "not" => f.l \in Trees /\ w[f.l] < w[x]
    BY <1>02, <2>1, <2>2
  <2> QED
    BY <2>3, <2>5, <2>6
(* What x needs to know of the function.                                   *)
<1> DEFINE Knows(f, x) == \A y \in Exprs : w[y] < w[x] => f[y] \in Within(w, y)
<1>1. ASSUME NEW x \in Exprs, NEW f, NEW g, Knows(f, x), \A y \in Exprs : w[y] < w[x] => f[y] = g[y]
      PROVE  Body(f, x) = Body(g, x)
  <2>1. CASE x \in Trees /\ x.op = "not"
    <3> DEFINE t == f[x.l]
    <3>1. f[x.l] = g[x.l] /\ t \in Trees /\ w[t] =< w[x.l]
      BY <1>00, <1>1, <2>1 DEF Within, Trees
    <3>2. t.op = "not" => f[t.l] = g[t.l]
      BY <1>02, <1>1, <2>1, <3>1 DEF Trees
    <3>3. t.op \in Junctions => \A j \in Junctions :
            f[Two(j, Not(t.l), Not(t.r))] = g[Two(j, Not(t.l), Not(t.r))]
      BY <1>02, <1>1, <2>1, <3>1 DEF Trees
    <3> HIDE DEF t
    <3>4. TransformNot(f, t) = TransformNot(g, t)
      <4>1. t \in Leaves => t.op # "not" /\ t.op \notin Junctions
        BY DEF Leaves, Sym, Relations, Junctions
      <4>2. t.op \in Relations => TransformNot(f, t) = TransformNot(g, t)
        BY DEF TransformNot, Relations
      <4>3. t.op = "sym" => TransformNot(f, t) = TransformNot(g, t)
        BY DEF TransformNot, Relations
      <4>4. t.op = "not" => TransformNot(f, t) = TransformNot(g, t)
        BY <3>2 DEF TransformNot, Relations
      <4>5. t.op \in Junctions => TransformNot(f, t) = TransformNot(g, t)
        BY <3>3 DEF TransformNot, Relations, Junctions
      <4> QED
        BY <3>1, <4>2, <4>3, <4>4, <4>5, TreesAre, LeavesAre
    <3>5. Body(f, x) = TransformNot(f, t) /\ Body(g, x) = TransformNot(g, g[x.l])
      BY <2>1 DEF TransformOf, Junctions, t
    <3> QED
      BY <3>1, <3>4, <3>5 DEF t
  <2>2. CASE x \in Trees /\ x.op \in Junctions
    <3>1. f[x.l] = g[x.l] /\ f[x.r] = g[x.r]
      BY <1>01, <1>1, <2>2 DEF Trees
    <3> QED
      BY <2>2, <3>1 DEF TransformOf, Junctions
  <2>3. CASE x.op # "not" /\ x.op \notin Junctions
    BY <2>3 DEF TransformOf
  <2> QED
    BY <2>1, <2>2, <2>3 DEF Trees, NoExpr, Junctions
<1>2. ASSUME NEW x \in Exprs, NEW f, Knows(f, x) PROVE Body(f, x) \in Within(w, x)
  <2>0. "y" \in Names /\ "m" \in Names /\ "n" \in Names
    BY WordsAssumption DEF TriWords, Names
  <2>00. \A s \in Names : Sym(s) \in Trees /\ Sym(s) \in Leaves /\ w[Sym(s)] = 1
    <3> TAKE s \in Names
    <3>1. Sym(s) \in Leaves /\ Sym(s).op = "sym"
      BY DEF Leaves, Names, Sym
    <3> QED
      BY <3>1, TreesAre DEF Weights
  <2>1. CASE x = NoExpr
    BY <2>1 DEF NoExpr, TransformOf, Junctions, Within
  <2>2. CASE x \in Leaves
    <3>1. x \in Trees /\ x # NoExpr /\ w[x] =< w[x]
      BY <1>0, <2>2, TreesAre DEF Trees
    <3>2. Body(f, x) = x \/ (x.op \in {"=", "!="} /\ Body(f, x) = BoolTest(x))
      BY <2>2 DEF TransformOf, Leaves, Sym, Relations, Junctions
    <3>3. CASE x.op \in {"=", "!="} /\ Body(f, x) = BoolTest(x)
      <4>1. x.a \in Names /\ w[x] = 2
        BY <2>2, <3>3, LeavesAre DEF Weights, Sym
      <4>2. Not(Sym(x.a)) \in Trees /\ w[Not(Sym(x.a))] = 2
        <5>1. w[Not(Sym(x.a))] = 2 * w[Sym(x.a)]
          BY <2>00, <4>1 DEF Weights
        <5> QED
          BY <2>00, <4>1, <5>1, TreesAre
      <4>3. Body(f, x) \in {x, Sym("y"), Sym("n"), Sym(x.a), Not(Sym(x.a))}
        BY <2>2, <3>3, BoolTestIs
      <4> QED
        BY <2>0, <2>00, <3>1, <4>1, <4>2, <4>3 DEF Within
    <3> HIDE DEF Body
    <3> QED
      BY <3>1, <3>2, <3>3 DEF Within
  <2>3. CASE x \in Trees /\ x.op = "not"
    <3> DEFINE t == f[x.l]
    <3>1. t \in Trees /\ w[t] =< w[x.l] /\ x # NoExpr /\ w[x] \in Nat /\ w[x.l] \in Nat /\ w[x.l] >= 1
      BY <1>0, <1>00, <1>2, <2>3 DEF Within, Trees
    <3>2. t.op = "not" => f[t.l] \in Trees /\ w[f[t.l]] =< w[x]
      <4> SUFFICES ASSUME t.op = "not" PROVE f[t.l] \in Trees /\ w[f[t.l]] =< w[x]
        OBVIOUS
      <4>1. t.l \in Trees /\ w[t.l] < w[x] /\ w[t.l] \in Nat
        BY <1>0, <1>02, <2>3, <3>1
      <4>2. f[t.l] \in Trees /\ w[f[t.l]] =< w[t.l] /\ w[f[t.l]] \in Nat
        BY <1>0, <1>2, <4>1 DEF Within, Trees
      <4> QED
        BY <3>1, <4>1, <4>2
    <3>3. t.op \in Junctions => \A j \in Junctions :
            f[Two(j, Not(t.l), Not(t.r))] \in Trees /\ w[f[Two(j, Not(t.l), Not(t.r))]] =< w[x]
      <4> SUFFICES ASSUME t.op \in Junctions, NEW j \in Junctions
                   PROVE  f[Two(j, Not(t.l), Not(t.r))] \in Trees /\ w[f[Two(j, Not(t.l), Not(t.r))]] =< w[x]
        OBVIOUS
      <4> DEFINE u == Two(j, Not(t.l), Not(t.r))
      <4>1. u \in Trees /\ w[u] < w[x] /\ w[u] \in Nat
        BY <1>0, <1>02, <2>3, <3>1
      <4> HIDE DEF u
      <4>2. f[u] \in Trees /\ w[f[u]] =< w[u] /\ w[f[u]] \in Nat
        BY <1>0, <1>2, <4>1 DEF Within, Trees
      <4>3. f[u] \in Trees /\ w[f[u]] =< w[x]
        BY <3>1, <4>1, <4>2
      <4> QED
        BY <4>3 DEF u
    <3>4. w[x] >= 2
      BY <1>00, <2>3, <3>1
    <3>5. w[Not(t)] =< w[x] /\ Not(t) \in Trees
      BY <1>02, <2>3, <3>1, TreesAre
    <3>6. t.op \in Relations => Comp(Opposite(t.op), t.a, t.b) \in Trees /\ w[Comp(Opposite(t.op), t.a, t.b)] =< w[x]
      <4> SUFFICES ASSUME t.op \in Relations
                   PROVE  Comp(Opposite(t.op), t.a, t.b) \in Trees /\ w[Comp(Opposite(t.op), t.a, t.b)] =< w[x]
        OBVIOUS
      <4>1. t \in Leaves
        BY <3>1, TreesAre DEF Relations, Junctions
      <4>2. t.a \in Names /\ t.b \in Names
        BY <4>1, LeavesAre DEF Relations
      <4>3. Opposite(t.op) \in Relations
        BY DEF Relations, Opposite
      <4>4. Comp(Opposite(t.op), t.a, t.b) \in Leaves /\ Comp(Opposite(t.op), t.a, t.b).op # "sym"
        BY <4>2, <4>3 DEF Leaves, Names, Comp, Relations
      <4> QED
        BY <3>1, <3>4, <4>4, TreesAre DEF Weights
    <3>7. Body(f, x) = TransformNot(f, t)
      BY <2>3 DEF TransformOf, Junctions
    <3>8. 1 =< w[x]
      BY <3>1, <3>4
    <3> HIDE DEF t, Body
    <3>9. TransformNot(f, t) \in Trees /\ w[TransformNot(f, t)] =< w[x]
      BY <2>0, <2>00, <3>1, <3>2, <3>3, <3>5, <3>6, <3>8, TransformNotIs DEF Junctions
    <3> QED
      BY <3>1, <3>7, <3>9 DEF Within
  <2>4. CASE x \in Trees /\ x.op \in Junctions
    <3> DEFINE a == f[x.l]
               b == f[x.r]
    <3>1. a \in Trees /\ b \in Trees /\ w[a] =< w[x.l] /\ w[b] =< w[x.r] /\ w[x] = 1 + w[x.l] + w[x.r] /\ x # NoExpr
      BY <1>01, <1>2, <2>4 DEF Within, Trees
    <3>2. Body(f, x) = Two(x.op, a, b)
      BY <2>4 DEF TransformOf, Junctions
    <3>3. w[a] \in Nat /\ w[b] \in Nat /\ w[x.l] \in Nat /\ w[x.r] \in Nat
      BY <1>0, <1>01, <2>4, <3>1
    <3> HIDE DEF a, b, Body
    <3>4. w[Two(x.op, a, b)] = 1 + w[a] + w[b] /\ Two(x.op, a, b) \in Trees
      BY <2>4, <3>1, TreesAre DEF Weights
    <3>5. 1 + w[a] + w[b] =< 1 + w[x.l] + w[x.r]
      BY <3>1, <3>3
    <3> QED
      BY <3>1, <3>2, <3>4, <3>5 DEF Within
  <2> QED
    BY <2>1, <2>2, <2>3, <2>4, TreesAre DEF Trees
<1>3. PICK k \in F : Is(k)
  <2>0. \A f \in F : \A x \in Exprs : Knows(f, x)
    BY DEF Choices
  <2>1. D \in [F -> F]
    <3>1. ASSUME NEW f \in F PROVE [x \in Exprs |-> Body(f, x)] \in F
      <4>1. \A x \in Exprs : Body(f, x) \in Within(w, x)
        <5> HIDE DEF Body, F, Knows
        <5> QED
          BY <1>2, <2>0
      <4>2. \A x \in Exprs : Within(w, x) \subseteq Exprs
        BY TreesAre DEF Within, Trees
      <4> HIDE DEF Body
      <4> QED
        BY <4>1, <4>2 DEF Choices
    <3> HIDE DEF Body, F
    <3> QED
      BY <3>1
  <2>2. F # {}
    <3>1. \A x \in Exprs : x \in Within(w, x)
      BY <1>0 DEF Within, Trees
    <3>2. [x \in Exprs |-> x] \in F
      BY <3>1 DEF Choices
    <3> QED
      BY <3>2
  <2>3. GoesDown(Exprs, w, F, D)
    <3>1. ASSUME NEW f \in F, NEW g \in F, NEW x \in Exprs, \A y \in Exprs : w[y] < w[x] => f[y] = g[y]
          PROVE  D[f][x] = D[g][x]
      <4> HIDE DEF F, Knows
      <4>1. Knows(f, x)
        BY <2>0
      <4>2. Body(f, x) = Body(g, x)
        BY <1>1, <3>1, <4>1
      <4> HIDE DEF Body
      <4> QED
        BY <4>2
    <3> HIDE DEF D, F
    <3> QED
      BY <3>1 DEF GoesDown
  <2>4. \E f \in F : D[f] = f
    <3> HIDE DEF D, V
    <3> QED
      BY <1>0, <2>1, <2>2, <2>3, Recursion
  <2> HIDE DEF Body, F
  <2> QED
    BY <2>4
<1>4. Transform = CHOOSE f : Is(f)
  BY DEF Transform, TransformOf
<1>5. Is(Transform)
  <2> HIDE DEF Is
  <2> QED
    BY <1>3, <1>4
<1> HIDE DEF Body
<1>6. \A x \in Exprs : Transform[x] = Body(Transform, x)
  BY <1>5
<1> DEFINE P == {x \in Exprs : Transform[x] \in Within(w, x)}
<1>7. ASSUME NEW x \in Exprs, \A y \in Exprs : w[y] < w[x] => y \in P PROVE x \in P
  <2>1. Knows(Transform, x)
    BY <1>7
  <2> HIDE DEF Knows
  <2> QED
    BY <1>2, <1>6, <2>1
<1>8. Exprs \subseteq P
  <2> HIDE DEF P
  <2> QED
    BY <1>0, <1>7, RankInduction
<1> QED
  BY <1>6, <1>8 DEF Body

(* expr_transform turns trees into trees and keeps NULL.                   *)
LEMMA TransformMaps ==
  ASSUME AllTrees, NEW e \in Exprs
  PROVE  /\ e = NoExpr => Transform[e] = NoExpr
         /\ e \in Trees => Transform[e] \in Trees
         /\ Transform[e] \in Exprs
         /\ Transform[e] = TransformOf(Transform, e)
<1>1. PICK w \in Weights : TRUE
  BY WeightsExist
<1>2. Transform[e] \in Within(w, e) /\ Transform[e] = TransformOf(Transform, e)
  BY TransformIs
<1> QED
  BY <1>2, TreesAre DEF Within, Trees

(* Transform keeps the value, and only symbols are left negated.           *)
Same(e, f) ==
  /\ IsNormal(f)
  /\ IsOrdinary(e) => IsOrdinary(f)
  /\ \A env : IsEnv(env) => CalcValue(env, f) = CalcValue(env, e)

(* A comparison of a bool with y, m or n keeps its value.                  *)
LEMMA BoolTestKeeps ==
  ASSUME AllTrees, NEW e \in Leaves, e.op \in {"=", "!="}, Type[e.a] = "bool"
  PROVE  Same(e, BoolTest(e))
<1> DEFINE s == e.a
<1>1. s \in Names /\ e.b \in Names /\ e = Comp(e.op, s, e.b)
  BY LeavesAre DEF Sym
<1>2. \A t \in Names : Sym(t) \in Leaves /\ Sym(t) \in Trees /\ IsNormal(Sym(t)) /\ IsOrdinary(Sym(t))
                     /\ Not(Sym(t)) \in Trees /\ IsNormal(Not(Sym(t))) /\ IsOrdinary(Not(Sym(t)))
  <2> TAKE t \in Names
  <2>1. Sym(t) \in Leaves /\ Sym(t).op = "sym" /\ FairComparison(Sym(t))
    BY DEF Leaves, Names, Sym, FairComparison
  <2>2. Sym(t) \in Trees /\ IsNormal(Sym(t)) /\ IsOrdinary(Sym(t)) /\ Not(Sym(t)) \in Trees
    BY <2>1, TreesAre, NormalAre, OrdinaryAre
  <2> QED
    BY <2>1, <2>2, NormalAre, OrdinaryAre
<1>3. IsNormal(e)
  BY NormalAre
<1>4. TriWords \subseteq Names
  BY WordsAssumption DEF Names
<1>5. BoolTest(e) \in {e, Sym(s), Not(Sym(s)), Sym("y"), Sym("n")}
  BY BoolTestIs
<1>6. ASSUME NEW env, IsEnv(env) PROVE CalcValue(env, BoolTest(e)) = CalcValue(env, e)
  <2>0. IsTri(env)
    BY <1>6, EnvIsTri
  <2>1. SymTri(env, s) \in {0, 2}
    BY <1>1, <1>6, BoolIs
  <2>2. CalcValue(env, Sym(s)) = SymTri(env, s) /\ CalcValue(env, Not(Sym(s))) = 2 - SymTri(env, s)
    BY <1>1, <1>2, <2>0, ValuesAre
  <2>3. CalcValue(env, Sym("y")) = 2 /\ CalcValue(env, Sym("n")) = 0
    BY <2>0, ConstantsAre
  <2>4. TriOf("y") = 2 /\ TriOf("m") = 1 /\ TriOf("n") = 0
    BY DEF TriOf
  <2>5. \A w \in TriWords :
          /\ CalcValue(env, Comp("=", s, w)) = IF SymTri(env, s) = TriOf(w) THEN 2 ELSE 0
          /\ CalcValue(env, Comp("!=", s, w)) = IF SymTri(env, s) = TriOf(w) THEN 0 ELSE 2
    <3>1. Type[s] \in Logical
      BY DEF Logical
    <3> HIDE DEF s
    <3> QED
      BY <1>1, <1>6, <3>1, ComparisonIs
  <2>6. "y" \in TriWords /\ "m" \in TriWords /\ "n" \in TriWords
    BY DEF TriWords
  <2>7. CASE BoolTest(e) = e
    BY <2>7
  <2>8. CASE e.op = "="
    <3>1. CalcValue(env, e) = CalcValue(env, Comp("=", s, e.b))
      BY <1>1, <2>8
    <3> HIDE DEF s
    <3> QED
      BY <2>1, <2>2, <2>3, <2>4, <2>5, <2>6, <2>7, <2>8, <3>1, BoolTestIs DEF s
  <2>9. CASE e.op = "!="
    <3>1. CalcValue(env, e) = CalcValue(env, Comp("!=", s, e.b))
      BY <1>1, <2>9
    <3> HIDE DEF s
    <3> QED
      BY <2>1, <2>2, <2>3, <2>4, <2>5, <2>6, <2>7, <2>9, <3>1, BoolTestIs DEF s
  <2> QED
    BY <2>8, <2>9
<1> HIDE DEF s
<1>7. IsNormal(BoolTest(e)) /\ (IsOrdinary(e) => IsOrdinary(BoolTest(e)))
  BY <1>1, <1>2, <1>3, <1>4, <1>5 DEF TriWords
<1> QED
  BY <1>6, <1>7 DEF Same

(* The opposite of a comparison.                                           *)
LEMMA OppositeKeeps ==
  ASSUME AllTrees, NEW f \in Leaves, f.op \in Relations
  PROVE  /\ Comp(Opposite(f.op), f.a, f.b) \in Leaves
         /\ IsOrdinary(f) => IsOrdinary(Comp(Opposite(f.op), f.a, f.b))
         /\ \A env : IsEnv(env) =>
              CalcValue(env, Comp(Opposite(f.op), f.a, f.b)) = 2 - CalcValue(env, f)
<1> DEFINE g == Comp(Opposite(f.op), f.a, f.b)
<1>1. f.a \in Names /\ f.b \in Names /\ f = Comp(f.op, f.a, f.b)
  BY LeavesAre DEF Relations
<1>2. Opposite(f.op) \in Relations /\ (Opposite(f.op) \in {"=", "!="} <=> f.op \in {"=", "!="})
  BY DEF Relations, Opposite
<1>3. g \in Leaves
  BY <1>1, <1>2 DEF Leaves, Names, Comp
<1>4. FairComparison(f) <=> FairComparison(g)
  BY <1>1, <1>2 DEF FairComparison, Comp
<1>5. IsOrdinary(f) <=> IsOrdinary(g)
  BY <1>3, <1>4, OrdinaryAre
<1>6. ASSUME NEW env, IsEnv(env) PROVE CalcValue(env, g) = 2 - CalcValue(env, f)
  <2> DEFINE d == Difference(env, f.a, f.b)
  <2>1. d \in Int
    BY <1>1, <1>6, DifferencesAre
  <2>2. Holds(Opposite(f.op), d) <=> ~Holds(f.op, d)
    BY <2>1, OppositeIs
  <2>3. IsTri(env)
    BY <1>6, EnvIsTri
  <2>4. CalcValue(env, g) = IF Holds(Opposite(f.op), d) THEN 2 ELSE 0
    BY <1>1, <1>2, <2>3, ValuesAre
  <2>5. CalcValue(env, Comp(f.op, f.a, f.b)) = IF Holds(f.op, d) THEN 2 ELSE 0
    BY <1>1, <2>3, ValuesAre
  <2> HIDE DEF d, g
  <2>6. CalcValue(env, f) = IF Holds(f.op, d) THEN 2 ELSE 0
    BY <1>1, <2>5
  <2> QED
    BY <2>2, <2>4, <2>6
<1> QED
  BY <1>3, <1>5, <1>6

(* expr_transform keeps the value, and leaves no negation but of symbols.  *)
THEOREM TransformKeeps ==
  ASSUME AllTrees, NEW e \in Exprs
  PROVE  Same(e, Transform[e])
<1>0. PICK w \in Weights : TRUE
  BY WeightsExist
<1>00. w \in [Exprs -> Nat] /\ \A x \in Trees : w[x] \in Nat /\ w[x] >= 1
  BY DEF Weights, Trees
<1> DEFINE P == {x \in Exprs : Same(x, Transform[x])}
<1>1. ASSUME NEW x \in Exprs, \A y \in Exprs : w[y] < w[x] => y \in P PROVE x \in P
  <2>0. Transform[x] = TransformOf(Transform, x)
    BY TransformMaps
  <2>00. \A y \in Trees : w[y] < w[x] => Same(y, Transform[y]) /\ Transform[y] \in Trees
    BY <1>1, TransformMaps DEF Trees
  <2> HIDE DEF P
  <2>1. CASE x = NoExpr
    BY <2>1, TransformMaps, NormalAre DEF Same, P
  <2>2. CASE x \in Leaves
    <3>1. x.op \in {"=", "!="} /\ Type[x.a] = "bool" => Same(x, BoolTest(x))
      BY <2>2, BoolTestKeeps
    <3>2. ~(x.op \in {"=", "!="} /\ Type[x.a] = "bool") => Transform[x] = x
      BY <2>0, <2>2 DEF TransformOf, Leaves, Sym, Relations, Junctions
    <3>3. x.op \in {"=", "!="} /\ Type[x.a] = "bool" => Transform[x] = BoolTest(x)
      BY <2>0, <2>2 DEF TransformOf, Junctions
    <3>4. Same(x, x)
      BY <2>2, NormalAre DEF Same
    <3> QED
      BY <3>1, <3>2, <3>3, <3>4 DEF P
  <2>3. CASE x \in Trees /\ x.op = "not"
    <3> DEFINE t == Transform[x.l]
    <3>1. x.l \in Trees /\ x = Not(x.l)
      BY <2>3, TreesAre DEF Leaves, Sym, Relations, Junctions
    <3>2. w[x] = 2 * w[x.l] /\ w[x.l] < w[x]
      <4>1. w[x] = 2 * w[x.l] /\ w[x.l] \in Nat /\ w[x.l] >= 1
        BY <1>00, <3>1 DEF Weights
      <4> QED
        BY <4>1
    <3>3. t \in Trees /\ Same(x.l, t)
      BY <2>00, <3>1, <3>2
    <3>4. w[t] =< w[x.l]
      BY <3>1, TransformIs DEF Within, Trees
    <3>5. IsOrdinary(x) <=> IsOrdinary(x.l)
      BY <3>1, OrdinaryAre
    <3>6. \A env : IsEnv(env) => CalcValue(env, x) = 2 - CalcValue(env, t) /\ CalcValue(env, t) \in Tri
      <4> TAKE env
      <4> HAVE IsEnv(env)
      <4>1. IsTri(env)
        BY EnvIsTri
      <4>2. CalcValue(env, t) = CalcValue(env, x.l) /\ CalcValue(env, t) \in Tri
        BY <3>3, <4>1, ValueIs DEF Same, Trees
      <4>3. CalcValue(env, Not(x.l)) = 2 - CalcValue(env, x.l)
        BY <3>1, <4>1, ValuesAre
      <4> QED
        BY <3>1, <4>2, <4>3
    <3>7. Transform[x] = TransformNot(Transform, t)
      BY <2>0, <2>3 DEF TransformOf, Junctions
    <3> HIDE DEF t
(* It is enough to show that the new tree is the negation of t.            *)
    <3> DEFINE Negates(u) == /\ IsNormal(u)
                             /\ IsOrdinary(t) => IsOrdinary(u)
                             /\ \A env : IsEnv(env) => CalcValue(env, u) = 2 - CalcValue(env, t)
    <3>8. ASSUME NEW u, Negates(u) PROVE Same(x, u)
      <4>1. IsOrdinary(x) => IsOrdinary(u)
        BY <3>3, <3>5, <3>8 DEF Same
      <4>2. \A env : IsEnv(env) => CalcValue(env, u) = CalcValue(env, x)
        BY <3>6, <3>8
      <4> QED
        BY <3>8, <4>1, <4>2 DEF Same
    <3>9. IsNormal(t)
      BY <3>3 DEF Same
    <3>10. CASE t.op = "not" /\ Transform[x] = Transform[t.l]
      <4>1. t.l \in Trees /\ t = Not(t.l)
        BY <3>3, <3>10, TreesAre DEF Leaves, Sym, Relations, Junctions
      <4>2. w[t.l] < w[x]
        <5>1. w[t] = 2 * w[t.l] /\ w[t.l] \in Nat /\ w[t.l] >= 1 /\ w[x.l] \in Nat
          BY <1>00, <3>1, <4>1 DEF Weights
        <5> QED
          BY <3>2, <3>4, <5>1
      <4>3. Same(t.l, Transform[t.l])
        BY <2>00, <4>1, <4>2
      <4>4. IsOrdinary(t) <=> IsOrdinary(t.l)
        BY <4>1, OrdinaryAre
      <4>5. ASSUME NEW env, IsEnv(env) PROVE CalcValue(env, t.l) = 2 - CalcValue(env, t)
        <5>1. IsTri(env)
          BY <4>5, EnvIsTri
        <5>2. CalcValue(env, Not(t.l)) = 2 - CalcValue(env, t.l) /\ CalcValue(env, t.l) \in Tri
          BY <4>1, <5>1, ValuesAre, ValueIs DEF Trees
        <5> QED
          BY <4>1, <5>2 DEF Tri
      <4>6. Negates(Transform[t.l])
        BY <4>3, <4>4, <4>5 DEF Same
      <4> QED
        BY <3>8, <3>10, <4>6 DEF P
    <3>11. CASE t.op \in Relations /\ Transform[x] = Comp(Opposite(t.op), t.a, t.b)
      <4>1. t \in Leaves
        BY <3>3, <3>11, TreesAre DEF Relations, Junctions
      <4>2. Negates(Comp(Opposite(t.op), t.a, t.b))
        BY <3>11, <4>1, OppositeKeeps, NormalAre
      <4> QED
        BY <3>8, <3>11, <4>2 DEF P
    <3>12. ASSUME NEW j \in Junctions, t.op \in Junctions, j # t.op,
                  Transform[x] = Transform[Two(j, Not(t.l), Not(t.r))]
           PROVE  x \in P
      <4> DEFINE u == Two(j, Not(t.l), Not(t.r))
      <4>1. t.l \in Trees /\ t.r \in Trees /\ t = Two(t.op, t.l, t.r)
        BY <3>3, <3>12, TreesAre DEF Leaves, Sym, Relations, Junctions
      <4>2. Not(t.l) \in Trees /\ Not(t.r) \in Trees /\ u \in Trees
        BY <4>1, TreesAre
      <4>3. w[u] < w[x]
        <5>1. w[Not(t.l)] = 2 * w[t.l] /\ w[Not(t.r)] = 2 * w[t.r]
          BY <4>1 DEF Weights
        <5>2. w[u] = 1 + w[Not(t.l)] + w[Not(t.r)]
          BY <4>2 DEF Weights
        <5>3. w[t] = 1 + w[t.l] + w[t.r]
          BY <3>12, <4>1 DEF Weights
        <5>4. w[t.l] \in Nat /\ w[t.r] \in Nat /\ w[x.l] \in Nat
          BY <1>00, <3>1, <4>1
        <5> QED
          BY <3>2, <3>4, <5>1, <5>2, <5>3, <5>4
      <4>4. Same(u, Transform[u])
        BY <2>00, <4>2, <4>3
      <4>5. IsOrdinary(t) => IsOrdinary(u)
        BY <3>12, <4>1, <4>2, OrdinaryAre
      <4>6. ASSUME NEW env, IsEnv(env) PROVE CalcValue(env, u) = 2 - CalcValue(env, t)
        <5> DEFINE a == CalcValue(env, t.l)
                   b == CalcValue(env, t.r)
        <5>1. IsTri(env)
          BY <4>6, EnvIsTri
        <5>2. a \in Tri /\ b \in Tri
          BY <4>1, <5>1, ValueIs DEF Trees
        <5>3. CalcValue(env, t) = Combine(t.op, a, b)
          BY <3>12, <4>1, <5>1, ValuesAre
        <5>4. CalcValue(env, Not(t.l)) = 2 - a /\ CalcValue(env, Not(t.r)) = 2 - b
          BY <4>1, <5>1, ValuesAre
        <5>5. CalcValue(env, u) = Combine(j, 2 - a, 2 - b)
          BY <4>2, <5>1, <5>4, ValuesAre
        <5> HIDE DEF a, b, u
        <5> QED
          BY <3>12, <5>2, <5>3, <5>5 DEF Combine, Lesser, Greater, Tri, Junctions
      <4> HIDE DEF u
      <4>7. Negates(Transform[u])
        BY <4>4, <4>5, <4>6 DEF Same
      <4> QED
        BY <3>8, <3>12, <4>7 DEF P, u
    <3>13. ASSUME NEW v \in TriWords, NEW v2 \in TriWords, t = Sym(v), TriOf(v2) = 2 - TriOf(v),
                  Transform[x] = Sym(v2)
           PROVE  x \in P
      <4>1. Sym(v2) \in Leaves
        BY WordsAssumption DEF Leaves
      <4>2. IsNormal(Sym(v2)) /\ IsOrdinary(Sym(v2))
        <5>1. FairComparison(Sym(v2))
          BY DEF FairComparison, Sym
        <5> QED
          BY <4>1, <5>1, NormalAre, OrdinaryAre
      <4>3. ASSUME NEW env, IsEnv(env) PROVE CalcValue(env, Sym(v2)) = 2 - CalcValue(env, t)
        <5>1. IsTri(env)
          BY <4>3, EnvIsTri
        <5>2. v \in Names /\ v2 \in Names /\ v \in Literals /\ v2 \in Literals
          BY WordsAssumption DEF Names
        <5>3. CalcValue(env, Sym(v2)) = TriOf(v2) /\ CalcValue(env, Sym(v)) = TriOf(v)
          BY <5>1, <5>2, ValuesAre DEF SymTri
        <5> QED
          BY <3>13, <5>3
      <4>4. Negates(Sym(v2))
        BY <4>2, <4>3
      <4> QED
        BY <3>8, <3>13, <4>4 DEF P
    <3>14. CASE t.op = "sym" /\ Transform[x] = Not(t)
      <4>1. Not(t) \in Trees /\ IsNormal(Not(t)) /\ (IsOrdinary(t) => IsOrdinary(Not(t)))
        BY <3>3, <3>14, TreesAre, NormalAre, OrdinaryAre
      <4>2. \A env : IsEnv(env) => CalcValue(env, Not(t)) = 2 - CalcValue(env, t)
        BY <3>3, EnvIsTri, ValuesAre
      <4>3. Negates(Not(t))
        BY <4>1, <4>2
      <4> QED
        BY <3>8, <3>14, <4>3 DEF P
    <3>15. "y" \in TriWords /\ "m" \in TriWords /\ "n" \in TriWords /\ "and" \in Junctions /\ "or" \in Junctions
      BY DEF TriWords, Junctions
    <3>16. TriOf("y") = 2 - TriOf("n") /\ TriOf("n") = 2 - TriOf("y") /\ TriOf("m") = 2 - TriOf("m")
      BY DEF TriOf
    <3> HIDE DEF Negates
    <3>17. CASE t.op \in Junctions
      <4>1. \/ t.op = "or" /\ Transform[x] = Transform[Two("and", Not(t.l), Not(t.r))]
            \/ t.op = "and" /\ Transform[x] = Transform[Two("or", Not(t.l), Not(t.r))]
        BY <3>7, <3>17 DEF TransformNot, Relations, Junctions
      <4> QED
        BY <3>12, <3>15, <3>17, <4>1
    <3>18. CASE t.op \notin Junctions
      <4>1. \/ t.op = "not" /\ Transform[x] = Transform[t.l]
            \/ t.op \in Relations /\ Transform[x] = Comp(Opposite(t.op), t.a, t.b)
            \/ t = Sym("y") /\ Transform[x] = Sym("n")
            \/ t = Sym("m") /\ Transform[x] = Sym("m")
            \/ t = Sym("n") /\ Transform[x] = Sym("y")
            \/ t.op = "sym" /\ Transform[x] = Not(t)
        BY <3>3, <3>7, <3>15, <3>18, TransformNotIs
      <4> QED
        BY <3>10, <3>11, <3>13, <3>14, <3>15, <3>16, <4>1
    <3> QED
      BY <3>17, <3>18
  <2>4. CASE x \in Trees /\ x.op \in Junctions
    <3> DEFINE a == Transform[x.l]
               b == Transform[x.r]
    <3>1. x.l \in Trees /\ x.r \in Trees /\ x = Two(x.op, x.l, x.r)
      BY <2>4, TreesAre DEF Leaves, Sym, Relations, Junctions
    <3>2. w[x.l] < w[x] /\ w[x.r] < w[x]
      <4>1. w[x] = 1 + w[x.l] + w[x.r] /\ w[x.l] \in Nat /\ w[x.r] \in Nat
        BY <1>00, <2>4, <3>1 DEF Weights
      <4> QED
        BY <4>1
    <3>3. a \in Trees /\ b \in Trees /\ Same(x.l, a) /\ Same(x.r, b)
      BY <2>00, <3>1, <3>2
    <3>4. Transform[x] = Two(x.op, a, b)
      BY <2>0, <2>4 DEF TransformOf, Junctions
    <3> HIDE DEF a, b
    <3>5. IsNormal(Two(x.op, a, b)) /\ (IsOrdinary(x) => IsOrdinary(Two(x.op, a, b)))
      BY <2>4, <3>1, <3>3, NormalAre, OrdinaryAre DEF Same
    <3>6. ASSUME NEW env, IsEnv(env) PROVE CalcValue(env, Two(x.op, a, b)) = CalcValue(env, x)
      <4>1. IsTri(env)
        BY <3>6, EnvIsTri
      <4>2. CalcValue(env, Two(x.op, a, b)) = Combine(x.op, CalcValue(env, a), CalcValue(env, b))
        BY <2>4, <3>3, <4>1, ValuesAre
      <4>3. CalcValue(env, Two(x.op, x.l, x.r)) = Combine(x.op, CalcValue(env, x.l), CalcValue(env, x.r))
        BY <2>4, <3>1, <4>1, ValuesAre
      <4>4. CalcValue(env, a) = CalcValue(env, x.l) /\ CalcValue(env, b) = CalcValue(env, x.r)
        BY <3>3, <3>6 DEF Same
      <4> QED
        BY <3>1, <4>2, <4>3, <4>4
    <3> QED
      BY <3>4, <3>5, <3>6 DEF Same, P
  <2> QED
    BY <2>1, <2>2, <2>3, <2>4, TreesAre DEF Trees
<1>2. Exprs \subseteq P
  <2> HIDE DEF P
  <2> QED
    BY <1>00, <1>1, RankInduction
<1> QED
  BY <1>2

-----------------------------------------------------------------------------
(* Chains of one junction.                                                 *)

(* How often the operator changes on the way down, at most: the operands of*)
(* a chain are lower than the chain.                                       *)
Step(d, j, x) == IF x.op = j THEN d[x] ELSE 1 + d[x]
Depths ==
  {d \in [Exprs -> Nat] :
     /\ \A e \in Leaves : d[e] = 0
     /\ \A e \in Trees : d[Not(e)] = 1 + d[e]
     /\ \A j \in Junctions : \A e, f \in Trees : d[Two(j, e, f)] = Greater(Step(d, j, e), Step(d, j, f))}

(* There is a depth of expressions that counts a chain of one junction     *)
(* once.                                                                   *)
LEMMA DepthsExist ==
  ASSUME AllTrees
  PROVE  Depths # {}
<1> DEFINE U == Nat
           Body(f, x) == IF x.op = "not" THEN 1 + f[x.l]
                         ELSE IF x.op \in Junctions THEN Greater(Step(f, x.op, x.l), Step(f, x.op, x.r))
                         ELSE 0
           Is(f) == f = [x \in Exprs |-> Body(f, x)]
           D == [f \in [Exprs -> U] |-> [x \in Exprs |-> Body(f, x)]]
<1>1. ASSUME NEW x \in Exprs, NEW f, NEW g, \A y \in Below(x) : f[y] = g[y]
      PROVE  Body(f, x) = Body(g, x)
  <2>1. x \in Trees /\ x.op = "not" => f[x.l] = g[x.l]
    BY <1>1, TreesAre DEF Below, Leaves, Sym, Relations
  <2>2. x \in Trees /\ x.op \in Junctions => f[x.l] = g[x.l] /\ f[x.r] = g[x.r]
    BY <1>1, TreesAre DEF Below, Leaves, Sym, Relations, Junctions
  <2> QED
    BY <2>1, <2>2 DEF NoExpr, Trees, Junctions, Step
<1>2. ASSUME NEW x \in Exprs, NEW f \in [Exprs -> U] PROVE Body(f, x) \in U
  <2>1. x \in Trees /\ x.op = "not" => f[x.l] \in U
    BY TreesAre DEF Trees, Leaves, Sym, Relations
  <2>2. x \in Trees /\ x.op \in Junctions => f[x.l] \in U /\ f[x.r] \in U
    BY TreesAre DEF Trees, Leaves, Sym, Relations, Junctions
  <2>3. x = NoExpr => x.op \notin Junctions /\ x.op # "not"
    BY DEF NoExpr, Junctions
  <2> QED
    BY <2>1, <2>2, <2>3 DEF Trees, Step, Greater
<1>3. PICK d \in [Exprs -> U] : Is(d)
  <2> HIDE DEF Body
  <2>1. D \in [[Exprs -> U] -> [Exprs -> U]]
    BY <1>2
  <2>2. \A f, g \in [Exprs -> U] : \A x \in Exprs :
           (\A y \in Below(x) : f[y] = g[y]) => D[f][x] = D[g][x]
    BY <1>1
  <2>3. U # {}
    OBVIOUS
  <2> HIDE DEF D, U
  <2>4. \E f \in [Exprs -> U] : D[f] = f
    BY <2>1, <2>2, <2>3, TreeRecursion
  <2> QED
    BY <2>4 DEF D
<1>4. \A x \in Exprs : d[x] = Body(d, x)
  BY <1>3
<1>5. \A e \in Leaves : d[e] = 0
  <2> TAKE e \in Leaves
  <2>1. e \in Exprs /\ e.op # "not" /\ e.op \notin Junctions
    BY TreesAre DEF Trees, Leaves, Sym, Relations, Junctions
  <2> QED
    BY <1>4, <2>1
<1>6. \A e \in Trees : d[Not(e)] = 1 + d[e]
  <2> TAKE e \in Trees
  <2>1. Not(e) \in Exprs /\ Not(e).op = "not" /\ Not(e).l = e
    BY TreesAre DEF Trees, Not
  <2> QED
    BY <1>4, <2>1
<1>7. \A j \in Junctions : \A e, f \in Trees : d[Two(j, e, f)] = Greater(Step(d, j, e), Step(d, j, f))
  <2> TAKE j \in Junctions
  <2> TAKE e, f \in Trees
  <2>1. Two(j, e, f) \in Exprs /\ Two(j, e, f).op = j /\ Two(j, e, f).l = e /\ Two(j, e, f).r = f
    BY TreesAre DEF Trees, Two
  <2>2. j # "not"
    BY DEF Junctions
  <2> QED
    BY <1>4, <2>1, <2>2
<1> QED
  BY <1>3, <1>5, <1>6, <1>7 DEF Depths

(* The operands of a chain, by its form.                                   *)
LEMMA OperandsAre ==
  ASSUME AllTrees, NEW j \in Junctions, NEW e \in Exprs
  PROVE  /\ Operands(j, e) \in Seq(Exprs)
         /\ Operands(j, e) = IF e.op = j THEN Operands(j, e.l) \o Operands(j, e.r) ELSE <<e>>
<1> DEFINE U == Seq(Exprs)
           Body(f, x) == IF x.op = j THEN f[x.l] \o f[x.r] ELSE <<x>>
           Is(f) == f = [x \in Exprs |-> Body(f, x)]
           T == CHOOSE f : Is(f)
           D == [f \in [Exprs -> U] |-> [x \in Exprs |-> Body(f, x)]]
<1>0. ASSUME NEW x \in Exprs, x.op = j
      PROVE  x \in Trees /\ x.l \in Trees /\ x.r \in Trees /\ x.l \in Below(x) /\ x.r \in Below(x)
  <2>1. x \in Trees
    BY <1>0 DEF Trees, NoExpr, Junctions
  <2> QED
    BY <1>0, <2>1, TreesAre DEF Below, Leaves, Sym, Relations, Junctions
<1>1. ASSUME NEW x \in Exprs, NEW f, NEW g, \A y \in Below(x) : f[y] = g[y]
      PROVE  Body(f, x) = Body(g, x)
  BY <1>0, <1>1
<1>2. ASSUME NEW x \in Exprs, NEW f, \A y \in Below(x) : f[y] \in U PROVE Body(f, x) \in U
  <2>1. x.op = j => f[x.l] \in U /\ f[x.r] \in U
    BY <1>0, <1>2
  <2> QED
    BY <2>1
<1>3. PICK k \in [Exprs -> U] : Is(k)
  <2> HIDE DEF Body
  <2>1. D \in [[Exprs -> U] -> [Exprs -> U]]
    <3>1. ASSUME NEW f \in [Exprs -> U], NEW x \in Exprs PROVE Body(f, x) \in U
      BY <1>2 DEF Below, Trees
    <3> QED
      BY <3>1
  <2>3. U # {}
    <3>1. <<>> \in U
      OBVIOUS
    <3> QED
      BY <3>1
  <2> HIDE DEF U
  <2>2. \A f, g \in [Exprs -> U] : \A x \in Exprs :
           (\A y \in Below(x) : f[y] = g[y]) => D[f][x] = D[g][x]
    BY <1>1
  <2> HIDE DEF D
  <2>4. \E f \in [Exprs -> U] : D[f] = f
    BY <2>1, <2>2, <2>3, TreeRecursion
  <2> QED
    BY <2>4 DEF D
<1>4. Is(T)
  <2> HIDE DEF Is
  <2> QED
    BY <1>3
<1>5. \A x : Operands(j, x) = T[x]
  BY DEF Operands
<1> HIDE DEF T, Body
<1>6. \A x \in Exprs : T[x] = Body(T, x)
  BY <1>4
<1> DEFINE P == {x \in Exprs : T[x] \in U}
<1>7. ASSUME NEW x \in Exprs, Below(x) \subseteq P PROVE x \in P
  BY <1>2, <1>6, <1>7
<1>8. Exprs \subseteq P
  <2> HIDE DEF P
  <2> QED
    BY <1>7, TreeInduction
<1> QED
  BY <1>5, <1>6, <1>8 DEF Body

(* A junction is a tree with two operands.                                 *)
LEMMA JunctionIs ==
  ASSUME AllTrees, NEW j \in Junctions, NEW x \in Exprs, x.op = j
  PROVE  /\ x \in Trees /\ x.l \in Trees /\ x.r \in Trees
         /\ x.l \in Below(x) /\ x.r \in Below(x) /\ x = Two(j, x.l, x.r)
<1>1. x \in Trees
  BY DEF Trees, NoExpr, Junctions
<1> QED
  BY <1>1, TreesAre DEF Below, Leaves, Sym, Relations, Junctions

(* A chain of trees has at least one operand, all are trees, and none is a *)
(* chain of the same junction.                                             *)
LEMMA OperandsTrees ==
  ASSUME AllTrees, NEW j \in Junctions, NEW e \in Trees
  PROVE  /\ Operands(j, e) \in Seq(Trees)
         /\ Len(Operands(j, e)) \in Nat /\ Len(Operands(j, e)) >= 1
         /\ \A i \in 1 .. Len(Operands(j, e)) : Operands(j, e)[i].op # j
<1> DEFINE Good(s) == /\ s \in Seq(Trees)
                      /\ Len(s) \in Nat /\ Len(s) >= 1
                      /\ \A i \in 1 .. Len(s) : s[i].op # j
           P == {x \in Exprs : x \in Trees => Good(Operands(j, x))}
<1>1. ASSUME NEW x \in Exprs, Below(x) \subseteq P PROVE x \in P
  <2> SUFFICES ASSUME x \in Trees PROVE Good(Operands(j, x))
    OBVIOUS
  <2>1. CASE x.op = j
    <3> DEFINE a == Operands(j, x.l)
               b == Operands(j, x.r)
    <3>1. Good(a) /\ Good(b)
      BY <1>1, <2>1, JunctionIs
    <3>2. Operands(j, x) = a \o b
      BY <2>1, OperandsAre
    <3> HIDE DEF a, b
    <3>3. a \o b \in Seq(Trees) /\ Len(a \o b) = Len(a) + Len(b)
      BY <3>1
    <3>4. Len(a) + Len(b) \in Nat /\ Len(a) + Len(b) >= 1
      BY <3>1
    <3>5. ASSUME NEW i \in 1 .. Len(a \o b) PROVE (a \o b)[i].op # j
      <4>1. CASE i =< Len(a)
        BY <3>1, <4>1
      <4>2. CASE i > Len(a)
        <5>1. (a \o b)[i] = b[i - Len(a)] /\ i - Len(a) \in 1 .. Len(b)
          BY <3>1, <3>3, <4>2
        <5> QED
          BY <3>1, <5>1
      <4> QED
        BY <3>1, <4>1, <4>2
    <3> QED
      BY <3>2, <3>3, <3>4, <3>5
  <2>2. CASE x.op # j
    <3>1. Operands(j, x) = <<x>>
      BY <2>2, OperandsAre
    <3> QED
      BY <2>2, <3>1
  <2> QED
    BY <2>1, <2>2
<1>2. Exprs \subseteq P
  <2> HIDE DEF P
  <2> QED
    BY <1>1, TreeInduction
<1> QED
  BY <1>2 DEF Trees

(* What holds of a chain and goes down to its parts holds of its operands. *)
Downward(j, S) == \A a, b \in Trees : Two(j, a, b) \in S => a \in S /\ b \in S

(* What holds of a chain and passes to its parts holds of its operands.    *)
LEMMA OperandsIn ==
  ASSUME AllTrees, NEW j \in Junctions, NEW S, Downward(j, S), NEW e \in Trees, e \in S
  PROVE  \A i \in 1 .. Len(Operands(j, e)) : Operands(j, e)[i] \in S
<1> DEFINE In(s) == \A i \in 1 .. Len(s) : s[i] \in S
           P == {x \in Exprs : x \in Trees /\ x \in S => In(Operands(j, x))}
<1>1. ASSUME NEW x \in Exprs, Below(x) \subseteq P PROVE x \in P
  <2> SUFFICES ASSUME x \in Trees, x \in S PROVE In(Operands(j, x))
    OBVIOUS
  <2>1. CASE x.op = j
    <3> DEFINE a == Operands(j, x.l)
               b == Operands(j, x.r)
    <3>1. x.l \in Trees /\ x.r \in Trees /\ x.l \in Below(x) /\ x.r \in Below(x) /\ x = Two(j, x.l, x.r)
      BY <2>1, JunctionIs
    <3>2. x.l \in S /\ x.r \in S
      BY <3>1 DEF Downward
    <3>3. In(a) /\ In(b)
      BY <1>1, <3>1, <3>2
    <3>4. Operands(j, x) = a \o b /\ a \in Seq(Trees) /\ b \in Seq(Trees)
      BY <2>1, <3>1, OperandsAre, OperandsTrees
    <3> HIDE DEF a, b
    <3>5. ASSUME NEW i \in 1 .. Len(a \o b) PROVE (a \o b)[i] \in S
      <4>0. Len(a \o b) = Len(a) + Len(b) /\ Len(a) \in Nat /\ Len(b) \in Nat
        BY <3>4
      <4>1. CASE i =< Len(a)
        <5>1. (a \o b)[i] = a[i] /\ i \in 1 .. Len(a)
          BY <3>4, <4>0, <4>1
        <5> QED
          BY <3>3, <5>1
      <4>2. CASE i > Len(a)
        <5>1. (a \o b)[i] = b[i - Len(a)] /\ i - Len(a) \in 1 .. Len(b)
          BY <3>4, <4>0, <4>2
        <5> QED
          BY <3>3, <5>1
      <4> QED
        BY <4>0, <4>1, <4>2
    <3> QED
      BY <3>4, <3>5
  <2>2. CASE x.op # j
    <3>1. Operands(j, x) = <<x>>
      BY <2>2, OperandsAre
    <3> QED
      BY <3>1
  <2> QED
    BY <2>1, <2>2
<1>2. Exprs \subseteq P
  <2> HIDE DEF P
  <2> QED
    BY <1>1, TreeInduction
<1> QED
  BY <1>2 DEF Trees

(* The function of WithOperands.                                           *)
PutOf(j, ops, f, p) ==
  IF p[1].op = j
  THEN Two(j, f[<<p[1].l, p[2]>>], f[<<p[1].r, p[2] + Len(Operands(j, p[1].l))>>])
  ELSE ops[p[2] + 1]
IsPut(j, ops, f) == f = [p \in Places(j, ops) |-> PutOf(j, ops, f, p)]
Put(j, ops) == CHOOSE f : IsPut(j, ops, f)

(* The function by which WithOperands is defined.                          *)
LEMMA WithOperandsIsPut ==
  ASSUME NEW j, NEW chain, NEW ops
  PROVE  WithOperands(j, chain, ops) = Put(j, ops)[<<chain, 0>>]
BY DEF WithOperands, Put, IsPut, PutOf

(* The two parts of a chain are at places of their own.                    *)
LEMMA PlacesAre ==
  ASSUME AllTrees, NEW j \in Junctions, NEW ops \in Seq(Trees), NEW p \in Places(j, ops)
  PROVE  /\ p = <<p[1], p[2]>> /\ p[1] \in Exprs /\ p[2] \in Nat
         /\ Len(Operands(j, p[1])) \in Nat /\ p[2] + Len(Operands(j, p[1])) =< Len(ops)
         /\ p[1].op # j => p[2] + 1 \in 1 .. Len(ops) /\ Len(Operands(j, p[1])) = 1
         /\ p[1].op = j =>
              /\ p[1] = Two(j, p[1].l, p[1].r) /\ p[1].l \in Below(p[1]) /\ p[1].r \in Below(p[1])
              /\ Len(Operands(j, p[1].l)) \in Nat /\ Len(Operands(j, p[1].r)) \in Nat
              /\ Len(Operands(j, p[1].l)) >= 1 /\ Len(Operands(j, p[1].r)) >= 1
              /\ Len(Operands(j, p[1])) = Len(Operands(j, p[1].l)) + Len(Operands(j, p[1].r))
              /\ <<p[1].l, p[2]>> \in Places(j, ops)
              /\ <<p[1].r, p[2] + Len(Operands(j, p[1].l))>> \in Places(j, ops)
<1> DEFINE e == p[1]
           m == p[2]
<1>1. p = <<e, m>> /\ e \in Exprs /\ m \in 0 .. Len(ops) /\ m + Len(Operands(j, e)) =< Len(ops)
  BY DEF Places
<1>2. Operands(j, e) \in Seq(Exprs) /\ Len(ops) \in Nat
  BY <1>1, OperandsAre
<1>3. Len(Operands(j, e)) \in Nat
  BY <1>2
<1>4. e.op # j => m + 1 \in 1 .. Len(ops) /\ Len(Operands(j, e)) = 1
  <2> SUFFICES ASSUME e.op # j PROVE m + 1 \in 1 .. Len(ops) /\ Len(Operands(j, e)) = 1
    OBVIOUS
  <2>1. Operands(j, e) = <<e>>
    BY <1>1, OperandsAre
  <2>2. Len(Operands(j, e)) = 1
    BY <2>1
  <2> HIDE DEF e, m
  <2> QED
    BY <1>1, <1>2, <2>2
<1>5. ASSUME e.op = j
      PROVE  /\ e = Two(j, e.l, e.r) /\ e.l \in Below(e) /\ e.r \in Below(e)
             /\ Len(Operands(j, e.l)) \in Nat /\ Len(Operands(j, e.r)) \in Nat
             /\ Len(Operands(j, e.l)) >= 1 /\ Len(Operands(j, e.r)) >= 1
             /\ Len(Operands(j, e)) = Len(Operands(j, e.l)) + Len(Operands(j, e.r))
             /\ <<e.l, m>> \in Places(j, ops)
             /\ <<e.r, m + Len(Operands(j, e.l))>> \in Places(j, ops)
  <2> HIDE DEF e, m
  <2> DEFINE a == Operands(j, e.l)
             b == Operands(j, e.r)
  <2>1. e = Two(j, e.l, e.r) /\ e.l \in Below(e) /\ e.r \in Below(e) /\ e.l \in Trees /\ e.r \in Trees
    BY <1>1, <1>5, JunctionIs
  <2>2. /\ a \in Seq(Trees) /\ Len(a) \in Nat /\ Len(a) >= 1
        /\ b \in Seq(Trees) /\ Len(b) \in Nat /\ Len(b) >= 1
    BY <2>1, OperandsTrees
  <2>3. Operands(j, e) = a \o b
    BY <1>1, <1>5, OperandsAre
  <2>4. Len(Operands(j, e)) = Len(a) + Len(b)
    BY <2>2, <2>3
  <2>5. m + Len(a) \in 0 .. Len(ops) /\ m + Len(a) =< Len(ops) /\ (m + Len(a)) + Len(b) =< Len(ops)
    <3> HIDE DEF a, b
    <3> QED
      BY <1>1, <1>2, <2>2, <2>4
  <2>6. <<e.l, m>> \in Places(j, ops) /\ <<e.r, m + Len(a)>> \in Places(j, ops)
    BY <1>1, <2>1, <2>5 DEF Places, Trees
  <2> QED
    BY <2>1, <2>2, <2>4, <2>6
<1> HIDE DEF e, m
<1> QED
  BY <1>1, <1>3, <1>4, <1>5 DEF e, m

(* It exists, and returns trees.                                           *)
LEMMA PutIs ==
  ASSUME AllTrees, NEW j \in Junctions, NEW ops \in Seq(Trees)
  PROVE  /\ \A p \in Places(j, ops) : Put(j, ops)[p] \in Trees
         /\ \A p \in Places(j, ops) : Put(j, ops)[p] = PutOf(j, ops, Put(j, ops), p)
<1> DEFINE S == Places(j, ops)
           V == [p \in S |-> Trees]
           F == [S -> Trees]
           D == [f \in F |-> [p \in S |-> PutOf(j, ops, f, p)]]
<1>0. PICK height \in Heights : TRUE
  BY TreesAre
<1>00. height \in [Exprs -> Nat] /\ \A e \in Exprs : \A x \in Below(e) : height[x] < height[e]
  BY DEF Heights, Below, Trees, NoExpr, Junctions
<1> DEFINE rank == [p \in S |-> height[p[1]]]
<1>1. rank \in [S -> Nat]
  BY <1>00, PlacesAre
<1>2. ASSUME NEW p \in S, NEW f, NEW g, \A q \in S : rank[q] < rank[p] => f[q] = g[q]
      PROVE  PutOf(j, ops, f, p) = PutOf(j, ops, g, p)
  <2>1. CASE p[1].op = j
    <3> DEFINE q == <<p[1].l, p[2]>>
               r == <<p[1].r, p[2] + Len(Operands(j, p[1].l))>>
    <3>1. q \in S /\ r \in S /\ p[1] \in Exprs /\ p[1].l \in Below(p[1]) /\ p[1].r \in Below(p[1])
      BY <2>1, PlacesAre
    <3>2. rank[q] < rank[p] /\ rank[r] < rank[p]
      <4>1. rank[q] = height[p[1].l] /\ rank[r] = height[p[1].r] /\ rank[p] = height[p[1]]
        BY <3>1
      <4> QED
        BY <1>00, <3>1, <4>1
    <3>3. f[q] = g[q] /\ f[r] = g[r]
      BY <1>2, <3>1, <3>2
    <3> QED
      BY <2>1, <3>3 DEF PutOf
  <2>2. CASE p[1].op # j
    BY <2>2 DEF PutOf
  <2> QED
    BY <2>1, <2>2
<1>3. ASSUME NEW p \in S, NEW f \in F PROVE PutOf(j, ops, f, p) \in Trees
  <2>1. CASE p[1].op = j
    <3>1. <<p[1].l, p[2]>> \in S /\ <<p[1].r, p[2] + Len(Operands(j, p[1].l))>> \in S
      BY <2>1, PlacesAre
    <3>2. f[<<p[1].l, p[2]>>] \in Trees /\ f[<<p[1].r, p[2] + Len(Operands(j, p[1].l))>>] \in Trees
      BY <3>1
    <3> QED
      BY <2>1, <3>2, TreesAre DEF PutOf
  <2>2. CASE p[1].op # j
    <3>1. p[2] + 1 \in 1 .. Len(ops)
      BY <2>2, PlacesAre
    <3> QED
      BY <2>2, <3>1 DEF PutOf
  <2> QED
    BY <2>1, <2>2
<1> HIDE DEF S, rank
<1>4. PICK f \in F : IsPut(j, ops, f)
  <2>1. Choices(S, Trees, V) = F
    BY DEF Choices
  <2>2. F # {}
    <3>1. NoExpr \notin Leaves /\ Leaves \subseteq Trees /\ Sym("y") \in Leaves
      BY TreesAre, WordsAssumption DEF Trees, Leaves, TriWords
    <3>2. [p \in S |-> Sym("y")] \in F
      BY <3>1
    <3> QED
      BY <3>2
  <2>3. D \in [F -> F]
    BY <1>3
  <2>4. GoesDown(S, rank, F, D)
    <3>1. ASSUME NEW f \in F, NEW g \in F, NEW p \in S, \A q \in S : rank[q] < rank[p] => f[q] = g[q]
          PROVE  D[f][p] = D[g][p]
      BY <1>2, <3>1
    <3> HIDE DEF D, F
    <3> QED
      BY <3>1 DEF GoesDown
  <2> HIDE DEF D, F, V
  <2>5. \E f \in F : D[f] = f
    BY <1>1, <2>1, <2>2, <2>3, <2>4, Recursion
  <2>6. PICK f \in F : D[f] = f
    BY <2>5
  <2>7. IsPut(j, ops, f)
    <3>1. D[f] = [p \in S |-> PutOf(j, ops, f, p)]
      BY DEF D
    <3> QED
      BY <2>6, <3>1 DEF IsPut, S
  <2> QED
    BY <2>6, <2>7
<1>5. IsPut(j, ops, Put(j, ops))
  BY <1>4 DEF Put
<1>6. \A p \in S : Put(j, ops)[p] = PutOf(j, ops, Put(j, ops), p)
  <2> QED
    BY <1>5 DEF IsPut, S
<1> DEFINE P == {p \in S : Put(j, ops)[p] = f[p]}
<1>7. ASSUME NEW p \in S, \A q \in S : rank[q] < rank[p] => q \in P PROVE p \in P
  <2>1. PutOf(j, ops, Put(j, ops), p) = PutOf(j, ops, f, p)
    BY <1>2, <1>7
  <2>2. f[p] = PutOf(j, ops, f, p)
    BY <1>4 DEF IsPut, S
  <2> QED
    BY <1>6, <2>1, <2>2
<1>8. S \subseteq P
  <2> HIDE DEF P
  <2> QED
    BY <1>1, <1>7, RankInduction
<1> QED
  BY <1>4, <1>6, <1>8 DEF S

(* Induction over the places of a chain.                                   *)
LEMMA PlaceInduction ==
  ASSUME AllTrees, NEW j \in Junctions, NEW ops \in Seq(Trees), NEW P,
         \A p \in Places(j, ops) : p[1].op # j => p \in P,
         \A p \in Places(j, ops) :
           /\ p[1].op = j
           /\ <<p[1].l, p[2]>> \in P
           /\ <<p[1].r, p[2] + Len(Operands(j, p[1].l))>> \in P
           => p \in P
  PROVE  Places(j, ops) \subseteq P
<1> DEFINE S == Places(j, ops)
<1>0. PICK height \in Heights : TRUE
  BY TreesAre
<1>00. height \in [Exprs -> Nat] /\ \A e \in Exprs : \A x \in Below(e) : height[x] < height[e]
  BY DEF Heights, Below, Trees, NoExpr, Junctions
<1> DEFINE rank == [p \in S |-> height[p[1]]]
<1>1. rank \in [S -> Nat]
  BY <1>00, PlacesAre
<1>2. ASSUME NEW p \in S, \A q \in S : rank[q] < rank[p] => q \in P PROVE p \in P
  <2>1. CASE p[1].op = j
    <3> DEFINE q == <<p[1].l, p[2]>>
               r == <<p[1].r, p[2] + Len(Operands(j, p[1].l))>>
    <3>1. q \in S /\ r \in S /\ p[1] \in Exprs /\ p[1].l \in Below(p[1]) /\ p[1].r \in Below(p[1])
      BY <2>1, PlacesAre
    <3>2. rank[q] < rank[p] /\ rank[r] < rank[p]
      <4>1. rank[q] = height[p[1].l] /\ rank[r] = height[p[1].r] /\ rank[p] = height[p[1]]
        BY <3>1
      <4> QED
        BY <1>00, <3>1, <4>1
    <3>3. q \in P /\ r \in P
      BY <1>2, <3>1, <3>2
    <3> QED
      BY <2>1, <3>3
  <2>2. CASE p[1].op # j
    BY <2>2
  <2> QED
    BY <2>1, <2>2
<1> HIDE DEF S, rank
<1>3. S \subseteq P
  BY <1>1, <1>2, RankInduction
<1> QED
  BY <1>3 DEF S

(* A chain with other operands: it is a tree, it has what the operands have*)
(* when that goes up to chains, and its operator is that of the old chain. *)
Upward(j, S) == \A a, b \in Trees : a \in S /\ b \in S => Two(j, a, b) \in S

(* A property of all new operands that passes to junctions holds of the    *)
(* chain with the new operands, which is a chain of the same junction.     *)
LEMMA WithOperandsIn ==
  ASSUME AllTrees, NEW j \in Junctions, NEW S, Upward(j, S), NEW chain \in Trees,
         NEW ops \in Seq(Trees), Len(ops) = Len(Operands(j, chain)),
         \A i \in 1 .. Len(ops) : ops[i] \in S
  PROVE  /\ WithOperands(j, chain, ops) \in Trees
         /\ WithOperands(j, chain, ops) \in S
         /\ chain.op = j => WithOperands(j, chain, ops).op = j
<1> DEFINE P == {p \in Places(j, ops) : Put(j, ops)[p] \in S}
<1>1. \A p \in Places(j, ops) : p[1].op # j => p \in P
  <2> TAKE p \in Places(j, ops)
  <2> HAVE p[1].op # j
  <2>1. p[2] + 1 \in 1 .. Len(ops)
    BY PlacesAre
  <2>2. Put(j, ops)[p] = ops[p[2] + 1]
    BY PutIs DEF PutOf
  <2> QED
    BY <2>1, <2>2
<1>2. ASSUME NEW p \in Places(j, ops), p[1].op = j, <<p[1].l, p[2]>> \in P,
             <<p[1].r, p[2] + Len(Operands(j, p[1].l))>> \in P
      PROVE  p \in P
  <2> DEFINE a == Put(j, ops)[<<p[1].l, p[2]>>]
             b == Put(j, ops)[<<p[1].r, p[2] + Len(Operands(j, p[1].l))>>]
  <2>1. Put(j, ops)[p] = Two(j, a, b)
    BY <1>2, PutIs DEF PutOf
  <2>2. a \in Trees /\ b \in Trees /\ a \in S /\ b \in S
    BY <1>2, PutIs
  <2> HIDE DEF a, b
  <2>3. Two(j, a, b) \in S
    BY <2>2 DEF Upward
  <2> QED
    BY <2>1, <2>3
<1>3. Places(j, ops) \subseteq P
  <2> HIDE DEF P
  <2> QED
    BY <1>1, <1>2, PlaceInduction
<1>4. <<chain, 0>> \in Places(j, ops)
  <2>1. Len(Operands(j, chain)) \in Nat
    BY OperandsTrees
  <2> QED
    BY <2>1 DEF Places, Trees
<1>5. chain.op = j => Put(j, ops)[<<chain, 0>>].op = j
  <2>1. Put(j, ops)[<<chain, 0>>] = PutOf(j, ops, Put(j, ops), <<chain, 0>>)
    BY <1>4, PutIs
  <2>2. \A f : chain.op = j => PutOf(j, ops, f, <<chain, 0>>).op = j
    BY DEF PutOf, Two
  <2> QED
    BY <2>1, <2>2
<1> QED
  BY <1>3, <1>4, <1>5, PutIs, WithOperandsIsPut

-----------------------------------------------------------------------------
(* The value of a chain.                                                   *)

(* v is the value of the operands m + 1 .. n: the lowest or the highest.   *)
IsExtreme(j, env, ops, m, n, v) ==
  /\ \E i \in m + 1 .. n : CalcValue(env, ops[i]) = v
  /\ \A i \in m + 1 .. n : Combine(j, v, CalcValue(env, ops[i])) = v

(* min and max on the values are associative, commutative and idempotent.  *)
LEMMA CombineIs ==
  ASSUME NEW j \in Junctions, NEW u \in Tri, NEW v \in Tri, NEW w \in Tri
  PROVE  /\ Combine(j, u, v) \in Tri
         /\ Combine(j, u, v) = Combine(j, v, u)
         /\ Combine(j, u, u) = u
         /\ Combine(j, u, v) \in {u, v}
         /\ Combine(j, Combine(j, u, v), w) = Combine(j, u, Combine(j, v, w))
BY DEF Combine, Lesser, Greater, Tri, Junctions

(* Two neighbouring stretches of the operands.                             *)
LEMMA ExtremeOfTwo ==
  ASSUME NEW j \in Junctions, NEW env, NEW ops, NEW m \in Nat, NEW k \in Nat, NEW n \in Nat,
         m =< k, k =< n, \A i \in m + 1 .. n : CalcValue(env, ops[i]) \in Tri,
         NEW v \in Tri, NEW w \in Tri,
         IsExtreme(j, env, ops, m, k, v), IsExtreme(j, env, ops, k, n, w)
  PROVE  IsExtreme(j, env, ops, m, n, Combine(j, v, w))
<1> DEFINE c(i) == CalcValue(env, ops[i])
           x == Combine(j, v, w)
<1>1. \E i \in m + 1 .. n : c(i) = x
  <2>1. PICK i \in m + 1 .. k : c(i) = v
    BY DEF IsExtreme
  <2>2. PICK h \in k + 1 .. n : c(h) = w
    BY DEF IsExtreme
  <2>3. x \in {v, w}
    BY CombineIs
  <2>4. i \in m + 1 .. n /\ h \in m + 1 .. n
    OBVIOUS
  <2> QED
    BY <2>1, <2>2, <2>3, <2>4
<1>2. ASSUME NEW i \in m + 1 .. n PROVE Combine(j, x, c(i)) = x
  <2>0. c(i) \in Tri
    OBVIOUS
  <2>1. CASE i \in m + 1 .. k
    <3>1. Combine(j, v, c(i)) = v
      BY <2>1 DEF IsExtreme
    <3> HIDE DEF c
    <3> QED
      BY <2>0, <3>1, CombineIs DEF Combine, Lesser, Greater, Tri, Junctions
  <2>2. CASE i \in k + 1 .. n
    <3>1. Combine(j, w, c(i)) = w
      BY <2>2 DEF IsExtreme
    <3> HIDE DEF c
    <3> QED
      BY <2>0, <3>1, CombineIs DEF Combine, Lesser, Greater, Tri, Junctions
  <2> QED
    BY <2>1, <2>2
<1> QED
  BY <1>1, <1>2 DEF IsExtreme

(* A sequence of operands has one least or greatest value.                 *)
LEMMA ExtremeUnique ==
  ASSUME NEW j \in Junctions, NEW env, NEW ops, NEW m, NEW n, NEW v \in Tri, NEW w \in Tri,
         IsExtreme(j, env, ops, m, n, v), IsExtreme(j, env, ops, m, n, w)
  PROVE  v = w
<1>1. Combine(j, v, w) = v
  BY DEF IsExtreme
<1>2. Combine(j, w, v) = w
  BY DEF IsExtreme
<1> QED
  BY <1>1, <1>2, CombineIs

(* The value of a chain with new operands is their least or greatest.      *)
LEMMA WithOperandsValue ==
  ASSUME AllTrees, NEW env, IsTri(env), NEW j \in Junctions, NEW chain \in Trees,
         NEW ops \in Seq(Trees), Len(ops) = Len(Operands(j, chain))
  PROVE  IsExtreme(j, env, ops, 0, Len(ops), CalcValue(env, WithOperands(j, chain, ops)))
<1> DEFINE V(x) == CalcValue(env, x)
           put == Put(j, ops)
           End(p) == p[2] + Len(Operands(j, p[1]))
           P == {p \in Places(j, ops) : IsExtreme(j, env, ops, p[2], End(p), V(put[p]))}
<1>0. \A x \in Trees : V(x) \in Tri
  BY ValueIs DEF Trees
<1>00. \A i \in 1 .. Len(ops) : V(ops[i]) \in Tri
  BY <1>0
<1>1. \A p \in Places(j, ops) : p[1].op # j => p \in P
  <2> TAKE p \in Places(j, ops)
  <2> HAVE p[1].op # j
  <2>1. p[2] + 1 \in 1 .. Len(ops) /\ Len(Operands(j, p[1])) = 1 /\ p[2] \in Nat
    BY PlacesAre
  <2>2. put[p] = ops[p[2] + 1]
    BY PutIs DEF PutOf
  <2>3. V(put[p]) \in Tri
    BY <1>00, <2>1, <2>2
  <2>4. \A i \in p[2] + 1 .. End(p) : i = p[2] + 1
    BY <2>1
  <2>5. p[2] + 1 \in p[2] + 1 .. End(p)
    BY <2>1
  <2> HIDE DEF V, put, End
  <2>6. Combine(j, V(put[p]), V(put[p])) = V(put[p])
    BY <2>3, CombineIs
  <2>7. IsExtreme(j, env, ops, p[2], End(p), V(put[p]))
    BY <2>2, <2>4, <2>5, <2>6 DEF IsExtreme, V
  <2> QED
    BY <2>7
<1>2. ASSUME NEW p \in Places(j, ops), p[1].op = j, <<p[1].l, p[2]>> \in P,
             <<p[1].r, p[2] + Len(Operands(j, p[1].l))>> \in P
      PROVE  p \in P
  <2> DEFINE q == <<p[1].l, p[2]>>
             k == p[2] + Len(Operands(j, p[1].l))
             r == <<p[1].r, k>>
             n == End(p)
             a == put[q]
             b == put[r]
  <2>1. put[p] = Two(j, a, b)
    BY <1>2, PutIs DEF PutOf
  <2>2. a \in Trees /\ b \in Trees
    BY <1>2, PutIs
  <2>3. V(put[p]) = Combine(j, V(a), V(b))
    BY <2>1, <2>2, ValuesAre
  <2>4. V(a) \in Tri /\ V(b) \in Tri
    BY <1>0, <2>2
  <2>5. /\ p[2] \in Nat /\ k \in Nat /\ n \in Nat /\ p[2] =< k /\ k =< n /\ n =< Len(ops)
        /\ End(q) = k /\ End(r) = n
    <3>1. /\ p[2] \in Nat /\ Len(Operands(j, p[1])) \in Nat /\ p[2] + Len(Operands(j, p[1])) =< Len(ops)
          /\ Len(Operands(j, p[1].l)) \in Nat /\ Len(Operands(j, p[1].r)) \in Nat
          /\ Len(Operands(j, p[1])) = Len(Operands(j, p[1].l)) + Len(Operands(j, p[1].r))
      BY <1>2, PlacesAre
    <3> QED
      BY <3>1
  <2>6. IsExtreme(j, env, ops, p[2], k, V(a)) /\ IsExtreme(j, env, ops, k, n, V(b))
    <3>1. IsExtreme(j, env, ops, q[2], End(q), V(put[q])) /\ IsExtreme(j, env, ops, r[2], End(r), V(put[r]))
      BY <1>2
    <3> QED
      BY <2>5, <3>1
  <2>7. \A i \in p[2] + 1 .. n : V(ops[i]) \in Tri
    <3>1. \A i \in p[2] + 1 .. n : i \in 1 .. Len(ops)
      BY <2>5
    <3> QED
      BY <1>00, <3>1
  <2> HIDE DEF a, b, k, n
  <2>8. IsExtreme(j, env, ops, p[2], n, Combine(j, V(a), V(b)))
    BY <2>4, <2>5, <2>6, <2>7, ExtremeOfTwo
  <2> QED
    BY <2>3, <2>8 DEF n
<1>3. Places(j, ops) \subseteq P
  <2> HIDE DEF P
  <2> QED
    BY <1>1, <1>2, PlaceInduction
<1>4. <<chain, 0>> \in Places(j, ops) /\ End(<<chain, 0>>) = Len(ops)
  <2>1. Len(Operands(j, chain)) \in Nat
    BY OperandsTrees
  <2> QED
    BY <2>1 DEF Places, Trees
<1>5. IsExtreme(j, env, ops, 0, Len(ops), V(put[<<chain, 0>>]))
  BY <1>3, <1>4
<1> QED
  BY <1>5, WithOperandsIsPut

(* The value of a chain is the least or greatest value of its operands.    *)
LEMMA OperandsValue ==
  ASSUME AllTrees, NEW env, IsTri(env), NEW j \in Junctions, NEW e \in Trees
  PROVE  IsExtreme(j, env, Operands(j, e), 0, Len(Operands(j, e)), CalcValue(env, e))
<1> DEFINE V(x) == CalcValue(env, x)
           Is(s, v) == IsExtreme(j, env, s, 0, Len(s), v)
           P == {x \in Exprs : x \in Trees => Is(Operands(j, x), V(x))}
<1>0. \A x \in Trees : V(x) \in Tri
  BY ValueIs DEF Trees
<1>1. ASSUME NEW x \in Exprs, Below(x) \subseteq P PROVE x \in P
  <2> SUFFICES ASSUME x \in Trees PROVE Is(Operands(j, x), V(x))
    OBVIOUS
  <2>1. CASE x.op = j
    <3> DEFINE a == Operands(j, x.l)
               b == Operands(j, x.r)
               v == V(x.l)
               w == V(x.r)
    <3>1. x.l \in Trees /\ x.r \in Trees /\ x.l \in Below(x) /\ x.r \in Below(x) /\ x = Two(j, x.l, x.r)
      BY <2>1, JunctionIs
    <3>2. Is(a, v) /\ Is(b, w)
      BY <1>1, <3>1
    <3>3. /\ Operands(j, x) = a \o b /\ a \in Seq(Trees) /\ b \in Seq(Trees)
          /\ Len(a) \in Nat /\ Len(b) \in Nat
      BY <2>1, <3>1, OperandsAre, OperandsTrees
    <3>4. V(x) = Combine(j, v, w) /\ v \in Tri /\ w \in Tri
      BY <1>0, <3>1, ValuesAre
    <3> HIDE DEF a, b, v, w, P
    <3>5. /\ Len(a \o b) = Len(a) + Len(b)
          /\ \A i \in 1 .. Len(a) : (a \o b)[i] = a[i]
          /\ \A i \in 1 .. Len(b) : (a \o b)[Len(a) + i] = b[i]
      BY <3>3
    <3>6. IsExtreme(j, env, a \o b, 0, Len(a), v)
      <4>1. \A i \in 0 + 1 .. Len(a) : (a \o b)[i] = a[i]
        BY <3>5
      <4>2. IsExtreme(j, env, a, 0, Len(a), v)
        BY <3>2
      <4> QED
        BY <4>1, <4>2 DEF IsExtreme
    <3>7. IsExtreme(j, env, a \o b, Len(a), Len(a) + Len(b), w)
      <4>1. \A i \in Len(a) + 1 .. Len(a) + Len(b) : i - Len(a) \in 0 + 1 .. Len(b) /\ (a \o b)[i] = b[i - Len(a)]
        <5> TAKE i \in Len(a) + 1 .. Len(a) + Len(b)
        <5>1. i - Len(a) \in 1 .. Len(b) /\ Len(a) + (i - Len(a)) = i
          BY <3>3
        <5> QED
          BY <3>5, <5>1
      <4>2. \A i \in 0 + 1 .. Len(b) : Len(a) + i \in Len(a) + 1 .. Len(a) + Len(b) /\ (a \o b)[Len(a) + i] = b[i]
        BY <3>3, <3>5
      <4>3. IsExtreme(j, env, b, 0, Len(b), w)
        BY <3>2
      <4> QED
        BY <4>1, <4>2, <4>3 DEF IsExtreme
    <3>8. \A i \in 0 + 1 .. Len(a) + Len(b) : V((a \o b)[i]) \in Tri
      <4>1. a \o b \in Seq(Trees)
        BY <3>3
      <4>2. \A i \in 1 .. Len(a \o b) : (a \o b)[i] \in Trees
        BY <4>1
      <4> QED
        BY <1>0, <3>5, <4>2
    <3>9. 0 =< Len(a) /\ Len(a) =< Len(a) + Len(b) /\ Len(a) + Len(b) \in Nat
      BY <3>3
    <3> DEFINE ab == a \o b
    <3>10. IsExtreme(j, env, ab, 0, Len(a) + Len(b), Combine(j, v, w))
      <4> HIDE DEF ab
      <4>1. \A i \in 0 + 1 .. Len(a) + Len(b) : CalcValue(env, ab[i]) \in Tri
        BY <3>8 DEF ab
      <4>2. IsExtreme(j, env, ab, 0, Len(a), v) /\ IsExtreme(j, env, ab, Len(a), Len(a) + Len(b), w)
        BY <3>6, <3>7 DEF ab
      <4> QED
        BY <3>3, <3>4, <3>9, <4>1, <4>2, ExtremeOfTwo
    <3> QED
      BY <3>3, <3>4, <3>5, <3>10
  <2>2. CASE x.op # j
    <3>1. Operands(j, x) = <<x>>
      BY <2>2, OperandsAre
    <3>2. Combine(j, V(x), V(x)) = V(x)
      BY <1>0, CombineIs
    <3>3. Len(<<x>>) = 1 /\ \A i \in 0 + 1 .. 1 : i = 1 /\ <<x>>[i] = x
      OBVIOUS
    <3>4. IsExtreme(j, env, <<x>>, 0, 1, V(x))
      BY <3>2, <3>3 DEF IsExtreme
    <3> QED
      BY <3>1, <3>3, <3>4
  <2> QED
    BY <2>1, <2>2
<1>2. Exprs \subseteq P
  <2> HIDE DEF P
  <2> QED
    BY <1>1, TreeInduction
<1> QED
  BY <1>2 DEF Trees

(* A sequence with an operand has a least or greatest value.               *)
LEMMA ExtremeExists ==
  ASSUME NEW j \in Junctions, NEW env, NEW ops, NEW n \in Nat, n >= 1,
         \A i \in 1 .. n : CalcValue(env, ops[i]) \in Tri
  PROVE  \E v \in Tri : IsExtreme(j, env, ops, 0, n, v)
<1> DEFINE c(i) == CalcValue(env, ops[i])
           Has(v) == \E i \in 0 + 1 .. n : c(i) = v
<1>1. \A i \in 0 + 1 .. n : c(i) \in Tri
  OBVIOUS
<1>2. 1 \in 0 + 1 .. n
  OBVIOUS
<1>3. 0 \in Tri /\ 1 \in Tri /\ 2 \in Tri /\ \A v \in Tri : v = 0 \/ v = 1 \/ v = 2
  BY DEF Tri
<1>4. ASSUME NEW v \in Tri, Has(v), \A i \in 0 + 1 .. n : Combine(j, v, c(i)) = v
      PROVE  \E u \in Tri : IsExtreme(j, env, ops, 0, n, u)
  BY <1>4 DEF IsExtreme
<1> HIDE DEF c
<1>5. CASE j = "and"
  <2>1. CASE Has(0)
    BY <1>1, <1>3, <1>4, <1>5, <2>1 DEF Combine, Lesser, Tri
  <2>2. CASE ~Has(0) /\ Has(1)
    <3>1. \A i \in 0 + 1 .. n : Combine(j, 1, c(i)) = 1
      BY <1>1, <1>5, <2>2 DEF Combine, Lesser, Tri
    <3> QED
      BY <1>3, <1>4, <2>2, <3>1
  <2>3. CASE ~Has(0) /\ ~Has(1)
    <3>1. \A i \in 0 + 1 .. n : c(i) = 2
      BY <1>1, <1>3, <2>3
    <3>2. \A i \in 0 + 1 .. n : Combine(j, 2, c(i)) = 2
      BY <1>5, <3>1 DEF Combine, Lesser
    <3> QED
      BY <1>2, <1>3, <1>4, <3>1, <3>2
  <2> QED
    BY <2>1, <2>2, <2>3
<1>6. CASE j = "or"
  <2>1. CASE Has(2)
    <3>1. \A i \in 0 + 1 .. n : Combine(j, 2, c(i)) = 2
      BY <1>1, <1>6 DEF Combine, Greater, Tri
    <3> QED
      BY <1>3, <1>4, <2>1, <3>1
  <2>2. CASE ~Has(2) /\ Has(1)
    <3>1. \A i \in 0 + 1 .. n : Combine(j, 1, c(i)) = 1
      BY <1>1, <1>6, <2>2 DEF Combine, Greater, Tri
    <3> QED
      BY <1>3, <1>4, <2>2, <3>1
  <2>3. CASE ~Has(2) /\ ~Has(1)
    <3>1. \A i \in 0 + 1 .. n : c(i) = 0
      BY <1>1, <1>3, <2>3
    <3>2. \A i \in 0 + 1 .. n : Combine(j, 0, c(i)) = 0
      BY <1>6, <3>1 DEF Combine, Greater
    <3> QED
      BY <1>2, <1>3, <1>4, <3>1, <3>2
  <2> QED
    BY <2>1, <2>2, <2>3
<1> QED
  BY <1>5, <1>6 DEF Junctions

(* What y is to && and n is to ||.                                         *)
LEMMA NeutralIs ==
  ASSUME AllTrees, NEW j \in Junctions
  PROVE  /\ Sym(Neutral(j)) \in Leaves /\ Sym(Neutral(j)) \in Trees
         /\ IsOrdinary(Sym(Neutral(j))) /\ IsNormal(Sym(Neutral(j))) /\ IsPlain(Sym(Neutral(j)))
         /\ \A env : IsTri(env) => \A v \in Tri :
              /\ Combine(j, v, CalcValue(env, Sym(Neutral(j)))) = v
              /\ Combine(j, CalcValue(env, Sym(Neutral(j))), v) = v
              /\ CalcValue(env, Sym(Neutral(j))) \in Tri
<1>1. Neutral(j) \in TriWords
  BY DEF Neutral, TriWords
<1>2. Sym(Neutral(j)) \in Leaves
  BY <1>1, WordsAssumption DEF Leaves
<1>3. FairComparison(Sym(Neutral(j))) /\ PlainPart(Sym(Neutral(j)))
  BY <1>1 DEF FairComparison, PlainPart, Sym
<1>4. Sym(Neutral(j)) \in Trees /\ IsOrdinary(Sym(Neutral(j))) /\ IsNormal(Sym(Neutral(j)))
      /\ IsPlain(Sym(Neutral(j)))
  BY <1>2, <1>3, TreesAre, NormalAre, OrdinaryAre, PlainAre
<1>5. ASSUME NEW env, IsTri(env), NEW v \in Tri
      PROVE  /\ Combine(j, v, CalcValue(env, Sym(Neutral(j)))) = v
             /\ Combine(j, CalcValue(env, Sym(Neutral(j))), v) = v
             /\ CalcValue(env, Sym(Neutral(j))) \in Tri
  <2>1. CalcValue(env, Sym(Neutral(j))) = IF j = "and" THEN 2 ELSE 0
    BY <1>5, ConstantsAre DEF Neutral
  <2> QED
    BY <2>1 DEF Combine, Lesser, Greater, Tri
<1> QED
  BY <1>2, <1>4, <1>5

(* An operand that becomes neutral.                                        *)
LEMMA Neutralized ==
  ASSUME AllTrees, NEW j \in Junctions, NEW env, IsTri(env),
         NEW ops \in Seq(Trees), NEW p \in 1 .. Len(ops), NEW v \in Tri, NEW w \in Tri,
         IsExtreme(j, env, ops, 0, Len(ops), v),
         IsExtreme(j, env, [ops EXCEPT ![p] = Sym(Neutral(j))], 0, Len(ops), w)
  PROVE  v = Combine(j, w, CalcValue(env, ops[p]))
<1> DEFINE c(i) == CalcValue(env, ops[i])
           new == [ops EXCEPT ![p] = Sym(Neutral(j))]
           d(i) == CalcValue(env, new[i])
           neutral == CalcValue(env, Sym(Neutral(j)))
           x == Combine(j, w, c(p))
           n == Len(ops)
<1>0. n \in Nat /\ p \in 0 + 1 .. n /\ \A i \in 0 + 1 .. n : i \in 1 .. n
  OBVIOUS
<1>1. \A i \in 0 + 1 .. n : c(i) \in Tri
  <2>1. \A y \in Trees : CalcValue(env, y) \in Tri
    BY ValueIs DEF Trees
  <2>2. \A i \in 0 + 1 .. n : ops[i] \in Trees
    OBVIOUS
  <2> QED
    BY <2>1, <2>2
<1>2. \A i \in 0 + 1 .. n : d(i) = IF i = p THEN neutral ELSE c(i)
  OBVIOUS
<1>3. neutral \in Tri /\ \A u \in Tri : Combine(j, u, neutral) = u /\ Combine(j, neutral, u) = u
  BY NeutralIs
<1>4. (\E i \in 0 + 1 .. n : d(i) = w) /\ \A i \in 0 + 1 .. n : Combine(j, w, d(i)) = w
  BY DEF IsExtreme
<1>5. c(p) \in Tri
  BY <1>0, <1>1
<1>6. x \in Tri /\ x \in {w, c(p)}
  BY <1>5, CombineIs
<1> HIDE DEF c, d, neutral, n, new
<1>7. \E i \in 0 + 1 .. n : c(i) = x
  <2>1. PICK i \in 0 + 1 .. n : d(i) = w
    BY <1>4
  <2>2. CASE i = p
    <3>1. x = c(p)
      BY <1>2, <1>3, <1>5, <2>1, <2>2
    <3> QED
      BY <1>0, <3>1
  <2>3. CASE i # p
    <3>1. c(i) = w
      BY <1>2, <2>1, <2>3
    <3> QED
      BY <1>0, <1>6, <3>1
  <2> QED
    BY <2>2, <2>3
<1>8. ASSUME NEW i \in 0 + 1 .. n PROVE Combine(j, x, c(i)) = x
  <2>0. c(i) \in Tri
    BY <1>1
  <2>1. CASE i = p
    BY <1>5, <2>1 DEF Combine, Lesser, Greater, Tri
  <2>2. CASE i # p
    <3>1. Combine(j, w, c(i)) = w
      BY <1>2, <1>4, <2>2
    <3> QED
      BY <1>5, <2>0, <3>1 DEF Combine, Lesser, Greater, Tri
  <2> QED
    BY <2>1, <2>2
<1>9. IsExtreme(j, env, ops, 0, n, x)
  BY <1>7, <1>8 DEF IsExtreme, c
<1>10. IsExtreme(j, env, ops, 0, n, v)
  BY DEF n
<1> HIDE DEF x
<1>11. v = x
  BY <1>6, <1>9, <1>10, ExtremeUnique
<1> QED
  BY <1>11 DEF x, c

(* Two operands that become one.                                           *)
LEMMA Joined ==
  ASSUME AllTrees, NEW j \in Junctions, NEW env, IsTri(env),
         NEW ops \in Seq(Trees), NEW p \in 1 .. Len(ops), NEW q \in 1 .. Len(ops), p # q, NEW z \in Trees,
         CalcValue(env, z) = Combine(j, CalcValue(env, ops[p]), CalcValue(env, ops[q])),
         NEW v \in Tri, IsExtreme(j, env, ops, 0, Len(ops), v)
  PROVE  IsExtreme(j, env, [ops EXCEPT ![p] = Sym(Neutral(j)), ![q] = z], 0, Len(ops), v)
<1> DEFINE c(i) == CalcValue(env, ops[i])
           new == [ops EXCEPT ![p] = Sym(Neutral(j)), ![q] = z]
           d(i) == CalcValue(env, new[i])
           neutral == CalcValue(env, Sym(Neutral(j)))
           x == Combine(j, c(p), c(q))
           n == Len(ops)
<1>0. n \in Nat /\ p \in 0 + 1 .. n /\ q \in 0 + 1 .. n
  OBVIOUS
<1>1. \A i \in 0 + 1 .. n : c(i) \in Tri
  <2>1. \A y \in Trees : CalcValue(env, y) \in Tri
    BY ValueIs DEF Trees
  <2>2. \A i \in 0 + 1 .. n : ops[i] \in Trees
    OBVIOUS
  <2> QED
    BY <2>1, <2>2
<1>2. \A i \in 0 + 1 .. n : d(i) = IF i = q THEN x ELSE IF i = p THEN neutral ELSE c(i)
  OBVIOUS
<1>3. neutral \in Tri /\ \A u \in Tri : Combine(j, u, neutral) = u /\ Combine(j, neutral, u) = u
  BY NeutralIs
<1>4. (\E i \in 0 + 1 .. n : c(i) = v) /\ \A i \in 0 + 1 .. n : Combine(j, v, c(i)) = v
  BY DEF IsExtreme
<1>5. c(p) \in Tri /\ c(q) \in Tri
  BY <1>0, <1>1
<1>6. Combine(j, v, c(p)) = v /\ Combine(j, v, c(q)) = v
  BY <1>0, <1>4
<1> HIDE DEF c, d, neutral, n, new
<1>7. x \in Tri /\ Combine(j, v, x) = v
  BY <1>5, <1>6 DEF Combine, Lesser, Greater, Tri
<1>8. v \in {c(p), c(q)} => x = v
  BY <1>5, <1>6 DEF Combine, Lesser, Greater, Tri, Junctions
<1> HIDE DEF x
<1>9. \E i \in 0 + 1 .. n : d(i) = v
  <2>1. PICK i \in 0 + 1 .. n : c(i) = v
    BY <1>4
  <2>2. CASE i \in {p, q}
    <3>1. d(q) = v
      BY <1>0, <1>2, <1>8, <2>1, <2>2
    <3> QED
      BY <1>0, <3>1
  <2>3. CASE i \notin {p, q}
    BY <1>2, <2>1, <2>3
  <2> QED
    BY <2>2, <2>3
<1>10. \A i \in 0 + 1 .. n : Combine(j, v, d(i)) = v
  BY <1>2, <1>3, <1>4, <1>7
<1> QED
  BY <1>9, <1>10 DEF IsExtreme, d, new, n

(* An operand may be replaced by one of the same value.                    *)
LEMMA Replaced ==
  ASSUME NEW j, NEW env, NEW ops \in Seq(Trees), NEW p \in 1 .. Len(ops), NEW z,
         CalcValue(env, z) = CalcValue(env, ops[p]),
         NEW v, IsExtreme(j, env, ops, 0, Len(ops), v)
  PROVE  IsExtreme(j, env, [ops EXCEPT ![p] = z], 0, Len(ops), v)
<1> DEFINE new == [ops EXCEPT ![p] = z]
<1>1. \A i \in 0 + 1 .. Len(ops) : CalcValue(env, new[i]) = CalcValue(env, ops[i])
  OBVIOUS
<1> HIDE DEF new
<1>2. IsExtreme(j, env, new, 0, Len(ops), v)
  BY <1>1 DEF IsExtreme
<1> QED
  BY <1>2 DEF new

(* Two nested walks.                                                       *)
LEMMA Quotient ==
  ASSUME NEW m \in Nat, NEW n \in Nat, NEW k \in 0 .. (m * n) - 1
  PROVE  k \div n \in 0 .. m - 1 /\ k % n \in 0 .. n - 1
<1>1. n # 0 /\ m # 0 /\ k \in Nat /\ n > 0 /\ m * n \in Nat /\ k < m * n
  OBVIOUS
<1> DEFINE q == k \div n
           r == k % n
<1>2. q \in Int /\ r \in 0 .. n - 1
  BY <1>1
<1>3. k = n * q + r
  BY <1>1
<1>4. q >= 0
  BY <1>1
<1> HIDE DEF q, r
<1>5. q < m
  <2> SUFFICES ASSUME q >= m PROVE FALSE
    BY <1>2
  <2>1. PICK h \in Nat : q = m + h
    <3>1. q - m \in Nat /\ q = m + (q - m)
      BY <1>2
    <3> QED
      BY <3>1
  <2>2. n * q = n * m + n * h
    BY <2>1
  <2>3. n * h \in Nat
    BY <2>1
  <2>4. n * m = m * n
    OBVIOUS
  <2>5. n * q \in Int /\ n * m \in Int /\ r >= 0 /\ r \in Int
    BY <1>2
  <2> QED
    BY ONLY <1>1, <1>3, <2>2, <2>3, <2>4, <2>5
<1> QED
  BY <1>2, <1>4, <1>5 DEF q, r

(* Pairs lists places of the two walks.                                    *)
LEMMA PairsAre ==
  ASSUME NEW m \in Nat, NEW n \in Nat
  PROVE  /\ Len(Pairs(m, n)) = m * n /\ m * n \in Nat
         /\ \A k \in 1 .. m * n : Pairs(m, n)[k][1] \in 1 .. m /\ Pairs(m, n)[k][2] \in 1 .. n
<1>1. m * n \in Nat
  OBVIOUS
<1> DEFINE f == [k \in 1 .. m * n |-> <<((k - 1) \div n) + 1, ((k - 1) % n) + 1>>]
<1>2. Pairs(m, n) = f
  BY DEF Pairs
<1>3. Len(f) = m * n
  <2> DEFINE g(k) == <<((k - 1) \div n) + 1, ((k - 1) % n) + 1>>
  <2>1. \A c \in Nat : Len([k \in 1 .. c |-> g(k)]) = c
    <3> HIDE DEF g
    <3> QED
      OBVIOUS
  <2> QED
    BY <1>1, <2>1
<1>4. ASSUME NEW k \in 1 .. m * n PROVE f[k][1] \in 1 .. m /\ f[k][2] \in 1 .. n
  <2>1. k - 1 \in 0 .. (m * n) - 1
    OBVIOUS
  <2>2. (k - 1) \div n \in 0 .. m - 1 /\ (k - 1) % n \in 0 .. n - 1
    BY <2>1, Quotient
  <2> DEFINE q == (k - 1) \div n
             r == (k - 1) % n
  <2>3. f[k][1] = q + 1 /\ f[k][2] = r + 1
    OBVIOUS
  <2> HIDE DEF q, r, f
  <2>4. q \in 0 .. m - 1 /\ r \in 0 .. n - 1
    BY <2>2 DEF q, r
  <2> QED
    BY <2>3, <2>4
<1> QED
  BY <1>1, <1>2, <1>3, <1>4

(* A walk that stays in P.                                                 *)
WalksOf(n, P, v, step) ==
  {f \in [0 .. n -> P] : \A k \in 0 .. n : f[k] = IF k = 0 THEN v ELSE step[<<k, f[k - 1]>>]}

(* The states of a walk exist.                                             *)
LEMMA WalkExists ==
  ASSUME NEW n \in Nat, NEW P, NEW v \in P, NEW step \in [(1 .. n) \X P -> P]
  PROVE  WalksOf(n, P, v, step) # {}
<1> DEFINE S == 0 .. n
           rank == [k \in S |-> k]
           V == [k \in S |-> P]
           F == [S -> P]
           Body(f, k) == IF k = 0 THEN v ELSE step[<<k, f[k - 1]>>]
           D == [f \in F |-> [k \in S |-> Body(f, k)]]
<1>1. rank \in [S -> Nat]
  OBVIOUS
<1>2. Choices(S, P, V) = F
  BY DEF Choices
<1>3. F # {}
  <2>1. [k \in S |-> v] \in F
    OBVIOUS
  <2> QED
    BY <2>1
<1>4. \A k \in S : k # 0 => k - 1 \in S /\ k \in 1 .. n /\ rank[k - 1] < rank[k]
  OBVIOUS
<1>5. ASSUME NEW f \in F, NEW k \in S PROVE Body(f, k) \in P
  <2> HIDE DEF S
  <2>1. CASE k # 0
    <3>1. f[k - 1] \in P /\ k \in 1 .. n
      BY <1>4, <2>1
    <3> QED
      BY <2>1, <3>1
  <2>2. CASE k = 0
    BY <2>2
  <2> QED
    BY <2>1, <2>2
<1>6. ASSUME NEW f \in F, NEW g \in F, NEW k \in S, \A y \in S : rank[y] < rank[k] => f[y] = g[y]
      PROVE  Body(f, k) = Body(g, k)
  BY <1>4, <1>6
<1> HIDE DEF S, rank, Body
<1>7. D \in [F -> F]
  BY <1>5
<1>8. GoesDown(S, rank, F, D)
  <2>1. ASSUME NEW f \in F, NEW g \in F, NEW k \in S, \A y \in S : rank[y] < rank[k] => f[y] = g[y]
        PROVE  D[f][k] = D[g][k]
    BY <1>6, <2>1
  <2> HIDE DEF D, F
  <2> QED
    BY <2>1 DEF GoesDown
<1>9. \E f \in F : D[f] = f
  <2> HIDE DEF D, F, V
  <2> QED
    BY <1>1, <1>2, <1>3, <1>7, <1>8, Recursion
<1>10. PICK f \in F : D[f] = f
  BY <1>9
<1>11. \A k \in S : f[k] = Body(f, k)
  BY <1>10
<1>12. f \in WalksOf(n, P, v, step)
  BY <1>10, <1>11 DEF WalksOf, Body, S
<1> QED
  BY <1>12

-----------------------------------------------------------------------------
(* __expr_eliminate_eq.                                                    *)
StruckTo(eq, j, st, pairs, P, f) ==
  /\ f \in [0 .. Len(pairs) -> P] /\ f[0] = st
  /\ \A k \in 1 .. Len(pairs) : f[k] = Strike(eq, j, f[k - 1], pairs[k])
  /\ StrikeAll(eq, j, st, pairs) = f[Len(pairs)]

(* The walk of __expr_eliminate_eq, when every strike stays in P.          *)
LEMMA StrikeAllIs ==
  ASSUME NEW eq, NEW j, NEW st, NEW pairs, Len(pairs) \in Nat, NEW P, st \in P,
         \A s \in P : \A k \in 1 .. Len(pairs) : Strike(eq, j, s, pairs[k]) \in P
  PROVE  \E f : StruckTo(eq, j, st, pairs, P, f)
<1> DEFINE n == Len(pairs)
           Is(f) == f = [k \in 0 .. n |-> IF k = 0 THEN st ELSE Strike(eq, j, f[k - 1], pairs[k])]
           T == CHOOSE f : Is(f)
           step == [x \in (1 .. n) \X P |-> Strike(eq, j, x[2], pairs[x[1]])]
<1>1. step \in [(1 .. n) \X P -> P]
  OBVIOUS
<1>2. PICK f \in [0 .. n -> P] : Is(f)
  <2>0. n \in Nat
    OBVIOUS
  <2>1. PICK f \in WalksOf(n, P, st, step) : TRUE
    <3> HIDE DEF step, n
    <3> QED
      BY <1>1, <2>0, WalkExists
  <2>10. f \in [0 .. n -> P] /\ \A k \in 0 .. n : f[k] = IF k = 0 THEN st ELSE step[<<k, f[k - 1]>>]
    <3> HIDE DEF step, n
    <3> QED
      BY <2>1 DEF WalksOf
  <2>2. ASSUME NEW k \in 0 .. n PROVE f[k] = IF k = 0 THEN st ELSE Strike(eq, j, f[k - 1], pairs[k])
    <3>1. CASE k # 0
      <4>1. k \in 1 .. n /\ k - 1 \in 0 .. n
        BY <3>1
      <4>2. f[k - 1] \in P
        BY <2>10, <4>1
      <4>3. step[<<k, f[k - 1]>>] = Strike(eq, j, f[k - 1], pairs[k])
        BY <4>1, <4>2
      <4>4. f[k] = step[<<k, f[k - 1]>>]
        <5> HIDE DEF step
        <5> QED
          BY <2>10, <3>1
      <4> QED
        BY <3>1, <4>3, <4>4
    <3>2. CASE k = 0
      <4> HIDE DEF step
      <4> QED
        BY <2>10, <3>2
    <3> QED
      BY <3>1, <3>2
  <2>3. f = [k \in 0 .. n |-> f[k]]
    BY <2>10
  <2> HIDE DEF n
  <2>4. Is(f)
    BY <2>2, <2>3
  <2> QED
    BY <2>4, <2>10
<1>3. Is(T)
  <2> HIDE DEF Is
  <2> QED
    BY <1>2
<1>4. StrikeAll(eq, j, st, pairs) = T[n]
  BY DEF StrikeAll
<1> HIDE DEF T
<1>5. T[0] = st /\ \A k \in 1 .. n : k - 1 \in 0 .. n /\ T[k] = Strike(eq, j, T[k - 1], pairs[k])
  <2>1. 0 \in 0 .. n /\ \A k \in 1 .. n : k \in 0 .. n /\ k - 1 \in 0 .. n /\ k # 0
    OBVIOUS
  <2>2. \A k \in 0 .. n : T[k] = IF k = 0 THEN st ELSE Strike(eq, j, T[k - 1], pairs[k])
    BY <1>3
  <2> HIDE DEF n, Is
  <2> QED
    BY <2>1, <2>2
<1> DEFINE Q == {k \in 0 .. n : T[k] \in P}
<1>6. 0 .. n \subseteq Q
  <2>1. 0 \in Q
    BY <1>5
  <2>2. ASSUME NEW k \in 0 .. n - 1, k \in Q PROVE k + 1 \in Q
    <3>1. k + 1 \in 1 .. n /\ (k + 1) - 1 = k /\ T[k] \in P
      BY <2>2
    <3>2. T[k + 1] = Strike(eq, j, T[k], pairs[k + 1])
      BY <1>5, <3>1
    <3> QED
      BY <3>1, <3>2
  <2> HIDE DEF Q
  <2> QED
    BY <2>1, <2>2, InductionUpTo
<1>7. T \in [0 .. n -> P]
  BY <1>3, <1>6
<1>8. StruckTo(eq, j, st, pairs, P, T)
  BY <1>4, <1>5, <1>7 DEF StruckTo
<1> QED
  BY <1>8

(* Striking with two relations that agree where they are asked.            *)
LEMMA StrikeAllSame ==
  ASSUME NEW eq, NEW eq2, NEW j, NEW st, NEW pairs, Len(pairs) \in Nat, NEW P, st \in P,
         \A s \in P : \A k \in 1 .. Len(pairs) :
           /\ Strike(eq, j, s, pairs[k]) \in P
           /\ Strike(eq2, j, s, pairs[k]) = Strike(eq, j, s, pairs[k])
  PROVE  StrikeAll(eq2, j, st, pairs) = StrikeAll(eq, j, st, pairs) /\ StrikeAll(eq, j, st, pairs) \in P
<1> DEFINE n == Len(pairs)
<1>1. PICK f : StruckTo(eq, j, st, pairs, P, f)
  BY StrikeAllIs
<1>2. PICK g : StruckTo(eq2, j, st, pairs, P, g)
  BY StrikeAllIs
<1> DEFINE Q == {k \in 0 .. n : f[k] = g[k]}
<1>3. 0 .. n \subseteq Q
  <2>1. 0 \in Q
    BY <1>1, <1>2 DEF StruckTo
  <2>2. ASSUME NEW k \in 0 .. n - 1, k \in Q PROVE k + 1 \in Q
    <3>1. k + 1 \in 1 .. n /\ (k + 1) - 1 = k /\ k \in 0 .. n /\ f[k] = g[k]
      BY <2>2
    <3>2. f[k + 1] = Strike(eq, j, f[k], pairs[k + 1]) /\ g[k + 1] = Strike(eq2, j, g[k], pairs[k + 1])
      BY <1>1, <1>2, <3>1 DEF StruckTo
    <3>3. f[k] \in P
      BY <1>1, <3>1 DEF StruckTo
    <3> QED
      BY <3>1, <3>2, <3>3
  <2> HIDE DEF Q
  <2> QED
    BY <2>1, <2>2, InductionUpTo
<1>4. n \in Q
  BY <1>3
<1> QED
  BY <1>1, <1>2, <1>4 DEF StruckTo

(* The operands of a chain are lower than the chain.                       *)
Under(d, j, h) == {x \in Trees : x.op # j /\ d[x] < h}

(* The operands of a chain are lower than the chain; so is the neutral     *)
(* symbol.                                                                 *)
LEMMA OperandsUnder ==
  ASSUME AllTrees, NEW d \in Depths, NEW j \in Junctions, NEW e \in Trees, e.op = j
  PROVE  /\ \A i \in 1 .. Len(Operands(j, e)) : Operands(j, e)[i] \in Under(d, j, d[e])
         /\ d[e] \in Nat /\ d[e] >= 1
         /\ Sym(Neutral(j)) \in Under(d, j, d[e])
<1> DEFINE S == {x \in Trees : Step(d, j, x) =< d[e]}
<1>0. \A x \in Trees : d[x] \in Nat /\ Step(d, j, x) \in Nat
  BY DEF Depths, Trees, Step
<1>1. Downward(j, S)
  <2>1. ASSUME NEW a \in Trees, NEW b \in Trees, Two(j, a, b) \in S PROVE a \in S /\ b \in S
    <3>1. d[Two(j, a, b)] = Greater(Step(d, j, a), Step(d, j, b))
      BY DEF Depths
    <3>2. Step(d, j, Two(j, a, b)) = d[Two(j, a, b)]
      BY DEF Step, Two
    <3>3. Step(d, j, Two(j, a, b)) =< d[e]
      BY <2>1
    <3>4. Step(d, j, a) \in Nat /\ Step(d, j, b) \in Nat /\ d[e] \in Nat
      BY <1>0
    <3>5. Step(d, j, a) =< d[e] /\ Step(d, j, b) =< d[e]
      BY <3>1, <3>2, <3>3, <3>4 DEF Greater
    <3> QED
      BY <3>5
  <2> QED
    BY <2>1 DEF Downward
<1>2. e \in S
  BY <1>0 DEF Step
<1>3. \A i \in 1 .. Len(Operands(j, e)) : Operands(j, e)[i] \in S
  <2> HIDE DEF S
  <2> QED
    BY <1>1, <1>2, OperandsIn
<1>4. \A i \in 1 .. Len(Operands(j, e)) : Operands(j, e)[i].op # j
  BY OperandsTrees
<1>5. ASSUME NEW x \in S, x.op # j PROVE x \in Under(d, j, d[e]) /\ d[e] >= 1
  <2>1. x \in Trees /\ Step(d, j, x) = 1 + d[x] /\ d[x] \in Nat /\ d[e] \in Nat /\ Step(d, j, x) =< d[e]
    BY <1>0, <1>5 DEF Step
  <2>2. d[x] < d[e] /\ d[e] >= 1
    BY <2>1
  <2> QED
    BY <1>5, <2>1, <2>2 DEF Under
<1>6. Operands(j, e)[1] \in S /\ Operands(j, e)[1].op # j
  <2>1. 1 \in 1 .. Len(Operands(j, e))
    BY OperandsTrees
  <2> QED
    BY <1>3, <1>4, <2>1
<1>7. d[e] >= 1 /\ d[e] \in Nat
  BY <1>0, <1>5, <1>6
<1>8. Sym(Neutral(j)) \in Under(d, j, d[e])
  <2>1. Sym(Neutral(j)) \in Leaves /\ Sym(Neutral(j)) \in Trees /\ Sym(Neutral(j)).op # j
    BY NeutralIs DEF Sym, Junctions
  <2>2. d[Sym(Neutral(j))] = 0
    BY <2>1 DEF Depths
  <2> QED
    BY <1>7, <2>1, <2>2 DEF Under
<1> QED
  BY <1>3, <1>4, <1>5, <1>7, <1>8

(* Sequences of m operands in S.                                           *)
Chains(S, m) == {s \in Seq(Trees) : Len(s) = m /\ \A i \in 1 .. m : s[i] \in S}

(* An operand of a sequence may be replaced by another one in S.           *)
LEMMA ChainsPut ==
  ASSUME NEW S, NEW m, NEW s \in Chains(S, m), NEW p \in 1 .. m, NEW z \in Trees, z \in S
  PROVE  [s EXCEPT ![p] = z] \in Chains(S, m)
BY DEF Chains

(* A pair of places of two chains, whose operands are in S and in T.       *)
PairOfPlaces(j, S, T, m, n, st, p) ==
  /\ st \in Chains(S, m) \X Chains(T, n)
  /\ p[1] \in 1 .. m /\ p[2] \in 1 .. n
  /\ Sym(Neutral(j)) \in Trees /\ Sym(Neutral(j)) \in S /\ Sym(Neutral(j)) \in T

(* Two chains without the operands at the places p.                        *)
BothGone(j, st, p) ==
  <<[st[1] EXCEPT ![p[1]] = Sym(Neutral(j))], [st[2] EXCEPT ![p[2]] = Sym(Neutral(j))]>>

(* A strike leaves both chains as they are, or makes two operands neutral  *)
(* that eq calls equal.                                                    *)
LEMMA StrikeIs ==
  ASSUME NEW eq, NEW j, NEW S, NEW T, NEW m, NEW n, NEW st, NEW p, PairOfPlaces(j, S, T, m, n, st, p)
  PROVE  /\ Strike(eq, j, st, p) \in Chains(S, m) \X Chains(T, n)
         /\ st[1][p[1]] \in S /\ st[2][p[2]] \in T
         /\ \/ Strike(eq, j, st, p) = st
            \/ /\ eq[<<st[1][p[1]], st[2][p[2]]>>]
               /\ Strike(eq, j, st, p) = BothGone(j, st, p)
<1> DEFINE a == [st[1] EXCEPT ![p[1]] = Sym(Neutral(j))]
           b == [st[2] EXCEPT ![p[2]] = Sym(Neutral(j))]
           x == st[1][p[1]]
           y == st[2][p[2]]
           constant == x = y /\ x \in {Sym("y"), Sym("n")}
<1>1. /\ st[1] \in Chains(S, m) /\ st[2] \in Chains(T, n) /\ st = <<st[1], st[2]>>
      /\ p[1] \in 1 .. m /\ p[2] \in 1 .. n
      /\ Sym(Neutral(j)) \in Trees /\ Sym(Neutral(j)) \in S /\ Sym(Neutral(j)) \in T
  BY DEF PairOfPlaces
<1>2. a \in Chains(S, m) /\ b \in Chains(T, n)
  BY <1>1, ChainsPut
<1>3. x \in S /\ y \in T
  BY <1>1 DEF Chains
<1>4. Strike(eq, j, st, p) = IF ~constant /\ eq[<<x, y>>] THEN <<a, b>> ELSE st
  BY DEF Strike
<1> HIDE DEF a, b, x, y, constant
<1> QED
  BY <1>1, <1>2, <1>3, <1>4 DEF a, b, x, y, BothGone

(* A strike asks eq for the two operands only.                             *)
LEMMA StrikeSame ==
  ASSUME NEW eq, NEW eq2, NEW j, NEW st, NEW p,
         eq2[<<st[1][p[1]], st[2][p[2]]>>] = eq[<<st[1][p[1]], st[2][p[2]]>>]
  PROVE  Strike(eq2, j, st, p) = Strike(eq, j, st, p)
BY DEF Strike

(* A negation is a tree with one operand.                                  *)
LEMMA NegationIs ==
  ASSUME AllTrees, NEW x \in Exprs, x.op = "not"
  PROVE  x \in Trees /\ x.l \in Trees /\ x = Not(x.l)
<1>1. x \in Trees
  BY DEF Trees, NoExpr
<1> QED
  BY <1>1, TreesAre DEF Leaves, Sym, Relations, Junctions

(* Both chains after the strikes.                                          *)
Struck(eq, j, e, f) ==
  StrikeAll(eq, j, <<Operands(j, e), Operands(j, f)>>, Pairs(Len(Operands(j, e)), Len(Operands(j, f))))

Agree(d, h, eq, eq2) == \A x, y \in Trees : d[x] < h => eq[<<x, y>>] = eq2[<<x, y>>]

(* The strikes ask eq for operands lower than the chain only, and leave    *)
(* such operands.                                                          *)
LEMMA StruckIs ==
  ASSUME AllTrees, NEW d \in Depths, NEW j \in Junctions, NEW e \in Trees, NEW f \in Trees, e.op = j, f.op = j,
         NEW eq, NEW eq2, Agree(d, d[e], eq, eq2)
  PROVE  /\ Struck(eq, j, e, f) = Struck(eq2, j, e, f)
         /\ Struck(eq, j, e, f) \in Chains(Under(d, j, d[e]), Len(Operands(j, e)))
                                      \X Chains(Under(d, j, d[f]), Len(Operands(j, f)))
<1> DEFINE m == Len(Operands(j, e))
           n == Len(Operands(j, f))
           S == Under(d, j, d[e])
           T == Under(d, j, d[f])
           P == Chains(S, m) \X Chains(T, n)
           st == <<Operands(j, e), Operands(j, f)>>
           pairs == Pairs(m, n)
           z == Sym(Neutral(j))
<1>1. m \in Nat /\ n \in Nat /\ Operands(j, e) \in Seq(Trees) /\ Operands(j, f) \in Seq(Trees)
  BY OperandsTrees
<1>2. st \in P
  <2>1. Operands(j, e) \in Chains(S, m) /\ Operands(j, f) \in Chains(T, n)
    BY <1>1, OperandsUnder DEF Chains
  <2> QED
    BY <2>1
<1>3. Len(pairs) \in Nat /\ \A k \in 1 .. Len(pairs) : pairs[k][1] \in 1 .. m /\ pairs[k][2] \in 1 .. n
  BY <1>1, PairsAre
<1>4. z \in Trees /\ z \in S /\ z \in T
  BY NeutralIs, OperandsUnder
<1>5. S \subseteq Trees /\ T \subseteq Trees /\ \A x \in S : d[x] < d[e]
  BY DEF Under
<1>6. Struck(eq, j, e, f) = StrikeAll(eq, j, st, pairs) /\ Struck(eq2, j, e, f) = StrikeAll(eq2, j, st, pairs)
  BY DEF Struck
<1> HIDE DEF m, n, S, T, st, pairs
<1>7. ASSUME NEW s \in P, NEW k \in 1 .. Len(pairs)
      PROVE  Strike(eq, j, s, pairs[k]) \in P /\ Strike(eq2, j, s, pairs[k]) = Strike(eq, j, s, pairs[k])
  <2> DEFINE p == pairs[k]
             x == s[1][p[1]]
             y == s[2][p[2]]
  <2>1. p[1] \in 1 .. m /\ p[2] \in 1 .. n
    BY <1>3
  <2>4. s \in Chains(S, m) \X Chains(T, n) /\ z = Sym(Neutral(j))
    OBVIOUS
  <2> HIDE DEF p, z, P
  <2>2. Strike(eq, j, s, p) \in Chains(S, m) \X Chains(T, n) /\ x \in S /\ y \in T
    <3> HIDE DEF x, y
    <3>3. PairOfPlaces(j, S, T, m, n, s, p)
      BY <1>4, <2>1, <2>4 DEF PairOfPlaces
    <3>1. /\ Strike(eq, j, s, p) \in Chains(S, m) \X Chains(T, n)
          /\ s[1][p[1]] \in S /\ s[2][p[2]] \in T
      BY <3>3, StrikeIs
    <3> QED
      BY <3>1 DEF x, y
  <2>3. eq2[<<x, y>>] = eq[<<x, y>>]
    <3> HIDE DEF x, y
    <3>1. x \in Trees /\ y \in Trees /\ d[x] < d[e]
      BY <1>5, <2>2
    <3> QED
      BY <3>1 DEF Agree
  <2>5. Strike(eq2, j, s, p) = Strike(eq, j, s, p)
    BY <2>3, StrikeSame
  <2> QED
    BY <2>2, <2>5 DEF p, P
<1> HIDE DEF P
<1>8. StrikeAll(eq2, j, st, pairs) = StrikeAll(eq, j, st, pairs) /\ StrikeAll(eq, j, st, pairs) \in P
  BY <1>2, <1>3, <1>7, StrikeAllSame
<1> QED
  BY <1>6, <1>8 DEF P, S, T, m, n

(* expr_eliminate_eq on two chains of one junction: the strikes, and then  *)
(* expr_eliminate_yn.                                                      *)
LEMMA EliminateEqIs ==
  ASSUME AllTrees, NEW d \in Depths, NEW j \in Junctions, NEW e \in Trees, NEW f \in Trees, e.op = j, f.op = j,
         NEW eq
  PROVE  EliminateEq(eq, e, f) = TidyBoth(<<WithOperands(j, e, Struck(eq, j, e, f)[1]),
                                            WithOperands(j, f, Struck(eq, j, e, f)[2])>>)
<1> DEFINE st == Struck(eq, j, e, f)
           p == <<WithOperands(j, e, st[1]), WithOperands(j, f, st[2])>>
<1>1. st \in Chains(Under(d, j, d[e]), Len(Operands(j, e))) \X Chains(Under(d, j, d[f]), Len(Operands(j, f)))
  <2>1. Agree(d, d[e], eq, eq)
    BY DEF Agree
  <2> QED
    BY <2>1, StruckIs
<1>2. /\ st[1] \in Seq(Trees) /\ Len(st[1]) = Len(Operands(j, e))
      /\ st[2] \in Seq(Trees) /\ Len(st[2]) = Len(Operands(j, f))
  <2>1. st[1] \in Chains(Under(d, j, d[e]), Len(Operands(j, e))) /\ st[2] \in Chains(Under(d, j, d[f]), Len(Operands(j, f)))
    BY <1>1
  <2> QED
    BY <2>1 DEF Chains
<1>3. Upward(j, Trees)
  BY TreesAre DEF Upward
<1> HIDE DEF st
<1>4. \A i \in 1 .. Len(st[1]) : st[1][i] \in Trees
  BY <1>2
<1>5. \A i \in 1 .. Len(st[2]) : st[2][i] \in Trees
  BY <1>2
<1>6. WithOperands(j, e, st[1]).op = j
  BY <1>2, <1>3, <1>4, WithOperandsIn
<1>7. WithOperands(j, f, st[2]).op = j
  BY <1>2, <1>3, <1>5, WithOperandsIn
<1>8. p[1].op = p[2].op
  BY <1>6, <1>7
<1>9. NoExpr \notin {e, f}
  BY DEF Trees
<1>10. StrikeIf(eq, e.op, <<e, f>>) = p
  BY DEF StrikeIf, StrikeCommon, WithBoth, Struck, st
<1> HIDE DEF p
<1>11. StrikeAgain(eq, p) = p
  BY <1>8 DEF StrikeAgain
<1>12. EliminateEq(eq, e, f) = TidyBoth(p)
  BY <1>9, <1>10, <1>11 DEF EliminateEq
<1> QED
  BY <1>12 DEF p, st

(* Whether two trees are equal is asked of lower trees.                    *)
LEMMA EqGoesDown ==
  ASSUME AllTrees, NEW d \in Depths, NEW e \in Exprs, NEW f \in Exprs, NEW eq, NEW eq2,
         Agree(d, d[e], eq, eq2)
  PROVE  EqOf(eq, e, f) = EqOf(eq2, e, f)
<1>1. CASE e.op # f.op
  BY <1>1 DEF EqOf
<1>2. CASE e.op = f.op /\ e.op = "not"
  <2>2. e.l \in Trees /\ e = Not(e.l) /\ f.l \in Trees
    BY <1>2, NegationIs
  <2>3. d[e.l] < d[e]
    <3>1. d[Not(e.l)] = 1 + d[e.l] /\ d[e.l] \in Nat
      BY <2>2 DEF Depths, Trees
    <3> QED
      BY <2>2, <3>1
  <2>4. eq[<<e.l, f.l>>] = eq2[<<e.l, f.l>>]
    BY <2>2, <2>3 DEF Agree
  <2>5. "not" \notin Junctions
    BY DEF Junctions
  <2> QED
    BY <1>2, <2>4, <2>5 DEF EqOf
<1>3. CASE e.op = f.op /\ e.op \in Junctions
  <2>1. e \in Trees /\ f \in Trees
    BY <1>3, JunctionIs
  <2>2. PICK j \in Junctions : j = e.op /\ j = f.op
    BY <1>3
  <2>6. Struck(eq, j, e, f) = Struck(eq2, j, e, f)
    <3>1. e.op = j /\ f.op = j /\ Agree(d, d[e], eq, eq2)
      BY <2>2
    <3> QED
      BY ONLY <2>1, <3>1, AllTrees, StruckIs
  <2>3. EliminateEq(eq, e, f) = EliminateEq(eq2, e, f)
    <3>1. \A r : EliminateEq(r, e, f) = TidyBoth(<<WithOperands(j, e, Struck(r, j, e, f)[1]),
                                                  WithOperands(j, f, Struck(r, j, e, f)[2])>>)
      BY <2>1, <2>2, EliminateEqIs
    <3> QED
      BY <2>6, <3>1
  <2>4. "not" \notin Junctions
    BY DEF Junctions
  <2> QED
    BY <1>3, <2>3, <2>4 DEF EqOf
<1>4. CASE e.op = f.op /\ e.op # "not" /\ e.op \notin Junctions
  BY <1>4 DEF EqOf
<1> QED
  BY <1>1, <1>2, <1>3, <1>4

(* expr_eq ends, and is what its definition says.                          *)
LEMMA ExprEqIs ==
  ASSUME AllTrees, NEW e \in Exprs, NEW f \in Exprs
  PROVE  ExprEq[<<e, f>>] = EqOf(ExprEq, e, f)
<1> DEFINE S == Exprs \X Exprs
           Body(g, p) == EqOf(g, p[1], p[2])
           Is(g) == g = [p \in S |-> Body(g, p)]
           V == [p \in S |-> BOOLEAN]
           F == [S -> BOOLEAN]
           D == [g \in F |-> [p \in S |-> Body(g, p)]]
<1>1. PICK d \in Depths : TRUE
  BY DepthsExist
<1>2. d \in [Exprs -> Nat]
  BY DEF Depths
<1> DEFINE rank == [p \in S |-> d[p[1]]]
<1>3. rank \in [S -> Nat]
  BY <1>2
<1>4. ASSUME NEW p \in S, NEW g, NEW h, \A q \in S : rank[q] < rank[p] => g[q] = h[q]
      PROVE  Body(g, p) = Body(h, p)
  <2>1. p[1] \in Exprs /\ p[2] \in Exprs
    OBVIOUS
  <2>2. Agree(d, d[p[1]], g, h)
    <3>1. \A x, y \in Trees : <<x, y>> \in S /\ rank[<<x, y>>] = d[x]
      BY DEF Trees
    <3>2. rank[p] = d[p[1]]
      OBVIOUS
    <3> HIDE DEF rank, S
    <3> QED
      BY <1>4, <3>1, <3>2 DEF Agree
  <2> QED
    BY <2>1, <2>2, EqGoesDown
<1>5. ASSUME NEW p \in S, NEW g \in F PROVE Body(g, p) \in BOOLEAN
  <2>0. p[1] \in Exprs /\ p[2] \in Exprs
    OBVIOUS
  <2>1. CASE p[1].op # p[2].op
    BY <2>1 DEF EqOf
  <2>2. CASE p[1].op = p[2].op /\ p[1].op = "not"
    <3>2. p[1].l \in Exprs /\ p[2].l \in Exprs
      BY <2>0, <2>2, NegationIs DEF Trees
    <3>3. g[<<p[1].l, p[2].l>>] \in BOOLEAN
      BY <3>2
    <3>4. "not" \notin Junctions
      BY DEF Junctions
    <3> QED
      BY <2>2, <3>3, <3>4 DEF EqOf
  <2>3. CASE p[1].op = p[2].op /\ p[1].op \in Junctions
    <3>1. SameSymbol(EliminateEq(g, p[1], p[2])) \in BOOLEAN
      BY DEF SameSymbol
    <3>2. "not" \notin Junctions
      BY DEF Junctions
    <3> QED
      BY <2>3, <3>1, <3>2 DEF EqOf
  <2>4. CASE p[1].op = p[2].op /\ p[1].op # "not" /\ p[1].op \notin Junctions
    BY <2>4 DEF EqOf
  <2> QED
    BY <2>1, <2>2, <2>3, <2>4
<1>6. PICK k \in F : Is(k)
  <2>1. Choices(S, BOOLEAN, V) = F
    BY DEF Choices
  <2>2. F # {}
    <3>1. [p \in S |-> TRUE] \in F
      OBVIOUS
    <3> QED
      BY <3>1
  <2> HIDE DEF S, rank, Body
  <2>3. D \in [F -> F]
    BY <1>5
  <2>4. GoesDown(S, rank, F, D)
    <3>1. ASSUME NEW g \in F, NEW h \in F, NEW p \in S, \A q \in S : rank[q] < rank[p] => g[q] = h[q]
          PROVE  D[g][p] = D[h][p]
      BY <1>4, <3>1
    <3> HIDE DEF D, F
    <3> QED
      BY <3>1 DEF GoesDown
  <2>5. \E g \in F : D[g] = g
    <3> HIDE DEF D, F, V
    <3> QED
      BY <1>3, <2>1, <2>2, <2>3, <2>4, Recursion
  <2> QED
    BY <2>5
<1>7. ExprEq = CHOOSE g : Is(g)
  BY DEF ExprEq
<1>8. Is(ExprEq)
  <2> HIDE DEF Is
  <2> QED
    BY <1>6, <1>7
<1>9. ExprEq[<<e, f>>] = Body(ExprEq, <<e, f>>)
  <2> HIDE DEF Body
  <2>1. <<e, f>> \in S
    OBVIOUS
  <2> QED
    BY <1>8, <2>1
<1> QED
  BY <1>9

(* What two chains have in common besides the operands that are left: their*)
(* values are u and w.                                                     *)
Shared(j, env, u, w, m, n, s) ==
  \E v1, v2, c \in Tri :
    /\ IsExtreme(j, env, s[1], 0, m, v1) /\ IsExtreme(j, env, s[2], 0, n, v2)
    /\ u = Combine(j, v1, c) /\ w = Combine(j, v2, c)

(* A strike of an operand of the same value in both chains.                *)
LEMMA StrikeShares ==
  ASSUME AllTrees, NEW j \in Junctions, NEW env, IsTri(env), NEW S, NEW T, S \subseteq Trees, T \subseteq Trees,
         NEW m \in Nat, NEW n \in Nat, NEW st, NEW p, PairOfPlaces(j, S, T, m, n, st, p), NEW eq,
         eq[<<st[1][p[1]], st[2][p[2]]>>] => CalcValue(env, st[1][p[1]]) = CalcValue(env, st[2][p[2]]),
         NEW u, NEW w, Shared(j, env, u, w, m, n, st)
  PROVE  Shared(j, env, u, w, m, n, Strike(eq, j, st, p))
<1> DEFINE z == Sym(Neutral(j))
           a == [st[1] EXCEPT ![p[1]] = z]
           b == [st[2] EXCEPT ![p[2]] = z]
           x == st[1][p[1]]
           y == st[2][p[2]]
           V(e) == CalcValue(env, e)
<1>1. CASE Strike(eq, j, st, p) = st
  BY <1>1
<1>2. CASE eq[<<x, y>>] /\ Strike(eq, j, st, p) = <<a, b>>
  <2>1. st[1] \in Chains(S, m) /\ st[2] \in Chains(T, n) /\ p[1] \in 1 .. m /\ p[2] \in 1 .. n
        /\ z \in Trees /\ z \in S /\ z \in T
    BY DEF PairOfPlaces
  <2>2. a \in Chains(S, m) /\ b \in Chains(T, n)
    BY <2>1, ChainsPut
  <2>3. /\ st[1] \in Seq(Trees) /\ Len(st[1]) = m /\ st[2] \in Seq(Trees) /\ Len(st[2]) = n
        /\ a \in Seq(Trees) /\ Len(a) = m /\ b \in Seq(Trees) /\ Len(b) = n
    BY <2>1, <2>2 DEF Chains
  <2>4. x \in Trees /\ y \in Trees /\ V(x) \in Tri /\ V(x) = V(y) /\ m >= 1 /\ n >= 1
    <3>1. x \in Trees /\ y \in Trees /\ m >= 1 /\ n >= 1
      BY <2>1, <2>3
    <3>2. V(x) \in Tri
      BY <3>1, ValueIs DEF Trees
    <3> QED
      BY <1>2, <3>1, <3>2
  <2>5. (\A i \in 1 .. m : V(a[i]) \in Tri) /\ \A i \in 1 .. n : V(b[i]) \in Tri
    <3>1. \A e \in Trees : V(e) \in Tri
      BY ValueIs DEF Trees
    <3>2. (\A i \in 1 .. m : a[i] \in Trees) /\ \A i \in 1 .. n : b[i] \in Trees
      <4> HIDE DEF a, b
      <4> QED
        BY <2>3
    <3> QED
      BY <3>1, <3>2
  <2> HIDE DEF V, a, b, x, y, z
  <2>6. PICK v1 \in Tri : \E v2, c \in Tri :
          /\ IsExtreme(j, env, st[1], 0, m, v1) /\ IsExtreme(j, env, st[2], 0, n, v2)
          /\ u = Combine(j, v1, c) /\ w = Combine(j, v2, c)
    BY DEF Shared
  <2>7. PICK v2 \in Tri : \E c \in Tri :
          /\ IsExtreme(j, env, st[1], 0, m, v1) /\ IsExtreme(j, env, st[2], 0, n, v2)
          /\ u = Combine(j, v1, c) /\ w = Combine(j, v2, c)
    BY <2>6
  <2>8. PICK c \in Tri :
          /\ IsExtreme(j, env, st[1], 0, m, v1) /\ IsExtreme(j, env, st[2], 0, n, v2)
          /\ u = Combine(j, v1, c) /\ w = Combine(j, v2, c)
    BY <2>7
  <2>9. \E v \in Tri : IsExtreme(j, env, a, 0, m, v)
    BY <2>4, <2>5, ExtremeExists DEF V
  <2>10. \E v \in Tri : IsExtreme(j, env, b, 0, n, v)
    BY <2>4, <2>5, ExtremeExists DEF V
  <2>11. PICK w1 \in Tri : IsExtreme(j, env, a, 0, m, w1)
    BY <2>9
  <2>12. PICK w2 \in Tri : IsExtreme(j, env, b, 0, n, w2)
    BY <2>10
  <2>13. v1 = Combine(j, w1, V(x))
    <3>1. IsExtreme(j, env, [st[1] EXCEPT ![p[1]] = Sym(Neutral(j))], 0, Len(st[1]), w1)
      BY <2>3, <2>11 DEF a, z
    <3>2. IsExtreme(j, env, st[1], 0, Len(st[1]), v1) /\ p[1] \in 1 .. Len(st[1])
      BY <2>1, <2>3, <2>8
    <3> DEFINE ops == st[1]
               q == p[1]
    <3>4. ops \in Seq(Trees) /\ q \in 1 .. Len(ops) /\ V(x) = CalcValue(env, ops[q])
      BY <2>3, <3>2 DEF V, x
    <3>5. /\ IsExtreme(j, env, [ops EXCEPT ![q] = Sym(Neutral(j))], 0, Len(ops), w1)
          /\ IsExtreme(j, env, ops, 0, Len(ops), v1)
      BY <3>1, <3>2
    <3> HIDE DEF ops, q
    <3>6. v1 = Combine(j, w1, CalcValue(env, ops[q]))
      BY <3>4, <3>5, Neutralized
    <3> QED
      BY <3>4, <3>6
  <2>14. v2 = Combine(j, w2, V(x))
    <3>1. IsExtreme(j, env, [st[2] EXCEPT ![p[2]] = Sym(Neutral(j))], 0, Len(st[2]), w2)
      BY <2>3, <2>12 DEF b, z
    <3>2. IsExtreme(j, env, st[2], 0, Len(st[2]), v2) /\ p[2] \in 1 .. Len(st[2])
      BY <2>1, <2>3, <2>8
    <3> DEFINE ops == st[2]
               q == p[2]
    <3>4. ops \in Seq(Trees) /\ q \in 1 .. Len(ops) /\ V(y) = CalcValue(env, ops[q])
      BY <2>3, <3>2 DEF V, y
    <3>5. /\ IsExtreme(j, env, [ops EXCEPT ![q] = Sym(Neutral(j))], 0, Len(ops), w2)
          /\ IsExtreme(j, env, ops, 0, Len(ops), v2)
      BY <3>1, <3>2
    <3> HIDE DEF ops, q
    <3>6. v2 = Combine(j, w2, CalcValue(env, ops[q]))
      BY <3>4, <3>5, Neutralized
    <3>3. v2 = Combine(j, w2, V(y))
      BY <3>4, <3>6
    <3> QED
      BY <2>4, <3>3
  <2> DEFINE g == Combine(j, V(x), c)
  <2>15. g \in Tri
    BY <2>4, CombineIs
  <2>16. u = Combine(j, w1, g) /\ w = Combine(j, w2, g)
    BY <2>4, <2>8, <2>13, <2>14, CombineIs
  <2> HIDE DEF g
  <2>17. Shared(j, env, u, w, m, n, <<a, b>>)
    BY <2>11, <2>12, <2>15, <2>16 DEF Shared
  <2> QED
    BY <1>2, <2>17
<1>3. Strike(eq, j, st, p) = st \/ (eq[<<x, y>>] /\ Strike(eq, j, st, p) = <<a, b>>)
  <2> HIDE DEF a, b, x, y
  <2>1. \/ Strike(eq, j, st, p) = st
        \/ /\ eq[<<st[1][p[1]], st[2][p[2]]>>]
           /\ Strike(eq, j, st, p) = BothGone(j, st, p)
    BY StrikeIs
  <2> QED
    BY <2>1 DEF a, b, x, y, z, BothGone
<1> QED
  BY <1>1, <1>2, <1>3

(* What eq calls equal has the same value.                                 *)
Truthful(S, T, env, eq) == \A x \in S, y \in T : eq[<<x, y>>] => CalcValue(env, x) = CalcValue(env, y)

(* After the strikes the two chains differ from the values of e and f by   *)
(* the same value.                                                         *)
LEMMA StruckShares ==
  ASSUME AllTrees, NEW j \in Junctions, NEW e \in Trees, NEW f \in Trees,
         NEW S \in SUBSET Trees, NEW T \in SUBSET Trees, Sym(Neutral(j)) \in S, Sym(Neutral(j)) \in T,
         Operands(j, e) \in Chains(S, Len(Operands(j, e))), Operands(j, f) \in Chains(T, Len(Operands(j, f))),
         NEW env, IsTri(env), NEW eq, Truthful(S, T, env, eq)
  PROVE  /\ Struck(eq, j, e, f) \in Chains(S, Len(Operands(j, e))) \X Chains(T, Len(Operands(j, f)))
         /\ Shared(j, env, CalcValue(env, e), CalcValue(env, f),
                   Len(Operands(j, e)), Len(Operands(j, f)), Struck(eq, j, e, f))
<1> DEFINE m == Len(Operands(j, e))
           n == Len(Operands(j, f))
           u == CalcValue(env, e)
           w == CalcValue(env, f)
           P == {s \in Chains(S, m) \X Chains(T, n) : Shared(j, env, u, w, m, n, s)}
           st == <<Operands(j, e), Operands(j, f)>>
           pairs == Pairs(m, n)
           z == Sym(Neutral(j))
<1>1. m \in Nat /\ n \in Nat
  BY OperandsTrees
<1>2. st \in P
  <2>2. IsExtreme(j, env, Operands(j, e), 0, m, u) /\ IsExtreme(j, env, Operands(j, f), 0, n, w)
    BY OperandsValue
  <2>3. u \in Tri /\ w \in Tri
    BY ValueIs DEF Trees
  <2>4. u = Combine(j, u, CalcValue(env, z)) /\ w = Combine(j, w, CalcValue(env, z)) /\ CalcValue(env, z) \in Tri
    BY <2>3, NeutralIs
  <2>5. Shared(j, env, u, w, m, n, st)
    <3> HIDE DEF u, w, m, n, z
    <3>1. st[1] = Operands(j, e) /\ st[2] = Operands(j, f)
      OBVIOUS
    <3> HIDE DEF st
    <3>2. IsExtreme(j, env, st[1], 0, m, u) /\ IsExtreme(j, env, st[2], 0, n, w)
      BY <2>2, <3>1
    <3> QED
      BY <2>3, <2>4, <3>2 DEF Shared
  <2> QED
    BY <2>5
<1>3. Len(pairs) \in Nat /\ \A k \in 1 .. Len(pairs) : pairs[k][1] \in 1 .. m /\ pairs[k][2] \in 1 .. n
  BY <1>1, PairsAre
<1>4. z \in Trees /\ z \in S /\ z \in T /\ S \subseteq Trees /\ T \subseteq Trees
  OBVIOUS
<1>6. Struck(eq, j, e, f) = StrikeAll(eq, j, st, pairs)
  BY DEF Struck
<1> HIDE DEF m, n, st, pairs, u, w
<1>7. ASSUME NEW s \in P, NEW k \in 1 .. Len(pairs)
      PROVE  Strike(eq, j, s, pairs[k]) \in P
  <2> DEFINE p == pairs[k]
             x == s[1][p[1]]
             y == s[2][p[2]]
  <2>1. p[1] \in 1 .. m /\ p[2] \in 1 .. n
    BY <1>3
  <2>2. s \in Chains(S, m) \X Chains(T, n) /\ z = Sym(Neutral(j)) /\ Shared(j, env, u, w, m, n, s)
    OBVIOUS
  <2> HIDE DEF p, z, P
  <2>3. PairOfPlaces(j, S, T, m, n, s, p)
    BY <1>4, <2>1, <2>2 DEF PairOfPlaces
  <2>4. Strike(eq, j, s, p) \in Chains(S, m) \X Chains(T, n) /\ x \in S /\ y \in T
    <3> HIDE DEF x, y
    <3>1. /\ Strike(eq, j, s, p) \in Chains(S, m) \X Chains(T, n)
          /\ s[1][p[1]] \in S /\ s[2][p[2]] \in T
      BY <2>3, StrikeIs
    <3> QED
      BY <3>1 DEF x, y
  <2>5. eq[<<x, y>>] => CalcValue(env, x) = CalcValue(env, y)
    <3> HIDE DEF x, y
    <3> QED
      BY <2>4 DEF Truthful
  <2>6. Shared(j, env, u, w, m, n, Strike(eq, j, s, p))
    BY <1>1, <1>4, <2>2, <2>3, <2>5, StrikeShares
  <2> QED
    BY <2>4, <2>6 DEF P, p
<1> HIDE DEF P
<1>8. StrikeAll(eq, j, st, pairs) \in P
  BY <1>2, <1>3, <1>7, StrikeAllSame
<1> QED
  BY <1>6, <1>8 DEF P, m, n, u, w

(* The values of the two chains that are left are in the order of those of *)
(* e and f, or in none.                                                    *)
LEMMA StruckValues ==
  ASSUME AllTrees, NEW j \in Junctions, NEW e \in Trees, NEW f \in Trees,
         NEW S \in SUBSET Trees, NEW T \in SUBSET Trees, Sym(Neutral(j)) \in S, Sym(Neutral(j)) \in T,
         Operands(j, e) \in Chains(S, Len(Operands(j, e))), Operands(j, f) \in Chains(T, Len(Operands(j, f))),
         NEW env, IsTri(env), NEW eq, Truthful(S, T, env, eq)
  PROVE  LET W1 == WithOperands(j, e, Struck(eq, j, e, f)[1])
             W2 == WithOperands(j, f, Struck(eq, j, e, f)[2])
         IN  /\ W1 \in Trees /\ W2 \in Trees
             /\ \E c \in Tri : /\ CalcValue(env, e) = Combine(j, CalcValue(env, W1), c)
                               /\ CalcValue(env, f) = Combine(j, CalcValue(env, W2), c)
<1> DEFINE st == Struck(eq, j, e, f)
           W1 == WithOperands(j, e, st[1])
           W2 == WithOperands(j, f, st[2])
           m == Len(Operands(j, e))
           n == Len(Operands(j, f))
           V(x) == CalcValue(env, x)
<1>1. st \in Chains(S, m) \X Chains(T, n) /\ Shared(j, env, V(e), V(f), m, n, st)
  BY StruckShares
<1>2. /\ st[1] \in Seq(Trees) /\ Len(st[1]) = m
      /\ st[2] \in Seq(Trees) /\ Len(st[2]) = n
  BY <1>1 DEF Chains
<1>3. Upward(j, Trees)
  BY TreesAre DEF Upward
<1> HIDE DEF st
<1>5. W1 \in Trees
  <2>1. \A i \in 1 .. Len(st[1]) : st[1][i] \in Trees
    BY <1>2
  <2> QED
    BY <1>2, <1>3, <2>1, WithOperandsIn
<1>6. W2 \in Trees
  <2>1. \A i \in 1 .. Len(st[2]) : st[2][i] \in Trees
    BY <1>2
  <2> QED
    BY <1>2, <1>3, <2>1, WithOperandsIn
<1>7. IsExtreme(j, env, st[1], 0, Len(st[1]), V(W1)) /\ V(W1) \in Tri
  <2>1. V(W1) \in Tri
    BY <1>5, ValueIs DEF Trees
  <2> QED
    BY <1>2, <2>1, WithOperandsValue
<1>8. IsExtreme(j, env, st[2], 0, Len(st[2]), V(W2)) /\ V(W2) \in Tri
  <2>1. V(W2) \in Tri
    BY <1>6, ValueIs DEF Trees
  <2> QED
    BY <1>2, <2>1, WithOperandsValue
<1> HIDE DEF V, W1, W2, m, n
<1>11. PICK v1 \in Tri : \E v2, c \in Tri :
          /\ IsExtreme(j, env, st[1], 0, m, v1) /\ IsExtreme(j, env, st[2], 0, n, v2)
          /\ V(e) = Combine(j, v1, c) /\ V(f) = Combine(j, v2, c)
  BY <1>1 DEF Shared
<1>12. PICK v2 \in Tri : \E c \in Tri :
          /\ IsExtreme(j, env, st[1], 0, m, v1) /\ IsExtreme(j, env, st[2], 0, n, v2)
          /\ V(e) = Combine(j, v1, c) /\ V(f) = Combine(j, v2, c)
  BY <1>11
<1>13. v1 = V(W1)
  BY <1>2, <1>7, <1>12, ExtremeUnique
<1>14. v2 = V(W2)
  BY <1>2, <1>8, <1>12, ExtremeUnique
<1>15. \E c \in Tri : V(e) = Combine(j, V(W1), c) /\ V(f) = Combine(j, V(W2), c)
  BY <1>12, <1>13, <1>14
<1> QED
  BY <1>5, <1>6, <1>15 DEF V, W1, W2, st

(* Two chains that are equal have the same value.                          *)
LEMMA ChainsEqual ==
  ASSUME AllTrees, NEW d \in Depths, NEW j \in Junctions, NEW e \in Trees, NEW f \in Trees, e.op = j, f.op = j,
         NEW env, IsTri(env), NEW eq,
         Truthful(Under(d, j, d[e]), Under(d, j, d[f]), env, eq), SameSymbol(EliminateEq(eq, e, f))
  PROVE  CalcValue(env, e) = CalcValue(env, f)
<1> DEFINE W1 == WithOperands(j, e, Struck(eq, j, e, f)[1])
           W2 == WithOperands(j, f, Struck(eq, j, e, f)[2])
           S == Under(d, j, d[e])
           T == Under(d, j, d[f])
           V(x) == CalcValue(env, x)
<1>1. /\ S \in SUBSET Trees /\ T \in SUBSET Trees /\ Sym(Neutral(j)) \in S /\ Sym(Neutral(j)) \in T
      /\ Operands(j, e) \in Chains(S, Len(Operands(j, e)))
      /\ Operands(j, f) \in Chains(T, Len(Operands(j, f)))
  <2>1. Operands(j, e) \in Seq(Trees) /\ Operands(j, f) \in Seq(Trees)
    BY OperandsTrees
  <2> QED
    BY <2>1, OperandsUnder DEF Chains, Under
<1>2. EliminateEq(eq, e, f) = TidyBoth(<<W1, W2>>)
  BY EliminateEqIs
<1> HIDE DEF S, T
<1>3. /\ W1 \in Trees /\ W2 \in Trees
      /\ \E c \in Tri : V(e) = Combine(j, V(W1), c) /\ V(f) = Combine(j, V(W2), c)
  <2>1. Truthful(S, T, env, eq)
    BY DEF S, T
  <2> QED
    BY <1>1, <2>1, StruckValues
<1> HIDE DEF W1, W2
<1>4. EliminateYN[W1] = EliminateYN[W2]
  BY <1>2 DEF SameSymbol, TidyBoth
<1>5. V(EliminateYN[W1]) = V(W1) /\ V(EliminateYN[W2]) = V(W2)
  BY <1>3, EliminateYNKeeps
<1> QED
  BY <1>3, <1>4, <1>5

(* expr_eq: equal trees have the same value.                               *)
THEOREM ExprEqSound ==
  ASSUME AllTrees, NEW env, IsTri(env)
  PROVE  \A e, f \in Exprs : ExprEq[<<e, f>>] => CalcValue(env, e) = CalcValue(env, f)
<1> DEFINE V(x) == CalcValue(env, x)
           P == {e \in Exprs : \A f \in Exprs : ExprEq[<<e, f>>] => V(e) = V(f)}
<1>1. PICK d \in Depths : TRUE
  BY DepthsExist
<1>2. d \in [Exprs -> Nat]
  BY DEF Depths
<1>3. ASSUME NEW e \in Exprs, \A x \in Exprs : d[x] < d[e] => x \in P,
             NEW f \in Exprs, ExprEq[<<e, f>>]
      PROVE  V(e) = V(f)
  <2>1. EqOf(ExprEq, e, f)
    BY <1>3, ExprEqIs
  <2>2. e.op = f.op
    BY <2>1 DEF EqOf
  <2>3. CASE e.op = "not"
    <3>1. e.l \in Trees /\ e = Not(e.l) /\ f.l \in Trees /\ f = Not(f.l)
      BY <2>2, <2>3, NegationIs
    <3>2. d[e.l] < d[e]
      <4>1. d[Not(e.l)] = 1 + d[e.l] /\ d[e.l] \in Nat
        BY <3>1 DEF Depths, Trees
      <4> QED
        BY <3>1, <4>1
    <3>3. ExprEq[<<e.l, f.l>>]
      <4>1. "not" \notin Junctions
        BY DEF Junctions
      <4> QED
        BY <2>1, <2>3, <4>1 DEF EqOf
    <3>4. V(e.l) = V(f.l)
      BY <1>3, <3>1, <3>2, <3>3 DEF Trees
    <3>5. V(Not(e.l)) = 2 - V(e.l) /\ V(Not(f.l)) = 2 - V(f.l)
      BY <3>1, ValuesAre
    <3> QED
      BY <3>1, <3>4, <3>5
  <2>4. CASE e.op \in Junctions
    <3>1. e \in Trees /\ f \in Trees
      BY <2>2, <2>4, JunctionIs
    <3>2. SameSymbol(EliminateEq(ExprEq, e, f))
      <4>1. "not" \notin Junctions
        BY DEF Junctions
      <4> QED
        BY <2>1, <2>4, <4>1 DEF EqOf
    <3>4. PICK j \in Junctions : j = e.op /\ j = f.op
      BY <2>2, <2>4
    <3>3. Truthful(Under(d, j, d[e]), Under(d, j, d[f]), env, ExprEq)
      BY <1>3 DEF Truthful, Under, Trees
    <3> HIDE DEF V, P
    <3>5. e.op = j /\ f.op = j
      BY <3>4
    <3> QED
      BY ONLY AllTrees, IsTri(env), <3>1, <3>2, <3>3, <3>5, ChainsEqual DEF V
  <2>5. CASE e.op # "not" /\ e.op \notin Junctions
    BY <2>1, <2>5 DEF EqOf
  <2> QED
    BY <2>3, <2>4, <2>5
<1>4. \A e \in Exprs : (\A x \in Exprs : d[x] < d[e] => x \in P) => e \in P
  BY <1>3
<1>5. Exprs \subseteq P
  <2> HIDE DEF P
  <2> QED
    BY <1>2, <1>4, RankInduction
<1> QED
  BY <1>5

(* An operand about the symbol s.                                          *)
About(s, e) ==
  \/ e = Sym(s)
  \/ e = Not(Sym(s))
  \/ e.op \in {"=", "!="} /\ e = Comp(e.op, s, e.b) /\ e \in Leaves

(* An operand about a symbol is the symbol, its negation or a comparison   *)
(* of it.                                                                  *)
LEMMA SubjectIs ==
  ASSUME AllTrees, NEW e \in Trees, IsNormal(e), NEW N, Subject(e, N) # "none"
  PROVE  Subject(e, N) \in Names /\ About(Subject(e, N), e)
<1>1. CASE e.op \in {"=", "!=", "sym"}
  <2>1. Subject(e, N) = e.a
    BY <1>1 DEF Subject
  <2>2. e \in Leaves
    BY <1>1, TreesAre DEF Not, Junctions
  <2> QED
    BY <1>1, <2>1, <2>2, LeavesAre DEF About, Sym, Comp, Relations
<1>2. CASE e.op = "not" /\ e.l.op \in N
  <2>1. e.l \in Trees /\ e = Not(e.l)
    BY <1>2, NegationIs DEF Trees
  <2>2. e.l.op = "sym"
    BY <1>2, <2>1, NormalAre
  <2>3. e.l \in Leaves
    BY <2>1, <2>2, TreesAre DEF Not, Junctions
  <2>4. e.l = Sym(e.l.a) /\ e.l.a \in Names
    BY <2>2, <2>3, LeavesAre DEF Relations
  <2>5. Subject(e, N) = e.l.a
    BY <1>2 DEF Subject
  <2> QED
    BY <2>1, <2>4, <2>5 DEF About
<1>3. CASE e.op \notin {"=", "!=", "sym"} /\ ~(e.op = "not" /\ e.l.op \in N)
  BY <1>3 DEF Subject
<1> QED
  BY <1>1, <1>2, <1>3

(* g takes the place of the two operands e and f.                          *)
Replaces(j, e, f, g) ==
  /\ g \in Trees /\ IsOrdinary(g) /\ IsNormal(g)
  /\ IsPlain(e) /\ IsPlain(f) => IsPlain(g)
  /\ \A env : IsEnv(env) => CalcValue(env, g) = Combine(j, CalcValue(env, e), CalcValue(env, f))

(* An expression that the rewriting expects, without strings and negated   *)
(* tristates.                                                              *)
Fine(e) == IsOrdinary(e) /\ IsNormal(e) /\ IsPlain(e)

(* Symbols and their comparisons with y, m and n are expressions that the  *)
(* rewriting expects.                                                      *)
LEMMA WordsAre ==
  ASSUME AllTrees, NEW s \in Names, Type[s] \in Logical, NEW w \in TriWords, NEW r \in {"=", "!="}
  PROVE  /\ Comp(r, s, w) \in Trees /\ Fine(Comp(r, s, w))
         /\ Sym(s) \in Trees /\ Fine(Sym(s))
         /\ Sym(w) \in Trees /\ Fine(Sym(w))
<1>1. Comp(r, s, w) \in Leaves
  BY WordsAssumption DEF Leaves, Comp, Relations, Names
<1>2. w \in Names
  BY WordsAssumption DEF Names
<1>3. \A t \in Names : Sym(t) \in Leaves /\ FairComparison(Sym(t))
  BY DEF Leaves, Names, Sym, FairComparison
<1>4. FairComparison(Comp(r, s, w)) /\ PlainPart(Comp(r, s, w))
  BY WordsAssumption DEF FairComparison, PlainPart, Comp
<1>5. PlainPart(Sym(s)) /\ PlainPart(Sym(w))
  BY DEF PlainPart, Sym
<1> QED
  BY <1>1, <1>2, <1>3, <1>4, <1>5, OrdinaryAre, NormalAre, PlainAre, TreesAre DEF Fine

(* The values of operands about s.                                         *)
LEMMA AboutValues ==
  ASSUME AllTrees, NEW env, IsEnv(env), NEW s \in Names, Type[s] \in Logical
  PROVE  /\ SymTri(env, s) \in {0, 1, 2} /\ (Type[s] = "bool" => SymTri(env, s) # 1)
         /\ CalcValue(env, Sym(s)) = SymTri(env, s)
         /\ CalcValue(env, Not(Sym(s))) = 2 - SymTri(env, s)
         /\ \A w \in TriWords :
              /\ CalcValue(env, Comp("=", s, w)) = IF SymTri(env, s) = TriOf(w) THEN 2 ELSE 0
              /\ CalcValue(env, Comp("!=", s, w)) = IF SymTri(env, s) = TriOf(w) THEN 0 ELSE 2
<1>1. IsTri(env)
  BY EnvIsTri
<1>2. SymTri(env, s) \in {0, 1, 2}
  BY <1>1 DEF IsTri, Tri
<1>3. Type[s] = "bool" => SymTri(env, s) # 1
  BY BoolIs
<1>4. Sym(s) \in Trees
  BY TreesAre DEF Leaves, Names
<1>5. CalcValue(env, Sym(s)) = SymTri(env, s) /\ CalcValue(env, Not(Sym(s))) = 2 - CalcValue(env, Sym(s))
  BY <1>1, <1>4, ValuesAre
<1> QED
  BY <1>2, <1>3, <1>5, ComparisonIs

(* Third is the word of y, m and n that is left.                           *)
LEMMA ThirdIs ==
  ASSUME NEW v \in TriWords, NEW w \in TriWords, v # w
  PROVE  /\ Third({v, w}) \in TriWords
         /\ {TriOf(v), TriOf(w), TriOf(Third({v, w}))} = {0, 1, 2}
         /\ TriOf(v) # TriOf(w) /\ TriOf(v) # TriOf(Third({v, w})) /\ TriOf(w) # TriOf(Third({v, w}))
<1>1. \E u \in TriWords : u \notin {v, w}
  BY DEF TriWords
<1>2. Third({v, w}) \in TriWords /\ Third({v, w}) \notin {v, w}
  BY <1>1 DEF Third
<1>3. TriOf("y") = 2 /\ TriOf("m") = 1 /\ TriOf("n") = 0
  BY DEF TriOf
<1> HIDE DEF Third
<1> QED
  BY <1>2, <1>3 DEF TriWords

(* expr_join_or.                                                           *)
LEMMA JoinOrKeeps ==
  ASSUME AllTrees, NEW e \in Trees, NEW f \in Trees, NEW s \in Names, Type[s] \in Logical,
         About(s, e), About(s, f), s = Subject(e, {"=", "!=", "sym"}), JoinOr(e, f) # NoExpr
  PROVE  Replaces("or", e, f, JoinOr(e, f))
<1>1. CASE Type[s] = "tristate" /\ e.op = "=" /\ f.op = "=" /\ Distinct(e, f)
  <2> DEFINE u == Third({e.b, f.b})
  <2>1. JoinOr(e, f) = Comp("!=", s, u)
    BY <1>1 DEF JoinOr
  <2>2. e = Comp("=", s, e.b) /\ f = Comp("=", s, f.b)
    BY <1>1 DEF About, Sym, Not
  <2>3. e.b \in TriWords /\ f.b \in TriWords /\ e.b # f.b
    BY <1>1 DEF Distinct
  <2>4. u \in TriWords
    BY <2>3, ThirdIs
  <2>5. ASSUME NEW env, IsEnv(env)
        PROVE  CalcValue(env, Comp("!=", s, u)) = Combine("or", CalcValue(env, e), CalcValue(env, f))
    <3>1. PICK v \in TriWords : v = e.b
      BY <2>3
    <3>2. PICK w \in TriWords : w = f.b
      BY <2>3
    <3>3. /\ SymTri(env, s) \in {TriOf(v), TriOf(w), TriOf(u)}
          /\ TriOf(v) # TriOf(w) /\ TriOf(v) # TriOf(u) /\ TriOf(w) # TriOf(u)
      BY <2>3, <2>5, <3>1, <3>2, ThirdIs, AboutValues
    <3>4. CalcValue(env, Comp("!=", s, u)) = IF SymTri(env, s) = TriOf(u) THEN 0 ELSE 2
      BY <2>4, <2>5, AboutValues
    <3>5. CalcValue(env, e) = (IF SymTri(env, s) = TriOf(v) THEN 2 ELSE 0)
          /\ CalcValue(env, f) = IF SymTri(env, s) = TriOf(w) THEN 2 ELSE 0
      BY <2>2, <2>5, <3>1, <3>2, AboutValues
    <3> QED
      BY <3>3, <3>4, <3>5 DEF Combine, Greater
  <2> HIDE DEF u
  <2>6. Comp("!=", s, u) \in Trees /\ Fine(Comp("!=", s, u))
    BY <2>4, WordsAre
  <2> QED
    BY <2>1, <2>5, <2>6 DEF Replaces, Fine
<1>2. CASE Type[s] = "bool" /\ Not(Sym(s)) \in {e, f} /\ Sym(s) \in {e, f}
  <2>1. JoinOr(e, f) = Sym("y")
    BY <1>2 DEF JoinOr
  <2>2. Sym("y") \in Trees /\ Fine(Sym("y"))
    BY WordsAre DEF TriWords
  <2>3. ASSUME NEW env, IsEnv(env)
        PROVE  CalcValue(env, Sym("y")) = Combine("or", CalcValue(env, e), CalcValue(env, f))
    <3>1. CalcValue(env, Sym("y")) = 2
      BY <2>3, EnvIsTri, ConstantsAre
    <3>2. /\ SymTri(env, s) \in {0, 2}
          /\ CalcValue(env, Sym(s)) = SymTri(env, s)
          /\ CalcValue(env, Not(Sym(s))) = 2 - SymTri(env, s)
      BY <1>2, <2>3, AboutValues
    <3>3. \/ e = Sym(s) /\ f = Not(Sym(s))
          \/ f = Sym(s) /\ e = Not(Sym(s))
      BY <1>2 DEF Sym, Not
    <3> QED
      BY <3>1, <3>2, <3>3 DEF Combine, Greater
  <2> QED
    BY <2>1, <2>2, <2>3 DEF Replaces, Fine
<1> QED
  BY <1>1, <1>2 DEF JoinOr

(* A symbol and a comparison of it.                                        *)
LEMMA GuardedIs ==
  ASSUME AllTrees, NEW e \in Trees, NEW f \in Trees, NEW s, About(s, e), About(s, f),
         NEW r \in {"=", "!="}, NEW w, Guarded(e, f, r, w)
  PROVE  \/ e = Sym(s) /\ f = Comp(r, s, w)
         \/ f = Sym(s) /\ e = Comp(r, s, w)
BY DEF Guarded, About, Sym, Not, Comp

(* A symbol && a comparison of it.                                         *)
LEMMA GuardedKeeps ==
  ASSUME AllTrees, NEW e \in Trees, NEW f \in Trees, NEW s \in Names, Type[s] \in Logical,
         About(s, e), About(s, f),
         NEW r \in {"=", "!="}, NEW w \in TriWords, Guarded(e, f, r, w), NEW g,
         \/ r = "=" /\ w = "y" /\ g = Comp("=", s, "y")
         \/ r = "!=" /\ w = "n" /\ g = Sym(s)
         \/ r = "!=" /\ w = "m" /\ g = Comp("=", s, "y")
  PROVE  Replaces("and", e, f, g)
<1>1. g \in Trees /\ Fine(g)
  <2>1. "y" \in TriWords
    BY DEF TriWords
  <2> QED
    BY <2>1, WordsAre
<1>2. ASSUME NEW env, IsEnv(env)
      PROVE  CalcValue(env, g) = Combine("and", CalcValue(env, e), CalcValue(env, f))
  <2>1. /\ SymTri(env, s) \in {0, 1, 2}
        /\ CalcValue(env, Sym(s)) = SymTri(env, s)
        /\ \A u \in TriWords :
              /\ CalcValue(env, Comp("=", s, u)) = IF SymTri(env, s) = TriOf(u) THEN 2 ELSE 0
              /\ CalcValue(env, Comp("!=", s, u)) = IF SymTri(env, s) = TriOf(u) THEN 0 ELSE 2
    BY <1>2, AboutValues
  <2>2. TriOf("y") = 2 /\ TriOf("m") = 1 /\ TriOf("n") = 0 /\ "y" \in TriWords /\ "m" \in TriWords /\ "n" \in TriWords
    BY DEF TriOf, TriWords
  <2>3. \/ e = Sym(s) /\ f = Comp(r, s, w)
        \/ f = Sym(s) /\ e = Comp(r, s, w)
    BY GuardedIs
  <2>4. CASE r = "=" /\ w = "y" /\ g = Comp("=", s, "y")
    BY <2>1, <2>2, <2>3, <2>4 DEF Combine, Lesser
  <2>5. CASE r = "!=" /\ w = "n" /\ g = Sym(s)
    BY <2>1, <2>2, <2>3, <2>5 DEF Combine, Lesser
  <2>6. CASE r = "!=" /\ w = "m" /\ g = Comp("=", s, "y")
    BY <2>1, <2>2, <2>3, <2>6 DEF Combine, Lesser
  <2> QED
    BY <2>4, <2>5, <2>6
<1> QED
  BY <1>1, <1>2 DEF Replaces, Fine

(* A tristate is, and is not, some literals.                               *)
LEMMA OppositesKeep ==
  ASSUME AllTrees, NEW s \in Names, Type[s] = "tristate", NEW v \in Literals, NEW w \in Literals,
         NEW e \in Leaves, NEW f \in Leaves, IsOrdinary(e), IsOrdinary(f),
         \/ e = Comp("=", s, v) /\ f = Comp("!=", s, w)
         \/ f = Comp("=", s, v) /\ e = Comp("!=", s, w)
  PROVE  Replaces("and", e, f, IF v = w THEN Sym("n") ELSE Comp("=", s, v))
<1> DEFINE E == Comp("=", s, v)
           F == Comp("!=", s, w)
           g == IF v = w THEN Sym("n") ELSE E
<1>1. E \in Leaves /\ F \in Leaves /\ IsOrdinary(E) /\ IsOrdinary(F)
  OBVIOUS
<1>2. Numeral[Type[v]][v] = NaN /\ Numeral[Type[w]][w] = NaN
  <2>1. FairComparison(E) /\ FairComparison(F)
    BY <1>1, OrdinaryAre
  <2> QED
    BY <2>1 DEF FairComparison, Comp
<1>3. v \in Names /\ w \in Names
  BY WordsAssumption DEF Names
<1>4. g \in Trees /\ Fine(g)
  <2>1. Sym("n") \in Trees /\ Fine(Sym("n"))
    BY WordsAre DEF TriWords, Logical
  <2>2. E \in Trees /\ Fine(E)
    <3>1. PlainPart(E)
      BY DEF PlainPart, Comp
    <3> QED
      BY <1>1, <3>1, TreesAre, NormalAre, PlainAre DEF Fine
  <2> QED
    BY <2>1, <2>2
<1>5. ASSUME NEW env, IsEnv(env)
      PROVE  CalcValue(env, g) = Combine("and", CalcValue(env, e), CalcValue(env, f))
  <2> DEFINE p == Difference(env, s, v)
             q == Difference(env, s, w)
  <2>1. /\ p \in Int /\ q \in Int
        /\ p = 0 <=> SymString(env, s) = v
        /\ q = 0 <=> SymString(env, s) = w
    <3>1. Type[s] \in Logical
      BY DEF Logical
    <3> QED
      BY <1>2, <1>3, <1>5, <3>1, DifferencesAre
  <2>2. CalcValue(env, E) = (IF Holds("=", p) THEN 2 ELSE 0) /\ CalcValue(env, F) = IF Holds("!=", q) THEN 2 ELSE 0
    BY <1>3, <1>5, EnvIsTri, ValuesAre DEF Relations
  <2>3. Holds("=", p) <=> p = 0
    BY DEF Holds
  <2>4. Holds("!=", q) <=> q # 0
    BY DEF Holds
  <2>5. CalcValue(env, Sym("n")) = 0
    BY <1>5, EnvIsTri, ConstantsAre
  <2>6. (e = E /\ f = F) \/ (e = F /\ f = E)
    OBVIOUS
  <2> HIDE DEF p, q, E, F
  <2>7. CalcValue(env, g) = Lesser(CalcValue(env, E), CalcValue(env, F))
    <3>1. CASE v = w
      BY <2>1, <2>2, <2>3, <2>4, <2>5, <3>1 DEF Lesser
    <3>2. CASE v # w
      BY <2>1, <2>2, <2>3, <2>4, <3>2 DEF Lesser
    <3> QED
      BY <3>1, <3>2
  <2>8. Lesser(CalcValue(env, E), CalcValue(env, F)) = Lesser(CalcValue(env, F), CalcValue(env, E))
    BY <2>2 DEF Lesser
  <2> HIDE DEF g
  <2> QED
    BY <2>6, <2>7, <2>8 DEF Combine
<1> HIDE DEF E, F
<1> QED
  BY <1>4, <1>5 DEF Replaces, Fine, E, F

(* A tristate is neither of two words.                                     *)
LEMMA NeitherKeeps ==
  ASSUME AllTrees, NEW s \in Names, Type[s] \in Logical, NEW v \in TriWords, NEW w \in TriWords, v # w,
         NEW e, NEW f, e = Comp("!=", s, v), f = Comp("!=", s, w)
  PROVE  Replaces("and", e, f, Comp("=", s, Third({v, w})))
<1> DEFINE u == Third({v, w})
           g == Comp("=", s, u)
<1>1. u \in TriWords
  BY ThirdIs
<1>2. g \in Trees /\ Fine(g)
  <2> HIDE DEF u
  <2> QED
    BY <1>1, WordsAre
<1>3. ASSUME NEW env, IsEnv(env)
      PROVE  CalcValue(env, g) = Combine("and", CalcValue(env, e), CalcValue(env, f))
  <2>1. /\ SymTri(env, s) \in {TriOf(v), TriOf(w), TriOf(u)}
        /\ TriOf(v) # TriOf(w) /\ TriOf(v) # TriOf(u) /\ TriOf(w) # TriOf(u)
    BY <1>3, ThirdIs, AboutValues
  <2>2. /\ CalcValue(env, g) = IF SymTri(env, s) = TriOf(u) THEN 2 ELSE 0
        /\ CalcValue(env, e) = IF SymTri(env, s) = TriOf(v) THEN 0 ELSE 2
        /\ CalcValue(env, f) = IF SymTri(env, s) = TriOf(w) THEN 0 ELSE 2
    <3> HIDE DEF u
    <3> QED
      BY <1>1, <1>3, AboutValues
  <2> HIDE DEF u, g
  <2> QED
    BY <2>1, <2>2 DEF Combine, Lesser
<1> HIDE DEF u
<1> QED
  BY <1>2, <1>3 DEF Replaces, Fine, u

(* expr_join_and.                                                          *)
LEMMA JoinAndKeeps ==
  ASSUME AllTrees, NEW e \in Trees, NEW f \in Trees, NEW s \in Names, Type[s] \in Logical,
         About(s, e), About(s, f), s = Subject(e, {"=", "!=", "sym"}),
         IsOrdinary(e), IsOrdinary(f), JoinAnd(e, f) # NoExpr
  PROVE  Replaces("and", e, f, JoinAnd(e, f))
<1> DEFINE g == JoinAnd(e, f)
           A == Guarded(e, f, "=", "y")
           B == Guarded(e, f, "!=", "n")
           C == Guarded(e, f, "!=", "m")
           D == Type[s] = "tristate" /\ {e.op, f.op} = {"=", "!="} /\ {e.b, f.b} \subseteq Literals
           E == Type[s] = "tristate" /\ e.op = "!=" /\ f.op = "!=" /\ Distinct(e, f)
<1>1. CASE A
  <2>1. ~B /\ ~C /\ ~D /\ ~E
    BY <1>1 DEF Guarded
  <2>2. g = Comp("=", s, "y")
    BY <1>1, <2>1 DEF JoinAnd
  <2> HIDE DEF g
  <2> QED
    BY <1>1, <2>2, GuardedKeeps DEF TriWords, g
<1>2. CASE B
  <2>1. ~A /\ ~C /\ ~D /\ ~E
    BY <1>2 DEF Guarded
  <2>2. g = Sym(s)
    BY <1>2, <2>1 DEF JoinAnd
  <2> HIDE DEF g
  <2> QED
    BY <1>2, <2>2, GuardedKeeps DEF TriWords, g
<1>3. CASE C
  <2>1. ~A /\ ~B /\ ~D /\ ~E
    BY <1>3 DEF Guarded
  <2>2. g = Comp("=", s, "y")
    BY <1>3, <2>1 DEF JoinAnd
  <2> HIDE DEF g
  <2> QED
    BY <1>3, <2>2, GuardedKeeps DEF TriWords, g
<1>4. CASE D
  <2>1. ~A /\ ~B /\ ~C /\ ~E
    BY <1>4 DEF Guarded
  <2>2. g = IF e.b = f.b THEN Sym("n") ELSE Comp("=", s, IF e.op = "=" THEN e.b ELSE f.b)
    BY <1>4, <2>1 DEF JoinAnd
  <2>3. e.b \in Literals /\ f.b \in Literals
    BY <1>4
  <2>4. \/ e.op = "=" /\ f.op = "!=" /\ e = Comp("=", s, e.b) /\ f = Comp("!=", s, f.b)
        \/ f.op = "=" /\ e.op = "!=" /\ f = Comp("=", s, f.b) /\ e = Comp("!=", s, e.b)
    <3>1. (e.op = "=" /\ f.op = "!=") \/ (f.op = "=" /\ e.op = "!=")
      BY <1>4
    <3> QED
      BY <3>1 DEF About, Sym, Not
  <2>5. e \in Leaves /\ f \in Leaves
    BY <2>4 DEF About, Sym, Not
  <2> HIDE DEF g
  <2>6. CASE e.op = "="
    <3>1. g = IF e.b = f.b THEN Sym("n") ELSE Comp("=", s, e.b)
      BY <2>2, <2>6
    <3>2. e = Comp("=", s, e.b) /\ f = Comp("!=", s, f.b)
      BY <2>4, <2>6
    <3>3. PICK v \in Literals : v = e.b
      BY <2>3
    <3>4. PICK w \in Literals : w = f.b
      BY <2>3
    <3>5. Replaces("and", e, f, IF v = w THEN Sym("n") ELSE Comp("=", s, v))
      BY <1>4, <2>5, <3>2, <3>3, <3>4, OppositesKeep
    <3> QED
      BY <3>1, <3>3, <3>4, <3>5 DEF g
  <2>7. CASE e.op # "="
    <3>1. g = IF f.b = e.b THEN Sym("n") ELSE Comp("=", s, f.b)
      BY <2>2, <2>7
    <3>2. f = Comp("=", s, f.b) /\ e = Comp("!=", s, e.b)
      BY <2>4, <2>7
    <3>3. PICK v \in Literals : v = f.b
      BY <2>3
    <3>4. PICK w \in Literals : w = e.b
      BY <2>3
    <3>5. Replaces("and", e, f, IF v = w THEN Sym("n") ELSE Comp("=", s, v))
      BY <1>4, <2>5, <3>2, <3>3, <3>4, OppositesKeep
    <3> QED
      BY <3>1, <3>3, <3>4, <3>5 DEF g
  <2> QED
    BY <2>6, <2>7
<1>5. CASE E
  <2>1. ~A /\ ~B /\ ~C /\ ~D
    BY <1>5 DEF Guarded
  <2>2. g = Comp("=", s, Third({e.b, f.b}))
    BY <1>5, <2>1 DEF JoinAnd
  <2>3. e.b \in TriWords /\ f.b \in TriWords /\ e.b # f.b
    BY <1>5 DEF Distinct
  <2>4. e = Comp("!=", s, e.b) /\ f = Comp("!=", s, f.b)
    BY <1>5 DEF About, Sym, Not
  <2>5. PICK v \in TriWords : v = e.b
    BY <2>3
  <2>6. PICK w \in TriWords : w = f.b
    BY <2>3
  <2> HIDE DEF g
  <2>7. Replaces("and", e, f, Comp("=", s, Third({v, w})))
    BY <2>3, <2>4, <2>5, <2>6, NeitherKeeps
  <2> QED
    BY <2>2, <2>5, <2>6, <2>7 DEF g
<1>6. A \/ B \/ C \/ D \/ E
  BY DEF JoinAnd
<1> QED
  BY <1>1, <1>2, <1>3, <1>4, <1>5, <1>6

(* One operand for two.                                                    *)
LEMMA JoinKeeps ==
  ASSUME AllTrees, NEW j \in Junctions, NEW e \in Trees, NEW f \in Trees,
         IsOrdinary(e), IsOrdinary(f), IsNormal(e), IsNormal(f), Join(j, e, f) # NoExpr
  PROVE  Replaces(j, e, f, Join(j, e, f))
<1>1. CASE ExprEq[<<e, f>>]
  <2>1. Join(j, e, f) = e
    BY <1>1 DEF Join
  <2>2. ASSUME NEW env, IsEnv(env)
        PROVE  CalcValue(env, e) = Combine(j, CalcValue(env, e), CalcValue(env, f))
    <3>1. IsTri(env)
      BY <2>2, EnvIsTri
    <3>2. CalcValue(env, e) = CalcValue(env, f)
      BY <1>1, <3>1, ExprEqSound DEF Trees
    <3>3. CalcValue(env, e) \in Tri
      BY <3>1, ValueIs DEF Trees
    <3> QED
      BY <3>2, <3>3, CombineIs
  <2> QED
    BY <2>1, <2>2 DEF Replaces
<1>2. CASE ~ExprEq[<<e, f>>]
  <2> DEFINE s == Subject(e, {"=", "!=", "sym"})
  <2>1. SameSubject(e, f)
    BY <1>2 DEF Join
  <2>2. s # "none" /\ s = Subject(f, {"sym"}) /\ Type[s] \in Logical
    BY <2>1 DEF SameSubject
  <2>3. s \in Names /\ About(s, e)
    BY <2>2, SubjectIs
  <2>4. About(s, f)
    <3>1. Subject(f, {"sym"}) # "none"
      BY <2>2
    <3>2. About(Subject(f, {"sym"}), f)
      BY <3>1, SubjectIs
    <3> QED
      BY <2>2, <3>2
  <2>5. PICK t \in Names : t = s
    BY <2>3
  <2> HIDE DEF s
  <2>6. Type[t] \in Logical /\ About(t, e) /\ About(t, f) /\ t = Subject(e, {"=", "!=", "sym"})
    BY <2>2, <2>3, <2>4, <2>5 DEF s
  <2>7. CASE j = "or"
    <3>1. Join(j, e, f) = JoinOr(e, f)
      BY <1>2, <2>1, <2>7 DEF Join
    <3>2. Replaces("or", e, f, JoinOr(e, f))
      BY <2>6, <3>1, JoinOrKeeps
    <3> QED
      BY <2>7, <3>1, <3>2
  <2>8. CASE j = "and"
    <3>1. Join(j, e, f) = JoinAnd(e, f)
      BY <1>2, <2>1, <2>8 DEF Join
    <3>2. Replaces("and", e, f, JoinAnd(e, f))
      BY <2>6, <3>1, JoinAndKeeps
    <3> QED
      BY <2>8, <3>1, <3>2
  <2> QED
    BY <2>7, <2>8 DEF Junctions
<1> QED
  BY <1>1, <1>2

(* The symbol that the second operand is about has a type.                 *)
LEMMA SubjectIsName ==
  ASSUME AllTrees, NEW f \in Trees, Subject(f, {"sym"}) # "none"
  PROVE  Subject(f, {"sym"}) \in Names
<1>1. CASE f.op \in {"=", "!=", "sym"}
  <2>1. f \in Leaves
    BY <1>1, TreesAre DEF Not, Junctions
  <2> QED
    BY <1>1, <2>1, LeavesAre DEF Subject
<1>2. CASE f.op = "not" /\ f.l.op \in {"sym"}
  <2>1. f.l \in Trees
    BY <1>2, NegationIs DEF Trees
  <2>2. f.l \in Leaves
    BY <1>2, <2>1, TreesAre DEF Not, Junctions
  <2>3. f.l.a \in Names
    BY <2>2, LeavesAre
  <2>4. Subject(f, {"sym"}) = f.l.a
    BY <1>2 DEF Subject
  <2> QED
    BY <2>3, <2>4
<1>3. CASE f.op \notin {"=", "!=", "sym"} /\ ~(f.op = "not" /\ f.l.op \in {"sym"})
  BY <1>3 DEF Subject
<1> QED
  BY <1>1, <1>2, <1>3

(* What takes the place of two operands is one of them or a leaf.          *)
LEMMA JoinIsLow ==
  ASSUME AllTrees, NEW j \in Junctions, NEW e \in Trees, NEW f \in Trees
  PROVE  Join(j, e, f) \in {NoExpr, e} \cup Leaves
<1> DEFINE s == Subject(e, {"=", "!=", "sym"})
           A == Guarded(e, f, "=", "y")
           B == Guarded(e, f, "!=", "n")
           C == Guarded(e, f, "!=", "m")
           D == Type[s] = "tristate" /\ {e.op, f.op} = {"=", "!="} /\ {e.b, f.b} \subseteq Literals
           E == Type[s] = "tristate" /\ e.op = "!=" /\ f.op = "!=" /\ Distinct(e, f)
<1> SUFFICES ASSUME ~ExprEq[<<e, f>>], SameSubject(e, f)
             PROVE  JoinOr(e, f) \in {NoExpr} \cup Leaves /\ JoinAnd(e, f) \in {NoExpr} \cup Leaves
  BY DEF Join
<1>1. s \in Names
  BY SubjectIsName DEF SameSubject
<1>2. /\ \A w \in Names : Comp("=", s, w) \in Leaves /\ Comp("!=", s, w) \in Leaves
      /\ Sym(s) \in Leaves
  BY <1>1 DEF Leaves, Comp, Sym, Names, Relations
<1>3. Literals \subseteq Names /\ TriWords \subseteq Names /\ "y" \in Names /\ "n" \in Names
  BY WordsAssumption DEF Names, TriWords
<1>4. Sym("y") \in Leaves /\ Sym("n") \in Leaves
  BY <1>3 DEF Leaves, Names
<1>5. Distinct(e, f) => Third({e.b, f.b}) \in Names
  <2>1. ASSUME Distinct(e, f) PROVE Third({e.b, f.b}) \in Names
    <3>1. PICK v \in TriWords : v = e.b
      BY <2>1 DEF Distinct
    <3>2. PICK w \in TriWords : w = f.b
      BY <2>1 DEF Distinct
    <3>3. v # w
      BY <2>1, <3>1, <3>2 DEF Distinct
    <3>4. Third({v, w}) \in TriWords
      BY <3>3, ThirdIs
    <3> QED
      BY <1>3, <3>1, <3>2, <3>4
  <2> QED
    BY <2>1
<1>6. JoinOr(e, f) \in {NoExpr} \cup Leaves
  <2> DEFINE F == Type[s] = "tristate" /\ e.op = "=" /\ f.op = "=" /\ Distinct(e, f)
             G == Type[s] = "bool" /\ Not(Sym(s)) \in {e, f} /\ Sym(s) \in {e, f}
  <2>1. CASE F
    <3>1. JoinOr(e, f) = Comp("!=", s, Third({e.b, f.b}))
      BY <2>1 DEF JoinOr
    <3> QED
      BY <1>2, <1>5, <2>1, <3>1
  <2>2. CASE G
    <3>1. JoinOr(e, f) = Sym("y")
      BY <2>2 DEF JoinOr
    <3> QED
      BY <1>4, <3>1
  <2>3. CASE ~F /\ ~G
    BY <2>3 DEF JoinOr
  <2> QED
    BY <2>1, <2>2, <2>3
<1>7. CASE A
  <2>1. ~B /\ ~C /\ ~D /\ ~E
    BY <1>7 DEF Guarded
  <2>2. JoinAnd(e, f) = Comp("=", s, "y")
    BY <1>7, <2>1 DEF JoinAnd
  <2> QED
    BY <1>2, <1>3, <1>6, <2>2
<1>8. CASE B
  <2>1. ~A /\ ~C /\ ~D /\ ~E
    BY <1>8 DEF Guarded
  <2>2. JoinAnd(e, f) = Sym(s)
    BY <1>8, <2>1 DEF JoinAnd
  <2> QED
    BY <1>2, <1>6, <2>2
<1>9. CASE C
  <2>1. ~A /\ ~B /\ ~D /\ ~E
    BY <1>9 DEF Guarded
  <2>2. JoinAnd(e, f) = Comp("=", s, "y")
    BY <1>9, <2>1 DEF JoinAnd
  <2> QED
    BY <1>2, <1>3, <1>6, <2>2
<1>10. CASE D
  <2>1. ~A /\ ~B /\ ~C /\ ~E
    BY <1>10 DEF Guarded
  <2>2. JoinAnd(e, f) = IF e.b = f.b THEN Sym("n") ELSE Comp("=", s, IF e.op = "=" THEN e.b ELSE f.b)
    BY <1>10, <2>1 DEF JoinAnd
  <2>3. e.b \in Names /\ f.b \in Names
    BY <1>3, <1>10
  <2> HIDE DEF s
  <2> QED
    BY <1>2, <1>4, <1>6, <2>2, <2>3
<1>11. CASE E
  <2>1. ~A /\ ~B /\ ~C /\ ~D
    BY <1>11 DEF Guarded
  <2>2. JoinAnd(e, f) = Comp("=", s, Third({e.b, f.b}))
    BY <1>11, <2>1 DEF JoinAnd
  <2> QED
    BY <1>2, <1>5, <1>6, <1>11, <2>2
<1>12. CASE ~A /\ ~B /\ ~C /\ ~D /\ ~E
  BY <1>6, <1>12 DEF JoinAnd
<1> QED
  BY <1>7, <1>8, <1>9, <1>10, <1>11, <1>12

-----------------------------------------------------------------------------
(* Why expr_eliminate_dups ends.                                           *)

(* How many operands an expression has, those of its parts included.       *)
Widths ==
  {w \in [Exprs -> Nat] :
     /\ \A e \in Exprs : w[e] >= 1
     /\ \A e \in Exprs : e.op \notin Junctions => w[e] = 1
     /\ \A j \in Junctions : \A e, f \in Trees : w[Two(j, e, f)] = w[e] + w[f]}
Width == CHOOSE w \in Widths : TRUE

(* There is such a width.                                                  *)
LEMMA WidthIs == ASSUME AllTrees PROVE Width \in Widths
<1> DEFINE U == Nat \ {0}
           Body(f, x) == IF x.op \in Junctions THEN f[x.l] + f[x.r] ELSE 1
           Is(f) == f = [x \in Exprs |-> Body(f, x)]
           D == [f \in [Exprs -> U] |-> [x \in Exprs |-> Body(f, x)]]
<1>0. ASSUME NEW x \in Exprs, x.op \in Junctions
      PROVE  x.l \in Exprs /\ x.r \in Exprs /\ x.l \in Below(x) /\ x.r \in Below(x)
  BY <1>0, JunctionIs DEF Trees
<1>1. ASSUME NEW x \in Exprs, NEW f, NEW g, \A y \in Below(x) : f[y] = g[y]
      PROVE  Body(f, x) = Body(g, x)
  BY <1>0, <1>1
<1>2. ASSUME NEW x \in Exprs, NEW f \in [Exprs -> U] PROVE Body(f, x) \in U
  <2>1. CASE x.op \in Junctions
    <3>1. f[x.l] \in U /\ f[x.r] \in U
      BY <1>0, <2>1
    <3> QED
      BY <2>1, <3>1
  <2> QED
    BY <2>1
<1>3. PICK w \in [Exprs -> U] : Is(w)
  <2> HIDE DEF Body
  <2>1. D \in [[Exprs -> U] -> [Exprs -> U]]
    BY <1>2
  <2>2. \A f, g \in [Exprs -> U] : \A x \in Exprs :
           (\A y \in Below(x) : f[y] = g[y]) => D[f][x] = D[g][x]
    BY <1>1
  <2>3. U # {}
    <3>1. 1 \in U
      OBVIOUS
    <3> QED
      BY <3>1
  <2> HIDE DEF D, U
  <2>4. \E f \in [Exprs -> U] : D[f] = f
    BY <2>1, <2>2, <2>3, TreeRecursion
  <2> QED
    BY <2>4 DEF D
<1>4. \A x \in Exprs : w[x] = Body(w, x)
  BY <1>3
<1>5. w \in [Exprs -> Nat] /\ \A e \in Exprs : w[e] >= 1
  BY <1>3
<1>6. \A e \in Exprs : e.op \notin Junctions => w[e] = 1
  BY <1>4
<1>7. \A j \in Junctions : \A e, f \in Trees : w[Two(j, e, f)] = w[e] + w[f]
  <2> TAKE j \in Junctions
  <2> TAKE e, f \in Trees
  <2>1. Two(j, e, f) \in Exprs /\ Two(j, e, f).op = j /\ Two(j, e, f).l = e /\ Two(j, e, f).r = f
    BY TreesAre DEF Trees, Two
  <2> QED
    BY <1>4, <2>1
<1>8. w \in Widths
  BY <1>5, <1>6, <1>7 DEF Widths
<1> QED
  BY <1>8 DEF Width

(* expr_eliminate_yn makes the expression smaller.                         *)
Shrinks(x) == Width[EliminateYN[x]] < Width[x]
Falls(j, x) == x = Sym(Neutral(j)) \/ Shrinks(x)

(* expr_eliminate_yn makes no expression wider, and a junction narrower    *)
(* when it makes a side narrower or a side is neutral.                     *)
LEMMA EliminateYNShrinks ==
  ASSUME AllTrees
  PROVE  /\ \A x \in Trees : Width[EliminateYN[x]] =< Width[x]
         /\ \A j \in Junctions : \A x, y \in Trees :
              Falls(j, x) \/ Falls(j, y) => Shrinks(Two(j, x, y))
<1> DEFINE w == Width
           E == EliminateYN
           P == {x \in Exprs : x \in Trees => w[E[x]] =< w[x]}
<1>0. w \in Widths
  BY WidthIs
<1>00. \A x \in Trees : E[x] \in Trees /\ w[x] \in Nat /\ w[x] >= 1
  BY <1>0, EliminateYNIs DEF Widths, Trees
<1>000. /\ \A e \in Exprs : e.op \notin Junctions => w[e] = 1
        /\ \A j \in Junctions : \A e, f \in Trees : w[Two(j, e, f)] = w[e] + w[f]
  BY <1>0 DEF Widths
<1> HIDE DEF w, E
<1>1. ASSUME NEW j \in Junctions, NEW x \in Trees, NEW y \in Trees, w[E[x]] =< w[x], w[E[y]] =< w[y]
      PROVE  /\ w[E[Two(j, x, y)]] =< w[Two(j, x, y)]
             /\ w[E[x]] < w[x] \/ w[E[y]] < w[y] \/ E[x] = Sym(Neutral(j)) \/ E[y] = Sym(Neutral(j))
                => w[E[Two(j, x, y)]] < w[Two(j, x, y)]
  <2> DEFINE f == E[x]
             g == E[y]
             r == Reduced(j, f, g)
             a == Sym(Absorbing(j))
             n == Sym(Neutral(j))
  <2>1. f \in Trees /\ g \in Trees /\ w[f] \in Nat /\ w[g] \in Nat /\ w[f] >= 1 /\ w[g] >= 1
        /\ w[x] \in Nat /\ w[y] \in Nat
    BY <1>00
  <2>2. w[Two(j, x, y)] = w[x] + w[y] /\ w[Two(j, f, g)] = w[f] + w[g]
    BY <1>000, <2>1
  <2>3. E[Two(j, x, y)] = r
    <3>1. Two(j, x, y) \in Exprs /\ Two(j, x, y).op = j /\ Two(j, x, y).l = x /\ Two(j, x, y).r = y
      BY TreesAre DEF Trees, Two
    <3> QED
      BY <3>1, EliminateYNIs DEF E
  <2>4. \/ r \in {f, g}
        \/ r = Two(j, f, g) /\ f # n /\ g # n
    <3>1. a # n
      BY DEF Absorbing, Neutral, Sym
    <3>2. r = CASE a \in {f, g} -> a
                [] f = n /\ g # a -> g
                [] g = n /\ f \notin {a, n} -> f
                [] {f, g} \cap {a, n} = {} -> Two(j, f, g)
      BY DEF Reduced
    <3> HIDE DEF a, n, f, g, r
    <3> QED
      BY <3>1, <3>2
  <2>5. CASE r \in {f, g}
    <3>1. w[r] = w[f] \/ w[r] = w[g]
      BY <2>5
    <3> HIDE DEF f, g, r
    <3> QED
      BY <1>1, <2>1, <2>2, <2>3, <3>1 DEF f, g
  <2>6. CASE r = Two(j, f, g) /\ f # n /\ g # n
    <3>1. w[r] = w[f] + w[g]
      BY <2>2, <2>6
    <3> HIDE DEF r
    <3> QED
      BY <1>1, <2>1, <2>2, <2>3, <2>6, <3>1
  <2> QED
    BY <2>4, <2>5, <2>6
<1>2. ASSUME NEW x \in Exprs, Below(x) \subseteq P PROVE x \in P
  <2> SUFFICES ASSUME x \in Trees PROVE w[E[x]] =< w[x]
    OBVIOUS
  <2>1. CASE x.op \notin Junctions
    <3>1. E[x] = x
      BY <2>1, EliminateYNIs DEF E
    <3> QED
      BY <1>00, <3>1
  <2>2. CASE x.op \in Junctions
    <3>1. PICK j \in Junctions : j = x.op
      BY <2>2
    <3>2. x.l \in Trees /\ x.r \in Trees /\ x.l \in Below(x) /\ x.r \in Below(x) /\ x = Two(j, x.l, x.r)
      BY <3>1, JunctionIs
    <3>3. w[E[x.l]] =< w[x.l] /\ w[E[x.r]] =< w[x.r]
      BY <1>2, <3>2
    <3>4. w[E[Two(j, x.l, x.r)]] =< w[Two(j, x.l, x.r)]
      BY <1>1, <3>2, <3>3
    <3> QED
      BY <3>2, <3>4
  <2> QED
    BY <2>1, <2>2
<1>3. Exprs \subseteq P
  <2> HIDE DEF P
  <2> QED
    BY <1>2, TreeInduction
<1>4. \A x \in Trees : w[E[x]] =< w[x]
  BY <1>3 DEF Trees
<1>5. ASSUME NEW j \in Junctions PROVE E[Sym(Neutral(j))] = Sym(Neutral(j))
  <2>1. Sym(Neutral(j)) \in Exprs /\ Sym(Neutral(j)).op \notin Junctions
    BY NeutralIs DEF Trees, Sym, Junctions
  <2> QED
    BY <2>1, EliminateYNIs DEF E
<1>6. ASSUME NEW j \in Junctions, NEW x \in Trees, NEW y \in Trees, Falls(j, x) \/ Falls(j, y)
      PROVE  Shrinks(Two(j, x, y))
  <2>1. w[E[x]] < w[x] \/ w[E[y]] < w[y] \/ E[x] = Sym(Neutral(j)) \/ E[y] = Sym(Neutral(j))
    BY <1>5, <1>6 DEF Falls, Shrinks, w, E
  <2>2. w[E[Two(j, x, y)]] < w[Two(j, x, y)]
    BY <1>1, <1>4, <2>1
  <2> QED
    BY <2>2 DEF Shrinks, w, E
<1> QED
  BY <1>4, <1>6 DEF w, E

(* A chain with its own operands is itself.                                *)
LEMMA OwnOperands ==
  ASSUME AllTrees, NEW j \in Junctions, NEW e \in Trees
  PROVE  WithOperands(j, e, Operands(j, e)) = e
<1> DEFINE ops == Operands(j, e)
           Has(p) == \A i \in 1 .. Len(Operands(j, p[1])) : ops[p[2] + i] = Operands(j, p[1])[i]
           P == {p \in Places(j, ops) : Has(p) => Put(j, ops)[p] = p[1]}
<1>0. ops \in Seq(Trees) /\ Len(ops) \in Nat
  BY OperandsTrees
<1>00. ops = Operands(j, e)
  OBVIOUS
<1> HIDE DEF ops
<1>1. \A p \in Places(j, ops) : p[1].op # j => p \in P
  <2> TAKE p \in Places(j, ops)
  <2> HAVE p[1].op # j
  <2>1. p[1] \in Exprs /\ p[2] \in Nat /\ Operands(j, p[1]) = <<p[1]>>
    BY <1>0, PlacesAre, OperandsAre
  <2>2. Put(j, ops)[p] = ops[p[2] + 1]
    BY <1>0, PutIs DEF PutOf
  <2>3. Has(p) => ops[p[2] + 1] = p[1]
    <3>1. Len(Operands(j, p[1])) = 1 /\ Operands(j, p[1])[1] = p[1]
      BY <2>1
    <3> QED
      BY <3>1
  <2> QED
    BY <2>2, <2>3
<1>2. ASSUME NEW p \in Places(j, ops), p[1].op = j, <<p[1].l, p[2]>> \in P,
             <<p[1].r, p[2] + Len(Operands(j, p[1].l))>> \in P
      PROVE  p \in P
  <2> SUFFICES ASSUME Has(p) PROVE Put(j, ops)[p] = p[1]
    OBVIOUS
  <2> DEFINE a == Operands(j, p[1].l)
             b == Operands(j, p[1].r)
             m == p[2]
  <2>1. /\ p[1] \in Exprs /\ m \in Nat /\ p[1] = Two(j, p[1].l, p[1].r)
        /\ p[1].l \in Trees /\ p[1].r \in Trees
    BY <1>0, <1>2, PlacesAre, JunctionIs
  <2>2. Operands(j, p[1]) = a \o b
    BY <1>2, <2>1, OperandsAre
  <2>3. a \in Seq(Trees) /\ b \in Seq(Trees) /\ Len(a) \in Nat /\ Len(b) \in Nat
    BY <2>1, OperandsTrees
  <2>4. \A i \in 1 .. Len(a \o b) : ops[m + i] = (a \o b)[i]
    BY <2>2
  <2> HIDE DEF a, b, m
  <2>5. \A i \in 1 .. Len(a) : ops[m + i] = a[i]
    BY <2>3, <2>4
  <2>6. ASSUME NEW i \in 1 .. Len(b) PROVE ops[(m + Len(a)) + i] = b[i]
    <3>1. Len(a) + i \in 1 .. Len(a \o b) /\ (a \o b)[Len(a) + i] = b[i] /\ m + (Len(a) + i) = (m + Len(a)) + i
      BY <2>1, <2>3
    <3> QED
      BY <2>4, <3>1
  <2>7. Has(<<p[1].l, m>>) /\ Has(<<p[1].r, m + Len(a)>>)
    BY <2>5, <2>6 DEF a, b
  <2>8. Put(j, ops)[<<p[1].l, m>>] = p[1].l /\ Put(j, ops)[<<p[1].r, m + Len(a)>>] = p[1].r
    BY <1>2, <2>7 DEF a, m
  <2>9. Put(j, ops)[p] = PutOf(j, ops, Put(j, ops), p)
    BY <1>0, PutIs
  <2> QED
    BY <1>2, <2>1, <2>8, <2>9 DEF PutOf, a, m
<1>3. Places(j, ops) \subseteq P
  <2> HIDE DEF P
  <2> QED
    BY <1>0, <1>1, <1>2, PlaceInduction
<1>4. <<e, 0>> \in Places(j, ops)
  BY <1>0 DEF Places, Trees, ops
<1>5. Has(<<e, 0>>)
  <2>1. \A i \in 1 .. Len(ops) : ops[0 + i] = ops[i]
    OBVIOUS
  <2> QED
    BY <1>00, <2>1
<1>6. Put(j, ops)[<<e, 0>>] = e
  BY <1>3, <1>4, <1>5
<1> QED
  BY <1>6, WithOperandsIsPut DEF ops

(* A chain in which an operand will go, or becomes smaller, becomes        *)
(* smaller.                                                                *)
LEMMA ChainShrinks ==
  ASSUME AllTrees, NEW j \in Junctions, NEW e \in Trees, e.op = j,
         NEW ops \in Seq(Trees), Len(ops) = Len(Operands(j, e)),
         NEW i \in 1 .. Len(ops), Falls(j, ops[i])
  PROVE  Shrinks(WithOperands(j, e, ops))
<1> DEFINE put == Put(j, ops)
           Has(p) == i \in p[2] + 1 .. p[2] + Len(Operands(j, p[1]))
           P == {p \in Places(j, ops) : Has(p) => IF p[1].op = j THEN Shrinks(put[p]) ELSE Falls(j, put[p])}
<1>1. \A p \in Places(j, ops) : p[1].op # j => p \in P
  <2> TAKE p \in Places(j, ops)
  <2> HAVE p[1].op # j
  <2>1. p[2] \in Nat /\ Len(Operands(j, p[1])) = 1
    BY PlacesAre
  <2>2. put[p] = ops[p[2] + 1]
    BY PutIs DEF PutOf
  <2>3. Has(p) => p[2] + 1 = i
    BY <2>1
  <2> QED
    BY <2>2, <2>3
<1>2. ASSUME NEW p \in Places(j, ops), p[1].op = j, <<p[1].l, p[2]>> \in P,
             <<p[1].r, p[2] + Len(Operands(j, p[1].l))>> \in P
      PROVE  p \in P
  <2> SUFFICES ASSUME Has(p) PROVE Shrinks(put[p])
    BY <1>2
  <2> DEFINE k == p[2] + Len(Operands(j, p[1].l))
             q == <<p[1].l, p[2]>>
             r == <<p[1].r, k>>
             a == put[q]
             b == put[r]
  <2>1. put[p] = Two(j, a, b)
    BY <1>2, PutIs DEF PutOf
  <2>2. a \in Trees /\ b \in Trees
    BY <1>2, PutIs
  <2>3. Has(q) \/ Has(r)
    <3>1. /\ p[2] \in Nat /\ Len(Operands(j, p[1].l)) \in Nat /\ Len(Operands(j, p[1].r)) \in Nat
          /\ Len(Operands(j, p[1])) = Len(Operands(j, p[1].l)) + Len(Operands(j, p[1].r))
      BY <1>2, PlacesAre
    <3> QED
      BY <3>1
  <2>4. Falls(j, a) \/ Falls(j, b)
    <3> HIDE DEF Has, put
    <3> QED
      BY <1>2, <2>3 DEF Falls
  <2> HIDE DEF a, b
  <2> QED
    BY <2>1, <2>2, <2>4, EliminateYNShrinks
<1>3. Places(j, ops) \subseteq P
  <2> HIDE DEF P
  <2> QED
    BY <1>1, <1>2, PlaceInduction
<1>4. <<e, 0>> \in Places(j, ops) /\ Has(<<e, 0>>)
  <2>1. Len(Operands(j, e)) \in Nat
    BY OperandsTrees
  <2> QED
    BY <2>1 DEF Places, Trees
<1>5. Shrinks(put[<<e, 0>>])
  BY <1>3, <1>4
<1> QED
  BY <1>5, WithOperandsIsPut

(* Another operand changes the width by the difference of their widths.    *)
LEMMA WidthOfPut ==
  ASSUME AllTrees, NEW j \in Junctions, NEW e \in Trees,
         NEW ops \in Seq(Trees), Len(ops) = Len(Operands(j, e)), NEW i \in 1 .. Len(ops), NEW z \in Trees
  PROVE  Width[WithOperands(j, e, [ops EXCEPT ![i] = z])] + Width[ops[i]]
           = Width[WithOperands(j, e, ops)] + Width[z]
<1> DEFINE new == [ops EXCEPT ![i] = z]
           w == Width
           put == Put(j, ops)
           put2 == Put(j, new)
           Has(p) == i \in p[2] + 1 .. p[2] + Len(Operands(j, p[1]))
           Even(p) == IF Has(p) THEN w[put2[p]] + w[ops[i]] = w[put[p]] + w[z] ELSE put2[p] = put[p]
           P == {p \in Places(j, ops) : Even(p)}
<1>0. new \in Seq(Trees) /\ Len(new) = Len(ops) /\ \A k \in 1 .. Len(ops) : new[k] = IF k = i THEN z ELSE ops[k]
  OBVIOUS
<1>00. w \in Widths
  BY WidthIs
<1>01. \A x \in Trees : w[x] \in Nat
  BY <1>00 DEF Widths, Trees
<1>02. \A x, y \in Trees : w[Two(j, x, y)] = w[x] + w[y]
  BY <1>00 DEF Widths
<1>03. Places(j, new) = Places(j, ops)
  BY <1>0 DEF Places
<1>04. \A p \in Places(j, ops) : /\ put[p] \in Trees /\ put[p] = PutOf(j, ops, put, p)
                                 /\ put2[p] \in Trees /\ put2[p] = PutOf(j, new, put2, p)
  BY <1>0, <1>03, PutIs
<1> HIDE DEF new, w, put, put2
<1>1. \A p \in Places(j, ops) : p[1].op # j => p \in P
  <2> TAKE p \in Places(j, ops)
  <2> HAVE p[1].op # j
  <2>1. p[2] \in Nat /\ Len(Operands(j, p[1])) = 1 /\ p[2] + 1 \in 1 .. Len(ops)
    BY PlacesAre
  <2>2. put[p] = ops[p[2] + 1] /\ put2[p] = new[p[2] + 1]
    BY <1>04 DEF PutOf
  <2>3. Has(p) <=> p[2] + 1 = i
    BY <2>1
  <2>4. w[ops[i]] \in Nat /\ w[z] \in Nat
    BY <1>01
  <2> HIDE DEF Has
  <2>5. CASE Has(p)
    <3>1. put[p] = ops[i] /\ put2[p] = z
      BY <1>0, <2>2, <2>3, <2>5
    <3> QED
      BY <2>4, <2>5, <3>1
  <2>6. CASE ~Has(p)
    BY <1>0, <2>1, <2>2, <2>3, <2>6
  <2> QED
    BY <2>5, <2>6
<1>2. ASSUME NEW p \in Places(j, ops), p[1].op = j, <<p[1].l, p[2]>> \in P,
             <<p[1].r, p[2] + Len(Operands(j, p[1].l))>> \in P
      PROVE  p \in P
  <2> DEFINE k == p[2] + Len(Operands(j, p[1].l))
             q == <<p[1].l, p[2]>>
             r == <<p[1].r, k>>
  <2>0. Even(q) /\ Even(r)
    BY <1>2
  <2>1. put[p] = Two(j, put[q], put[r]) /\ put2[p] = Two(j, put2[q], put2[r])
    BY <1>2, <1>04 DEF PutOf
  <2>2. put[q] \in Trees /\ put[r] \in Trees /\ put2[q] \in Trees /\ put2[r] \in Trees
    BY <1>2, <1>04
  <2>3. w[put[p]] = w[put[q]] + w[put[r]] /\ w[put2[p]] = w[put2[q]] + w[put2[r]]
    BY <1>02, <2>1, <2>2
  <2>4. w[put[q]] \in Nat /\ w[put[r]] \in Nat /\ w[put2[q]] \in Nat /\ w[put2[r]] \in Nat
        /\ w[ops[i]] \in Nat /\ w[z] \in Nat
    BY <1>01, <2>2
  <2>5. (Has(p) <=> Has(q) \/ Has(r)) /\ ~(Has(q) /\ Has(r))
    <3>1. /\ p[2] \in Nat /\ Len(Operands(j, p[1].l)) \in Nat /\ Len(Operands(j, p[1].r)) \in Nat
          /\ Len(Operands(j, p[1])) = Len(Operands(j, p[1].l)) + Len(Operands(j, p[1].r))
      BY <1>2, PlacesAre
    <3> QED
      BY <3>1
  <2> HIDE DEF Has, q, r
  <2>6. CASE Has(q)
    <3>1. Has(p) /\ ~Has(r)
      BY <2>5, <2>6
    <3>2. w[put2[q]] + w[ops[i]] = w[put[q]] + w[z] /\ put2[r] = put[r]
      BY <2>0, <2>6, <3>1
    <3>3. w[put2[p]] + w[ops[i]] = w[put[p]] + w[z]
      <4> DEFINE a1 == w[put[q]]
                 a2 == w[put2[q]]
                 b1 == w[put[r]]
                 b2 == w[put2[r]]
                 c1 == w[ops[i]]
                 c2 == w[z]
      <4>1. /\ a1 \in Nat /\ a2 \in Nat /\ b1 \in Nat /\ b2 \in Nat /\ c1 \in Nat /\ c2 \in Nat
            /\ b2 = b1 /\ a2 + c1 = a1 + c2
        BY <2>4, <3>2
      <4>2. w[put2[p]] = a2 + b2 /\ w[put[p]] = a1 + b1
        BY <2>3
      <4>3. w[put2[p]] + c1 = w[put[p]] + c2
        <5> HIDE DEF a1, a2, b1, b2, c1, c2
        <5> QED
          BY <4>1, <4>2
      <4> QED
        BY <4>3
    <3> QED
      BY <3>1, <3>3
  <2>7. CASE Has(r)
    <3>1. Has(p) /\ ~Has(q)
      BY <2>5, <2>7
    <3>2. w[put2[r]] + w[ops[i]] = w[put[r]] + w[z] /\ put2[q] = put[q]
      BY <2>0, <2>7, <3>1
    <3>3. w[put2[p]] + w[ops[i]] = w[put[p]] + w[z]
      <4> DEFINE a1 == w[put[r]]
                 a2 == w[put2[r]]
                 b1 == w[put[q]]
                 b2 == w[put2[q]]
                 c1 == w[ops[i]]
                 c2 == w[z]
      <4>1. /\ a1 \in Nat /\ a2 \in Nat /\ b1 \in Nat /\ b2 \in Nat /\ c1 \in Nat /\ c2 \in Nat
            /\ b2 = b1 /\ a2 + c1 = a1 + c2
        BY <2>4, <3>2
      <4>2. w[put2[p]] = b2 + a2 /\ w[put[p]] = b1 + a1
        BY <2>3
      <4>3. w[put2[p]] + c1 = w[put[p]] + c2
        <5> HIDE DEF a1, a2, b1, b2, c1, c2
        <5> QED
          BY <4>1, <4>2
      <4> QED
        BY <4>3
    <3> QED
      BY <3>1, <3>3
  <2>8. CASE ~Has(q) /\ ~Has(r)
    <3>1. ~Has(p) /\ put2[q] = put[q] /\ put2[r] = put[r]
      BY <2>0, <2>5, <2>8
    <3> QED
      BY <2>1, <3>1
  <2> QED
    BY <2>6, <2>7, <2>8
<1>3. Places(j, ops) \subseteq P
  <2> HIDE DEF P
  <2> QED
    BY <1>1, <1>2, PlaceInduction
<1>4. <<e, 0>> \in Places(j, ops) /\ Has(<<e, 0>>)
  <2>1. Len(Operands(j, e)) \in Nat
    BY OperandsTrees
  <2> QED
    BY <2>1 DEF Places, Trees
<1>5. w[put2[<<e, 0>>]] + w[ops[i]] = w[put[<<e, 0>>]] + w[z]
  BY <1>3, <1>4
<1> QED
  BY <1>5, WithOperandsIsPut DEF new, w, put, put2

-----------------------------------------------------------------------------
(* expr_eliminate_dups1.                                                   *)
Good(e) == IsOrdinary(e) /\ IsNormal(e)
Keeps(e, f) ==
  Good(e) => /\ Good(f)
             /\ IsPlain(e) => IsPlain(f)
             /\ \A env : IsEnv(env) => CalcValue(env, f) = CalcValue(env, e)

(* When something was joined, expr_eliminate_yn will make it smaller.      *)
Narrows(e, r) ==
  /\ Width[r.expr] =< Width[e]
  /\ r.count = 0 => r.expr = e
  /\ r.count > 0 => Width[EliminateYN[r.expr]] < Width[e]
Shorter(d, e) ==
  {r \in [expr : Trees, count : Nat] :
     r.expr.op = e.op /\ d[r.expr] =< d[e] /\ Keeps(e, r.expr) /\ Narrows(e, r)}

(* The operands of e during the walk.                                      *)
OperandsKeep(j, e, ops) ==
  Good(e) => /\ \A i \in 1 .. Len(ops) : Good(ops[i])
             /\ IsPlain(e) => \A i \in 1 .. Len(ops) : IsPlain(ops[i])
             /\ \A env : IsEnv(env) => IsExtreme(j, env, ops, 0, Len(ops), CalcValue(env, e))
WidthWith(j, e, ops) == Width[WithOperands(j, e, ops)]
OperandsFall(j, e, st) ==
  /\ WidthWith(j, e, st.ops) =< Width[e]
  /\ st.count = 0 => st.ops = Operands(j, e)
  /\ st.count > 0 => \/ WidthWith(j, e, st.ops) < Width[e]
                     \/ \E i \in 1 .. Len(st.ops) : Falls(j, st.ops[i])
States(d, j, e, m) ==
  {st \in [ops : Chains(Under(d, j, d[e]), m), count : Nat] :
     OperandsKeep(j, e, st.ops) /\ OperandsFall(j, e, st)}

(* dups is right for the operands.                                         *)
Right(d, j, h, dups) == \A x \in Under(d, j, h) : Inner(dups, x) \in Shorter(d, x)

(* An operand takes the place of one of the same value.                    *)
LEMMA PutsKeep ==
  ASSUME AllTrees, NEW d \in Depths, NEW j \in Junctions, NEW e \in Trees, NEW m \in Nat,
         NEW ops \in Chains(Under(d, j, d[e]), m), NEW p \in 1 .. m, OperandsKeep(j, e, ops),
         NEW z \in Under(d, j, d[e]), Keeps(ops[p], z)
  PROVE  /\ [ops EXCEPT ![p] = z] \in Chains(Under(d, j, d[e]), m)
         /\ OperandsKeep(j, e, [ops EXCEPT ![p] = z])
<1> DEFINE new == [ops EXCEPT ![p] = z]
<1>1. ops \in Seq(Trees) /\ Len(ops) = m /\ z \in Trees
  BY DEF Chains, Under
<1>2. new \in Chains(Under(d, j, d[e]), m)
  BY <1>1, ChainsPut
<1>3. Len(new) = m /\ \A i \in 1 .. m : new[i] = IF i = p THEN z ELSE ops[i]
  BY <1>1
<1>4. ASSUME Good(e) PROVE \A i \in 1 .. Len(new) : Good(new[i])
  <2> HIDE DEF new
  <2>1. \A i \in 1 .. m : Good(ops[i])
    BY <1>1, <1>4 DEF OperandsKeep
  <2>2. Good(z)
    BY <2>1 DEF Keeps
  <2> QED
    BY <1>3, <2>1, <2>2
<1>7. ASSUME Good(e), IsPlain(e) PROVE \A i \in 1 .. Len(new) : IsPlain(new[i])
  <2> HIDE DEF new
  <2>1. \A i \in 1 .. m : Good(ops[i]) /\ IsPlain(ops[i])
    BY <1>1, <1>7 DEF OperandsKeep
  <2>2. IsPlain(z)
    BY <2>1 DEF Keeps
  <2> QED
    BY <1>3, <2>1, <2>2
<1>5. ASSUME Good(e), NEW env, IsEnv(env) PROVE IsExtreme(j, env, new, 0, Len(new), CalcValue(env, e))
  <2> DEFINE v == CalcValue(env, e)
  <2>1. IsExtreme(j, env, ops, 0, Len(ops), v)
    BY <1>5 DEF OperandsKeep
  <2>2. CalcValue(env, z) = CalcValue(env, ops[p])
    BY <1>1, <1>5 DEF Keeps, OperandsKeep
  <2> HIDE DEF v
  <2>3. IsExtreme(j, env, [ops EXCEPT ![p] = z], 0, Len(ops), v)
    BY <1>1, <2>1, <2>2, Replaced
  <2> QED
    BY <1>1, <1>3, <2>3 DEF v
<1> HIDE DEF new
<1>6. OperandsKeep(j, e, new)
  BY <1>4, <1>5, <1>7 DEF OperandsKeep
<1> QED
  BY <1>2, <1>6 DEF new

(* One operand takes the place of two.                                     *)
LEMMA JoinedKeep ==
  ASSUME AllTrees, NEW d \in Depths, NEW j \in Junctions, NEW e \in Trees, NEW m \in Nat,
         NEW ops \in Chains(Under(d, j, d[e]), m), NEW p \in 1 .. m, NEW q \in 1 .. m, p # q,
         OperandsKeep(j, e, ops),
         Sym(Neutral(j)) \in Under(d, j, d[e]),
         NEW z \in Under(d, j, d[e]), Good(ops[p]) /\ Good(ops[q]) => Replaces(j, ops[p], ops[q], z)
  PROVE  /\ [ops EXCEPT ![p] = Sym(Neutral(j)), ![q] = z] \in Chains(Under(d, j, d[e]), m)
         /\ OperandsKeep(j, e, [ops EXCEPT ![p] = Sym(Neutral(j)), ![q] = z])
<1> DEFINE new == [ops EXCEPT ![p] = Sym(Neutral(j)), ![q] = z]
           neutral == Sym(Neutral(j))
<1>1. ops \in Seq(Trees) /\ Len(ops) = m /\ z \in Trees /\ neutral \in Trees
  BY DEF Chains, Under
<1>2. new \in Chains(Under(d, j, d[e]), m)
  <2>1. [ops EXCEPT ![p] = neutral] \in Chains(Under(d, j, d[e]), m)
    BY <1>1, ChainsPut
  <2> DEFINE a == [ops EXCEPT ![p] = neutral]
  <2>2. new = [a EXCEPT ![q] = z]
    BY <1>1
  <2> HIDE DEF a, new
  <2>3. [a EXCEPT ![q] = z] \in Chains(Under(d, j, d[e]), m)
    BY <1>1, <2>1, ChainsPut DEF a
  <2> QED
    BY <2>2, <2>3
<1>3. Len(new) = m /\ \A i \in 1 .. m : new[i] = IF i = q THEN z ELSE IF i = p THEN neutral ELSE ops[i]
  BY <1>1
<1>4. ASSUME Good(e) PROVE Good(ops[p]) /\ Good(ops[q]) /\ Replaces(j, ops[p], ops[q], z)
  BY <1>1, <1>4 DEF OperandsKeep
<1>5. ASSUME Good(e) PROVE \A i \in 1 .. Len(new) : Good(new[i])
  <2> HIDE DEF new, neutral
  <2>1. \A i \in 1 .. m : Good(ops[i])
    BY <1>1, <1>5 DEF OperandsKeep
  <2>2. Good(z) /\ Good(neutral)
    BY <1>4, <1>5, NeutralIs DEF Replaces, Good, neutral
  <2> QED
    BY <1>3, <2>1, <2>2
<1>8. ASSUME Good(e), IsPlain(e) PROVE \A i \in 1 .. Len(new) : IsPlain(new[i])
  <2> HIDE DEF new, neutral
  <2>1. \A i \in 1 .. m : IsPlain(ops[i])
    BY <1>1, <1>8 DEF OperandsKeep
  <2>2. IsPlain(z) /\ IsPlain(neutral)
    BY <1>4, <1>8, <2>1, NeutralIs DEF Replaces, neutral
  <2> QED
    BY <1>3, <2>1, <2>2
<1>6. ASSUME Good(e), NEW env, IsEnv(env) PROVE IsExtreme(j, env, new, 0, Len(new), CalcValue(env, e))
  <2> DEFINE v == CalcValue(env, e)
  <2>1. IsExtreme(j, env, ops, 0, Len(ops), v)
    BY <1>6 DEF OperandsKeep
  <2>2. CalcValue(env, z) = Combine(j, CalcValue(env, ops[p]), CalcValue(env, ops[q]))
    BY <1>4, <1>6 DEF Replaces
  <2>3. IsTri(env) /\ v \in Tri
    BY <1>6, EnvIsTri, ValueIs DEF Trees
  <2>4. p \in 1 .. Len(ops) /\ q \in 1 .. Len(ops)
    BY <1>1
  <2> HIDE DEF v
  <2>5. IsExtreme(j, env, [ops EXCEPT ![p] = Sym(Neutral(j)), ![q] = z], 0, Len(ops), v)
    BY <1>1, <2>1, <2>2, <2>3, <2>4, Joined
  <2> QED
    BY <1>1, <1>3, <2>5 DEF v
<1> HIDE DEF new
<1>7. OperandsKeep(j, e, new)
  BY <1>5, <1>6, <1>8 DEF OperandsKeep
<1> QED
  BY <1>2, <1>7 DEF new

(* An operand that was shortened.                                          *)
LEMMA PutsFall ==
  ASSUME AllTrees, NEW j \in Junctions, NEW e \in Trees, NEW ops \in Seq(Trees),
         Len(ops) = Len(Operands(j, e)), NEW c \in Nat, OperandsFall(j, e, [ops |-> ops, count |-> c]),
         NEW p \in 1 .. Len(ops), NEW r, r.expr \in Trees, r.count \in Nat, Narrows(ops[p], r)
  PROVE  OperandsFall(j, e, [ops |-> [ops EXCEPT ![p] = r.expr], count |-> c + r.count])
<1> DEFINE new == [ops EXCEPT ![p] = r.expr]
           w1 == WidthWith(j, e, ops)
           w2 == WidthWith(j, e, new)
           a == Width[ops[p]]
           b == Width[r.expr]
           h == Width[e]
<1>1. new \in Seq(Trees) /\ Len(new) = Len(ops) /\ new[p] = r.expr
  OBVIOUS
<1>2. w2 + a = w1 + b
  BY WidthOfPut DEF WidthWith
<1>3. w1 \in Nat /\ w2 \in Nat /\ a \in Nat /\ b \in Nat /\ h \in Nat
  <2>1. Upward(j, Trees)
    BY TreesAre DEF Upward
  <2>2. WithOperands(j, e, ops) \in Trees
    BY <2>1, WithOperandsIn
  <2>3. WithOperands(j, e, new) \in Trees
    <3> HIDE DEF new
    <3>1. \A i \in 1 .. Len(new) : new[i] \in Trees
      BY <1>1
    <3> QED
      BY <1>1, <2>1, <3>1, WithOperandsIn
  <2>4. \A x \in Trees : Width[x] \in Nat
    BY WidthIs DEF Widths, Trees
  <2> QED
    BY <2>2, <2>3, <2>4 DEF WidthWith
<1>4. /\ w1 =< h
      /\ c = 0 => ops = Operands(j, e)
      /\ c > 0 => w1 < h \/ \E i \in 1 .. Len(ops) : Falls(j, ops[i])
  BY DEF OperandsFall
<1>5. /\ b =< a
      /\ r.count = 0 => r.expr = ops[p]
      /\ r.count > 0 => Width[EliminateYN[r.expr]] < a
  BY DEF Narrows
<1> HIDE DEF w1, w2, a, b, h
<1>6. w2 =< h
  BY <1>2, <1>3, <1>4, <1>5
<1>7. CASE r.count = 0
  <2>1. new = ops
    BY <1>5, <1>7
  <2>2. c + r.count = c
    BY <1>7
  <2> QED
    BY <2>1, <2>2
<1>8. CASE r.count > 0
  <2>1. c + r.count > 0
    BY <1>8
  <2>2. CASE b < a
    <3>1. w2 < h
      BY <1>2, <1>3, <1>4, <2>2
    <3> QED
      BY <1>6, <2>1, <3>1 DEF OperandsFall, w2, h
  <2>3. CASE b = a
    <3>1. Falls(j, new[p]) /\ p \in 1 .. Len(new)
      BY <1>1, <1>5, <1>8, <2>3 DEF Falls, Shrinks, b
    <3>2. OperandsFall(j, e, [ops |-> new, count |-> c + r.count])
      <4> HIDE DEF new
      <4> QED
        BY <1>6, <2>1, <3>1 DEF OperandsFall, w2, h
    <3> QED
      BY <3>2
  <2> QED
    BY <1>3, <1>5, <2>2, <2>3
<1> QED
  BY <1>7, <1>8

(* Two operands that were joined.                                          *)
LEMMA JoinedFall ==
  ASSUME AllTrees, NEW j \in Junctions, NEW e \in Trees, NEW ops \in Seq(Trees),
         Len(ops) = Len(Operands(j, e)), NEW c \in Nat, OperandsFall(j, e, [ops |-> ops, count |-> c]),
         NEW p \in 1 .. Len(ops), NEW q \in 1 .. Len(ops), p # q,
         NEW z \in Trees, z = ops[p] \/ z \in Leaves
  PROVE  OperandsFall(j, e, [ops |-> [ops EXCEPT ![p] = Sym(Neutral(j)), ![q] = z], count |-> c + 1])
<1> DEFINE n == Sym(Neutral(j))
           mid == [ops EXCEPT ![p] = n]
           new == [ops EXCEPT ![p] = n, ![q] = z]
           w1 == WidthWith(j, e, ops)
           w2 == WidthWith(j, e, mid)
           w3 == WidthWith(j, e, new)
           a == Width[ops[p]]
           b == Width[ops[q]]
           k == Width[n]
           l == Width[z]
           h == Width[e]
<1>0. n \in Trees /\ n \in Leaves
  BY NeutralIs
<1> HIDE DEF n
<1>1. mid \in Seq(Trees) /\ Len(mid) = Len(ops) /\ mid[q] = ops[q]
  BY <1>0
<1>2. new = [mid EXCEPT ![q] = z] /\ new \in Seq(Trees) /\ Len(new) = Len(ops) /\ new[p] = n
  BY <1>0
<1>3. w2 + a = w1 + k
  BY <1>0, WidthOfPut DEF WidthWith
<1>4. w3 + b = w2 + l
  <2> HIDE DEF mid, new
  <2>1. mid \in Seq(Trees) /\ Len(mid) = Len(Operands(j, e)) /\ q \in 1 .. Len(mid)
    BY <1>1
  <2>2. Width[WithOperands(j, e, [mid EXCEPT ![q] = z])] + Width[mid[q]]
        = Width[WithOperands(j, e, mid)] + Width[z]
    <3> HIDE DEF w1, w2, w3, a, b, k, l, h
    <3> QED
      BY <2>1, WidthOfPut
  <2> QED
    BY <1>1, <1>2, <2>2 DEF WidthWith
<1>5. w1 \in Nat /\ w2 \in Nat /\ w3 \in Nat /\ h \in Nat
  <2> HIDE DEF mid, new
  <2>1. Upward(j, Trees)
    BY TreesAre DEF Upward
  <2>2. WithOperands(j, e, ops) \in Trees
    BY <2>1, WithOperandsIn
  <2>3. WithOperands(j, e, mid) \in Trees
    <3>1. \A i \in 1 .. Len(mid) : mid[i] \in Trees
      BY <1>1
    <3> QED
      BY <1>1, <2>1, <3>1, WithOperandsIn
  <2>4. WithOperands(j, e, new) \in Trees
    <3>1. \A i \in 1 .. Len(new) : new[i] \in Trees
      BY <1>2
    <3> QED
      BY <1>2, <2>1, <3>1, WithOperandsIn
  <2>5. \A x \in Trees : Width[x] \in Nat
    BY WidthIs DEF Widths, Trees
  <2> QED
    BY <2>2, <2>3, <2>4, <2>5 DEF WidthWith
<1>6. a \in Nat /\ b \in Nat /\ l \in Nat /\ a >= 1 /\ b >= 1 /\ k = 1 /\ (l = a \/ l = 1)
  <2>1. \A x \in Trees : Width[x] \in Nat /\ Width[x] >= 1
    BY WidthIs DEF Widths, Trees
  <2>2. \A x \in Leaves : Width[x] = 1
    <3>1. \A x \in Leaves : x \in Exprs /\ x.op \notin Junctions
      BY TreesAre DEF Trees, Leaves, Sym, Relations, Junctions
    <3> QED
      BY <3>1, WidthIs DEF Widths
  <2>3. ops[p] \in Trees /\ ops[q] \in Trees
    OBVIOUS
  <2> QED
    BY <1>0, <2>1, <2>2, <2>3
<1>7. w1 =< h
  BY DEF OperandsFall
<1> HIDE DEF w1, w2, w3, a, b, k, l, h, mid, new
<1>8. w3 =< h
  BY <1>3, <1>4, <1>5, <1>6, <1>7
<1>9. Falls(j, new[p]) /\ p \in 1 .. Len(new)
  BY <1>2 DEF Falls, n
<1>10. c + 1 > 0 /\ c + 1 # 0
  OBVIOUS
<1>11. OperandsFall(j, e, [ops |-> new, count |-> c + 1])
  BY <1>8, <1>9, <1>10 DEF OperandsFall, w3, h
<1> QED
  BY <1>11 DEF new, n

(* One meeting of two operands.                                            *)
LEMMA VisitIs ==
  ASSUME AllTrees, NEW d \in Depths, NEW j \in Junctions, NEW e \in Trees, e.op = j,
         NEW m \in Nat, m = Len(Operands(j, e)),
         NEW dups, Right(d, j, d[e], dups), NEW st \in States(d, j, e, m),
         NEW p, p[1] \in 1 .. m, p[2] \in 1 .. m
  PROVE  Visit(dups, j, st, p) \in States(d, j, e, m)
<1> DEFINE S == Under(d, j, d[e])
           ops == st.ops
           a == p[1]
           b == p[2]
           x == ops[a]
           y == ops[b]
           r == Inner(dups, x)
           J == Join(j, r.expr, y)
<1>1. ops \in Chains(S, m) /\ st.count \in Nat /\ OperandsKeep(j, e, ops)
  BY DEF States
<1>9. /\ OperandsFall(j, e, [ops |-> ops, count |-> st.count])
      /\ ops \in Seq(Trees) /\ Len(ops) = m
  <2>1. st = [ops |-> ops, count |-> st.count] /\ OperandsFall(j, e, st)
    BY DEF States
  <2> QED
    BY <1>1, <2>1 DEF Chains
<1>2. a \in 1 .. m /\ b \in 1 .. m
  OBVIOUS
<1>3. x \in S /\ y \in S
  BY <1>1, <1>2 DEF Chains
<1>4. r \in Shorter(d, x)
  BY <1>3 DEF Right
<1>5. r.expr \in S /\ r.count \in Nat /\ Keeps(x, r.expr) /\ Narrows(x, r)
  <2>1. /\ r.expr \in Trees /\ r.expr.op = x.op /\ d[r.expr] =< d[x] /\ r.count \in Nat
        /\ Keeps(x, r.expr) /\ Narrows(x, r)
    BY <1>4 DEF Shorter
  <2>2. x \in Trees /\ x.op # j /\ d[x] < d[e]
    BY <1>3 DEF Under
  <2>3. d[r.expr] \in Nat /\ d[x] \in Nat /\ d[e] \in Nat
    BY <2>1, <2>2 DEF Depths, Trees
  <2> QED
    BY <2>1, <2>2, <2>3 DEF Under
<1>10. OperandsFall(j, e, [ops |-> [ops EXCEPT ![a] = r.expr], count |-> st.count + r.count])
  <2>1. r.expr \in Trees
    BY <1>5 DEF Under
  <2> HIDE DEF ops, a, r
  <2> QED
    BY <1>1, <1>2, <1>5, <1>9, <2>1, PutsFall DEF a
<1>6. CASE a = b
  BY <1>6 DEF Visit
<1>7. CASE a # b /\ J = NoExpr
  <2> DEFINE new == [ops EXCEPT ![a] = r.expr]
  <2>1. Visit(dups, j, st, p) = [ops |-> new, count |-> st.count + r.count]
    BY <1>7 DEF Visit, Meet, PutJoined
  <2> HIDE DEF ops, a, r, S
  <2>2. new \in Chains(S, m) /\ OperandsKeep(j, e, new)
    BY <1>1, <1>2, <1>5, PutsKeep DEF S
  <2> HIDE DEF new
  <2>3. st.count + r.count \in Nat
    BY <1>1, <1>5
  <2>4. OperandsFall(j, e, [ops |-> new, count |-> st.count + r.count])
    BY <1>10 DEF new
  <2> QED
    BY <2>1, <2>2, <2>3, <2>4 DEF States, S
<1>8. CASE a # b /\ J # NoExpr
  <2> DEFINE new == [ops EXCEPT ![a] = Sym(Neutral(j)), ![b] = J]
             mid == [ops EXCEPT ![a] = r.expr]
  <2>1. Visit(dups, j, st, p) = [ops |-> new, count |-> st.count + r.count + 1]
    BY <1>8 DEF Visit, Meet, PutJoined
  <2>2. mid \in Chains(S, m) /\ OperandsKeep(j, e, mid)
    <3> HIDE DEF ops, a, r, S
    <3> QED
      BY <1>1, <1>2, <1>5, PutsKeep DEF S
  <2>3. ops \in Seq(Trees) /\ Len(ops) = m
    BY <1>1 DEF Chains
  <2>4. mid[a] = r.expr /\ mid[b] = y
    <3> HIDE DEF ops, r
    <3> QED
      BY <1>2, <1>8, <2>3
  <2>5. new = [mid EXCEPT ![a] = Sym(Neutral(j)), ![b] = J]
    <3> HIDE DEF ops, r, J
    <3> QED
      BY <1>2, <1>8, <2>3
  <2>6. r.expr \in Trees /\ y \in Trees
    BY <1>3, <1>5 DEF Under
  <2>7. J \in S
    <3>1. J = r.expr \/ J \in Leaves
      <4> HIDE DEF r, y
      <4> QED
        BY <1>8, <2>6, JoinIsLow
    <3>2. ASSUME J \in Leaves PROVE J \in S
      <4>1. J \in Trees /\ d[J] = 0 /\ J.op # j
        <5> HIDE DEF J
        <5>1. J.op \notin Junctions
          BY <3>2, LeavesAre DEF Relations, Junctions
        <5> QED
          BY <3>2, <5>1, TreesAre DEF Depths
      <4>2. d[e] \in Nat /\ d[e] >= 1
        BY OperandsUnder
      <4> QED
        BY <4>1, <4>2 DEF Under
    <3> QED
      BY <1>5, <3>1, <3>2
  <2>8. Good(r.expr) /\ Good(y) => Replaces(j, r.expr, y, J)
    <3> HIDE DEF r, y
    <3> QED
      BY <1>8, <2>6, JoinKeeps DEF Good
  <2>9. Sym(Neutral(j)) \in S
    BY OperandsUnder
  <2>10. Good(mid[a]) /\ Good(mid[b]) => Replaces(j, mid[a], mid[b], J)
    BY <2>4, <2>8
  <2> HIDE DEF mid, J, S, a, b
  <2>11. [mid EXCEPT ![a] = Sym(Neutral(j)), ![b] = J] \in Chains(S, m)
         /\ OperandsKeep(j, e, [mid EXCEPT ![a] = Sym(Neutral(j)), ![b] = J])
    BY <1>2, <1>8, <2>2, <2>7, <2>9, <2>10, JoinedKeep DEF S
  <2> HIDE DEF new
  <2>12. st.count + r.count + 1 \in Nat
    <3> HIDE DEF r
    <3> QED
      BY <1>1, <1>5
  <2>13. new \in Chains(S, m) /\ OperandsKeep(j, e, new)
    BY <2>5, <2>11
  <2>14. OperandsFall(j, e, [ops |-> new, count |-> st.count + r.count + 1])
    <3>1. J = mid[a] \/ J \in Leaves
      <4> HIDE DEF r, y
      <4> QED
        BY <1>8, <2>4, <2>6, JoinIsLow DEF J
    <3>2. OperandsFall(j, e, [ops |-> mid, count |-> st.count + r.count])
      BY <1>10 DEF mid, a
    <3>3. mid \in Seq(Trees) /\ Len(mid) = m
      BY <2>2 DEF Chains
    <3>4. J \in Trees
      BY <2>7 DEF S, Under
    <3> DEFINE c == st.count + r.count
    <3>5. c \in Nat
      <4> HIDE DEF r
      <4> QED
        BY <1>1, <1>5
    <3> HIDE DEF c
    <3>6. OperandsFall(j, e, [ops |-> [mid EXCEPT ![a] = Sym(Neutral(j)), ![b] = J], count |-> c + 1])
      BY <1>2, <1>8, <3>1, <3>2, <3>3, <3>4, <3>5, JoinedFall DEF c
    <3> QED
      BY <2>5, <3>6 DEF c
  <2> HIDE DEF r, ops
  <2> QED
    BY <2>1, <2>12, <2>13, <2>14 DEF States, S
<1> QED
  BY <1>6, <1>7, <1>8

Start(ops) == [ops |-> ops, count |-> 0]
VisitedTo(dups, j, ops, pairs, P, f) ==
  /\ f \in [0 .. Len(pairs) -> P] /\ f[0] = Start(ops)
  /\ \A k \in 1 .. Len(pairs) : f[k] = Visit(dups, j, f[k - 1], pairs[k])
  /\ VisitPairs(dups, j, ops, pairs) = f[Len(pairs)]

(* The walk of expr_eliminate_dups1, when every meeting stays in P.        *)
LEMMA VisitPairsIs ==
  ASSUME NEW dups, NEW j, NEW ops, NEW pairs, Len(pairs) \in Nat, NEW P, Start(ops) \in P,
         \A s \in P : \A k \in 1 .. Len(pairs) : Visit(dups, j, s, pairs[k]) \in P
  PROVE  \E f : VisitedTo(dups, j, ops, pairs, P, f)
<1> DEFINE n == Len(pairs)
           Is(f) == f = [k \in 0 .. n |-> IF k = 0 THEN Start(ops) ELSE Visit(dups, j, f[k - 1], pairs[k])]
           T == CHOOSE f : Is(f)
           step == [x \in (1 .. n) \X P |-> Visit(dups, j, x[2], pairs[x[1]])]
<1>1. step \in [(1 .. n) \X P -> P]
  OBVIOUS
<1>2. PICK f \in [0 .. n -> P] : Is(f)
  <2>0. n \in Nat
    OBVIOUS
  <2>1. PICK f \in WalksOf(n, P, Start(ops), step) : TRUE
    <3> HIDE DEF step, n
    <3> QED
      BY <1>1, <2>0, WalkExists
  <2>10. f \in [0 .. n -> P] /\ \A k \in 0 .. n : f[k] = IF k = 0 THEN Start(ops) ELSE step[<<k, f[k - 1]>>]
    <3> HIDE DEF step, n
    <3> QED
      BY <2>1 DEF WalksOf
  <2>2. ASSUME NEW k \in 0 .. n PROVE f[k] = IF k = 0 THEN Start(ops) ELSE Visit(dups, j, f[k - 1], pairs[k])
    <3>1. CASE k # 0
      <4>1. k \in 1 .. n /\ k - 1 \in 0 .. n
        BY <3>1
      <4>2. f[k - 1] \in P
        BY <2>10, <4>1
      <4>3. step[<<k, f[k - 1]>>] = Visit(dups, j, f[k - 1], pairs[k])
        BY <4>1, <4>2
      <4>4. f[k] = step[<<k, f[k - 1]>>]
        <5> HIDE DEF step
        <5> QED
          BY <2>10, <3>1
      <4> QED
        BY <3>1, <4>3, <4>4
    <3>2. CASE k = 0
      <4> HIDE DEF step
      <4> QED
        BY <2>10, <3>2
    <3> QED
      BY <3>1, <3>2
  <2>3. f = [k \in 0 .. n |-> f[k]]
    BY <2>10
  <2> HIDE DEF n
  <2>4. Is(f)
    BY <2>2, <2>3
  <2> QED
    BY <2>4, <2>10
<1>3. Is(T)
  <2> HIDE DEF Is
  <2> QED
    BY <1>2
<1>4. VisitPairs(dups, j, ops, pairs) = T[n]
  BY DEF VisitPairs, Start
<1> HIDE DEF T
<1>5. T[0] = Start(ops) /\ \A k \in 1 .. n : k - 1 \in 0 .. n /\ T[k] = Visit(dups, j, T[k - 1], pairs[k])
  <2>1. 0 \in 0 .. n /\ \A k \in 1 .. n : k \in 0 .. n /\ k - 1 \in 0 .. n /\ k # 0
    OBVIOUS
  <2>2. \A k \in 0 .. n : T[k] = IF k = 0 THEN Start(ops) ELSE Visit(dups, j, T[k - 1], pairs[k])
    BY <1>3
  <2> HIDE DEF n, Is
  <2> QED
    BY <2>1, <2>2
<1> DEFINE Q == {k \in 0 .. n : T[k] \in P}
<1>6. 0 .. n \subseteq Q
  <2>1. 0 \in Q
    BY <1>5
  <2>2. ASSUME NEW k \in 0 .. n - 1, k \in Q PROVE k + 1 \in Q
    <3>1. k + 1 \in 1 .. n /\ (k + 1) - 1 = k /\ T[k] \in P
      BY <2>2
    <3>2. T[k + 1] = Visit(dups, j, T[k], pairs[k + 1])
      BY <1>5, <3>1
    <3> QED
      BY <3>1, <3>2
  <2> HIDE DEF Q
  <2> QED
    BY <2>1, <2>2, InductionUpTo
<1>7. T \in [0 .. n -> P]
  BY <1>3, <1>6
<1>8. VisitedTo(dups, j, ops, pairs, P, T)
  BY <1>4, <1>5, <1>7 DEF VisitedTo
<1> QED
  BY <1>8

(* Walking with two functions that agree where they are asked.             *)
LEMMA VisitPairsSame ==
  ASSUME NEW dups, NEW dups2, NEW j, NEW ops, NEW pairs, Len(pairs) \in Nat, NEW P, Start(ops) \in P,
         \A s \in P : \A k \in 1 .. Len(pairs) :
           /\ Visit(dups, j, s, pairs[k]) \in P
           /\ Visit(dups2, j, s, pairs[k]) = Visit(dups, j, s, pairs[k])
  PROVE  VisitPairs(dups2, j, ops, pairs) = VisitPairs(dups, j, ops, pairs) /\ VisitPairs(dups, j, ops, pairs) \in P
<1> DEFINE n == Len(pairs)
<1>1. PICK f : VisitedTo(dups, j, ops, pairs, P, f)
  BY VisitPairsIs
<1>2. PICK g : VisitedTo(dups2, j, ops, pairs, P, g)
  BY VisitPairsIs
<1> DEFINE Q == {k \in 0 .. n : f[k] = g[k]}
<1>3. 0 .. n \subseteq Q
  <2>1. 0 \in Q
    BY <1>1, <1>2 DEF VisitedTo
  <2>2. ASSUME NEW k \in 0 .. n - 1, k \in Q PROVE k + 1 \in Q
    <3>1. k + 1 \in 1 .. n /\ (k + 1) - 1 = k /\ k \in 0 .. n /\ f[k] = g[k]
      BY <2>2
    <3>2. f[k + 1] = Visit(dups, j, f[k], pairs[k + 1]) /\ g[k + 1] = Visit(dups2, j, g[k], pairs[k + 1])
      BY <1>1, <1>2, <3>1 DEF VisitedTo
    <3>3. f[k] \in P
      BY <1>1, <3>1 DEF VisitedTo
    <3> QED
      BY <3>1, <3>2, <3>3
  <2> HIDE DEF Q
  <2> QED
    BY <2>1, <2>2, InductionUpTo
<1>4. n \in Q
  BY <1>3
<1> QED
  BY <1>1, <1>2, <1>4 DEF VisitedTo

Alike(d, j, h, dups, dups2) == \A x \in Under(d, j, h) : Inner(dups, x) = Inner(dups2, x)

(* A meeting asks for the duplicates of the first operand only.            *)
LEMMA VisitSame ==
  ASSUME NEW d, NEW j, NEW e, NEW m, NEW dups, NEW dups2, Alike(d, j, d[e], dups, dups2),
         NEW st \in States(d, j, e, m), NEW p, p[1] \in 1 .. m
  PROVE  Visit(dups, j, st, p) = Visit(dups2, j, st, p)
<1>1. st.ops \in Chains(Under(d, j, d[e]), m)
  BY DEF States
<1>2. st.ops[p[1]] \in Under(d, j, d[e])
  BY <1>1 DEF Chains
<1>3. Inner(dups, st.ops[p[1]]) = Inner(dups2, st.ops[p[1]])
  BY <1>2 DEF Alike
<1> QED
  BY <1>3 DEF Visit

(* The whole walk.                                                         *)
Visited(dups, j, e) ==
  VisitPairs(dups, j, Operands(j, e), Pairs(Len(Operands(j, e)), Len(Operands(j, e))))

(* The walk over a chain keeps its value, and asks for the duplicates of   *)
(* its operands only.                                                      *)
LEMMA VisitedIs ==
  ASSUME AllTrees, NEW d \in Depths, NEW j \in Junctions, NEW e \in Trees, e.op = j,
         NEW dups, NEW dups2, Right(d, j, d[e], dups), Alike(d, j, d[e], dups, dups2)
  PROVE  /\ Visited(dups, j, e) \in States(d, j, e, Len(Operands(j, e)))
         /\ Visited(dups, j, e) = Visited(dups2, j, e)
<1> DEFINE m == Len(Operands(j, e))
           P == States(d, j, e, m)
           pairs == Pairs(m, m)
           ops == Operands(j, e)
<1>1. m \in Nat /\ ops \in Seq(Trees) /\ m = Len(ops) /\ m = Len(Operands(j, e))
  BY OperandsTrees
<1>2. Start(ops) \in P
  <2>1. ops \in Chains(Under(d, j, d[e]), m)
    BY <1>1, OperandsUnder DEF Chains
  <2>2. OperandsKeep(j, e, ops)
    <3>1. ASSUME NEW i \in 1 .. Len(ops), IsOrdinary(e) PROVE IsOrdinary(ops[i])
      <4> DEFINE S == {x \in Trees : IsOrdinary(x)}
      <4>1. Downward(j, S)
        BY OrdinaryAre DEF Downward
      <4>2. e \in S
        BY <3>1
      <4>3. \A k \in 1 .. Len(ops) : ops[k] \in S
        <5> HIDE DEF S
        <5> QED
          BY <4>1, <4>2, OperandsIn
      <4> QED
        BY <4>3
    <3>2. ASSUME NEW i \in 1 .. Len(ops), IsNormal(e) PROVE IsNormal(ops[i])
      <4> DEFINE S == {x \in Trees : IsNormal(x)}
      <4>1. Downward(j, S)
        BY NormalAre DEF Downward
      <4>2. e \in S
        BY <3>2
      <4>3. \A k \in 1 .. Len(ops) : ops[k] \in S
        <5> HIDE DEF S
        <5> QED
          BY <4>1, <4>2, OperandsIn
      <4> QED
        BY <4>3
    <3>4. ASSUME NEW i \in 1 .. Len(ops), IsPlain(e) PROVE IsPlain(ops[i])
      <4> DEFINE S == {x \in Trees : IsPlain(x)}
      <4>1. Downward(j, S)
        BY PlainAre DEF Downward
      <4>2. e \in S
        BY <3>4
      <4>3. \A k \in 1 .. Len(ops) : ops[k] \in S
        <5> HIDE DEF S
        <5> QED
          BY <4>1, <4>2, OperandsIn
      <4> QED
        BY <4>3
    <3>3. \A env : IsEnv(env) => IsExtreme(j, env, ops, 0, Len(ops), CalcValue(env, e))
      BY EnvIsTri, OperandsValue
    <3> HIDE DEF ops
    <3> QED
      BY <3>1, <3>2, <3>3, <3>4 DEF OperandsKeep, Good
  <2>3. OperandsFall(j, e, Start(ops))
    <3>1. WithOperands(j, e, ops) = e
      BY OwnOperands
    <3>2. Width[e] \in Nat
      BY WidthIs DEF Widths, Trees
    <3>3. Start(ops).ops = ops /\ Start(ops).count = 0
      BY DEF Start
    <3> HIDE DEF ops
    <3> QED
      BY <3>1, <3>2, <3>3 DEF OperandsFall, WidthWith, ops
  <2> HIDE DEF ops, m
  <2> QED
    BY <2>1, <2>2, <2>3 DEF States, Start
<1>3. Len(pairs) \in Nat /\ \A k \in 1 .. Len(pairs) : pairs[k][1] \in 1 .. m /\ pairs[k][2] \in 1 .. m
  BY <1>1, PairsAre
<1>4. Visited(dups, j, e) = VisitPairs(dups, j, ops, pairs) /\ Visited(dups2, j, e) = VisitPairs(dups2, j, ops, pairs)
  BY DEF Visited
<1> HIDE DEF m, ops, pairs
<1>5. ASSUME NEW s \in P, NEW k \in 1 .. Len(pairs)
      PROVE  Visit(dups, j, s, pairs[k]) \in P /\ Visit(dups2, j, s, pairs[k]) = Visit(dups, j, s, pairs[k])
  <2> DEFINE p == pairs[k]
  <2>1. p[1] \in 1 .. m /\ p[2] \in 1 .. m
    BY <1>3
  <2> HIDE DEF p
  <2>2. Visit(dups, j, s, p) \in P
    BY <1>1, <2>1, VisitIs
  <2>3. Visit(dups, j, s, p) = Visit(dups2, j, s, p)
    BY <2>1, VisitSame
  <2> QED
    BY <2>2, <2>3 DEF p
<1> HIDE DEF P
<1>6. VisitPairs(dups2, j, ops, pairs) = VisitPairs(dups, j, ops, pairs) /\ VisitPairs(dups, j, ops, pairs) \in P
  BY <1>2, <1>3, <1>5, VisitPairsSame
<1> QED
  BY <1>4, <1>6 DEF P, m

(* The chain with the operands that are left has the value of the chain.   *)
LEMMA RebuiltIs ==
  ASSUME AllTrees, NEW d \in Depths, NEW j \in Junctions, NEW e \in Trees, e.op = j,
         NEW st \in States(d, j, e, Len(Operands(j, e)))
  PROVE  Rebuilt(j, e, st) \in Shorter(d, e)
<1> DEFINE m == Len(Operands(j, e))
           ops == st.ops
           W == WithOperands(j, e, ops)
<1>1. ops \in Chains(Under(d, j, d[e]), m) /\ st.count \in Nat /\ OperandsKeep(j, e, ops)
  BY DEF States
<1>2. ops \in Seq(Trees) /\ Len(ops) = m /\ \A i \in 1 .. m : ops[i] \in Under(d, j, d[e])
  BY <1>1 DEF Chains
<1> HIDE DEF ops
<1>3. W \in Trees /\ W.op = j
  <2>1. Upward(j, Trees)
    BY TreesAre DEF Upward
  <2>2. \A i \in 1 .. Len(ops) : ops[i] \in Trees
    BY <1>2 DEF Under
  <2> QED
    BY <1>2, <2>1, <2>2, WithOperandsIn
<1>4. d[W] =< d[e]
  <2> DEFINE S == {x \in Trees : Step(d, j, x) =< d[e]}
  <2>0. \A x \in Trees : d[x] \in Nat /\ Step(d, j, x) \in Nat
    BY DEF Depths, Trees, Step
  <2>1. Upward(j, S)
    <3>1. ASSUME NEW a \in S, NEW b \in S PROVE Two(j, a, b) \in S
      <4>1. Two(j, a, b) \in Trees
        BY TreesAre
      <4>2. d[Two(j, a, b)] = Greater(Step(d, j, a), Step(d, j, b))
        BY DEF Depths
      <4>3. Step(d, j, Two(j, a, b)) = d[Two(j, a, b)]
        BY DEF Step, Two
      <4>4. Step(d, j, a) =< d[e] /\ Step(d, j, b) =< d[e]
        OBVIOUS
      <4> QED
        BY <4>1, <4>2, <4>3, <4>4 DEF Greater
    <3> QED
      BY <3>1 DEF Upward
  <2>2. \A i \in 1 .. Len(ops) : ops[i] \in S
    <3>1. ASSUME NEW i \in 1 .. Len(ops) PROVE ops[i] \in S
      <4>1. ops[i] \in Trees /\ ops[i].op # j /\ d[ops[i]] < d[e]
        BY <1>2 DEF Under
      <4>2. Step(d, j, ops[i]) = 1 + d[ops[i]]
        BY <4>1 DEF Step
      <4>3. d[ops[i]] \in Nat /\ d[e] \in Nat
        BY <2>0, <4>1
      <4> QED
        BY <4>1, <4>2, <4>3
    <3> QED
      BY <3>1
  <2>3. W \in S
    <3> HIDE DEF S
    <3> QED
      BY <1>2, <2>1, <2>2, WithOperandsIn
  <2> HIDE DEF W
  <2> QED
    BY <1>3, <2>0, <2>3 DEF Step
<1>5. ASSUME Good(e) PROVE IsOrdinary(W) /\ IsNormal(W)
  <2> DEFINE S == {x \in Trees : IsOrdinary(x) /\ IsNormal(x)}
  <2>1. Upward(j, S)
    BY OrdinaryAre, NormalAre, TreesAre DEF Upward
  <2>2. \A i \in 1 .. Len(ops) : ops[i] \in S
    <3>1. \A i \in 1 .. Len(ops) : Good(ops[i]) /\ ops[i] \in Trees
      BY <1>1, <1>2, <1>5 DEF OperandsKeep, Under
    <3> QED
      BY <3>1 DEF Good
  <2>3. W \in S
    <3> HIDE DEF S
    <3> QED
      BY <1>2, <2>1, <2>2, WithOperandsIn
  <2> QED
    BY <2>3
<1>9. ASSUME Good(e), IsPlain(e) PROVE IsPlain(W)
  <2> DEFINE S == {x \in Trees : IsPlain(x)}
  <2>1. Upward(j, S)
    BY PlainAre, TreesAre DEF Upward
  <2>2. \A i \in 1 .. Len(ops) : ops[i] \in S
    BY <1>1, <1>2, <1>9 DEF OperandsKeep, Under
  <2>3. W \in S
    <3> HIDE DEF S
    <3> QED
      BY <1>2, <2>1, <2>2, WithOperandsIn
  <2> QED
    BY <2>3
<1>10. Narrows(e, [expr |-> W, count |-> st.count])
  <2>1. OperandsFall(j, e, st)
    BY DEF States
  <2>2. Width[W] \in Nat /\ Width[EliminateYN[W]] \in Nat /\ Width[e] \in Nat
    BY <1>3, WidthIs, EliminateYNIs DEF Widths, Trees
  <2>3. Width[EliminateYN[W]] =< Width[W]
    BY <1>3, EliminateYNShrinks
  <2>4. Width[W] =< Width[e]
    BY <2>1 DEF OperandsFall, WidthWith, ops
  <2>5. st.count = 0 => W = e
    BY <2>1, OwnOperands DEF OperandsFall, ops
  <2>6. ASSUME st.count > 0 PROVE Width[EliminateYN[W]] < Width[e]
    <3>1. CASE Width[W] < Width[e]
      BY <2>2, <2>3, <3>1
    <3>2. CASE \E i \in 1 .. Len(ops) : Falls(j, ops[i])
      <4>1. PICK i \in 1 .. Len(ops) : Falls(j, ops[i])
        BY <3>2
      <4>2. Shrinks(W)
        BY <1>2, <4>1, ChainShrinks
      <4> QED
        BY <2>2, <2>4, <4>2 DEF Shrinks
    <3> QED
      BY <2>1, <2>6, <3>1, <3>2 DEF OperandsFall, WidthWith, ops
  <2> HIDE DEF W
  <2> QED
    BY <2>4, <2>5, <2>6 DEF Narrows
<1>6. ASSUME Good(e), NEW env, IsEnv(env) PROVE CalcValue(env, W) = CalcValue(env, e)
  <2> DEFINE v == CalcValue(env, e)
             w == CalcValue(env, W)
  <2>1. IsTri(env)
    BY <1>6, EnvIsTri
  <2>2. v \in Tri /\ w \in Tri
    BY <1>3, <2>1, ValueIs DEF Trees
  <2>3. IsExtreme(j, env, ops, 0, Len(ops), v)
    BY <1>1, <1>6 DEF OperandsKeep
  <2>4. IsExtreme(j, env, ops, 0, Len(ops), w)
    BY <1>2, <2>1, WithOperandsValue
  <2> HIDE DEF v, w
  <2>5. v = w
    BY <2>2, <2>3, <2>4, ExtremeUnique
  <2> QED
    BY <2>5 DEF v, w
<1>7. Rebuilt(j, e, st) = [expr |-> W, count |-> st.count]
  BY DEF Rebuilt, ops
<1> HIDE DEF W
<1>8. Keeps(e, W)
  BY <1>5, <1>6, <1>9 DEF Keeps, Good
<1> QED
  BY <1>1, <1>3, <1>4, <1>7, <1>8, <1>10 DEF Shorter

(* The chains, and what expr_eliminate_dups1 may return for each.          *)
Chained == {f \in Exprs : f.op \in Junctions}

(* An expression may stay as it is.                                        *)
LEMMA StaysShort ==
  ASSUME AllTrees, NEW d \in Depths, NEW e \in Trees
  PROVE  [expr |-> e, count |-> 0] \in Shorter(d, e)
<1>1. d[e] =< d[e]
  BY DEF Depths, Trees
<1>2. Width[e] =< Width[e]
  BY WidthIs DEF Widths, Trees
<1> QED
  BY <1>1, <1>2 DEF Shorter, Keeps, Narrows

(* What is right for all lower chains is right for the operands of a       *)
(* chain.                                                                  *)
LEMMA InnerIs ==
  ASSUME AllTrees, NEW d \in Depths, NEW j \in Junctions, NEW h,
         NEW dups, \A x \in Chained : d[x] < h => dups[x] \in Shorter(d, x)
  PROVE  Right(d, j, h, dups)
<1>1. ASSUME NEW x \in Under(d, j, h) PROVE Inner(dups, x) \in Shorter(d, x)
  <2>1. x \in Trees /\ d[x] < h
    BY DEF Under
  <2>2. CASE x.op \in Junctions
    <3>1. x \in Chained
      BY <2>1, <2>2 DEF Chained, Trees
    <3> QED
      BY <2>1, <2>2, <3>1 DEF Inner
  <2>3. CASE x.op \notin Junctions
    <3>1. Inner(dups, x) = [expr |-> x, count |-> 0]
      BY <2>3 DEF Inner
    <3> QED
      BY <2>1, <3>1, StaysShort
  <2> QED
    BY <2>2, <2>3
<1> QED
  BY <1>1 DEF Right

(* Functions that agree on lower chains agree on the operands of a chain.  *)
LEMMA AlikeIs ==
  ASSUME NEW d, NEW j, NEW h, NEW dups, NEW dups2,
         \A x \in Chained : d[x] < h => dups[x] = dups2[x]
  PROVE  Alike(d, j, h, dups, dups2)
BY DEF Alike, Inner, Under, Chained, Trees

BodyOf(dups, e) == Rebuilt(e.op, e, Visited(dups, e.op, e))

(* The body of expr_eliminate_dups1, when the function is right for lower  *)
(* chains.                                                                 *)
LEMMA BodyIs ==
  ASSUME AllTrees, NEW d \in Depths, NEW e \in Chained, NEW dups, NEW dups2,
         \A x \in Chained : d[x] < d[e] => dups[x] \in Shorter(d, x) /\ dups[x] = dups2[x]
  PROVE  BodyOf(dups, e) \in Shorter(d, e) /\ BodyOf(dups, e) = BodyOf(dups2, e)
<1>1. PICK j \in Junctions : j = e.op
  BY DEF Chained
<1>2. e \in Trees
  BY <1>1, JunctionIs DEF Chained
<1>3. Right(d, j, d[e], dups)
  BY InnerIs
<1>4. Alike(d, j, d[e], dups, dups2)
  BY AlikeIs
<1>5. e.op = j
  BY <1>1
<1>6. /\ Visited(dups, j, e) \in States(d, j, e, Len(Operands(j, e)))
      /\ Visited(dups, j, e) = Visited(dups2, j, e)
  BY <1>2, <1>3, <1>4, <1>5, VisitedIs
<1>7. Rebuilt(j, e, Visited(dups, j, e)) \in Shorter(d, e)
  BY <1>2, <1>5, <1>6, RebuiltIs
<1> QED
  BY <1>5, <1>6, <1>7 DEF BodyOf

(* expr_eliminate_dups1 ends and keeps the value.                          *)
LEMMA EliminateDups1Is ==
  ASSUME AllTrees, NEW d \in Depths, NEW e \in Chained
  PROVE  EliminateDups1[e] \in Shorter(d, e)
<1> DEFINE S == Chained
           U == [expr : Trees, count : Nat]
           V == [x \in S |-> Shorter(d, x)]
           F == Choices(S, U, V)
           Is(g) == g = [x \in S |-> BodyOf(g, x)]
           D == [g \in F |-> [x \in S |-> BodyOf(g, x)]]
           rank == [x \in S |-> d[x]]
<1>1. rank \in [S -> Nat]
  BY DEF Depths, Chained
<1>2. \A g : g \in F <=> g \in [S -> U] /\ \A x \in S : g[x] \in Shorter(d, x)
  BY DEF Choices
<1>3. \A x \in S : Shorter(d, x) \subseteq U
  BY DEF Shorter
<1>4. F # {}
  <2>1. ASSUME NEW x \in S PROVE [expr |-> x, count |-> 0] \in Shorter(d, x)
    <3>1. x \in Trees
      BY JunctionIs DEF Chained
    <3> QED
      BY <3>1, StaysShort
  <2> DEFINE g == [x \in S |-> [expr |-> x, count |-> 0]]
  <2>2. \A x \in S : g[x] \in Shorter(d, x)
    BY <2>1
  <2>3. g \in [S -> U]
    BY <1>3, <2>1
  <2>4. g \in F
    <3> HIDE DEF g, F, S, U
    <3> QED
      BY <1>2, <2>2, <2>3
  <2> QED
    BY <2>4
<1> HIDE DEF F
<1>5. ASSUME NEW g \in F, NEW h \in F, NEW x \in S, \A y \in S : rank[y] < rank[x] => g[y] = h[y]
      PROVE  BodyOf(g, x) \in Shorter(d, x) /\ BodyOf(g, x) = BodyOf(h, x)
  <2>1. \A y \in Chained : d[y] < d[x] => g[y] \in Shorter(d, y) /\ g[y] = h[y]
    BY <1>2, <1>5
  <2> QED
    BY <2>1, BodyIs
<1>6. ASSUME NEW g \in F PROVE [x \in S |-> BodyOf(g, x)] \in F
  <2>1. \A x \in S : BodyOf(g, x) \in Shorter(d, x)
    <3>1. \A x \in S : \A y \in S : rank[y] < rank[x] => g[y] = g[y]
      OBVIOUS
    <3> QED
      BY <1>5, <3>1
  <2> DEFINE b == [x \in S |-> BodyOf(g, x)]
  <2>2. \A x \in S : b[x] \in Shorter(d, x)
    BY <2>1
  <2>3. b \in [S -> U]
    BY <1>3, <2>1
  <2>4. b \in F
    <3> HIDE DEF b, S, U
    <3> QED
      BY <1>2, <2>2, <2>3
  <2> QED
    BY <2>4
<1>7. D \in [F -> F]
  BY <1>6
<1>8. GoesDown(S, rank, F, D)
  <2>1. ASSUME NEW g \in F, NEW h \in F, NEW x \in S, \A y \in S : rank[y] < rank[x] => g[y] = h[y]
        PROVE  D[g][x] = D[h][x]
    BY <1>5, <2>1
  <2> HIDE DEF D, S, rank
  <2> QED
    BY <2>1 DEF GoesDown
<1>9. PICK g \in F : D[g] = g
  <2> HIDE DEF D, S, rank, U, V
  <2> QED
    BY <1>1, <1>4, <1>7, <1>8, Recursion DEF F
<1>10. Is(g)
  BY <1>9
<1>11. EliminateDups1 = CHOOSE h : Is(h)
  BY DEF EliminateDups1, BodyOf, VisitOperands, Visited, Chained
<1>12. Is(EliminateDups1)
  <2> HIDE DEF Is
  <2> QED
    BY <1>10, <1>11
<1>13. EliminateDups1 \in F
  <2>1. \A h : Is(h) => h \in F
    <3>1. ASSUME NEW h, Is(h) PROVE h \in F
      <4> DEFINE Q == {x \in S : h[x] \in Shorter(d, x)}
      <4>1. \A x \in S : h[x] = BodyOf(h, x)
        BY <3>1
      <4>2. ASSUME NEW x \in S, \A y \in S : rank[y] < rank[x] => y \in Q PROVE x \in Q
        <5>1. \A y \in Chained : d[y] < d[x] => h[y] \in Shorter(d, y) /\ h[y] = h[y]
          BY <4>2
        <5>2. BodyOf(h, x) \in Shorter(d, x)
          BY <5>1, BodyIs
        <5> QED
          BY <4>1, <5>2
      <4>3. S \subseteq Q
        <5> HIDE DEF Q, rank, S
        <5> QED
          BY <1>1, <4>2, RankInduction
      <4>4. h = [x \in S |-> h[x]]
        BY <3>1
      <4>5. h \in [S -> U]
        BY <1>3, <4>3, <4>4
      <4> QED
        BY <1>2, <4>3, <4>5
    <3> QED
      BY <3>1
  <2> HIDE DEF Is
  <2> QED
    BY <1>12, <2>1
<1> QED
  BY <1>2, <1>13

(* A turn of expr_eliminate_dups keeps the value and leaves an expression  *)
(* that the next turn may work on; when there is one, the expression has   *)
(* become smaller, so that the loop ends (expr.c:613-638).                 *)
THEOREM DupsTurnIs ==
  ASSUME AllTrees, NEW e \in Exprs
  PROVE  /\ DupsTurn(e).expr \in Exprs
         /\ e \in Trees => DupsTurn(e).expr \in Trees
         /\ Keeps(e, DupsTurn(e).expr)
         /\ DupsTurn(e).again => Width[DupsTurn(e).expr] < Width[e]
<1>1. CASE e.op \in Junctions
  <2>1. e \in Chained
    BY <1>1 DEF Chained
  <2>2. PICK d \in Depths : TRUE
    BY DepthsExist
  <2> DEFINE r == EliminateDups1[e]
             x == r.expr
  <2>3. r \in Shorter(d, e)
    BY <2>1, EliminateDups1Is
  <2>4. x \in Trees /\ Keeps(e, x)
    BY <2>3 DEF Shorter
  <2>5. DupsTurn(e).expr \in {x, EliminateYN[x]}
    BY <1>1 DEF DupsTurn, Turned
  <2> HIDE DEF x
  <2>6. EliminateYN[x] \in Trees /\ Keeps(e, EliminateYN[x])
    <3>1. EliminateYN[x] \in Trees
      BY <2>4, EliminateYNIs DEF Trees
    <3>2. ASSUME Good(e) PROVE Good(EliminateYN[x])
      BY <2>4, <3>2, EliminateYNKeeps DEF Keeps, Good
    <3>4. ASSUME Good(e), IsPlain(e) PROVE IsPlain(EliminateYN[x])
      BY <2>4, <3>4, EliminateYNKeeps DEF Keeps
    <3>3. ASSUME Good(e), NEW env, IsEnv(env)
          PROVE  CalcValue(env, EliminateYN[x]) = CalcValue(env, e)
      <4>1. CalcValue(env, x) = CalcValue(env, e)
        BY <2>4, <3>3 DEF Keeps
      <4>2. CalcValue(env, EliminateYN[x]) = CalcValue(env, x)
        BY <2>4, <3>3, EnvIsTri, EliminateYNKeeps
      <4> QED
        BY <4>1, <4>2
    <3> QED
      BY <3>1, <3>2, <3>3, <3>4 DEF Keeps
  <2>7. ASSUME DupsTurn(e).again PROVE Width[DupsTurn(e).expr] < Width[e]
    <3>1. r.count > 0 /\ DupsTurn(e).expr = EliminateYN[r.expr]
      BY <1>1, <2>7 DEF DupsTurn, Turned
    <3>2. Narrows(e, r)
      BY <2>3 DEF Shorter
    <3> QED
      BY <3>1, <3>2 DEF Narrows
  <2> QED
    BY <2>4, <2>5, <2>6, <2>7 DEF Trees
<1>2. CASE e.op \notin Junctions
  <2>1. DupsTurn(e).expr = e /\ ~DupsTurn(e).again
    BY <1>2 DEF DupsTurn
  <2> QED
    BY <2>1 DEF Keeps
<1> QED
  BY <1>1, <1>2

(* What expr_eliminate_dups may return.                                    *)
Deduped(e) == {x \in Exprs : (e \in Trees => x \in Trees) /\ Keeps(e, x)}

(* The loop of expr_eliminate_dups (expr.c:613-638) ends, and keeps the    *)
(* value.                                                                  *)
THEOREM EliminateDupsEnds ==
  ASSUME AllTrees, NEW e \in Exprs
  PROVE  /\ EliminateDups[e] \in Deduped(e)
         /\ EliminateDups[e] = TurnAgain(EliminateDups, DupsTurn(e))
<1> DEFINE Body(f, x) == TurnAgain(f, DupsTurn(x))
           V == [x \in Exprs |-> Deduped(x)]
           F == Choices(Exprs, Exprs, V)
           Is(f) == f = [x \in Exprs |-> Body(f, x)]
           D == [f \in F |-> [x \in Exprs |-> Body(f, x)]]
<1>1. Width \in [Exprs -> Nat]
  BY WidthIs DEF Widths
<1>2. \A f : f \in F <=> f \in [Exprs -> Exprs] /\ \A x \in Exprs : f[x] \in Deduped(x)
  BY DEF Choices
<1>3. F # {}
  <2> DEFINE g == [x \in Exprs |-> x]
  <2>1. \A x \in Exprs : g[x] \in Deduped(x)
    BY DEF Deduped, Keeps
  <2>2. g \in [Exprs -> Exprs]
    OBVIOUS
  <2> HIDE DEF g, F
  <2>3. g \in F
    BY <1>2, <2>1, <2>2
  <2> QED
    BY <2>3
<1>4. ASSUME NEW x \in Exprs, NEW f, NEW g, \A y \in Exprs : Width[y] < Width[x] => f[y] = g[y] /\ f[y] \in Deduped(y)
      PROVE  Body(f, x) = Body(g, x) /\ Body(f, x) \in Deduped(x)
  <2> DEFINE t == DupsTurn(x)
             y == t.expr
  <2>1. /\ y \in Exprs /\ (x \in Trees => y \in Trees) /\ Keeps(x, y)
        /\ t.again => Width[y] < Width[x]
    BY DupsTurnIs
  <2>2. Body(f, x) = (IF t.again THEN f[y] ELSE y) /\ Body(g, x) = IF t.again THEN g[y] ELSE y
    BY DEF TurnAgain
  <2> HIDE DEF t, y
  <2>3. CASE t.again
    <3>1. f[y] = g[y] /\ f[y] \in Deduped(y)
      BY <1>4, <2>1, <2>3
    <3> HIDE DEF Body
    <3>2. f[y] \in Deduped(x)
      BY <2>1, <3>1 DEF Deduped, Keeps
    <3> QED
      BY <2>2, <2>3, <3>1, <3>2
  <2>4. CASE ~t.again
    <3> HIDE DEF Body
    <3> QED
      BY <2>1, <2>2, <2>4 DEF Deduped
  <2> QED
    BY <2>3, <2>4
<1> HIDE DEF F, Body
<1>5. ASSUME NEW f \in F PROVE [x \in Exprs |-> Body(f, x)] \in F
  <2>1. \A x \in Exprs : Body(f, x) \in Deduped(x)
    BY <1>2, <1>4
  <2> DEFINE b == [x \in Exprs |-> Body(f, x)]
  <2>2. \A x \in Exprs : b[x] \in Deduped(x)
    BY <2>1
  <2>3. b \in [Exprs -> Exprs]
    BY <2>1 DEF Deduped
  <2> HIDE DEF b
  <2>4. b \in F
    BY <1>2, <2>2, <2>3
  <2> QED
    BY <2>4 DEF b
<1>6. D \in [F -> F]
  BY <1>5
<1>7. GoesDown(Exprs, Width, F, D)
  <2>1. ASSUME NEW g \in F, NEW h \in F, NEW x \in Exprs, \A y \in Exprs : Width[y] < Width[x] => g[y] = h[y]
        PROVE  D[g][x] = D[h][x]
    <3>1. Body(g, x) = Body(h, x)
      BY <1>2, <1>4, <2>1
    <3> QED
      BY <3>1
  <2> HIDE DEF D
  <2> QED
    BY <2>1 DEF GoesDown
<1>8. PICK f \in F : D[f] = f
  <2> HIDE DEF D, V
  <2> QED
    BY <1>1, <1>3, <1>6, <1>7, Recursion DEF F
<1>9. Is(f)
  BY <1>8
<1>10. EliminateDups = CHOOSE g : Is(g)
  BY DEF EliminateDups, Body
<1>11. Is(EliminateDups)
  <2> HIDE DEF Is
  <2> QED
    BY <1>9, <1>10
<1>12. \A x \in Exprs : EliminateDups[x] = Body(EliminateDups, x)
  BY <1>11
<1> DEFINE Q == {x \in Exprs : EliminateDups[x] \in Deduped(x)}
<1>13. ASSUME NEW x \in Exprs, \A y \in Exprs : Width[y] < Width[x] => y \in Q PROVE x \in Q
  BY <1>4, <1>12, <1>13
<1>14. Exprs \subseteq Q
  <2> HIDE DEF Q
  <2> QED
    BY <1>1, <1>13, RankInduction
<1> QED
  BY <1>12, <1>14 DEF Body

-----------------------------------------------------------------------------
(* expr_trans_compare with n, for the comparison r.                        *)
Tests == {"=", "!="}
ComparedBy(t, e, r) == CompareOf(t, e, r, "n")

(* The comparison of a tree, from those of its operands.                   *)
JunctionBy(t, e) == Two(Dual(e.op), t[<<e.l, "=">>], t[<<e.r, "=">>])
FormOf(t, e, r) ==
  /\ e = NoExpr => ComparedBy(t, e, r) = IF r = "!=" THEN Not(Sym("n")) ELSE Sym("n")
  /\ e.op = "sym" => ComparedBy(t, e, r) = Comp(r, e.a, "n")
  /\ e.op \in Relations => ComparedBy(t, e, r) = IF r = "!=" THEN e ELSE Not(e)
  /\ e.op = "not" => ComparedBy(t, e, r) = t[<<e.l, Opposite(r)>>]
  /\ e.op \in Junctions => ComparedBy(t, e, r) = IF r = "=" THEN JunctionBy(t, e) ELSE Not(JunctionBy(t, e))

(* An expression is a leaf, a negation or a junction.                      *)
LEMMA FormsAre ==
  ASSUME AllTrees, NEW e \in Exprs
  PROVE  \/ e = NoExpr \/ e.op = "sym" \/ e.op \in Relations \/ e.op = "not" \/ e.op \in Junctions
BY TreesAre, LeavesAre DEF Trees

(* ComparedBy has this form.                                               *)
LEMMA ComparedByIs ==
  ASSUME AllTrees, NEW e \in Exprs, NEW r \in Tests, NEW t
  PROVE  FormOf(t, e, r)
<1> SUFFICES
      /\ e = NoExpr => ComparedBy(t, e, r) = IF r = "!=" THEN Not(Sym("n")) ELSE Sym("n")
      /\ e.op = "sym" => ComparedBy(t, e, r) = Comp(r, e.a, "n")
      /\ e.op \in Relations => ComparedBy(t, e, r) = IF r = "!=" THEN e ELSE Not(e)
      /\ e.op = "not" => ComparedBy(t, e, r) = t[<<e.l, Opposite(r)>>]
      /\ e.op \in Junctions => ComparedBy(t, e, r) = IF r = "=" THEN JunctionBy(t, e) ELSE Not(JunctionBy(t, e))
  BY DEF FormOf
<1>1. CASE e = NoExpr
  BY <1>1 DEF ComparedBy, CompareOf, NoExpr, Relations, Junctions
<1>2. CASE e.op = "sym"
  <2>1. e # NoExpr
    BY <1>2 DEF NoExpr
  <2> QED
    BY <1>2, <2>1 DEF ComparedBy, CompareOf, Relations, Junctions
<1>3. CASE e.op \in Relations
  <2>1. e # NoExpr /\ e.op \notin Junctions /\ e.op \notin {"sym", "not", "null"}
    BY <1>3 DEF NoExpr, Relations, Junctions
  <2> QED
    BY <1>3, <2>1 DEF ComparedBy, CompareOf, Tests
<1>4. CASE e.op = "not"
  <2>1. e # NoExpr
    BY <1>4 DEF NoExpr
  <2> QED
    BY <1>4, <2>1 DEF ComparedBy, CompareOf, Relations, Junctions
<1>5. CASE e.op \in Junctions
  <2>1. e # NoExpr /\ e.op \notin Relations /\ e.op \notin {"sym", "not", "null"}
    BY <1>5 DEF NoExpr, Relations, Junctions
  <2>2. \A x, f : CompareJunction(f, x, "n") = JunctionBy(f, x)
    BY DEF CompareJunction, JunctionBy
  <2>3. ComparedBy(t, e, r) = IF r = "=" THEN CompareJunction(t, e, "n") ELSE Not(CompareJunction(t, e, "n"))
    BY <1>5, <2>1 DEF ComparedBy, CompareOf, Tests
  <2> QED
    BY <1>5, <2>1, <2>2, <2>3
<1> QED
  BY <1>1, <1>2, <1>3, <1>4, <1>5, FormsAre

(* expr_trans_compare is the function that its definition describes.       *)
LEMMA TransCompareIs ==
  ASSUME AllTrees
  PROVE  \E t \in [Exprs \X Tests -> Trees] :
           \A e \in Exprs : \A r \in Tests :
             TransCompare(e, r, "n") = t[<<e, r>>] /\ t[<<e, r>>] = ComparedBy(t, e, r)
<1> DEFINE S == Exprs \X Tests
           Body(f, p) == ComparedBy(f, p[1], p[2])
           Is(f) == f = [p \in S |-> Body(f, p)]
           F == [S -> Trees]
           D == [f \in F |-> [p \in S |-> Body(f, p)]]
           V == [p \in S |-> Trees]
<1>1. PICK height \in Heights : TRUE
  BY TreesAre
<1> DEFINE rank == [p \in S |-> height[p[1]]]
<1>2. rank \in [S -> Nat]
  BY DEF Heights
<1>3. ASSUME NEW p \in S, NEW f, NEW g,
             \A q \in S : rank[q] < rank[p] => f[q] = g[q] /\ f[q] \in Trees
      PROVE  Body(f, p) = Body(g, p) /\ Body(f, p) \in Trees
  <2> DEFINE e == p[1]
             r == p[2]
  <2>1. e \in Exprs /\ r \in Tests
    OBVIOUS
  <2>2. \A x \in Exprs : \A s \in Tests :
          height[x] < height[e] => f[<<x, s>>] = g[<<x, s>>] /\ f[<<x, s>>] \in Trees
    BY <1>3
  <2> HIDE DEF e, r, rank
  <2>10. FormOf(f, e, r) /\ FormOf(g, e, r)
    BY <2>1, ComparedByIs
  <2>3. \A x \in Trees : Not(x) \in Trees
    BY TreesAre
  <2>4. CASE e = NoExpr
    <3>1. Sym("n") \in Trees
      BY TreesAre, WordsAssumption DEF Leaves, TriWords
    <3>2. ComparedBy(f, e, r) = ComparedBy(g, e, r) /\ ComparedBy(f, e, r) \in Trees
      BY <2>3, <2>4, <2>10, <3>1 DEF FormOf
    <3> QED
      BY <3>2 DEF e, r
  <2>5. CASE e.op = "sym"
    <3>1. e \in Leaves
      BY <2>1, <2>5, TreesAre DEF Trees, NoExpr, Junctions
    <3>2. Comp(r, e.a, "n") \in Leaves
      BY <2>1, <2>5, <3>1, LeavesAre, WordsAssumption DEF Leaves, Comp, Names, Tests, Relations, TriWords
    <3>3. Comp(r, e.a, "n") \in Trees
      BY <3>2, TreesAre
    <3>4. ComparedBy(f, e, r) = ComparedBy(g, e, r) /\ ComparedBy(f, e, r) \in Trees
      BY <2>5, <2>10, <3>3 DEF FormOf
    <3> QED
      BY <3>4 DEF e, r
  <2>6. CASE e.op \in Relations
    <3>1. e \in Trees
      BY <2>1, <2>6 DEF Trees, NoExpr, Relations
    <3>2. ComparedBy(f, e, r) = ComparedBy(g, e, r) /\ ComparedBy(f, e, r) \in Trees
      BY <2>3, <2>6, <2>10, <3>1 DEF FormOf
    <3> QED
      BY <3>2 DEF e, r
  <2>7. CASE e.op = "not"
    <3>1. e \in Trees /\ e.l \in Trees
      BY <2>1, <2>7, NegationIs
    <3>2. height[e.l] < height[e] /\ e.l \in Exprs
      BY <2>7, <3>1 DEF Heights, Trees
    <3>3. Opposite(r) \in Tests
      BY <2>1 DEF Opposite, Tests
    <3>4. f[<<e.l, Opposite(r)>>] = g[<<e.l, Opposite(r)>>] /\ f[<<e.l, Opposite(r)>>] \in Trees
      BY <2>2, <3>2, <3>3
    <3>5. ComparedBy(f, e, r) = ComparedBy(g, e, r) /\ ComparedBy(f, e, r) \in Trees
      BY <2>7, <2>10, <3>4 DEF FormOf
    <3> QED
      BY <3>5 DEF e, r
  <2>8. CASE e.op \in Junctions
    <3>1. e \in Trees /\ e.l \in Trees /\ e.r \in Trees
      BY <2>1, <2>8, JunctionIs
    <3>2. height[e.l] < height[e] /\ height[e.r] < height[e] /\ e.l \in Exprs /\ e.r \in Exprs
      BY <2>8, <3>1 DEF Heights, Trees
    <3> DEFINE a == f[<<e.l, "=">>]
               b == f[<<e.r, "=">>]
    <3>3. a = g[<<e.l, "=">>] /\ a \in Trees /\ b = g[<<e.r, "=">>] /\ b \in Trees
      BY <2>2, <3>2 DEF Tests
    <3>4. Dual(e.op) \in Junctions
      BY DEF Dual, Junctions
    <3>5. JunctionBy(f, e) = JunctionBy(g, e) /\ JunctionBy(f, e) \in Trees
      BY <3>3, <3>4, TreesAre DEF JunctionBy
    <3>6. ComparedBy(f, e, r) = ComparedBy(g, e, r) /\ ComparedBy(f, e, r) \in Trees
      BY <2>3, <2>8, <2>10, <3>5 DEF FormOf
    <3> QED
      BY <3>6 DEF e, r
  <2>9. \/ e = NoExpr \/ e.op = "sym" \/ e.op \in Relations \/ e.op = "not" \/ e.op \in Junctions
    BY <2>1, FormsAre
  <2> QED
    BY <2>4, <2>5, <2>6, <2>7, <2>8, <2>9
<1> HIDE DEF rank, Body
<1>4. D \in [F -> F]
  <2>1. ASSUME NEW f \in F, NEW p \in S PROVE Body(f, p) \in Trees
    <3> HIDE DEF S
    <3> QED
      BY <1>3
  <2> QED
    BY <2>1
<1>5. GoesDown(S, rank, F, D)
  <2>1. ASSUME NEW f \in F, NEW g \in F, NEW p \in S, \A q \in S : rank[q] < rank[p] => f[q] = g[q]
        PROVE  D[f][p] = D[g][p]
    <3> HIDE DEF S
    <3>1. Body(f, p) = Body(g, p)
      BY <1>3, <2>1
    <3> QED
      BY <3>1
  <2> HIDE DEF D, F, S
  <2> QED
    BY <2>1 DEF GoesDown
<1>6. PICK f \in F : D[f] = f
  <2>1. Choices(S, Trees, V) = F
    BY DEF Choices
  <2>2. F # {}
    <3>1. Sym("n") \in Trees
      BY TreesAre, WordsAssumption DEF Leaves, TriWords
    <3>2. [p \in S |-> Sym("n")] \in F
      BY <3>1
    <3> QED
      BY <3>2
  <2> HIDE DEF D, F, S, V
  <2> QED
    BY <1>2, <1>4, <1>5, <2>1, <2>2, Recursion
<1>7. Is(f)
  BY <1>6
<1> DEFINE t == CHOOSE g : Is(g)
<1>8. Is(t)
  <2> HIDE DEF Is
  <2> QED
    BY <1>7
<1>9. \A e, r : TransCompare(e, r, "n") = t[<<e, r>>]
  BY DEF TransCompare, ComparedBy, Tests, Body
<1> HIDE DEF t
<1>10. \A p \in S : t[p] = Body(t, p)
  BY <1>8 DEF Body
<1>11. \A p \in S : t[p] \in Trees
  <2> DEFINE Q == {p \in S : t[p] \in Trees}
  <2>1. ASSUME NEW p \in S, \A q \in S : rank[q] < rank[p] => q \in Q PROVE p \in Q
    <3> HIDE DEF S
    <3> QED
      BY <1>3, <1>10, <2>1
  <2>2. S \subseteq Q
    <3> HIDE DEF Q, S
    <3> QED
      BY <1>2, <2>1, RankInduction
  <2> QED
    BY <2>2
<1>12. t \in F
  BY <1>8, <1>11
<1> QED
  BY <1>9, <1>10, <1>12 DEF Body

(* y, m and n are compared by their texts.                                 *)
LEMMA WordsDiffer ==
  ASSUME NEW env, NEW v \in TriWords, NEW w \in TriWords
  PROVE  Difference(env, v, w) = 0 <=> v = w
<1>1. /\ v \in Literals /\ w \in Literals /\ v \in DOMAIN Rank /\ w \in DOMAIN Rank
      /\ Type[v] \notin Logical /\ Type[w] \notin Logical
      /\ Numeral[Type[v]][v] = NaN /\ Numeral[Type[w]][w] = NaN
  BY WordsAssumption
<1>2. SymString(env, v) = v /\ SymString(env, w) = w
  BY <1>1 DEF SymString
<1>3. ParseString(v, Type[v]) = AsText /\ ParseString(w, Type[w]) = AsText
  BY <1>1 DEF ParseString
<1>4. Subtract(v, w, AsText, AsText) = Rank[v] - Rank[w]
  BY DEF Subtract, AsText
<1>5. Difference(env, v, w) = Rank[v] - Rank[w]
  BY <1>2, <1>3, <1>4 DEF Difference, SubtractTexts
<1>6. Rank[v] \in Int /\ Rank[w] \in Int /\ (Rank[v] = Rank[w] => v = w)
  BY <1>1, WordsAssumption
<1> QED
  BY <1>5, <1>6

(* f is y or n, according to whether e is n.                               *)
Tells(e, r, f) ==
  /\ f \in Trees /\ IsOrdinary(f)
  /\ \A env : IsEnv(env) =>
       CalcValue(env, f) = IF (CalcValue(env, e) = 0) <=> (r = "=") THEN 2 ELSE 0

(* The comparison of a symbol with n.                                      *)
LEMMA SymbolTells ==
  ASSUME AllTrees, NEW s \in Names, Type[s] \in Logical \/ s \in TriWords, NEW r \in Tests
  PROVE  Tells(Sym(s), r, Comp(r, s, "n"))
<1>1. "n" \in Literals /\ "n" \in Names /\ "n" \in TriWords /\ Numeral[Type["n"]]["n"] = NaN
  BY WordsAssumption DEF Names, TriWords
<1>2. Comp(r, s, "n") \in Leaves /\ r \in Relations
  BY <1>1 DEF Comp, Leaves, Names, Tests, Relations
<1>3. IsOrdinary(Comp(r, s, "n"))
  <2>1. FairComparison(Comp(r, s, "n"))
    BY <1>1 DEF FairComparison, Comp
  <2> QED
    BY <1>2, <2>1, OrdinaryAre
<1>4. ASSUME NEW env, IsEnv(env)
      PROVE  CalcValue(env, Comp(r, s, "n")) = IF (CalcValue(env, Sym(s)) = 0) <=> (r = "=") THEN 2 ELSE 0
  <2>1. IsTri(env)
    BY <1>4, EnvIsTri
  <2>2. CalcValue(env, Sym(s)) = SymTri(env, s)
    BY <2>1, ValuesAre
  <2>3. CalcValue(env, Comp(r, s, "n")) = IF Holds(r, Difference(env, s, "n")) THEN 2 ELSE 0
    BY <1>1, <1>2, <2>1, ValuesAre
  <2>4. Difference(env, s, "n") = 0 <=> SymTri(env, s) = 0
    <3>1. CASE Type[s] \in Logical
      <4>1. TriOf("n") = 0
        BY DEF TriOf
      <4> QED
        BY <1>1, <1>4, <3>1, <4>1, DifferencesAre
    <3>2. CASE s \in TriWords
      <4>1. SymTri(env, s) = TriOf(s)
        BY <3>2, WordsAssumption DEF SymTri
      <4>2. TriOf(s) = 0 <=> s = "n"
        BY <3>2 DEF TriOf, TriWords
      <4> QED
        BY <1>1, <3>2, <4>1, <4>2, WordsDiffer
    <3> QED
      BY <3>1, <3>2
  <2>5. \A d : (Holds("=", d) <=> d = 0) /\ (Holds("!=", d) <=> d # 0)
    BY DEF Holds
  <2> QED
    BY <2>2, <2>3, <2>4, <2>5 DEF Tests
<1> QED
  BY <1>2, <1>3, <1>4, TreesAre DEF Tells

(* The negation of what tells whether e is n.                              *)
LEMMA NegationTells ==
  ASSUME AllTrees, NEW e, NEW f, Tells(e, "=", f)
  PROVE  Tells(e, "!=", Not(f))
<1>1. f \in Trees /\ IsOrdinary(f)
  BY DEF Tells
<1>2. Not(f) \in Trees /\ IsOrdinary(Not(f))
  BY <1>1, TreesAre, OrdinaryAre
<1>3. ASSUME NEW env, IsEnv(env)
      PROVE  CalcValue(env, Not(f)) = IF (CalcValue(env, e) = 0) <=> ("!=" = "=") THEN 2 ELSE 0
  <2>1. CalcValue(env, Not(f)) = 2 - CalcValue(env, f)
    BY <1>1, <1>3, EnvIsTri, ValuesAre
  <2>2. CalcValue(env, f) = IF CalcValue(env, e) = 0 THEN 2 ELSE 0
    BY <1>3 DEF Tells
  <2> QED
    BY <2>1, <2>2
<1> QED
  BY <1>2, <1>3 DEF Tells

(* expr_trans_compare with n.                                              *)
LEMMA CompareTells ==
  ASSUME AllTrees, NEW e \in Exprs, Fine(e), NEW r \in Tests
  PROVE  Tells(e, r, TransCompare(e, r, "n"))
<1>1. PICK t \in [Exprs \X Tests -> Trees] :
        \A x \in Exprs : \A s \in Tests :
          TransCompare(x, s, "n") = t[<<x, s>>] /\ t[<<x, s>>] = ComparedBy(t, x, s)
  BY TransCompareIs
<1> DEFINE C(x, s) == TransCompare(x, s, "n")
           P == {x \in Exprs : Fine(x) => Tells(x, "=", C(x, "=")) /\ Tells(x, "!=", C(x, "!="))}
<1>2. "=" \in Tests /\ "!=" \in Tests
  BY DEF Tests
<1>3. "n" \in Names /\ "n" \in TriWords /\ Sym("n") \in Trees /\ IsOrdinary(Sym("n"))
  <2>1. "n" \in Names /\ "n" \in TriWords
    BY WordsAssumption DEF Names, TriWords
  <2>2. Sym("n") \in Leaves /\ FairComparison(Sym("n"))
    BY <2>1 DEF Leaves, Names, Sym, FairComparison
  <2> QED
    BY <2>1, <2>2, TreesAre, OrdinaryAre
<1>4. ASSUME NEW x \in Exprs, Below(x) \subseteq P, Fine(x)
      PROVE  Tells(x, "=", C(x, "=")) /\ Tells(x, "!=", C(x, "!="))
  <2>1. /\ FormOf(t, x, "=") /\ FormOf(t, x, "!=")
        /\ C(x, "=") = ComparedBy(t, x, "=") /\ C(x, "!=") = ComparedBy(t, x, "!=")
    BY <1>1, <1>2, ComparedByIs
  <2>2. \A y \in Exprs : t[<<y, "=">>] = C(y, "=") /\ t[<<y, "!=">>] = C(y, "!=")
    BY <1>1, <1>2
  <2>3. CASE x = NoExpr
    <3>1. C(x, "=") = Sym("n") /\ C(x, "!=") = Not(Sym("n"))
      BY <2>1, <2>3 DEF FormOf
    <3>2. Tells(NoExpr, "=", Sym("n"))
      <4>1. \A env : IsEnv(env) => CalcValue(env, NoExpr) = 2 /\ CalcValue(env, Sym("n")) = 0
        BY EnvIsTri, ConstantsAre, ValuesAre
      <4> QED
        BY <1>3, <4>1 DEF Tells
    <3> HIDE DEF C
    <3> QED
      BY <2>3, <3>1, <3>2, NegationTells
  <2>4. CASE x.op = "sym"
    <3>1. x \in Leaves /\ x.a \in Names /\ x = Sym(x.a)
      BY <2>4, TreesAre, LeavesAre DEF Trees, NoExpr, Junctions, Relations
    <3>2. Type[x.a] \in Logical \/ x.a \in TriWords
      <4>1. IsPlain(x)
        BY <1>4 DEF Fine
      <4>2. PlainPart(x)
        BY <3>1, <4>1, PlainAre
      <4> QED
        BY <2>4, <4>2 DEF PlainPart
    <3>3. C(x, "=") = Comp("=", x.a, "n") /\ C(x, "!=") = Comp("!=", x.a, "n")
      BY <2>1, <2>4 DEF FormOf
    <3> HIDE DEF C
    <3> QED
      BY <1>2, <3>1, <3>2, <3>3, SymbolTells
  <2>5. CASE x.op \in Relations
    <3>1. C(x, "=") = Not(x) /\ C(x, "!=") = x
      BY <2>1, <2>5 DEF FormOf
    <3>2. x \in Leaves /\ x.op \in Relations /\ x.a \in Names /\ x.b \in Names /\ x = Comp(x.op, x.a, x.b)
      BY <2>5, TreesAre, LeavesAre DEF Trees, NoExpr, Junctions, Relations
    <3>3. x \in Trees /\ IsOrdinary(x) /\ Not(x) \in Trees /\ IsOrdinary(Not(x))
      BY <1>4, <3>2, TreesAre, OrdinaryAre DEF Fine
    <3>4. ASSUME NEW env, IsEnv(env)
          PROVE  CalcValue(env, x) \in {0, 2} /\ CalcValue(env, Not(x)) = 2 - CalcValue(env, x)
      <4>1. IsTri(env)
        BY <3>4, EnvIsTri
      <4>2. CalcValue(env, Comp(x.op, x.a, x.b)) \in {0, 2}
        BY <3>2, <4>1, ValuesAre
      <4> QED
        BY <3>2, <3>3, <4>1, <4>2, ValuesAre
    <3>5. Tells(x, "!=", x)
      BY <3>3, <3>4 DEF Tells
    <3>6. Tells(x, "=", Not(x))
      BY <3>3, <3>4 DEF Tells
    <3> HIDE DEF C
    <3> QED
      BY <3>1, <3>5, <3>6
  <2>6. CASE x.op = "not"
    <3> DEFINE y == x.l
    <3>1. x \in Trees /\ y \in Trees /\ x = Not(y) /\ y \in Below(x)
      BY <2>6, NegationIs DEF Below
    <3>2. Opposite("=") = "!=" /\ Opposite("!=") = "="
      BY DEF Opposite
    <3>3. C(x, "=") = C(y, "!=") /\ C(x, "!=") = C(y, "=")
      BY <2>1, <2>2, <2>6, <3>1, <3>2 DEF FormOf, Trees
    <3>4. y.op = "sym" /\ IsOrdinary(y) /\ IsPlain(y) /\ Type[y.a] = "bool"
      BY <1>4, <3>1, OrdinaryAre, NormalAre, PlainAre DEF Fine
    <3>5. y \in Leaves /\ y.a \in Names /\ y = Sym(y.a)
      BY <3>1, <3>4, TreesAre, LeavesAre DEF Trees, NoExpr, Junctions, Relations
    <3>6. Tells(y, "=", C(y, "=")) /\ Tells(y, "!=", C(y, "!="))
      <4>1. Fine(y)
        BY <3>4, <3>5, NormalAre DEF Fine
      <4> QED
        BY <1>4, <3>1, <4>1
    <3>7. ASSUME NEW env, IsEnv(env) PROVE CalcValue(env, x) = 0 <=> CalcValue(env, y) # 0
      <4>1. IsTri(env)
        BY <3>7, EnvIsTri
      <4>2. CalcValue(env, y) \in {0, 2}
        BY <3>4, <3>5, <3>7, <4>1, BoolIs, ValuesAre
      <4>3. CalcValue(env, x) = 2 - CalcValue(env, y)
        BY <3>1, <4>1, ValuesAre
      <4> QED
        BY <4>2, <4>3
    <3> HIDE DEF C, y
    <3> QED
      BY <3>3, <3>6, <3>7 DEF Tells
  <2>7. CASE x.op \in Junctions
    <3> DEFINE a == C(x.l, "=")
               b == C(x.r, "=")
               j == x.op
               k == Dual(j)
    <3>1. /\ x \in Trees /\ x.l \in Trees /\ x.r \in Trees /\ x = Two(j, x.l, x.r)
          /\ x.l \in Below(x) /\ x.r \in Below(x)
      BY <2>7, JunctionIs DEF Below
    <3>2. C(x, "=") = Two(k, a, b) /\ C(x, "!=") = Not(Two(k, a, b))
      BY <2>1, <2>2, <2>7, <3>1 DEF FormOf, JunctionBy, Trees
    <3>3. Fine(x.l) /\ Fine(x.r)
      BY <1>4, <2>7, <3>1, OrdinaryAre, NormalAre, PlainAre DEF Fine
    <3>4. Tells(x.l, "=", a) /\ Tells(x.r, "=", b)
      BY <1>4, <3>1, <3>3
    <3>5. k \in Junctions /\ j \in Junctions
      BY <2>7 DEF Dual, Junctions
    <3>6. a \in Trees /\ b \in Trees /\ IsOrdinary(a) /\ IsOrdinary(b)
      BY <3>4 DEF Tells
    <3> HIDE DEF a, b, C
    <3>7. Two(k, a, b) \in Trees /\ IsOrdinary(Two(k, a, b))
      BY <3>5, <3>6, TreesAre, OrdinaryAre
    <3>8. ASSUME NEW env, IsEnv(env)
          PROVE  CalcValue(env, Two(k, a, b)) = IF CalcValue(env, x) = 0 THEN 2 ELSE 0
      <4>1. IsTri(env)
        BY <3>8, EnvIsTri
      <4>2. CalcValue(env, Two(k, a, b)) = Combine(k, CalcValue(env, a), CalcValue(env, b))
        BY <3>5, <3>6, <4>1, ValuesAre
      <4>3. CalcValue(env, Two(j, x.l, x.r)) = Combine(j, CalcValue(env, x.l), CalcValue(env, x.r))
        BY <3>1, <3>5, <4>1, ValuesAre
      <4>4. CalcValue(env, x.l) \in Tri /\ CalcValue(env, x.r) \in Tri
        BY <3>1, <4>1, ValueIs DEF Trees
      <4>5. /\ CalcValue(env, a) = IF CalcValue(env, x.l) = 0 THEN 2 ELSE 0
            /\ CalcValue(env, b) = IF CalcValue(env, x.r) = 0 THEN 2 ELSE 0
        BY <3>4, <3>8 DEF Tells
      <4>6. CalcValue(env, x) = CalcValue(env, Two(j, x.l, x.r))
        BY <3>1
      <4> HIDE DEF j
      <4>7. (j = "and" /\ k = "or") \/ (j = "or" /\ k = "and")
        BY <3>5 DEF Dual, Junctions
      <4> HIDE DEF k
      <4> QED
        BY <4>2, <4>3, <4>4, <4>5, <4>6, <4>7 DEF Combine, Lesser, Greater, Tri
    <3>9. Tells(x, "=", Two(k, a, b))
      BY <3>7, <3>8 DEF Tells
    <3> HIDE DEF j, k
    <3> QED
      BY <3>2, <3>9, NegationTells
  <2> QED
    BY <2>3, <2>4, <2>5, <2>6, <2>7, FormsAre
<1>5. \A x \in Exprs : Below(x) \subseteq P => x \in P
  BY <1>4
<1>6. Exprs \subseteq P
  <2> HIDE DEF P
  <2> QED
    BY <1>5, TreeInduction
<1> QED
  BY <1>6 DEF Tests

(* What IsSuperset compares: whether the condition is n.                   *)
LEMMA IsTrueIs ==
  ASSUME AllTrees, NEW e \in Exprs, Fine(e)
  PROVE  /\ IsTrue(e) \in Trees
         /\ \A env : IsEnv(env) => CalcValue(env, IsTrue(e)) = IF CalcValue(env, e) = 0 THEN 0 ELSE 2
<1> DEFINE c == TransCompare(e, "!=", "n")
           t == Transform[c]
           d == EliminateDups[t]
<1>1. Tells(e, "!=", c)
  BY CompareTells DEF Tests
<1>2. c \in Trees /\ c \in Exprs /\ IsOrdinary(c)
  BY <1>1 DEF Tells, Trees
<1>3. \A env : IsEnv(env) => CalcValue(env, c) = IF CalcValue(env, e) = 0 THEN 0 ELSE 2
  BY <1>1 DEF Tells
<1> HIDE DEF c
<1>4. t \in Trees /\ t \in Exprs /\ Same(c, t)
  BY <1>2, TransformMaps, TransformKeeps
<1>5. Good(t) /\ \A env : IsEnv(env) => CalcValue(env, t) = CalcValue(env, c)
  BY <1>2, <1>4 DEF Same, Good
<1> HIDE DEF t
<1>6. d \in Deduped(t)
  BY <1>4, EliminateDupsEnds
<1>7. d \in Trees /\ \A env : IsEnv(env) => CalcValue(env, d) = CalcValue(env, t)
  BY <1>4, <1>5, <1>6 DEF Deduped, Keeps
<1>8. IsTrue(e) = d
  BY DEF IsTrue, d, t, c
<1> HIDE DEF d
<1> QED
  BY <1>3, <1>5, <1>7, <1>8

(* Combine does not turn the order of values around.                       *)
LEMMA CombineRises ==
  ASSUME NEW j \in Junctions, NEW u \in Tri, NEW v \in Tri, NEW c \in Tri, Combine(j, v, c) < Combine(j, u, c)
  PROVE  v < u
BY DEF Combine, Lesser, Greater, Tri, Junctions

(* The second of two trees has at least the value of the first.            *)
Ordered(env, p) == p[1] \in Trees /\ p[2] \in Trees /\ CalcValue(env, p[1]) =< CalcValue(env, p[2])

(* Before __expr_eliminate_eq they were in the same order, if not equal.   *)
FromOrdered(env, p, q) ==
  /\ q[1] \in Trees /\ q[2] \in Trees
  /\ CalcValue(env, q[1]) =< CalcValue(env, q[2]) => CalcValue(env, p[1]) =< CalcValue(env, p[2])

LEMMA StrikeOrders ==
  ASSUME AllTrees, NEW j \in Junctions, NEW e \in Trees, NEW f \in Trees, NEW env, IsTri(env)
  PROVE  FromOrdered(env, <<e, f>>, StrikeCommon(ExprEq, j, e, f))
<1> DEFINE st == Struck(ExprEq, j, e, f)
           W1 == WithOperands(j, e, st[1])
           W2 == WithOperands(j, f, st[2])
           V(x) == CalcValue(env, x)
<1>1. Truthful(Trees, Trees, env, ExprEq)
  BY ExprEqSound DEF Truthful, Trees
<1>2. /\ Operands(j, e) \in Chains(Trees, Len(Operands(j, e)))
      /\ Operands(j, f) \in Chains(Trees, Len(Operands(j, f)))
  <2>1. Operands(j, e) \in Seq(Trees) /\ Operands(j, f) \in Seq(Trees)
    BY OperandsTrees
  <2> QED
    BY <2>1 DEF Chains
<1>3. Sym(Neutral(j)) \in Trees /\ Trees \in SUBSET Trees
  BY NeutralIs
<1>4. /\ W1 \in Trees /\ W2 \in Trees
      /\ \E c \in Tri : V(e) = Combine(j, V(W1), c) /\ V(f) = Combine(j, V(W2), c)
  BY <1>1, <1>2, <1>3, StruckValues
<1>5. StrikeCommon(ExprEq, j, e, f) = <<W1, W2>>
  BY DEF StrikeCommon, WithBoth, Struck
<1> HIDE DEF W1, W2
<1>6. V(W1) \in Tri /\ V(W2) \in Tri /\ V(e) \in Tri /\ V(f) \in Tri
  BY <1>4, ValueIs DEF Trees
<1>7. PICK c \in Tri : V(e) = Combine(j, V(W1), c) /\ V(f) = Combine(j, V(W2), c)
  BY <1>4
<1>8. V(W1) =< V(W2) => V(e) =< V(f)
  <2> HIDE DEF V
  <2> QED
    BY <1>6, <1>7, CombineRises DEF Tri
<1> QED
  BY <1>4, <1>5, <1>8 DEF FromOrdered

(* expr_eliminate_eq: when the second tree has at least the value of the   *)
(* first after it, it had before.                                          *)
LEMMA EliminateEqOrders ==
  ASSUME AllTrees, NEW e \in Trees, NEW f \in Trees, NEW env, IsTri(env)
  PROVE  FromOrdered(env, <<e, f>>, EliminateEq(ExprEq, e, f))
<1> DEFINE p == <<e, f>>
           q == StrikeIf(ExprEq, e.op, p)
           r == StrikeAgain(ExprEq, q)
<1>1. \A j, x : x \in Trees \X Trees =>
        FromOrdered(env, x, StrikeIf(ExprEq, j, x)) /\ StrikeIf(ExprEq, j, x) = <<StrikeIf(ExprEq, j, x)[1], StrikeIf(ExprEq, j, x)[2]>>
  <2> SUFFICES ASSUME NEW j, NEW x \in Trees \X Trees
               PROVE  FromOrdered(env, x, StrikeIf(ExprEq, j, x)) /\ StrikeIf(ExprEq, j, x) = <<StrikeIf(ExprEq, j, x)[1], StrikeIf(ExprEq, j, x)[2]>>
    OBVIOUS
  <2>1. x[1] \in Trees /\ x[2] \in Trees /\ x = <<x[1], x[2]>>
    OBVIOUS
  <2>2. CASE j \in Junctions
    <3>1. FromOrdered(env, <<x[1], x[2]>>, StrikeCommon(ExprEq, j, x[1], x[2]))
      BY <2>1, <2>2, StrikeOrders
    <3>2. StrikeIf(ExprEq, j, x) = StrikeCommon(ExprEq, j, x[1], x[2])
      BY <2>2 DEF StrikeIf
    <3> QED
      BY <2>1, <3>1, <3>2 DEF StrikeCommon, WithBoth
  <2>3. CASE j \notin Junctions
    BY <2>1, <2>3 DEF StrikeIf, FromOrdered
  <2> QED
    BY <2>2, <2>3
<1>2. p \in Trees \X Trees
  OBVIOUS
<1>3. FromOrdered(env, p, q) /\ q \in Trees \X Trees
  BY <1>1, <1>2 DEF FromOrdered
<1> HIDE DEF p, q
<1>4. FromOrdered(env, q, r) /\ r \in Trees \X Trees
  <2>1. CASE q[1].op # q[2].op
    <3>1. r = StrikeIf(ExprEq, q[2].op, q)
      BY <2>1 DEF StrikeAgain
    <3> QED
      BY <1>1, <1>3, <3>1 DEF FromOrdered
  <2>2. CASE q[1].op = q[2].op
    BY <1>3, <2>2 DEF StrikeAgain, FromOrdered
  <2> QED
    BY <2>1, <2>2
<1> HIDE DEF r
<1>5. FromOrdered(env, r, TidyBoth(r))
  <2>1. r[1] \in Trees /\ r[2] \in Trees
    BY <1>4
  <2>2. EliminateYN[r[1]] \in Trees /\ EliminateYN[r[2]] \in Trees
    BY <2>1, EliminateYNIs DEF Trees
  <2>3. CalcValue(env, EliminateYN[r[1]]) = CalcValue(env, r[1]) /\ CalcValue(env, EliminateYN[r[2]]) = CalcValue(env, r[2])
    BY <2>1, EliminateYNKeeps
  <2> QED
    BY <2>2, <2>3 DEF TidyBoth, FromOrdered
<1>6. EliminateEq(ExprEq, e, f) = TidyBoth(r)
  BY DEF EliminateEq, r, q, p, Trees
<1> QED
  BY <1>3, <1>4, <1>5, <1>6 DEF FromOrdered, p

(* expr_eliminate_eq leaves y of the second condition: where the first one *)
(* holds, so does the second.                                              *)
LEMMA SupersetIs ==
  ASSUME AllTrees, NEW e \in Exprs, NEW f \in Exprs, Fine(e), Fine(f), IsSuperset(e, f),
         NEW env, IsEnv(env), CalcValue(env, e) # 0
  PROVE  CalcValue(env, f) # 0
<1> DEFINE a == IsTrue(e)
           b == IsTrue(f)
           q == EliminateEq(ExprEq, a, b)
<1>1. IsTri(env)
  BY EnvIsTri
<1>2. a \in Trees /\ CalcValue(env, a) = 2
  BY IsTrueIs
<1>3. b \in Trees /\ CalcValue(env, b) = IF CalcValue(env, f) = 0 THEN 0 ELSE 2
  BY IsTrueIs
<1> HIDE DEF a, b
<1>4. FromOrdered(env, <<a, b>>, q)
  BY <1>1, <1>2, <1>3, EliminateEqOrders
<1>5. q[2] = Sym("y")
  BY <1>4 DEF IsSuperset, FromOrdered, Trees, a, b
<1> HIDE DEF q
<1>6. CalcValue(env, q[2]) = 2 /\ CalcValue(env, q[1]) \in Tri
  BY <1>1, <1>4, <1>5, ConstantsAre, ValueIs DEF FromOrdered, Trees
<1>7. CalcValue(env, a) =< CalcValue(env, b)
  BY <1>4, <1>6 DEF FromOrdered, Tri
<1> QED
  BY <1>2, <1>3, <1>7

-----------------------------------------------------------------------------
(* expr_depends_symbol.                                                    *)
DependsOf(depends, e, s) ==
  \/ e.op = "and" /\ (depends[e.l] \/ depends[e.r])
  \/ e.op = "sym" /\ e.a = s
  \/ e.op = "=" /\ e.a = s /\ e.b \in {"y", "m"}
  \/ e.op = "!=" /\ e.a = s /\ e.b = "n"

LEMMA DependsIs ==
  ASSUME AllTrees, NEW s
  PROVE  \E f : \A e \in Exprs : (DependsSymbol(e, s) <=> f[e]) /\ (f[e] <=> DependsOf(f, e, s))
<1> DEFINE Body(f, x) == DependsOf(f, x, s)
           Is(f) == f = [x \in Exprs |-> Body(f, x)]
           D == [f \in [Exprs -> BOOLEAN] |-> [x \in Exprs |-> Body(f, x)]]
<1>1. ASSUME NEW x \in Exprs, NEW f, NEW g, \A y \in Below(x) : f[y] = g[y] PROVE Body(f, x) = Body(g, x)
  <2>1. CASE x.op = "and"
    <3>1. x.l \in Below(x) /\ x.r \in Below(x)
      BY <2>1, JunctionIs DEF Junctions
    <3> QED
      BY <1>1, <2>1, <3>1 DEF DependsOf
  <2>2. CASE x.op # "and"
    BY <2>2 DEF DependsOf
  <2> QED
    BY <2>1, <2>2
<1>2. ASSUME NEW f, NEW x PROVE Body(f, x) \in BOOLEAN
  BY DEF DependsOf
<1> HIDE DEF Body
<1>3. D \in [[Exprs -> BOOLEAN] -> [Exprs -> BOOLEAN]]
  BY <1>2
<1>4. \A f, g \in [Exprs -> BOOLEAN] : \A e \in Exprs :
        (\A x \in Below(e) : f[x] = g[x]) => D[f][e] = D[g][e]
  BY <1>1
<1>5. PICK f \in [Exprs -> BOOLEAN] : D[f] = f
  <2> HIDE DEF D
  <2> QED
    BY <1>3, <1>4, TreeRecursion
<1>6. Is(f)
  BY <1>5
<1> DEFINE t == CHOOSE g : Is(g)
<1>7. Is(t)
  <2> HIDE DEF Is
  <2> QED
    BY <1>6
<1>8. \A e : DependsSymbol(e, s) <=> t[e]
  BY DEF DependsSymbol, DependsOf, Body
<1> HIDE DEF t
<1>9. \A e \in Exprs : t[e] <=> Body(t, e)
  BY <1>7
<1> QED
  BY <1>8, <1>9 DEF Body

(* What depends on a condition is n when the condition is.                 *)
LEMMA DependsHolds ==
  ASSUME AllTrees, NEW s \in Names, Type[s] \in Logical, NEW env, IsEnv(env),
         NEW e \in Exprs, DependsSymbol(e, s), CalcValue(env, e) # 0
  PROVE  SymTri(env, s) # 0
<1> DEFINE P == {x \in Exprs : DependsSymbol(x, s) /\ CalcValue(env, x) # 0 => SymTri(env, s) # 0}
<1>0. IsTri(env)
  BY EnvIsTri
<1>1. ASSUME NEW x \in Exprs, Below(x) \subseteq P, DependsSymbol(x, s), CalcValue(env, x) # 0
      PROVE  SymTri(env, s) # 0
  <2>0. /\ CalcValue(env, Sym(s)) = SymTri(env, s)
        /\ \A w \in TriWords :
             /\ CalcValue(env, Comp("=", s, w)) = IF SymTri(env, s) = TriOf(w) THEN 2 ELSE 0
             /\ CalcValue(env, Comp("!=", s, w)) = IF SymTri(env, s) = TriOf(w) THEN 0 ELSE 2
    BY AboutValues
  <2>00. TriOf("y") # 0 /\ TriOf("m") # 0 /\ TriOf("n") = 0 /\ {"y", "m", "n"} = TriWords
    BY DEF TriOf, TriWords
  <2>1. PICK f : \A y \in Exprs : (DependsSymbol(y, s) <=> f[y]) /\ (f[y] <=> DependsOf(f, y, s))
    BY DependsIs
  <2>2. DependsOf(f, x, s)
    BY <1>1, <2>1
  <2>3. x.op \in {"sym", "=", "!="} => x \in Leaves
    BY TreesAre DEF Trees, NoExpr, Not, Junctions
  <2>4. CASE x.op = "and" /\ (f[x.l] \/ f[x.r])
    <3>1. /\ x.l \in Below(x) /\ x.r \in Below(x) /\ x = Two("and", x.l, x.r)
          /\ x.l \in Trees /\ x.r \in Trees /\ "and" \in Junctions
      BY <2>4, JunctionIs DEF Junctions
    <3>2. CalcValue(env, Two("and", x.l, x.r)) = Combine("and", CalcValue(env, x.l), CalcValue(env, x.r))
      BY <1>0, <3>1, ValuesAre
    <3>3. CalcValue(env, x.l) \in Tri /\ CalcValue(env, x.r) \in Tri
      BY <1>0, <3>1, ValueIs DEF Trees
    <3>4. CalcValue(env, x.l) # 0 /\ CalcValue(env, x.r) # 0
      BY <1>1, <3>1, <3>2, <3>3 DEF Combine, Lesser, Tri
    <3>5. DependsSymbol(x.l, s) \/ DependsSymbol(x.r, s)
      BY <2>1, <2>4, <3>1 DEF Trees
    <3> QED
      BY <1>1, <3>1, <3>4, <3>5
  <2>5. CASE x.op = "sym" /\ x.a = s
    <3>1. x = Sym(s)
      BY <2>3, <2>5, LeavesAre DEF Relations
    <3> QED
      BY <1>1, <2>0, <3>1
  <2>6. CASE x.op = "=" /\ x.a = s /\ x.b \in {"y", "m"}
    <3>1. x = Comp("=", s, x.b)
      BY <2>3, <2>6, LeavesAre
    <3> QED
      BY <1>1, <2>0, <2>00, <2>6, <3>1
  <2>7. CASE x.op = "!=" /\ x.a = s /\ x.b = "n"
    <3>1. x = Comp("!=", s, "n")
      BY <2>3, <2>7, LeavesAre
    <3> QED
      BY <1>1, <2>0, <2>00, <3>1
  <2> QED
    BY <2>2, <2>4, <2>5, <2>6, <2>7 DEF DependsOf
<1>2. \A x \in Exprs : Below(x) \subseteq P => x \in P
  BY <1>1
<1>3. Exprs \subseteq P
  <2> HIDE DEF P
  <2> QED
    BY <1>2, TreeInduction
<1> QED
  BY <1>3

-----------------------------------------------------------------------------
(* Conditions that negate no tristate.                                     *)

(* IsBool and IsSimple, by the form of the expression.                     *)
LEMMA SimpleAre ==
  ASSUME AllTrees
  PROVE  /\ IsBool(NoExpr) /\ IsSimple(NoExpr)
         /\ \A e \in Leaves : (IsBool(e) <=> BoolPart(e)) /\ (IsSimple(e) <=> SimplePart(e))
         /\ \A e \in Trees : (IsBool(Not(e)) <=> IsBool(e)) /\ (IsSimple(Not(e)) <=> IsSimple(e) /\ IsBool(e))
         /\ \A j \in Junctions : \A e, f \in Trees :
              /\ IsBool(Two(j, e, f)) <=> IsBool(e) /\ IsBool(f)
              /\ IsSimple(Two(j, e, f)) <=> IsSimple(e) /\ IsSimple(f)
<1>0. \A e : (IsBool(e) <=> \A f \in Parts[e] : BoolPart(f)) /\ (IsSimple(e) <=> \A f \in Parts[e] : SimplePart(f))
  BY DEF IsBool, IsSimple
<1>1. IsBool(NoExpr) /\ IsSimple(NoExpr)
  <2>1. Parts[NoExpr] = {NoExpr}
    BY PartsAre, TreesAre DEF NoExpr, Junctions
  <2>2. BoolPart(NoExpr) /\ SimplePart(NoExpr)
    BY DEF BoolPart, SimplePart, NoExpr
  <2> QED
    BY <1>0, <2>1, <2>2
<1>2. ASSUME NEW e \in Leaves PROVE (IsBool(e) <=> BoolPart(e)) /\ (IsSimple(e) <=> SimplePart(e))
  <2>1. Parts[e] = {e}
    BY PartsAre, TreesAre DEF Trees, Leaves, Sym, Relations, Junctions
  <2> QED
    BY <1>0, <2>1
<1>3. ASSUME NEW e \in Trees
      PROVE  (IsBool(Not(e)) <=> IsBool(e)) /\ (IsSimple(Not(e)) <=> IsSimple(e) /\ IsBool(e))
  <2>1. Not(e) \in Exprs /\ Not(e).op = "not" /\ Not(e).l = e
    BY TreesAre DEF Trees, Not
  <2>2. Parts[Not(e)] = {Not(e)} \cup Parts[e]
    BY <2>1, PartsAre
  <2>3. BoolPart(Not(e)) /\ (SimplePart(Not(e)) <=> IsBool(e))
    BY <2>1 DEF BoolPart, SimplePart
  <2> QED
    BY <1>0, <2>2, <2>3
<1>4. ASSUME NEW j \in Junctions, NEW e \in Trees, NEW f \in Trees
      PROVE  /\ IsBool(Two(j, e, f)) <=> IsBool(e) /\ IsBool(f)
             /\ IsSimple(Two(j, e, f)) <=> IsSimple(e) /\ IsSimple(f)
  <2>1. Two(j, e, f) \in Exprs /\ Two(j, e, f).op = j /\ Two(j, e, f).l = e /\ Two(j, e, f).r = f
    BY TreesAre DEF Trees, Two
  <2>2. Parts[Two(j, e, f)] = {Two(j, e, f)} \cup Parts[e] \cup Parts[f]
    BY <2>1, PartsAre DEF Junctions
  <2>3. BoolPart(Two(j, e, f)) /\ SimplePart(Two(j, e, f))
    BY <2>1 DEF BoolPart, SimplePart, Junctions
  <2> QED
    BY <1>0, <2>2, <2>3
<1> QED
  BY <1>1, <1>2, <1>3, <1>4

(* An expression of bools negates no tristate.                             *)
LEMMA BoolIsSimple ==
  ASSUME AllTrees, NEW e \in Exprs, IsBool(e)
  PROVE  IsSimple(e)
<1> DEFINE P == {x \in Exprs : IsBool(x) => IsSimple(x)}
<1>1. ASSUME NEW x \in Exprs, Below(x) \subseteq P, IsBool(x) PROVE IsSimple(x)
  <2>1. CASE x = NoExpr
    BY <2>1, SimpleAre
  <2>2. CASE x \in Leaves
    <3>1. BoolPart(x) /\ x.op # "not"
      BY <1>1, <2>2, SimpleAre DEF Leaves, Sym, Relations
    <3> QED
      BY <2>2, <3>1, SimpleAre DEF BoolPart, SimplePart, Logical
  <2>3. CASE x \in Trees /\ x.op = "not"
    <3>1. x.l \in Below(x) /\ x.l \in Trees /\ x = Not(x.l)
      BY <2>3, NegationIs DEF Below
    <3> QED
      BY <1>1, <3>1, SimpleAre
  <2>4. CASE x \in Trees /\ x.op \in Junctions
    <3>1. x.l \in Below(x) /\ x.r \in Below(x) /\ x.l \in Trees /\ x.r \in Trees /\ x = Two(x.op, x.l, x.r)
      BY <2>4, JunctionIs
    <3> QED
      BY <1>1, <2>4, <3>1, SimpleAre
  <2> QED
    BY <2>1, <2>2, <2>3, <2>4, TreesAre DEF Trees
<1>2. \A x \in Exprs : Below(x) \subseteq P => x \in P
  BY <1>1
<1>3. Exprs \subseteq P
  <2> HIDE DEF P
  <2> QED
    BY <1>2, TreeInduction
<1> QED
  BY <1>3

(* The symbol with "option modules" is a bool, or there is none.           *)
PlainModules == Type[Modules] = "bool" \/ Modules \in TriWords

(* rewrite_m.                                                              *)
LEMMA RewriteMSimple ==
  ASSUME AllTrees, PlainModules, NEW e \in Exprs
  PROVE  /\ IsBool(e) => IsBool(RewriteM(e, Modules))
         /\ IsSimple(e) => IsSimple(RewriteM(e, Modules))
<1> DEFINE m == Modules
           f == [x \in Exprs |-> RewriteM(x, m)]
           Stays(x, y) == (IsBool(x) => IsBool(y)) /\ (IsSimple(x) => IsSimple(y))
           P == {x \in Exprs : Stays(x, RewriteM(x, m))}
<1>0. m \in Names
  BY ModulesAssumption DEF Names
<1>1. ASSUME NEW x \in Exprs, Below(x) \subseteq P PROVE Stays(x, RewriteM(x, m))
  <2>0. \A y \in Below(x) : f[y] = RewriteM(y, m) /\ f[y] \in Trees /\ Stays(y, f[y])
    BY <1>0, <1>1, RewriteMIs DEF Below, Trees
  <2>00. RewriteM(x, m) = RewriteMOf(f, x, m)
    BY <1>0, RewriteMIs
  <2> HIDE DEF f, P
  <2>1. CASE x = NoExpr
    BY <1>0, <2>1, RewriteMIs
  <2>2. CASE x \in Leaves
    <3>1. Sym(m) \in Leaves /\ x \in Trees /\ Sym(m) \in Trees
      BY <1>0, <2>2, TreesAre DEF Leaves, Names
    <3>2. RewriteM(x, m) = IF x = Sym("m") THEN Two("and", x, Sym(m)) ELSE x
      BY <2>00, <2>2 DEF RewriteMOf, Leaves, Sym, Relations, Junctions
    <3>3. BoolPart(Sym(m)) /\ SimplePart(Sym(m))
      BY DEF BoolPart, SimplePart, Sym, PlainModules, Logical
    <3>4. "and" \in Junctions
      BY DEF Junctions
    <3> HIDE DEF m
    <3> QED
      BY <3>1, <3>2, <3>3, <3>4, SimpleAre
  <2>3. CASE x \in Trees /\ x.op = "not"
    <3>1. x.l \in Below(x) /\ x.l \in Trees /\ x = Not(x.l)
      BY <2>3, NegationIs DEF Below
    <3>2. RewriteM(x, m) = Not(f[x.l])
      BY <2>00, <2>3 DEF RewriteMOf, Junctions, Sym
    <3> HIDE DEF m
    <3> QED
      BY <2>0, <3>1, <3>2, SimpleAre
  <2>4. CASE x \in Trees /\ x.op \in Junctions
    <3>1. x.l \in Below(x) /\ x.r \in Below(x) /\ x.l \in Trees /\ x.r \in Trees /\ x = Two(x.op, x.l, x.r)
      BY <2>4, JunctionIs
    <3>2. RewriteM(x, m) = Two(x.op, f[x.l], f[x.r])
      BY <2>00, <2>4 DEF RewriteMOf, Junctions, Sym
    <3> HIDE DEF m
    <3>3. f[x.l] \in Trees /\ f[x.r] \in Trees /\ Stays(x.l, f[x.l]) /\ Stays(x.r, f[x.r])
      BY <2>0, <3>1
    <3> QED
      BY <2>4, <3>1, <3>2, <3>3, SimpleAre
  <2> QED
    BY <2>1, <2>2, <2>3, <2>4, TreesAre DEF Trees
<1>2. \A x \in Exprs : Below(x) \subseteq P => x \in P
  BY <1>1
<1>3. Exprs \subseteq P
  <2> HIDE DEF P
  <2> QED
    BY <1>2, TreeInduction
<1> QED
  BY <1>3

(* A comparison of a bool.                                                 *)
LEMMA BoolTestSimple ==
  ASSUME AllTrees, NEW e \in Leaves, e.op \in {"=", "!="}, Type[e.a] = "bool"
  PROVE  IsBool(BoolTest(e)) /\ IsPlain(BoolTest(e))
<1>1. e.a \in Names
  BY LeavesAre
<1>2. \A s \in Names : Sym(s) \in Leaves /\ Sym(s) \in Trees
  BY TreesAre DEF Leaves, Names
<1>3. "y" \in Names /\ "n" \in Names /\ "y" \in TriWords /\ "n" \in TriWords
  BY WordsAssumption DEF TriWords, Names
<1>4. BoolTest(e) \in {e, Sym(e.a), Not(Sym(e.a)), Sym("y"), Sym("n")}
  BY BoolTestIs
<1>5. IsBool(e) /\ IsPlain(e)
  BY SimpleAre, PlainAre DEF BoolPart, PlainPart
<1>6. IsBool(Sym(e.a)) /\ IsPlain(Sym(e.a)) /\ IsBool(Not(Sym(e.a))) /\ IsPlain(Not(Sym(e.a)))
  <2>1. BoolPart(Sym(e.a)) /\ PlainPart(Sym(e.a)) /\ Sym(e.a).a = e.a
    BY DEF BoolPart, PlainPart, Sym, Logical
  <2> QED
    BY <1>1, <1>2, <2>1, SimpleAre, PlainAre
<1>7. \A w \in TriWords : BoolPart(Sym(w)) /\ PlainPart(Sym(w))
  BY DEF BoolPart, PlainPart, Sym
<1>8. IsBool(Sym("y")) /\ IsPlain(Sym("y")) /\ IsBool(Sym("n")) /\ IsPlain(Sym("n"))
  BY <1>2, <1>3, <1>7, SimpleAre, PlainAre
<1> QED
  BY <1>4, <1>5, <1>6, <1>8

(* expr_transform negates no tristate when none was negated.               *)
LEMMA TransformSimple ==
  ASSUME AllTrees, NEW e \in Exprs
  PROVE  /\ IsBool(e) => IsBool(Transform[e])
         /\ IsSimple(e) => IsPlain(Transform[e])
<1>0. PICK w \in Weights : TRUE
  BY WeightsExist
<1>00. w \in [Exprs -> Nat] /\ \A x \in Trees : w[x] \in Nat /\ w[x] >= 1
  BY DEF Weights, Trees
<1> DEFINE Turns(x, y) == (IsBool(x) => IsBool(y)) /\ (IsSimple(x) => IsPlain(y))
           P == {x \in Exprs : Turns(x, Transform[x])}
<1>1. ASSUME NEW x \in Exprs, \A y \in Exprs : w[y] < w[x] => y \in P PROVE Turns(x, Transform[x])
  <2>0. Transform[x] = TransformOf(Transform, x)
    BY TransformMaps
  <2>00. \A y \in Trees : w[y] < w[x] => Turns(y, Transform[y]) /\ Transform[y] \in Trees
    BY <1>1, TransformMaps DEF Trees
  <2> HIDE DEF P
  <2>1. CASE x = NoExpr
    BY <2>1, TransformMaps, SimpleAre, PlainAre
  <2>2. CASE x \in Leaves
    <3>1. CASE x.op \in {"=", "!="} /\ Type[x.a] = "bool"
      <4>1. Transform[x] = BoolTest(x)
        BY <2>0, <3>1 DEF TransformOf, Junctions
      <4> QED
        BY <2>2, <3>1, <4>1, BoolTestSimple
    <3>2. CASE ~(x.op \in {"=", "!="} /\ Type[x.a] = "bool")
      <4>1. Transform[x] = x
        BY <2>0, <2>2, <3>2 DEF TransformOf, Leaves, Sym, Relations, Junctions
      <4>2. SimplePart(x) => PlainPart(x)
        BY <2>2 DEF SimplePart, PlainPart, Leaves, Sym, Relations
      <4> QED
        BY <2>2, <4>1, <4>2, SimpleAre, PlainAre
    <3> QED
      BY <3>1, <3>2
  <2>3. CASE x \in Trees /\ x.op = "not"
    <3> DEFINE t == Transform[x.l]
    <3>1. x.l \in Trees /\ x = Not(x.l)
      BY <2>3, NegationIs
    <3>2. w[x] = 2 * w[x.l] /\ w[x.l] < w[x]
      <4>1. w[x] = 2 * w[x.l] /\ w[x.l] \in Nat /\ w[x.l] >= 1
        BY <1>00, <3>1 DEF Weights
      <4> QED
        BY <4>1
    <3>3. t \in Trees /\ Turns(x.l, t)
      BY <2>00, <3>1, <3>2
    <3>4. w[t] =< w[x.l]
      BY <3>1, TransformIs DEF Within, Trees
    <3>5. (IsBool(x) => IsBool(x.l)) /\ (IsSimple(x) => IsBool(x.l))
      BY <3>1, SimpleAre
    <3>7. Transform[x] = TransformNot(Transform, t)
      BY <2>0, <2>3 DEF TransformOf, Junctions
    <3> SUFFICES ASSUME IsBool(x.l) PROVE IsBool(Transform[x]) /\ IsPlain(Transform[x])
      BY <3>5
    <3> HIDE DEF t
    <3>6. IsBool(t)
      BY <3>3
    <3>8. ASSUME NEW u \in Trees, w[u] < w[x], IsBool(u), Transform[x] = Transform[u]
          PROVE  IsBool(Transform[x]) /\ IsPlain(Transform[x])
      BY <2>00, <3>8, BoolIsSimple DEF Trees
    <3>9. CASE t.op = "not" /\ Transform[x] = Transform[t.l]
      <4>1. t.l \in Trees /\ t = Not(t.l)
        BY <3>3, <3>9, NegationIs DEF Trees
      <4>2. w[t.l] < w[x]
        <5>1. w[t] = 2 * w[t.l] /\ w[t.l] \in Nat /\ w[t.l] >= 1 /\ w[x.l] \in Nat
          BY <1>00, <3>1, <4>1 DEF Weights
        <5> QED
          BY <3>2, <3>4, <5>1
      <4>3. IsBool(t.l)
        BY <3>6, <4>1, SimpleAre
      <4> QED
        BY <3>8, <3>9, <4>1, <4>2, <4>3
    <3>10. CASE t.op \in Relations /\ Transform[x] = Comp(Opposite(t.op), t.a, t.b)
      <4> DEFINE u == Comp(Opposite(t.op), t.a, t.b)
      <4>1. t \in Leaves /\ t.a \in Names /\ t.b \in Names
        BY <3>3, <3>10, TreesAre, LeavesAre DEF Relations, Junctions
      <4>2. Opposite(t.op) \in Relations
        BY <3>10 DEF Opposite, Relations
      <4>3. u \in Leaves
        BY <4>1, <4>2 DEF Comp, Leaves, Names
      <4>4. BoolPart(u) /\ PlainPart(u)
        BY <4>2 DEF BoolPart, PlainPart, Comp, Relations
      <4> HIDE DEF u
      <4>5. IsBool(u) /\ IsPlain(u)
        BY <4>3, <4>4, SimpleAre, PlainAre
      <4> QED
        BY <3>10, <4>5 DEF u
    <3>11. ASSUME NEW j \in Junctions, t.op \in Junctions,
                  Transform[x] = Transform[Two(j, Not(t.l), Not(t.r))]
           PROVE  IsBool(Transform[x]) /\ IsPlain(Transform[x])
      <4> DEFINE u == Two(j, Not(t.l), Not(t.r))
      <4>1. t.l \in Trees /\ t.r \in Trees /\ t = Two(t.op, t.l, t.r)
        BY <3>3, <3>11, JunctionIs DEF Trees
      <4>2. Not(t.l) \in Trees /\ Not(t.r) \in Trees /\ u \in Trees
        BY <4>1, TreesAre
      <4>3. w[u] < w[x]
        <5>1. w[Not(t.l)] = 2 * w[t.l] /\ w[Not(t.r)] = 2 * w[t.r]
          BY <4>1 DEF Weights
        <5>2. w[u] = 1 + w[Not(t.l)] + w[Not(t.r)]
          BY <4>2 DEF Weights
        <5>3. w[t] = 1 + w[t.l] + w[t.r]
          BY <3>11, <4>1 DEF Weights
        <5>4. w[t.l] \in Nat /\ w[t.r] \in Nat /\ w[x.l] \in Nat
          BY <1>00, <3>1, <4>1
        <5> QED
          BY <3>2, <3>4, <5>1, <5>2, <5>3, <5>4
      <4>4. IsBool(u)
        <5>1. IsBool(t.l) /\ IsBool(t.r)
          BY <3>6, <3>11, <4>1, SimpleAre
        <5>2. IsBool(Not(t.l)) /\ IsBool(Not(t.r))
          BY <4>1, <5>1, SimpleAre
        <5> QED
          BY <4>2, <5>2, SimpleAre
      <4> HIDE DEF u
      <4> QED
        BY <3>8, <3>11, <4>2, <4>3, <4>4 DEF u
    <3>12. ASSUME NEW v \in TriWords, Transform[x] = Sym(v)
           PROVE  IsBool(Transform[x]) /\ IsPlain(Transform[x])
      <4>1. Sym(v) \in Leaves
        BY WordsAssumption DEF Leaves
      <4>2. BoolPart(Sym(v)) /\ PlainPart(Sym(v))
        BY DEF BoolPart, PlainPart, Sym
      <4> QED
        BY <3>12, <4>1, <4>2, SimpleAre, PlainAre
    <3>13. CASE t.op = "sym" /\ t.a \notin TriWords /\ Transform[x] = Not(t)
      <4>1. t \in Leaves
        BY <3>3, <3>13, TreesAre DEF Not, Junctions
      <4>2. Type[t.a] = "bool"
        BY <3>6, <3>13, <4>1, SimpleAre DEF BoolPart
      <4>3. PlainPart(t)
        BY <3>13, <4>2 DEF PlainPart, Logical
      <4> QED
        BY <3>3, <3>6, <3>13, <4>1, <4>2, <4>3, SimpleAre, PlainAre
    <3>14. "and" \in Junctions /\ "or" \in Junctions /\ TriWords = {"y", "m", "n"}
      BY DEF TriWords, Junctions
    <3>15. CASE t.op = "sym"
      <4>1. t \in Leaves /\ t = Sym(t.a)
        BY <3>3, <3>15, TreesAre, LeavesAre DEF Not, Junctions, Relations
      <4>2. CASE t.a \in TriWords
        <5>1. Transform[x] \in {Sym("n"), Sym("m"), Sym("y")}
          BY <3>7, <3>14, <3>15, <4>2 DEF TransformNot, Relations
        <5> QED
          BY <3>12, <3>14, <5>1
      <4>3. CASE t.a \notin TriWords
        <5>1. Transform[x] = Not(t)
          BY <3>7, <3>14, <3>15, <4>3 DEF TransformNot, Relations
        <5> QED
          BY <3>13, <3>15, <4>3, <5>1
      <4> QED
        BY <4>2, <4>3
    <3>16. CASE t.op \in Junctions
      <4>1. \/ Transform[x] = Transform[Two("and", Not(t.l), Not(t.r))]
            \/ Transform[x] = Transform[Two("or", Not(t.l), Not(t.r))]
        BY <3>7, <3>16 DEF TransformNot, Relations, Junctions
      <4> QED
        BY <3>11, <3>14, <3>16, <4>1
    <3>17. CASE t.op \notin Junctions /\ t.op # "sym"
      <4>1. \/ t.op = "not" /\ Transform[x] = Transform[t.l]
            \/ t.op \in Relations /\ Transform[x] = Comp(Opposite(t.op), t.a, t.b)
        BY <3>3, <3>7, <3>14, <3>17, TransformNotIs DEF Sym
      <4> QED
        BY <3>9, <3>10, <4>1
    <3> QED
      BY <3>15, <3>16, <3>17
  <2>4. CASE x \in Trees /\ x.op \in Junctions
    <3> DEFINE a == Transform[x.l]
               b == Transform[x.r]
    <3>1. x.l \in Trees /\ x.r \in Trees /\ x = Two(x.op, x.l, x.r)
      BY <2>4, JunctionIs
    <3>2. w[x.l] < w[x] /\ w[x.r] < w[x]
      <4>1. w[x] = 1 + w[x.l] + w[x.r] /\ w[x.l] \in Nat /\ w[x.r] \in Nat
        BY <1>00, <2>4, <3>1 DEF Weights
      <4> QED
        BY <4>1
    <3>3. a \in Trees /\ b \in Trees /\ Turns(x.l, a) /\ Turns(x.r, b)
      BY <2>00, <3>1, <3>2
    <3>4. Transform[x] = Two(x.op, a, b)
      BY <2>0, <2>4 DEF TransformOf, Junctions
    <3> HIDE DEF a, b
    <3> QED
      BY <2>4, <3>1, <3>3, <3>4, SimpleAre, PlainAre
  <2> QED
    BY <2>1, <2>2, <2>3, <2>4, TreesAre DEF Trees
<1>2. \A x \in Exprs : (\A y \in Exprs : w[y] < w[x] => y \in P) => x \in P
  BY <1>1
<1>3. Exprs \subseteq P
  <2> HIDE DEF P
  <2> QED
    BY <1>00, <1>2, RankInduction
<1> QED
  BY <1>3

-----------------------------------------------------------------------------
(* The steps of menu_finalize.                                            *)

(* In the phases "entry" and "prompt" the expression is one that           *)
(* expr_eliminate_dups may work on, and has the value that was written.    *)
KeptSoFar ==
  phase \in {"entry", "prompt"} =>
    Good(expr) /\ \A env : IsEnv(env) => CalcValue(env, expr) = Written(env)

(* After expr_trans_bool.                                                  *)
KeptAtEnd ==
  phase \in {"visible", "done"} =>
    \A env : IsEnv(env) =>
      IF input.owner = "tristate" THEN CalcValue(env, expr) = Written(env)
      ELSE CalcValue(env, expr) = 0 <=> Written(env) = 0

IInv ==
  /\ input \in Cases /\ expr \in Exprs
  /\ phase \in {"start", "entry", "prompt", "visible", "done"}
  /\ KeptSoFar
  /\ KeptAtEnd

(* What the assumptions say of a case.                                     *)
LEMMA CasesAre ==
  ASSUME NEW c \in Cases
  PROVE  /\ c.parent \in Exprs /\ IsOrdinary(c.parent) /\ IsNormal(c.parent)
         /\ c.dep \in Exprs /\ IsOrdinary(c.dep)
         /\ c.cond \in Exprs /\ IsOrdinary(c.cond)
BY CasesAssumption

(* A condition that is added to the expression.                            *)
LEMMA ConditionIs ==
  ASSUME AllTrees, NEW e \in Exprs, IsOrdinary(e)
  PROVE  /\ Transform[RewriteM(e, Modules)] \in Exprs
         /\ Good(Transform[RewriteM(e, Modules)])
         /\ \A env : IsEnv(env) =>
              CalcValue(env, Transform[RewriteM(e, Modules)]) = CalcValue(env, RewriteM(e, Modules))
<1> DEFINE r == RewriteM(e, Modules)
<1>1. Modules \in Names
  BY ModulesAssumption DEF Names
<1>2. r \in Exprs
  <2>1. CASE e = NoExpr
    BY <1>1, <2>1, RewriteMIs
  <2>2. CASE e # NoExpr
    <3>1. e \in Trees
      BY <2>2 DEF Trees
    <3>2. r \in Trees
      BY <1>1, <3>1, RewriteMIs
    <3> QED
      BY <3>2 DEF Trees
  <2> QED
    BY <2>1, <2>2
<1>3. IsOrdinary(r)
  BY <1>1, RewriteMOrdinary
<1> HIDE DEF r
<1>4. Transform[r] \in Exprs /\ Same(r, Transform[r])
  BY <1>2, TransformMaps, TransformKeeps
<1> QED
  BY <1>3, <1>4 DEF Same, Good, r

(* AllocAnd with a condition that has been through rewrite_m and           *)
(* expr_transform.                                                         *)
LEMMA AddedIs ==
  ASSUME AllTrees, NEW e \in Exprs, Good(e), NEW c \in Exprs, IsOrdinary(c)
  PROVE  LET new == AllocAnd(e, Transform[RewriteM(c, Modules)])
         IN  /\ new \in Exprs /\ Good(new)
             /\ \A env : IsEnv(env) =>
                  CalcValue(env, new) = Lesser(CalcValue(env, e), CalcValue(env, RewriteM(c, Modules)))
<1> DEFINE t == Transform[RewriteM(c, Modules)]
<1>1. t \in Exprs /\ Good(t)
      /\ \A env : IsEnv(env) => CalcValue(env, t) = CalcValue(env, RewriteM(c, Modules))
  BY ConditionIs
<1> HIDE DEF t
<1>2. AllocAnd(e, t) \in Exprs /\ Good(AllocAnd(e, t))
  BY <1>1, AllocAndIs DEF Good
<1>3. \A env : IsEnv(env) => CalcValue(env, AllocAnd(e, t)) = Lesser(CalcValue(env, e), CalcValue(env, t))
  BY <1>1, EnvIsTri, AllocAndIs
<1> QED
  BY <1>1, <1>2, <1>3 DEF t

(* IInv holds at the start.                                                *)
LEMMA RewriteInit == ASSUME AllTrees PROVE Init => IInv
<1>1. NoExpr \in Exprs
  BY TreesAre
<1> QED
  BY <1>1 DEF Init, IInv, KeptSoFar, KeptAtEnd

(* Every step of menu_finalize keeps IInv.                                 *)
LEMMA RewriteNext == ASSUME AllTrees PROVE IInv /\ [Next]_vars => IInv'
<1> SUFFICES ASSUME IInv, [Next]_vars PROVE IInv'
  OBVIOUS
<1>0. /\ input \in Cases /\ expr \in Exprs
      /\ phase \in {"start", "entry", "prompt", "visible", "done"}
      /\ KeptSoFar /\ KeptAtEnd
  BY DEF IInv
<1>1. CASE PropagateToEntry
  <2>1. /\ expr' = AllocAnd(input.parent, Transform[RewriteM(input.dep, Modules)])
        /\ phase' = "entry" /\ input' = input
    BY <1>1 DEF PropagateToEntry
  <2>2. /\ expr' \in Exprs /\ Good(expr')
        /\ \A env : IsEnv(env) =>
             CalcValue(env, expr') = Lesser(CalcValue(env, input.parent), CalcValue(env, RewriteM(input.dep, Modules)))
    BY <1>0, <2>1, CasesAre, AddedIs DEF Good
  <2>3. \A env : Written(env)' = Lesser(CalcValue(env, input.parent), CalcValue(env, RewriteM(input.dep, Modules)))
    BY <2>1 DEF Written
  <2>4. KeptSoFar'
    BY <2>2, <2>3 DEF KeptSoFar
  <2>5. KeptAtEnd'
    BY <2>1 DEF KeptAtEnd
  <2> QED
    BY <1>0, <2>1, <2>2, <2>4, <2>5 DEF IInv
<1>2. CASE Shorten
  <2>1. phase \in {"entry", "prompt"} /\ expr' = DupsTurn(expr).expr /\ phase' = phase /\ input' = input
    BY <1>2 DEF Shorten
  <2>2. expr' \in Exprs /\ Keeps(expr, expr')
    BY <1>0, <2>1, DupsTurnIs
  <2>3. Good(expr) /\ \A env : IsEnv(env) => CalcValue(env, expr) = Written(env)
    BY <1>0, <2>1 DEF KeptSoFar
  <2>4. Good(expr') /\ \A env : IsEnv(env) => CalcValue(env, expr') = CalcValue(env, expr)
    BY <2>2, <2>3 DEF Keeps
  <2>5. \A env : Written(env)' = Written(env)
    BY <2>1 DEF Written
  <2>6. KeptSoFar'
    BY <2>3, <2>4, <2>5 DEF KeptSoFar
  <2>7. KeptAtEnd'
    BY <2>1 DEF KeptAtEnd
  <2> QED
    BY <1>0, <2>1, <2>2, <2>6, <2>7 DEF IInv
<1>3. CASE PropagateToPrompt
  <2>1. /\ phase = "entry" /\ phase' = "prompt" /\ input' = input
        /\ expr' = AllocAnd(expr, Transform[RewriteM(input.cond, Modules)])
    BY <1>3 DEF PropagateToPrompt
  <2>2. Good(expr) /\ \A env : IsEnv(env) => CalcValue(env, expr) = Written(env)
    BY <1>0, <2>1 DEF KeptSoFar
  <2>3. /\ expr' \in Exprs /\ Good(expr')
        /\ \A env : IsEnv(env) =>
             CalcValue(env, expr') = Lesser(CalcValue(env, expr), CalcValue(env, RewriteM(input.cond, Modules)))
    BY <1>0, <2>1, <2>2, CasesAre, AddedIs
  <2>4. \A env : Written(env)' = Lesser(Written(env), CalcValue(env, RewriteM(input.cond, Modules)))
    BY <2>1 DEF Written
  <2>5. KeptSoFar'
    BY <2>2, <2>3, <2>4 DEF KeptSoFar
  <2>6. KeptAtEnd'
    BY <2>1 DEF KeptAtEnd
  <2> QED
    BY <1>0, <2>1, <2>3, <2>5, <2>6 DEF IInv
<1>4. CASE FinishPrompt
  <2>1. /\ phase = "prompt" /\ phase' = "visible" /\ input' = input
        /\ expr' = IF input.owner # "tristate" THEN TransBool[expr] ELSE expr
    BY <1>4 DEF FinishPrompt
  <2>2. Good(expr) /\ \A env : IsEnv(env) => CalcValue(env, expr) = Written(env)
    BY <1>0, <2>1 DEF KeptSoFar
  <2>3. TransBool[expr] \in Exprs
    BY <1>0, TransBoolIs DEF Trees
  <2>4. \A env : IsEnv(env) => (CalcValue(env, TransBool[expr]) = 0 <=> CalcValue(env, expr) = 0)
    BY <1>0, <2>2, TransBoolKeeps DEF Good
  <2>5. \A env : Written(env)' = Written(env)
    BY <2>1 DEF Written
  <2>6. KeptAtEnd'
    BY <2>1, <2>2, <2>4, <2>5 DEF KeptAtEnd
  <2>7. KeptSoFar'
    BY <2>1 DEF KeptSoFar
  <2> QED
    BY <1>0, <2>1, <2>3, <2>6, <2>7 DEF IInv
<1>5. CASE DecideSubmenu
  <2>1. phase = "visible" /\ phase' = "done" /\ input' = input /\ expr' = expr
    BY <1>5 DEF DecideSubmenu
  <2>2. \A env : Written(env)' = Written(env)
    BY <2>1 DEF Written
  <2>3. KeptAtEnd'
    BY <1>0, <2>1, <2>2 DEF KeptAtEnd
  <2>4. KeptSoFar'
    BY <2>1 DEF KeptSoFar
  <2> QED
    BY <1>0, <2>1, <2>3, <2>4 DEF IInv
<1>6. CASE UNCHANGED vars
  <2>1. phase' = phase /\ input' = input /\ expr' = expr
    BY <1>6 DEF vars
  <2>2. \A env : Written(env)' = Written(env)
    BY <2>1 DEF Written
  <2>3. KeptAtEnd' /\ KeptSoFar'
    BY <1>0, <2>1, <2>2 DEF KeptAtEnd, KeptSoFar
  <2> QED
    BY <1>0, <2>1, <2>3 DEF IInv
<1> QED
  BY <1>1, <1>2, <1>3, <1>4, <1>5, <1>6 DEF Next

(* IInv says what ValueKept does.                                          *)
LEMMA KeptIs == IInv => ValueKept
<1> SUFFICES ASSUME IInv, phase # "start", NEW env \in Envs
             PROVE  IF phase \in {"entry", "prompt"} \/ input.owner = "tristate"
                    THEN CalcValue(env, expr) = Written(env)
                    ELSE (CalcValue(env, expr) = 0) = (Written(env) = 0)
  BY DEF ValueKept
<1>1. IsEnv(env)
  BY EnvsAssumption DEF IsEnv, Names
<1>2. CASE phase \in {"entry", "prompt"}
  BY <1>1, <1>2 DEF IInv, KeptSoFar
<1>3. CASE phase \in {"visible", "done"}
  <2>1. IF input.owner = "tristate" THEN CalcValue(env, expr) = Written(env)
        ELSE CalcValue(env, expr) = 0 <=> Written(env) = 0
    BY <1>1, <1>3 DEF IInv, KeptAtEnd
  <2> QED
    BY <1>3, <2>1
<1> QED
  BY <1>2, <1>3 DEF IInv

(* ValueKept, for expressions of any size: menu_finalize (menu.c:296)      *)
(* leaves a condition with the value that was written, for all values of   *)
(* the symbols, and with "no tristate" at the end, with the same           *)
(* visibility. AllTrees gives the functions all expressions to work on;    *)
(* TLC has those up to a height.                                           *)
THEOREM RewritingKeepsValue == ASSUME AllTrees PROVE Spec => []ValueKept
<1>1. Init => IInv
  BY RewriteInit
<1>2. IInv /\ [Next]_vars => IInv'
  BY RewriteNext
<1> QED
  BY <1>1, <1>2, KeptIs, PTL DEF Spec

-----------------------------------------------------------------------------
(* What belongs to a submenu.                                              *)

(* Where such a condition holds, the symbol is not n or its prompt is      *)
(* visible.                                                                *)
LEMMA BelongsHolds ==
  ASSUME AllTrees, NEW s \in Names, Type[s] \in Logical,
         NEW e \in Exprs, NEW f \in Exprs, Fine(e), Fine(f), BelongsTo(e, s, f),
         NEW env, IsEnv(env), CalcValue(env, e) # 0
  PROVE  SymTri(env, s) # 0 \/ CalcValue(env, f) # 0
<1>1. CASE DependsSymbol(e, s)
  BY <1>1, DependsHolds
<1>2. CASE IsSuperset(e, f)
  BY <1>2, SupersetIs
<1> QED
  BY <1>1, <1>2 DEF BelongsTo

(* A condition that is added in a case of PlainCase.                       *)
LEMMA AddedFine ==
  ASSUME AllTrees, PlainModules, NEW e \in Exprs, Fine(e), NEW c \in Exprs, IsOrdinary(c), IsSimple(c)
  PROVE  LET new == AllocAnd(e, Transform[RewriteM(c, Modules)]) IN new \in Exprs /\ Fine(new)
<1> DEFINE r == RewriteM(c, Modules)
           t == Transform[r]
<1>1. r \in Exprs /\ IsSimple(r)
  <2>1. Modules \in Names
    BY ModulesAssumption DEF Names
  <2>2. r \in Exprs
    <3>1. (c = NoExpr => r = NoExpr) /\ (c \in Trees => r \in Trees)
      BY <2>1, RewriteMIs
    <3> HIDE DEF r
    <3> QED
      BY <3>1, TreesAre DEF Trees
  <2> QED
    BY <2>2, RewriteMSimple
<1>2. IsPlain(t)
  <2> HIDE DEF r
  <2> QED
    BY <1>1, TransformSimple
<1>3. t \in Exprs /\ Good(t)
  BY ConditionIs
<1> HIDE DEF t
<1>4. AllocAnd(e, t) \in Exprs /\ Fine(AllocAnd(e, t))
  BY <1>2, <1>3, AllocAndIs DEF Good, Fine
<1> QED
  BY <1>4 DEF t

(* expr_trans_bool.                                                        *)
LEMMA PromptFine ==
  ASSUME AllTrees, NEW e \in Exprs, Fine(e)
  PROVE  TransBool[e] \in Exprs /\ Fine(TransBool[e])
BY TransBoolIs, TransBoolForm DEF Fine, Trees

(* When the prompt before the entry is visible.                            *)
LEMMA BaseIs ==
  ASSUME AllTrees, PlainModules, input \in Cases, PlainCase(input)
  PROVE  BaseDep \in Exprs /\ Fine(BaseDep)
<1> DEFINE a == AllocAnd(input.parent, Transform[RewriteM(input.base, Modules)])
           d == EliminateDups[a]
<1>1. /\ input.parent \in Exprs /\ Fine(input.parent)
      /\ input.base \in Exprs /\ IsOrdinary(input.base) /\ IsSimple(input.base)
  BY CasesAssumption DEF PlainCase, Fine
<1>2. a \in Exprs /\ Fine(a)
  BY <1>1, AddedFine
<1> HIDE DEF a
<1>3. d \in Exprs /\ Fine(d)
  <2>1. d \in Deduped(a)
    BY <1>2, EliminateDupsEnds
  <2> QED
    BY <1>2, <2>1 DEF Deduped, Keeps, Good, Fine
<1>4. BaseDep \in {d, TransBool[d]}
  BY DEF BaseDep, d, a
<1> HIDE DEF d
<1> QED
  BY <1>3, <1>4, PromptFine

(* The expression keeps the form that the decision needs, and the decision *)
(* is about the expression that is left.                                   *)
FineSoFar == PlainCase(input) /\ phase # "start" => Fine(expr)
Decided == submenu = "inside" => phase = "done" /\ BelongsTo(expr, input.above, BaseDep)
SubmenuIInv == FineSoFar /\ Decided

(* Every step of menu_finalize keeps it.                                   *)
LEMMA SubmenuNext ==
  ASSUME AllTrees, PlainModules
  PROVE  IInv /\ SubmenuIInv /\ [Next]_vars => SubmenuIInv'
<1> SUFFICES ASSUME IInv, SubmenuIInv, [Next]_vars PROVE FineSoFar' /\ Decided'
  BY DEF SubmenuIInv
<1>0. /\ input \in Cases /\ expr \in Exprs
      /\ FineSoFar /\ Decided
  BY DEF IInv, SubmenuIInv
<1>1. CASE PropagateToEntry
  <2>1. /\ expr' = AllocAnd(input.parent, Transform[RewriteM(input.dep, Modules)])
        /\ phase = "start" /\ input' = input /\ submenu' = submenu
    BY <1>1 DEF PropagateToEntry
  <2>2. ASSUME PlainCase(input) PROVE Fine(expr')
    <3>1. /\ input.parent \in Exprs /\ Fine(input.parent)
          /\ input.dep \in Exprs /\ IsOrdinary(input.dep) /\ IsSimple(input.dep)
      BY <1>0, <2>2, CasesAssumption DEF PlainCase, Fine
    <3> QED
      BY <2>1, <3>1, AddedFine
  <2>3. FineSoFar'
    BY <2>1, <2>2 DEF FineSoFar
  <2>4. Decided'
    BY <1>0, <2>1 DEF Decided
  <2> QED
    BY <2>3, <2>4
<1>2. CASE Shorten
  <2>1. /\ phase \in {"entry", "prompt"} /\ expr' = DupsTurn(expr).expr
        /\ phase' = phase /\ input' = input /\ submenu' = submenu
    BY <1>2 DEF Shorten
  <2>2. Keeps(expr, expr')
    BY <1>0, <2>1, DupsTurnIs
  <2>3. FineSoFar'
    BY <1>0, <2>1, <2>2 DEF FineSoFar, Keeps, Good, Fine
  <2>4. Decided'
    BY <1>0, <2>1 DEF Decided
  <2> QED
    BY <2>3, <2>4
<1>3. CASE PropagateToPrompt
  <2>1. /\ phase = "entry" /\ input' = input /\ submenu' = submenu
        /\ expr' = AllocAnd(expr, Transform[RewriteM(input.cond, Modules)])
    BY <1>3 DEF PropagateToPrompt
  <2>2. ASSUME PlainCase(input) PROVE Fine(expr')
    <3>1. Fine(expr) /\ input.cond \in Exprs /\ IsOrdinary(input.cond) /\ IsSimple(input.cond)
      BY <1>0, <2>1, <2>2, CasesAssumption DEF PlainCase, FineSoFar
    <3> QED
      BY <1>0, <2>1, <3>1, AddedFine
  <2>3. FineSoFar'
    BY <2>1, <2>2 DEF FineSoFar
  <2>4. Decided'
    BY <1>0, <2>1 DEF Decided
  <2> QED
    BY <2>3, <2>4
<1>4. CASE FinishPrompt
  <2>1. /\ phase = "prompt" /\ input' = input /\ submenu' = submenu
        /\ expr' = IF input.owner # "tristate" THEN TransBool[expr] ELSE expr
    BY <1>4 DEF FinishPrompt
  <2>2. Fine(expr) => Fine(TransBool[expr])
    BY <1>0, PromptFine
  <2>3. FineSoFar'
    BY <1>0, <2>1, <2>2 DEF FineSoFar
  <2>4. Decided'
    BY <1>0, <2>1 DEF Decided
  <2> QED
    BY <2>3, <2>4
<1>5. CASE DecideSubmenu
  <2>1. /\ phase = "visible" /\ phase' = "done" /\ input' = input /\ expr' = expr
        /\ submenu' = IF BelongsTo(expr, input.above, BaseDep) THEN "inside" ELSE "after"
    BY <1>5 DEF DecideSubmenu
  <2>2. FineSoFar'
    BY <1>0, <2>1 DEF FineSoFar
  <2>3. BaseDep' = BaseDep
    BY <2>1 DEF BaseDep
  <2>4. Decided'
    BY <2>1, <2>3 DEF Decided
  <2> QED
    BY <2>2, <2>4
<1>6. CASE UNCHANGED vars
  <2>1. phase' = phase /\ input' = input /\ expr' = expr /\ submenu' = submenu
    BY <1>6 DEF vars
  <2>2. BaseDep' = BaseDep
    BY <2>1 DEF BaseDep
  <2> QED
    BY <1>0, <2>1, <2>2 DEF FineSoFar, Decided
<1> QED
  BY <1>1, <1>2, <1>3, <1>4, <1>5, <1>6 DEF Next

(* What was decided is right.                                              *)
LEMMA ReachableIs ==
  ASSUME AllTrees, PlainModules, IInv, SubmenuIInv
  PROVE  SubmenuReachable
<1> SUFFICES ASSUME submenu = "inside", Type[input.above] \in Logical,
                    DependsSymbol(expr, input.above) \/ PlainCase(input),
                    NEW env \in Envs, CalcValue(env, expr) # 0
             PROVE  SymTri(env, input.above) # 0 \/ CalcValue(env, BaseDep) # 0
  BY DEF SubmenuReachable
<1>1. IsEnv(env)
  BY EnvsAssumption DEF IsEnv, Names
<1>2. input \in Cases /\ expr \in Exprs /\ BelongsTo(expr, input.above, BaseDep)
  BY DEF IInv, SubmenuIInv, Decided
<1>3. input.above \in Names
  BY <1>2, CasesAssumption DEF Names
<1>4. CASE DependsSymbol(expr, input.above)
  BY <1>1, <1>2, <1>3, <1>4, DependsHolds
<1>5. CASE PlainCase(input)
  <2>1. Fine(expr) /\ BaseDep \in Exprs /\ Fine(BaseDep)
    BY <1>2, <1>5, BaseIs DEF SubmenuIInv, FineSoFar, Decided
  <2> QED
    BY <1>1, <1>2, <1>3, <2>1, BelongsHolds
<1> QED
  BY <1>4, <1>5

(* SubmenuReachable, for expressions of any size: what menu_finalize moves *)
(* into the submenu of a symbol (menu.c:454-483) is hidden when the symbol *)
(* is n and its own prompt is hidden, but for the two cases it names.      *)
THEOREM SubmenusReachable ==
  ASSUME AllTrees, PlainModules
  PROVE  Spec => []SubmenuReachable
<1>1. Init => IInv /\ SubmenuIInv
  <2>1. Init => IInv
    BY RewriteInit
  <2>2. Init => SubmenuIInv
    BY DEF Init, SubmenuIInv, FineSoFar, Decided
  <2> QED
    BY <2>1, <2>2
<1>2. IInv /\ SubmenuIInv /\ [Next]_vars => (IInv /\ SubmenuIInv)'
  BY RewriteNext, SubmenuNext
<1>3. IInv /\ SubmenuIInv => SubmenuReachable
  BY ReachableIs
<1> QED
  BY <1>1, <1>2, <1>3, PTL DEF Spec
=============================================================================
