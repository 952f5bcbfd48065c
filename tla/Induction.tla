------------------------------ MODULE Induction ------------------------------
(***************************************************************************)
(* Induction over the natural numbers, in the form in which the proofs of  *)
(* this project use it: about sets.  A property is proved of every number  *)
(* by looking at the least one of the set of those that lack it.           *)
(***************************************************************************)
EXTENDS Integers, FiniteSets, FiniteSetTheorems, WellFoundedInduction, TLAPS

(* The sets 0 .. m - 1 are finite, and inclusion is well founded on finite *)
(* sets: so the numbers are well ordered.                                  *)
LEMMA LeastNatural ==
  ASSUME NEW T, T \subseteq Nat, T # {}
  PROVE  \E m \in T : \A n \in T : m =< n
<1> DEFINE Down(m) == 0 .. m - 1
           Downs == {Down(m) : m \in T}
<1>1. IsWellFoundedOn(StrictSubsetOrdering(Nat), FiniteSubsetsOf(Nat))
  BY FS_StrictSubsetOrderingWellFounded
<1>2. \A m \in T : IsFiniteSet(Down(m)) /\ Down(m) \subseteq Nat
  BY FS_Interval
<1>3. Downs \subseteq FiniteSubsetsOf(Nat) /\ Downs # {}
  BY <1>2 DEF FiniteSubsetsOf
<1> HIDE DEF Downs
<1>4. \E x \in Downs : \A y \in Downs : <<y, x>> \notin StrictSubsetOrdering(Nat)
  BY <1>1, <1>3, WFMin
<1>5. PICK m \in T : \A n \in T : <<Down(n), Down(m)>> \notin StrictSubsetOrdering(Nat)
  BY <1>4 DEF Downs
<1>6. ASSUME NEW n \in T, n < m PROVE FALSE
  <2>1. n \in Down(m) /\ n \notin Down(n)
    BY <1>6
  <2>2. Down(n) \subseteq Down(m) /\ Down(n) # Down(m)
    BY <1>6, <2>1
  <2> QED
    BY <1>2, <1>5, <2>2 DEF StrictSubsetOrdering
<1> QED
  BY <1>6

(* A set that holds the first number and, with a number, the next one.     *)
LEMMA InductionUpTo ==
  ASSUME NEW a \in Nat, NEW b \in Nat, NEW S,
         a =< b => a \in S,
         \A n \in a .. b - 1 : n \in S => n + 1 \in S
  PROVE  a .. b \subseteq S
<1> DEFINE T == (a .. b) \ S
<1> SUFFICES ASSUME T # {} PROVE FALSE
  OBVIOUS
<1>0. T \subseteq Nat
  OBVIOUS
<1>1. PICK m \in T : \A n \in T : m =< n
  <2> HIDE DEF T
  <2> QED
    BY <1>0, LeastNatural
<1>2. m - 1 \in a .. b - 1 /\ m - 1 \notin T
  BY <1>1
<1> QED
  BY <1>1, <1>2

LEMMA InductionOnSet ==
  ASSUME NEW S, 0 \in S, \A n \in Nat : n \in S => n + 1 \in S
  PROVE  Nat \subseteq S
<1>1. ASSUME NEW b \in Nat PROVE b \in S
  <2>1. 0 .. b \subseteq S
    BY InductionUpTo
  <2> QED
    BY <2>1
<1> QED
  BY <1>1

(* The last of the numbers up to b that are in S.                          *)
LEMMA GreatestUpTo ==
  ASSUME NEW b \in Nat, NEW S, NEW a \in 0 .. b, a \in S
  PROVE  \E m \in 0 .. b : m \in S /\ \A n \in m + 1 .. b : n \notin S
<1> DEFINE T == {b - n : n \in (0 .. b) \cap S}
<1>1. T \subseteq Nat /\ T # {}
  OBVIOUS
<1>2. PICK m \in T : \A n \in T : m =< n
  <2> HIDE DEF T
  <2> QED
    BY <1>1, LeastNatural
<1>3. b - m \in 0 .. b /\ b - m \in S /\ m \in Nat
  BY <1>1
<1>4. ASSUME NEW n \in (b - m) + 1 .. b, n \in S PROVE FALSE
  <2>1. n \in (0 .. b) \cap S
    BY <1>3, <1>4
  <2>2. b - n \in T
    BY <2>1
  <2>3. m =< b - n
    BY <1>2, <2>2
  <2> QED
    BY <1>3, <1>4, <2>3
<1> QED
  BY <1>3, <1>4

(* A function on a set that is applied over and over: its iterates exist.  *)
IteratesOf(V, step, v, n) ==
  {f \in [0 .. n -> V] : f[0] = v /\ \A m \in 1 .. n : f[m] = step[f[m - 1]]}

LEMMA Iterates ==
  ASSUME NEW V, NEW step \in [V -> V], NEW v \in V, NEW n \in Nat
  PROVE  IteratesOf(V, step, v, n) # {}
<1> DEFINE Obeys(k, f) == f \in [0 .. k -> V] /\ f[0] = v /\ \A m \in 1 .. k : f[m] = step[f[m - 1]]
           S == {k \in Nat : \E f : Obeys(k, f)}
<1>1. 0 \in S
  <2>1. Obeys(0, [m \in 0 .. 0 |-> v])
    OBVIOUS
  <2> HIDE DEF Obeys
  <2> QED
    BY <2>1
<1>2. ASSUME NEW k \in Nat, k \in S PROVE k + 1 \in S
  <2>1. PICK f : Obeys(k, f)
    <3> HIDE DEF Obeys
    <3> QED
      BY <1>2
  <2> DEFINE g == [m \in 0 .. k + 1 |-> IF m = k + 1 THEN step[f[k]] ELSE f[m]]
  <2>2. f[k] \in V /\ step[f[k]] \in V
    BY <1>2, <2>1
  <2>3. g \in [0 .. k + 1 -> V] /\ g[0] = v
    BY <1>2, <2>1, <2>2
  <2>4. ASSUME NEW m \in 1 .. k + 1 PROVE g[m] = step[g[m - 1]]
    <3>1. CASE m = k + 1
      BY <1>2, <3>1
    <3>2. CASE m # k + 1
      <4>1. m \in 1 .. k /\ g[m] = f[m] /\ g[m - 1] = f[m - 1]
        BY <1>2, <3>2
      <4> QED
        BY <2>1, <4>1
    <3> QED
      BY <3>1, <3>2
  <2> HIDE DEF g
  <2>5. Obeys(k + 1, g)
    BY <2>3, <2>4
  <2> HIDE DEF Obeys
  <2> QED
    BY <1>2, <2>5
<1>3. n \in S
  <2> HIDE DEF S
  <2> QED
    BY <1>1, <1>2, InductionOnSet
<1> QED
  BY <1>3 DEF IteratesOf

-----------------------------------------------------------------------------
(* Recursion over data: a set with a rank, to which recursive calls go down. *)

(* What holds of x when it holds of all that have a lower rank.            *)
LEMMA RankInduction ==
  ASSUME NEW S, NEW rank \in [S -> Nat], NEW P,
         \A x \in S : (\A y \in S : rank[y] < rank[x] => y \in P) => x \in P
  PROVE  S \subseteq P
<1> DEFINE T == {rank[x] : x \in S \ P}
<1> SUFFICES ASSUME NEW z \in S, z \notin P PROVE FALSE
  OBVIOUS
<1>1. T \subseteq Nat /\ T # {}
  OBVIOUS
<1>2. PICK m \in T : \A n \in T : m =< n
  <2> HIDE DEF T
  <2> QED
    BY <1>1, LeastNatural
<1>3. PICK x \in S \ P : m = rank[x]
  BY <1>2
<1>4. ASSUME NEW y \in S, rank[y] < rank[x] PROVE y \in P
  <2>1. rank[y] \in Nat /\ rank[x] \in Nat
    OBVIOUS
  <2>2. y \notin P => rank[x] =< rank[y]
    BY <1>2, <1>3
  <2> QED
    BY <1>4, <2>1, <2>2
<1> QED
  BY <1>3, <1>4

(* A function that takes each x to a value in V[x].                        *)
Choices(S, U, V) == {f \in [S -> U] : \A x \in S : f[x] \in V[x]}

(* The value of D[f] at x depends on the values of f of lower rank only.    *)
GoesDown(S, rank, F, D) ==
  \A f, g \in F : \A x \in S : (\A y \in S : rank[y] < rank[x] => f[y] = g[y]) => D[f][x] = D[g][x]

(* Recursion: D[f] is the body of the definition with f for the function   *)
(* that it defines.  When the body at x depends on the values of lower     *)
(* rank only, there is a function that the definition describes.           *)
LEMMA Recursion ==
  ASSUME NEW S, NEW rank \in [S -> Nat], NEW U, NEW V,
         NEW D \in [Choices(S, U, V) -> Choices(S, U, V)], Choices(S, U, V) # {},
         GoesDown(S, rank, Choices(S, U, V), D)
  PROVE  \E f \in Choices(S, U, V) : D[f] = f
<1> DEFINE F == Choices(S, U, V)
           Upto(n, f) == \A x \in S : rank[x] < n => D[f][x] = f[x]
           Q == {n \in Nat : \E f \in F : Upto(n, f)}
<1>0. \A f \in F : f = [x \in S |-> f[x]] /\ D[f] \in F
  BY DEF Choices
<1>1. 0 \in Q
  BY DEF Choices
<1>2. ASSUME NEW n \in Nat, n \in Q PROVE n + 1 \in Q
  <2>1. PICK f \in F : Upto(n, f)
    BY <1>2
  <2>2. ASSUME NEW x \in S, rank[x] < n + 1 PROVE D[D[f]][x] = D[f][x]
    <3>1. \A y \in S : rank[y] < rank[x] => D[f][y] = f[y]
      <4>1. \A y \in S : rank[y] \in Nat
        OBVIOUS
      <4> QED
        BY <2>1, <2>2, <4>1
    <3>2. D[f] \in F
      BY <1>0
    <3> HIDE DEF F
    <3> QED
      BY <3>1, <3>2 DEF F, GoesDown
  <2>3. D[f] \in F /\ Upto(n + 1, D[f])
    BY <1>0, <2>2
  <2> QED
    BY <2>3
<1>3. Nat \subseteq Q
  <2> HIDE DEF Q
  <2> QED
    BY <1>1, <1>2, InductionOnSet
<1>4. ASSUME NEW n \in Nat, NEW f \in F, NEW g \in F, Upto(n, f), Upto(n, g),
             NEW x \in S, rank[x] < n
      PROVE  f[x] = g[x]
  <2> DEFINE P == {y \in S : rank[y] < n => f[y] = g[y]}
  <2>1. ASSUME NEW y \in S, \A z \in S : rank[z] < rank[y] => z \in P PROVE y \in P
    <3> SUFFICES ASSUME rank[y] < n PROVE f[y] = g[y]
      OBVIOUS
    <3>1. \A z \in S : rank[z] < rank[y] => f[z] = g[z]
      BY <2>1
    <3>2. D[f][y] = D[g][y]
      BY <3>1 DEF GoesDown
    <3> QED
      BY <1>4, <3>2
  <2>2. S \subseteq P
    <3> HIDE DEF P
    <3> QED
      BY <2>1, RankInduction
  <2> QED
    BY <1>4, <2>2
<1> DEFINE sol == [n \in Nat |-> CHOOSE f \in F : Upto(n, f)]
           h == [x \in S |-> sol[rank[x] + 1][x]]
<1>5. \A n \in Nat : sol[n] \in F /\ Upto(n, sol[n])
  BY <1>3
<1>6. \A x \in S : rank[x] + 1 \in Nat
  OBVIOUS
<1> HIDE DEF sol
<1>7. h \in F
  <2>1. \A x \in S : sol[rank[x] + 1] \in F
    BY <1>5, <1>6
  <2> QED
    BY <2>1 DEF Choices
<1>8. ASSUME NEW x \in S PROVE D[h][x] = h[x]
  <2> DEFINE s == sol[rank[x] + 1]
  <2>1. s \in F /\ Upto(rank[x] + 1, s)
    BY <1>5, <1>6
  <2>2. ASSUME NEW y \in S, rank[y] < rank[x] PROVE h[y] = s[y]
    <3>1. rank[y] + 1 \in Nat /\ rank[y] < rank[y] + 1 /\ rank[x] \in Nat /\ rank[y] \in Nat
      OBVIOUS
    <3>2. sol[rank[y] + 1] \in F /\ Upto(rank[y] + 1, sol[rank[y] + 1])
      BY <1>5, <1>6
    <3>3. \A z \in S : rank[z] < rank[y] + 1 => rank[z] < rank[x] + 1
      BY <2>2
    <3>4. Upto(rank[y] + 1, s)
      BY <2>1, <3>3
    <3> HIDE DEF s, F, Upto
    <3>5. sol[rank[y] + 1][y] = s[y]
      BY <1>4, <2>1, <3>1, <3>2, <3>4
    <3> QED
      BY <3>5
  <2>3. D[h][x] = D[s][x]
    <3> HIDE DEF s, h
    <3> QED
      BY <1>7, <2>1, <2>2 DEF GoesDown
  <2>4. rank[x] < rank[x] + 1
    OBVIOUS
  <2>5. D[s][x] = s[x]
    BY <2>1, <2>4
  <2> QED
    BY <2>3, <2>5
<1>9. D[h] = h
  <2> HIDE DEF h
  <2>1. D[h] = [x \in S |-> D[h][x]] /\ h = [x \in S |-> h[x]]
    BY <1>0, <1>7
  <2> QED
    BY <1>8, <2>1
<1> QED
  BY <1>7, <1>9
=============================================================================
