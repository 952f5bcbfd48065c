--------------------------- MODULE MakeDevsProofs ---------------------------
(***************************************************************************)
(* Proof that makedevs does what its table says, for every table, every    *)
(* tree and every failure of chown and chmod: a success means that each    *)
(* line has been applied (TableApplied), and whatever happens, a file that *)
(* no line is about is left alone and a capability goes to the file of the *)
(* entry before it (OthersAlwaysLeft).                                     *)
(*                                                                         *)
(* Neither is inductive.  What is: which part of the table each file bears *)
(* the marks of so far, including the part of a line that nftw or the loop *)
(* over the nodes has behind it, where files come from, and that what was  *)
(* there keeps its kind.  Every action is shown to change only files of    *)
(* its line, and to renew those it is done with (LineGrows, LineDoes).     *)
(***************************************************************************)
EXTENDS MakeDevs, TLAPS

(* Files: those that were there are of the kind they were; what is made is  *)
(* made in a directory that is there, and is no file and no link.           *)
KindKept ==
  \A p \in Paths :
    IF was[p].kind # "none" THEN tree[p].kind = was[p].kind /\ tree[p].to = was[p].to
    ELSE tree[p].kind \notin {"file", "link"}
ParentsThere == \A p \in Paths : Exists(tree, p) /\ Parent[p] # "/" => Exists(tree, Parent[p])
Resolved == \A p \in Paths : was[p].kind = "link" /\ was[p].to # NoPath => was[was[p].to].kind # "link"
TreeTypes ==
  /\ was \in [Paths -> Files] /\ table \in Seq(EntryLines \cup OtherLines) /\ lineno \in Nat \ {0}
  /\ tree \in [Paths -> Files]
  /\ \A k \in DOMAIN table : IsEntry(k) => \A n, m \in NumbersOf(k) :
       Nth(k, n) \in Paths /\ (Nth(k, n) = Nth(k, m) => n = m)
TreeInv == TreeTypes /\ Resolved /\ KindKept /\ ParentsThere

(* What the two loops are about. *)
OwnerOf(k, uid, gid) ==
  /\ uid \in Int /\ gid \in Int
  /\ table[k].user # None => uid = IdOf[table[k].user]
  /\ table[k].group # None => gid = IdOf[table[k].group]
WalkInv ==
  walk # {} =>
    /\ lineno \in DOMAIN table /\ IsEntry(lineno) /\ table[lineno].type = "r" /\ made = NoLoop
    /\ \A v \in walk :
         /\ v.path \in Below(table[lineno].name) /\ Exists(tree, v.path)
         /\ OwnerOf(lineno, v.uid, v.gid)
         /\ \A w \in walk : w.path = v.path => w = v
MadeInv ==
  made # NoLoop =>
    /\ lineno \in DOMAIN table /\ IsEntry(lineno) /\ Batched(lineno)
    /\ made \in [next : Int, uid : Int, gid : Int]
    /\ made.next - table[lineno].start \in NumbersOf(lineno)
    /\ OwnerOf(lineno, made.uid, made.gid)
InLoop == walk # {} \/ made # NoLoop
NameInv ==
  full_name # NoPath =>
    \E k \in DOMAIN table :
      /\ IsEntry(k) /\ full_name = table[k].name
      /\ IF InLoop THEN k = lineno ELSE k \in EntryBefore(lineno)
Origin ==
  \A p \in Paths : Exists(tree, p) =>
    There(p, lineno) \/ (made # NoLoop /\ p \in Made(lineno))
LoopInv == WalkInv /\ MadeInv /\ NameInv /\ Origin

(* Nothing else changed. *)
SameButCaps(f, g) ==
  /\ f.kind = g.kind /\ f.mode = g.mode /\ f.uid = g.uid /\ f.gid = g.gid /\ f.dev = g.dev /\ f.to = g.to
About(k, p) == k \in DOMAIN table /\ (Mentions(k, p) \/ p \in Made(k))
OthersInv ==
  \A p \in Paths : SameButCaps(tree[p], was[p]) \/ \E k \in 1 .. lineno : About(k, p)
CapsInv == CapsOnTheirFile

(* What a line was applied to already. *)
SeenLine(k, p) ==
  /\ Mentions(k, p)
  /\ \/ k < lineno
     \/ k = lineno /\ walk # {} /\ p \notin {v.path : v \in walk}
     \/ /\ k = lineno /\ made # NoLoop
        /\ \E n \in NumbersOf(k) : Nth(k, n) = p /\ table[k].start + n < made.next
LastSeen(k, p) == \A j \in k + 1 .. Len(table) : ~SeenLine(j, p)
LastSeenMode(k, p) ==
  table[k].mode # Keep /\ \A j \in k + 1 .. Len(table) : SeenLine(j, p) => table[j].mode = Keep
RowApplied(k, p) ==
  /\ Exists(tree, p)
  /\ LastSeen(k, p) =>
       /\ table[k].user # None => tree[p].uid = IdOf[table[k].user]
       /\ table[k].group # None => tree[p].gid = IdOf[table[k].group]
  /\ LastSeenMode(k, p) /\ tree[p].kind # "link" =>
       \/ tree[p].mode = table[k].mode
       \/ ~LastSeen(k, p) /\ tree[p].mode = WithoutSetId(table[k].mode)
  /\ Batched(k) => \A n \in NumbersOf(k) : Nth(k, n) = p =>
       /\ tree[p].kind = table[k].type
       /\ tree[p].dev = <<table[k].major, table[k].minor + n * table[k].inc>>
DirsMade ==
  \A k \in DOMAIN table : k < lineno /\ IsEntry(k) /\ table[k].type = "d" =>
    \A p \in Above[table[k].name] : Exists(tree, p)
AppliedInv ==
  /\ ret \in {"ok", "exit 0"} =>
       DirsMade /\ \A k \in DOMAIN table : \A p \in Paths : SeenLine(k, p) => RowApplied(k, p)
  /\ ret = "exit 0" => lineno > Len(table)

(* What a step does to the tree: in line lineno, to the files of P.          *)
Grows ==
  /\ tree' \in [Paths -> Files]
  /\ \A q \in Paths :
       /\ tree[q].kind # "none" =>
            tree'[q].kind = tree[q].kind /\ tree'[q].to = tree[q].to /\ tree'[q].dev = tree[q].dev
       /\ tree[q].kind = "none" => tree'[q].kind \notin {"file", "link"}
       /\ tree[q].kind = "none" /\ tree'[q].kind # "none" /\ Parent[q] # "/" =>
            tree'[Parent[q]].kind # "none"
LineGrows ==
  /\ Grows
  /\ \A q \in Paths :
       /\ SameButCaps(tree'[q], tree[q]) \/ About(lineno, q)
       /\ tree[q].kind = "none" /\ tree'[q].kind # "none" => q \in Made(lineno)
Renewed(q) ==
  /\ tree'[q].kind # "none"
  /\ table[lineno].user # None => tree'[q].uid = IdOf[table[lineno].user]
  /\ table[lineno].group # None => tree'[q].gid = IdOf[table[lineno].group]
  /\ tree'[q].kind # "link" /\ table[lineno].mode # Keep => tree'[q].mode = table[lineno].mode
  /\ tree[q].kind # "none" /\ table[lineno].mode = Keep =>
       tree'[q].mode \in {tree[q].mode, WithoutSetId(tree[q].mode)}
  /\ Batched(lineno) => \A n \in NumbersOf(lineno) : Nth(lineno, n) = q =>
       /\ tree'[q].kind = table[lineno].type
       /\ tree'[q].dev = <<table[lineno].major, table[lineno].minor + n * table[lineno].inc>>
LineDoes(P) ==
  /\ ret' = "ok" => ret = "ok" /\ \A q \in P : Renewed(q)
  /\ \A q \in Paths \ P : tree[q].kind # "none" => SameButCaps(tree'[q], tree[q])

-----------------------------------------------------------------------------
(* The directories above a file.  That there is such a function is shown by  *)
(* the least sets that are closed under Parent.                             *)
ClosedUp(S) == \A p \in S : Parent[p] # "/" => Parent[p] \in S
UpOf(p) == {q \in Paths : \A S \in SUBSET Paths : p \in S /\ ClosedUp(S) => q \in S}

LEMMA ParentsInside ==
  ASSUME NEW p \in Paths
  PROVE  /\ Parent[p] # "/" => Parent[p] \in Paths
         /\ "/" \notin Paths /\ NoPath \notin Paths
BY MakeDevsAssumption

LEMMA UpOfEquation ==
  ASSUME NEW p \in Paths
  PROVE  UpOf(p) = {p} \cup (IF Parent[p] = "/" THEN {} ELSE UpOf(Parent[p]))
<1> DEFINE R == {p} \cup (IF Parent[p] = "/" THEN {} ELSE UpOf(Parent[p]))
<1>1. ASSUME NEW q \in R PROVE q \in UpOf(p)
  <2>1. q \in Paths
    BY DEF UpOf
  <2>2. ASSUME NEW S \in SUBSET Paths, p \in S, ClosedUp(S) PROVE q \in S
    <3>1. Parent[p] # "/" => Parent[p] \in S
      BY <2>2 DEF ClosedUp
    <3> QED
      BY <2>2, <3>1 DEF UpOf
  <2> QED
    BY <2>1, <2>2 DEF UpOf
<1>2. ASSUME NEW q \in UpOf(p), q \notin R PROVE FALSE
  <2>1. R \in SUBSET Paths /\ p \in R
    BY DEF UpOf
  <2>2. ASSUME NEW r \in R, Parent[r] # "/" PROVE Parent[r] \in R
    <3>1. CASE r = p
      <4>1. Parent[p] \in Paths
        BY <2>2, <3>1, ParentsInside
      <4>2. Parent[p] \in UpOf(Parent[p])
        BY <4>1 DEF UpOf
      <4> QED
        BY <2>2, <3>1, <4>2
    <3>2. CASE r # p
      <4>1. Parent[p] # "/" /\ r \in UpOf(Parent[p]) /\ r \in Paths
        BY <2>2, <3>2 DEF UpOf
      <4>2. Parent[r] \in Paths
        BY <2>2, <4>1, ParentsInside
      <4>3. ASSUME NEW S \in SUBSET Paths, Parent[p] \in S, ClosedUp(S) PROVE Parent[r] \in S
        <5>1. r \in S
          BY <4>1, <4>3 DEF UpOf
        <5> QED
          BY <2>2, <4>3, <5>1 DEF ClosedUp
      <4>4. Parent[r] \in UpOf(Parent[p])
        BY <4>2, <4>3 DEF UpOf
      <4> QED
        BY <4>1, <4>4
    <3> QED
      BY <3>1, <3>2
  <2>3. ClosedUp(R)
    <3> HIDE DEF R
    <3> QED
      BY <2>2 DEF ClosedUp
  <2> HIDE DEF R
  <2>4. q \in R
    BY <1>2, <2>1, <2>3 DEF UpOf
  <2> QED
    BY <1>2, <2>4
<1> HIDE DEF R
<1>3. UpOf(p) = R
  BY <1>1, <1>2
<1> QED
  BY <1>3 DEF R

LEMMA AboveEquation ==
  ASSUME NEW p \in Paths
  PROVE  Above[p] = {p} \cup (IF Parent[p] = "/" THEN {} ELSE Above[Parent[p]])
<1> DEFINE F(f) == [x \in Paths |-> {x} \cup (IF Parent[x] = "/" THEN {} ELSE f[Parent[x]])]
           W == [x \in Paths |-> UpOf(x)]
<1>1. ASSUME NEW x \in Paths
      PROVE  UpOf(x) = {x} \cup (IF Parent[x] = "/" THEN {} ELSE W[Parent[x]])
  <2>1. Parent[x] # "/" => W[Parent[x]] = UpOf(Parent[x])
    BY ParentsInside
  <2> QED
    BY <2>1, UpOfEquation
<1>2. W = F(W)
  BY <1>1
<1>3. Above = CHOOSE f : f = F(f)
  BY DEF Above
<1> HIDE DEF W, F
<1>4. Above = F(Above)
  BY <1>2, <1>3
<1> QED
  BY <1>4 DEF F

(* A set of names that holds with the parent of a name the name itself.      *)
LEMMA FromTheTop ==
  ASSUME NEW T, \A p \in Paths : (Parent[p] = "/" \/ Parent[p] \in T) => p \in T
  PROVE  Paths \subseteq T
<1> DEFINE S == Paths \ T
<1> SUFFICES ASSUME S # {} PROVE FALSE
  OBVIOUS
<1>1. S \in SUBSET Paths
  OBVIOUS
<1>2. PICK p \in S : Parent[p] \notin S
  BY <1>1, MakeDevsAssumption
<1>3. Parent[p] = "/" \/ Parent[p] \in T
  BY <1>2, ParentsInside
<1> QED
  BY <1>2, <1>3

LEMMA AboveFacts ==
  ASSUME NEW p \in Paths
  PROVE  /\ Above[p] \subseteq Paths /\ p \in Above[p]
         /\ \A a \in Above[p] : Parent[a] # "/" => Parent[a] \in Above[p]
<1> DEFINE T == {x \in Paths : /\ Above[x] \subseteq Paths /\ x \in Above[x]
                               /\ \A a \in Above[x] : Parent[a] # "/" => Parent[a] \in Above[x]}
<1>1. ASSUME NEW x \in Paths, Parent[x] = "/" \/ Parent[x] \in T PROVE x \in T
  <2>1. Above[x] = {x} \cup (IF Parent[x] = "/" THEN {} ELSE Above[Parent[x]])
    BY AboveEquation
  <2>2. CASE Parent[x] = "/"
    BY <2>1, <2>2
  <2>3. CASE Parent[x] # "/" /\ Parent[x] \in T
    <3>1. Above[x] = {x} \cup Above[Parent[x]]
      BY <2>1, <2>3
    <3> QED
      BY <2>3, <3>1
  <2> QED
    BY <1>1, <2>2, <2>3
<1>2. Paths \subseteq T
  <2> HIDE DEF T
  <2> QED
    BY <1>1, FromTheTop
<1> QED
  BY <1>2

(* Where each file is in a directory that is there, all above it are there.  *)
LEMMA AllAboveThere ==
  ASSUME NEW t, \A p \in Paths : Exists(t, p) /\ Parent[p] # "/" => Exists(t, Parent[p]),
         NEW p \in Paths, Exists(t, p)
  PROVE  \A a \in Above[p] : Exists(t, a)
<1> DEFINE T == {x \in Paths : Exists(t, x) => \A a \in Above[x] : Exists(t, a)}
<1>1. ASSUME NEW x \in Paths, Parent[x] = "/" \/ Parent[x] \in T PROVE x \in T
  <2>1. Above[x] = {x} \cup (IF Parent[x] = "/" THEN {} ELSE Above[Parent[x]])
    BY AboveEquation
  <2> QED
    BY <1>1, <2>1
<1>2. Paths \subseteq T
  <2> HIDE DEF T
  <2> QED
    BY <1>1, FromTheTop
<1> QED
  BY <1>2

-----------------------------------------------------------------------------
(* Lines and files.                                                         *)
LEMMA LineFacts ==
  ASSUME table \in Seq(EntryLines \cup OtherLines), NEW k \in DOMAIN table
  PROVE  /\ k \in Nat \ {0} /\ k =< Len(table) /\ Len(table) \in Nat
         /\ IsEntry(k) =>
              /\ table[k].name \in Paths /\ table[k].mode \in Nat \cup {Keep}
              /\ table[k].start \in Nat /\ table[k].count \in Nat
              /\ table[k].major \in Nat /\ table[k].minor \in Nat /\ table[k].inc \in Nat
<1>1. k \in 1 .. Len(table) /\ Len(table) \in Nat
  OBVIOUS
<1>2. table[k] \in EntryLines \cup OtherLines
  BY <1>1
<1>3. IsEntry(k) => table[k] \in EntryLines
  BY <1>2 DEF IsEntry, OtherLines
<1>4. table[k] \in EntryLines =>
        /\ table[k].name \in Paths /\ table[k].mode \in Nat \cup {Keep}
        /\ table[k].start \in Nat /\ table[k].count \in Nat
        /\ table[k].major \in Nat /\ table[k].minor \in Nat /\ table[k].inc \in Nat
  BY DEF EntryLines
<1> QED
  BY <1>1, <1>3, <1>4

(* What chown and chmod make of a file.                                     *)
NewFile(f, mode, uid, gid, o) ==
  IF ~o.chown THEN f
  ELSE LET g == Owned(f, uid, gid, o.strips)
       IN  IF o.chmod THEN [g EXCEPT !.mode = NewMode(mode, @)] ELSE g

LEMMA ApplyIsNew ==
  ASSUME NEW t \in [Paths -> Files], NEW p \in Paths, NEW mode, NEW uid, NEW gid, NEW o
  PROVE  Apply(t, p, mode, uid, gid, o) = [t EXCEPT ![p] = NewFile(t[p], mode, uid, gid, o)]
BY DEF Apply, NewFile

LEMMA StripFacts ==
  ASSUME NEW m \in Int
  PROVE  WithoutSetId(m) \in Int /\ WithoutSetId(WithoutSetId(m)) = WithoutSetId(m)
BY DEF WithoutSetId

LEMMA NewFileFacts ==
  ASSUME NEW f \in Files, NEW mode \in Int, NEW uid \in Int, NEW gid \in Int, NEW o \in Outcomes
  PROVE  LET g == NewFile(f, mode, uid, gid, o)
         IN  /\ g \in Files /\ g.kind = f.kind /\ g.to = f.to /\ g.dev = f.dev
             /\ g.caps \subseteq f.caps
             /\ Applied(o, mode) => g.uid = uid /\ g.gid = gid
             /\ Applied(o, mode) /\ mode # Keep => g.mode = mode
             /\ Applied(o, mode) /\ mode = Keep => g.mode \in {f.mode, WithoutSetId(f.mode)}
<1> DEFINE h == Owned(f, uid, gid, o.strips)
<1>1. /\ f.mode \in Int /\ f.uid \in Int /\ f.gid \in Int /\ f.caps \in SUBSET STRING
      /\ WithoutSetId(f.mode) \in Int /\ {} \in SUBSET STRING
  BY StripFacts DEF Files
<1>2. /\ h \in Files /\ h.kind = f.kind /\ h.to = f.to /\ h.dev = f.dev
      /\ h.caps \subseteq f.caps /\ h.uid = uid /\ h.gid = gid
      /\ h.mode \in {f.mode, WithoutSetId(f.mode)}
  <2>1. h = [f EXCEPT !.uid = uid, !.gid = gid, !.mode = WithoutSetId(@), !.caps = {}]
        \/ h = [f EXCEPT !.uid = uid, !.gid = gid]
    BY DEF Owned
  <2>2. CASE h = [f EXCEPT !.uid = uid, !.gid = gid, !.mode = WithoutSetId(@), !.caps = {}]
    BY <1>1, <2>2 DEF Files
  <2>3. CASE h = [f EXCEPT !.uid = uid, !.gid = gid]
    BY <1>1, <2>3 DEF Files
  <2> QED
    BY <2>1, <2>2, <2>3
<1> DEFINE c == [h EXCEPT !.mode = NewMode(mode, @)]
<1>3. NewFile(f, mode, uid, gid, o) = IF ~o.chown THEN f ELSE IF o.chmod THEN c ELSE h
  BY DEF NewFile
<1> HIDE DEF h
<1>4. NewMode(mode, h.mode) \in Int
  BY <1>2 DEF NewMode, Files
<1>5. /\ c \in Files /\ c.kind = h.kind /\ c.to = h.to /\ c.dev = h.dev
      /\ c.caps = h.caps /\ c.uid = h.uid /\ c.gid = h.gid
      /\ c.mode = NewMode(mode, h.mode)
  BY <1>2, <1>4 DEF Files
<1> HIDE DEF c
<1> DEFINE g == NewFile(f, mode, uid, gid, o)
<1>6. g \in {f, c, h} /\ (Applied(o, mode) => g = c \/ (g = h /\ mode = Keep))
  BY <1>3 DEF Applied
<1> HIDE DEF g
<1>7. g \in Files /\ g.kind = f.kind /\ g.to = f.to /\ g.dev = f.dev /\ g.caps \subseteq f.caps
  BY <1>2, <1>5, <1>6
<1>8. Applied(o, mode) => g.uid = uid /\ g.gid = gid
  BY <1>2, <1>5, <1>6
<1>9. Applied(o, mode) /\ mode # Keep => g.mode = mode
  BY <1>5, <1>6 DEF NewMode
<1>10. Applied(o, mode) /\ mode = Keep => g.mode \in {f.mode, WithoutSetId(f.mode)}
  BY <1>2, <1>5, <1>6 DEF NewMode
<1> QED
  BY <1>7, <1>8, <1>9, <1>10 DEF g

LEMMA ExistsIs ==
  ASSUME NEW t, NEW p \in Paths PROVE Exists(t, p) <=> t[p].kind # "none"
BY MakeDevsAssumption DEF Exists

(* What does not depend on the tree stays.                                   *)
LEMMA SameLines ==
  ASSUME UNCHANGED <<table, was>>, NEW k, NEW p
  PROVE  /\ IsEntry(k)' = IsEntry(k) /\ Batched(k)' = Batched(k) /\ NumbersOf(k)' = NumbersOf(k)
         /\ \A n : Nth(k, n)' = Nth(k, n)
         /\ Made(k)' = Made(k) /\ Mentions(k, p)' = Mentions(k, p) /\ There(p, k)' = There(p, k)
         /\ About(k, p)' = About(k, p)
<1>1. IsEntry(k)' = IsEntry(k) /\ Batched(k)' = Batched(k) /\ NumbersOf(k)' = NumbersOf(k)
  BY DEF IsEntry, Batched, NumbersOf
<1>2. \A j, n : Nth(j, n)' = Nth(j, n)
  BY DEF Nth
<1>3. \A j : Made(j)' = Made(j)
  BY <1>2 DEF Made, IsEntry, Batched, NumbersOf, Nth
<1>4. There(p, k)' = There(p, k)
  BY <1>3 DEF There, Exists
<1>5. Mentions(k, p)' = Mentions(k, p)
  BY <1>1, <1>3, <1>4 DEF Mentions, Followed, Regular, Exists
<1>6. About(k, p)' = About(k, p)
  BY <1>3, <1>5 DEF About
<1> QED
  BY <1>1, <1>2, <1>3, <1>4, <1>5, <1>6

LEMMA TreeGrown ==
  ASSUME TreeInv, Grows, UNCHANGED <<table, was>>, lineno' \in Nat \ {0}
  PROVE  TreeInv'
<1>1. TreeTypes'
  BY DEF TreeInv, TreeTypes, Grows, IsEntry, NumbersOf, Nth
<1>2. Resolved'
  BY DEF TreeInv, Resolved
<1>3. KindKept'
  BY DEF TreeInv, KindKept, Grows
<1>4. ParentsThere'
  <2> SUFFICES ASSUME NEW p \in Paths, Exists(tree', p), Parent[p] # "/"
               PROVE  Exists(tree', Parent[p])
    BY DEF ParentsThere
  <2>1. Parent[p] \in Paths
    BY ParentsInside
  <2>2. tree'[p].kind # "none"
    BY ExistsIs
  <2>3. tree'[Parent[p]].kind # "none"
    <3>1. CASE tree[p].kind = "none"
      BY <2>2, <3>1 DEF Grows
    <3>2. CASE tree[p].kind # "none"
      <4>1. Exists(tree, p)
        BY <3>2, ExistsIs
      <4>2. Exists(tree, Parent[p])
        BY <4>1 DEF TreeInv, ParentsThere
      <4>3. tree[Parent[p]].kind # "none"
        BY <2>1, <4>2, ExistsIs
      <4> QED
        BY <2>1, <4>3 DEF Grows
    <3> QED
      BY <3>1, <3>2
  <2> QED
    BY <2>1, <2>3, ExistsIs
<1> QED
  BY <1>1, <1>2, <1>3, <1>4 DEF TreeInv

LEMMA ThereGrows ==
  ASSUME NEW p, NEW n \in Nat
  PROVE  (There(p, n) => There(p, n + 1)) /\ (n # 0 /\ p \in Made(n) => There(p, n + 1))
<1>1. 1 .. n - 1 \subseteq 1 .. (n + 1) - 1 /\ (n # 0 => n \in 1 .. (n + 1) - 1)
  OBVIOUS
<1> QED
  BY <1>1 DEF There

LEMMA OriginStep ==
  ASSUME TreeInv, Origin, LineGrows, UNCHANGED <<table, was>>,
         \/ lineno' = lineno + 1
         \/ lineno' = lineno /\ made' # NoLoop
         \/ lineno' = lineno /\ made = NoLoop /\ \A q \in Paths : tree[q].kind = "none" => tree'[q].kind = "none"
  PROVE  Origin'
<1> SUFFICES ASSUME NEW p \in Paths, Exists(tree', p)
             PROVE  There(p, lineno)' \/ (made' # NoLoop /\ p \in Made(lineno)')
  BY DEF Origin
<1>1. lineno \in Nat /\ lineno # 0
  BY DEF TreeInv, TreeTypes
<1>2. There(p, lineno) \/ p \in Made(lineno)
  BY ExistsIs DEF Origin, LineGrows
<1>3. CASE lineno' = lineno + 1
  <2>1. There(p, lineno + 1)
    BY <1>1, <1>2, ThereGrows
  <2>2. There(p, lineno)' = There(p, lineno + 1)
    BY <1>3, SameLines DEF There, Exists
  <2> QED
    BY <2>1, <2>2
<1>4. CASE lineno' = lineno /\ made' # NoLoop
  BY <1>2, <1>4, SameLines
<1>5. CASE lineno' = lineno /\ made = NoLoop /\ \A q \in Paths : tree[q].kind = "none" => tree'[q].kind = "none"
  <2>1. There(p, lineno)
    BY <1>5, ExistsIs DEF Origin
  <2> QED
    BY <1>5, <2>1, SameLines
<1> QED
  BY <1>3, <1>4, <1>5

LEMMA OthersStep ==
  ASSUME TreeInv, OthersInv, LineGrows, UNCHANGED <<table, was>>, lineno' \in {lineno, lineno + 1}
  PROVE  OthersInv'
<1> SUFFICES ASSUME NEW p \in Paths
             PROVE  SameButCaps(tree'[p], was'[p]) \/ \E k \in 1 .. lineno' : About(k, p)'
  BY DEF OthersInv
<1>1. lineno \in Nat /\ lineno \in 1 .. lineno' /\ 1 .. lineno \subseteq 1 .. lineno'
  BY DEF TreeInv, TreeTypes
<1>2. CASE \E k \in 1 .. lineno : About(k, p)
  BY <1>1, <1>2, SameLines
<1>3. CASE About(lineno, p)
  BY <1>1, <1>3, SameLines
<1>4. CASE SameButCaps(tree[p], was[p]) /\ SameButCaps(tree'[p], tree[p])
  BY <1>4 DEF SameButCaps
<1> QED
  BY <1>2, <1>3, <1>4 DEF OthersInv, LineGrows

LEMMA CapsStep ==
  ASSUME CapsInv, UNCHANGED <<table, was>>, \A q \in Paths : tree'[q].caps \subseteq tree[q].caps
  PROVE  CapsInv'
<1>1. \A k : IsEntry(k)' = IsEntry(k)
  BY DEF IsEntry
<1>2. \A x : EntryBefore(x)' = EntryBefore(x)
  BY <1>1 DEF EntryBefore
<1> QED
  BY <1>2 DEF CapsInv, CapsOnTheirFile, Followed

(* An entry is before what follows it, up to the next one.                   *)
LEMMA EntryBeforeNext ==
  ASSUME NEW n \in Nat \ {0}
  PROVE  /\ ~IsEntry(n) => EntryBefore(n) \subseteq EntryBefore(n + 1)
         /\ IsEntry(n) => n \in EntryBefore(n + 1)
<1>1. (n + 1) - 1 = n /\ 1 .. n = (1 .. n - 1) \cup {n}
  OBVIOUS
<1>2. ASSUME ~IsEntry(n), NEW k \in EntryBefore(n) PROVE k \in EntryBefore(n + 1)
  <2>1. k \in 1 .. n - 1 /\ IsEntry(k) /\ \A j \in k + 1 .. n - 1 : ~IsEntry(j)
    BY DEF EntryBefore
  <2>2. \A j \in k + 1 .. n : j = n \/ j \in k + 1 .. n - 1
    BY <2>1
  <2> QED
    BY <1>1, <1>2, <2>1, <2>2 DEF EntryBefore
<1>3. ASSUME IsEntry(n) PROVE n \in EntryBefore(n + 1)
  BY <1>1, <1>3 DEF EntryBefore
<1> QED
  BY <1>2, <1>3

-----------------------------------------------------------------------------
(* What was done is kept by what a line does, or is overridden by it.        *)
Rows == \A k \in DOMAIN table : \A q \in Paths : SeenLine(k, q) => RowApplied(k, q)

LEMMA RowsStep ==
  ASSUME TreeInv, Rows, Grows, NEW P \in SUBSET Paths, LineDoes(P), UNCHANGED <<table, was>>,
         ret' = "ok",
         P # {} => lineno \in DOMAIN table,
         \A k \in DOMAIN table : \A q \in Paths :
           SeenLine(k, q)' <=> SeenLine(k, q) \/ (k = lineno /\ q \in P)
  PROVE  Rows'
<1> SUFFICES ASSUME NEW k \in DOMAIN table, NEW q \in Paths, SeenLine(k, q)' PROVE RowApplied(k, q)'
  BY DEF Rows
<1>0. /\ table \in Seq(EntryLines \cup OtherLines) /\ Len(table) \in Nat /\ lineno \in Nat
      /\ k \in 1 .. Len(table) /\ DOMAIN table = 1 .. Len(table)
  BY DEF TreeInv, TreeTypes
<1>1. IsEntry(k)
  BY SameLines DEF SeenLine, Mentions
<1>2. table[k].mode \in Int
  <2>1. table[k].mode \in Nat \cup {Keep}
    BY <1>0, <1>1, LineFacts
  <2> QED
    BY <2>1 DEF Keep
<1>3. \A j \in k + 1 .. Len(table) : j \in DOMAIN table
  BY <1>0
<1>4. LastSeen(k, q)' => LastSeen(k, q)
  BY <1>3 DEF LastSeen
<1>5. LastSeenMode(k, q)' => LastSeenMode(k, q)
  BY <1>3 DEF LastSeenMode
<1>6. CASE q \notin P
  <2>1. SeenLine(k, q)
    BY <1>6
  <2>2. RowApplied(k, q)
    BY <2>1 DEF Rows
  <2>3. tree[q].kind # "none"
    BY <2>2, ExistsIs DEF RowApplied
  <2>4. SameButCaps(tree'[q], tree[q])
    BY <1>6, <2>3 DEF LineDoes
  <2>5. LastSeen(k, q)' <=> LastSeen(k, q)
    BY <1>3, <1>6 DEF LastSeen
  <2>6. Exists(tree', q)
    BY <2>3, <2>4, ExistsIs DEF SameButCaps
  <2> QED
    BY <1>5, <2>2, <2>4, <2>5, <2>6 DEF RowApplied, SameButCaps, Batched, NumbersOf, Nth
<1>7. CASE q \in P /\ k = lineno
  <2>1. Renewed(q)
    BY <1>7 DEF LineDoes
  <2>2. Exists(tree', q)
    BY <2>1, ExistsIs DEF Renewed
  <2>3. LastSeenMode(k, q)' => table[k].mode # Keep
    BY <1>5 DEF LastSeenMode
  <2> QED
    BY <1>7, <2>1, <2>2, <2>3 DEF RowApplied, Renewed, Batched, NumbersOf, Nth
<1>8. CASE q \in P /\ k # lineno
  <2>0. k < lineno /\ lineno \in k + 1 .. Len(table) /\ lineno \in DOMAIN table
    <3>1. SeenLine(k, q)
      BY <1>8
    <3>2. k =< lineno
      BY <1>0, <3>1 DEF SeenLine
    <3> QED
      BY <1>0, <1>8, <3>2
  <2>9. PICK l \in DOMAIN table : l = lineno
    BY <2>0
  <2>1. SeenLine(k, q) /\ SeenLine(l, q)'
    BY <1>8, <2>0, <2>9
  <2>2. RowApplied(k, q)
    BY <2>1 DEF Rows
  <2>3. tree[q].kind # "none"
    BY <2>2, ExistsIs DEF RowApplied
  <2>4. ~LastSeen(k, q)' /\ (LastSeenMode(k, q)' => table[lineno].mode = Keep)
    BY <2>0, <2>1, <2>9 DEF LastSeen, LastSeenMode
  <2>5. Renewed(q)
    BY <1>8 DEF LineDoes
  <2>6. tree'[q].kind = tree[q].kind /\ tree'[q].dev = tree[q].dev
    BY <2>3 DEF Grows
  <2>7. Exists(tree', q)
    BY <2>3, <2>6, ExistsIs
  <2>8. LastSeenMode(k, q)' /\ tree'[q].kind # "link" =>
          tree'[q].mode = table[k].mode \/ tree'[q].mode = WithoutSetId(table[k].mode)
    <3> SUFFICES ASSUME LastSeenMode(k, q)', tree'[q].kind # "link"
                 PROVE  tree'[q].mode = table[k].mode \/ tree'[q].mode = WithoutSetId(table[k].mode)
      OBVIOUS
    <3>1. tree[q].mode = table[k].mode \/ tree[q].mode = WithoutSetId(table[k].mode)
      BY <1>5, <2>2, <2>6 DEF RowApplied
    <3>2. tree'[q].mode \in {tree[q].mode, WithoutSetId(tree[q].mode)}
      BY <2>3, <2>4, <2>5 DEF Renewed
    <3>3. WithoutSetId(WithoutSetId(table[k].mode)) = WithoutSetId(table[k].mode)
      BY <1>2, StripFacts
    <3> QED
      BY <3>1, <3>2, <3>3
  <2> QED
    BY <2>2, <2>4, <2>6, <2>7, <2>8 DEF RowApplied, Batched, NumbersOf, Nth
<1> QED
  BY <1>6, <1>7, <1>8

-----------------------------------------------------------------------------
MainInv == TreeInv /\ LoopInv /\ OthersInv /\ AppliedInv

LEMMA StepKeeps ==
  ASSUME MainInv, LineGrows, NEW P \in SUBSET Paths, LineDoes(P), UNCHANGED <<table, was>>,
         lineno \in DOMAIN table, lineno' \in {lineno, lineno + 1}, LoopInv', ret' # "exit 0",
         ret' = "ok" => \A k \in DOMAIN table : \A q \in Paths :
                          SeenLine(k, q)' <=> SeenLine(k, q) \/ (k = lineno /\ q \in P),
         ret' = "ok" /\ lineno' = lineno + 1 /\ IsEntry(lineno) /\ table[lineno].type = "d" =>
           \A a \in Above[table[lineno].name] : tree'[a].kind # "none"
  PROVE  MainInv'
<1>0. TreeInv /\ lineno \in Nat /\ lineno # 0 /\ Grows
  BY DEF MainInv, TreeInv, TreeTypes, LineGrows
<1>a. lineno' \in Nat \ {0}
  <2>1. lineno' = lineno \/ lineno' = lineno + 1
    OBVIOUS
  <2> QED
    BY ONLY <1>0, <2>1
<1>1. TreeInv'
  BY <1>0, <1>a, TreeGrown
<1>2. OthersInv'
  BY <1>0, OthersStep DEF MainInv
<1>3. ASSUME ret' = "ok" PROVE Rows' /\ DirsMade'
  <2>1. ret = "ok"
    BY <1>3 DEF LineDoes
  <2>2. Rows /\ DirsMade
    BY <2>1 DEF MainInv, AppliedInv, Rows
  <2>3. Rows'
    BY <1>0, <1>3, <2>2, RowsStep
  <2>4. DirsMade'
    <3> SUFFICES ASSUME NEW k \in DOMAIN table, k < lineno', IsEntry(k), table[k].type = "d",
                        NEW a \in Above[table[k].name]
                 PROVE  Exists(tree', a)
      BY SameLines DEF DirsMade, IsEntry
    <3>1. table[k].name \in Paths /\ k \in Nat
      BY <1>0, LineFacts DEF TreeInv, TreeTypes
    <3>2. a \in Paths
      BY <3>1, AboveFacts
    <3>3. CASE k < lineno
      <4>1. Exists(tree, a)
        BY <2>2, <3>3 DEF DirsMade
      <4>2. tree[a].kind # "none"
        BY <3>2, <4>1, ExistsIs
      <4>3. tree'[a].kind # "none"
        BY <1>0, <3>2, <4>2 DEF Grows
      <4> QED
        BY <3>2, <4>3, ExistsIs
    <3>4. CASE k = lineno /\ lineno' = lineno + 1
      <4>1. tree'[a].kind # "none"
        BY <1>3, <3>4
      <4> QED
        BY <3>2, <4>1, ExistsIs
    <3>5. k < lineno \/ (k = lineno /\ lineno' = lineno + 1)
      <4>1. lineno' = lineno \/ lineno' = lineno + 1
        OBVIOUS
      <4>2. k < lineno'
        OBVIOUS
      <4> QED
        BY ONLY <1>0, <3>1, <4>1, <4>2
    <3> QED
      BY <3>3, <3>4, <3>5
  <2> QED
    BY <2>3, <2>4
<1>4. AppliedInv'
  <2>1. ret' # "exit 0"
    OBVIOUS
  <2> QED
    BY <1>3, <2>1 DEF AppliedInv, Rows
<1> QED
  BY <1>1, <1>2, <1>4 DEF MainInv

(* A line that is done with in one step.                                     *)
LEMMA LineEnds ==
  ASSUME MainInv, Reading, LineGrows, UNCHANGED <<table, was, walk, made>>, NextLine,
         ret' \in {"ok", "failed"}, LineDoes({q \in Paths : Mentions(lineno, q)}),
         full_name' = IF IsEntry(lineno) THEN table[lineno].name ELSE full_name,
         ret' = "ok" /\ IsEntry(lineno) /\ table[lineno].type = "d" =>
           \A a \in Above[table[lineno].name] : tree'[a].kind # "none"
  PROVE  MainInv'
<1> DEFINE P == {q \in Paths : Mentions(lineno, q)}
<1>0. /\ TreeInv /\ lineno \in Nat /\ lineno # 0 /\ lineno' = lineno + 1
      /\ table \in Seq(EntryLines \cup OtherLines) /\ Len(table) \in Nat
      /\ walk = {} /\ made = NoLoop /\ walk' = {} /\ made' = NoLoop
  BY DEF MainInv, TreeInv, TreeTypes, Reading, NextLine
<1>1. lineno \in DOMAIN table
  BY <1>0 DEF Reading
<1>2. LoopInv'
  <2>1. WalkInv' /\ MadeInv'
    BY <1>0 DEF WalkInv, MadeInv
  <2>2. Origin'
    BY <1>0, OriginStep DEF MainInv, LoopInv
  <2>3. NameInv'
    <3>1. \A x : EntryBefore(x)' = EntryBefore(x)
      BY DEF EntryBefore, IsEntry
    <3>2. ~InLoop /\ ~InLoop'
      BY <1>0 DEF InLoop
    <3>3. CASE IsEntry(lineno)
      <4>1. lineno \in EntryBefore(lineno + 1)
        BY <1>0, <3>3, EntryBeforeNext
      <4>2. PICK l \in DOMAIN table : l = lineno
        BY <1>1
      <4>3. IsEntry(l)' /\ full_name' = table'[l].name /\ l \in EntryBefore(lineno)'
        <5>1. IsEntry(l)'
          BY <3>3, <4>2 DEF IsEntry
        <5>2. l \in EntryBefore(lineno)'
          BY <1>0, <4>1, <4>2 DEF EntryBefore, IsEntry
        <5> QED
          BY <3>3, <4>2, <5>1, <5>2
      <4> QED
        BY <3>2, <4>3 DEF NameInv
    <3>4. CASE ~IsEntry(lineno)
      <4>1. EntryBefore(lineno) \subseteq EntryBefore(lineno + 1)
        BY <1>0, <3>4, EntryBeforeNext
      <4>2. full_name # NoPath => \E k \in DOMAIN table :
              IsEntry(k) /\ full_name = table[k].name /\ k \in EntryBefore(lineno + 1)
        BY <3>2, <4>1 DEF MainInv, LoopInv, NameInv
      <4>3. \A k : k \in EntryBefore(lineno + 1) => k \in EntryBefore(lineno)'
        BY <1>0 DEF EntryBefore, IsEntry
      <4>4. \A k : IsEntry(k)' = IsEntry(k)
        BY DEF IsEntry
      <4> QED
        BY <3>2, <3>4, <4>2, <4>3, <4>4 DEF NameInv
    <3> QED
      BY <3>3, <3>4
  <2> QED
    BY <2>1, <2>2, <2>3 DEF LoopInv
<1>3. ASSUME NEW k \in DOMAIN table, NEW q \in Paths
      PROVE  SeenLine(k, q)' <=> SeenLine(k, q) \/ (k = lineno /\ q \in P)
  <2>1. Mentions(k, q)' = Mentions(k, q)
    BY SameLines
  <2>2. k \in Nat
    BY <1>0, LineFacts
  <2>3. SeenLine(k, q)' <=> Mentions(k, q) /\ k < lineno + 1
    BY <1>0, <2>1 DEF SeenLine
  <2>4. SeenLine(k, q) <=> Mentions(k, q) /\ k < lineno
    BY <1>0 DEF SeenLine
  <2> QED
    BY <1>0, <2>2, <2>3, <2>4
<1> HIDE DEF P
<1>4. P \in SUBSET Paths /\ LineDoes(P)
  BY DEF P
<1> QED
  BY <1>0, <1>1, <1>2, <1>3, <1>4, StepKeeps

-----------------------------------------------------------------------------
(* Lines that leave the files alone.                                         *)
LEMMA SameTree ==
  ASSUME TreeInv, tree' = tree
  PROVE  /\ LineGrows /\ \A q \in Paths : tree'[q].caps \subseteq tree[q].caps
         /\ \A P : (ret' = "ok" => ret = "ok" /\ P = {}) => LineDoes(P)
<1>1. \A q : SameButCaps(tree'[q], tree[q])
  BY DEF SameButCaps
<1> QED
  BY <1>1 DEF LineGrows, Grows, LineDoes, TreeInv, TreeTypes

LEMMA NoMentions ==
  ASSUME ~IsEntry(lineno) \/ table[lineno].type \notin {"d", "f", "F", "r", "c", "b", "p"}
  PROVE  {q \in Paths : Mentions(lineno, q)} = {}
BY DEF Mentions, Batched

LEMMA FollowedSame ==
  ASSUME TreeInv, NEW p \in Paths
  PROVE  /\ Followed(tree, p) = Followed(was, p) /\ Followed(tree, p) \in Paths \cup {NoPath}
<1>1. tree[p] \in Files
  BY DEF TreeInv, TreeTypes
<1>2. tree[p].to \in Paths \cup {NoPath}
  BY <1>1 DEF Files
<1>3. CASE was[p].kind # "none"
  <2>1. tree[p].kind = was[p].kind /\ tree[p].to = was[p].to
    BY <1>3 DEF TreeInv, KindKept
  <2> QED
    BY <1>2, <2>1 DEF Followed
<1>4. CASE was[p].kind = "none"
  <2>1. tree[p].kind # "link" /\ was[p].kind # "link"
    BY <1>4 DEF TreeInv, KindKept
  <2> QED
    BY <2>1 DEF Followed
<1> QED
  BY <1>3, <1>4

(* A file that is regular was regular, and what leads to it led to it.       *)
LEMMA RegularSame ==
  ASSUME TreeInv, NEW p \in Paths
  PROVE  /\ Regular(tree, p) => Followed(tree, p) \in Paths /\ Regular(was, Followed(was, p))
         /\ Followed(was, p) \in Paths /\ Regular(was, Followed(was, p)) => Regular(tree, p)
<1> DEFINE e == Followed(tree, p)
<1>1. e = Followed(was, p) /\ e \in Paths \cup {NoPath}
  BY FollowedSame
<1>2. ASSUME Regular(tree, p)
      PROVE  e \in Paths /\ Regular(was, e)
  <2>1. Exists(tree, e) /\ tree[e].kind = "file"
    BY <1>2 DEF Regular
  <2>2. e \in Paths
    BY <1>1, <2>1 DEF Exists
  <2> HIDE DEF e
  <2>3. was[e].kind = "file"
    BY <2>1, <2>2 DEF TreeInv, KindKept
  <2>4. Exists(was, e) /\ Followed(was, e) = e
    BY <2>2, <2>3, ExistsIs DEF Followed
  <2> QED
    BY <2>2, <2>3, <2>4 DEF Regular
<1>3. ASSUME e \in Paths, Regular(was, e)
      PROVE  Regular(tree, p)
  <2>1. e = p \/ (tree[p].kind = "link" /\ e = tree[p].to)
    BY DEF Followed
  <2>2. was[e].kind # "link" \/ (e = p /\ was[p].kind = "link")
    <3>1. CASE tree[p].kind = "link"
      <4>1. was[p].kind = "link" /\ was[p].to = tree[p].to
        BY <3>1 DEF TreeInv, KindKept
      <4>2. e = was[p].to /\ e # NoPath
        BY <1>3, <3>1, <4>1, ParentsInside DEF Followed
      <4> QED
        BY <4>1, <4>2 DEF TreeInv, Resolved
    <3>2. CASE tree[p].kind # "link"
      <4>1. e = p
        BY <3>2 DEF Followed
      <4> QED
        BY <4>1
    <3> QED
      BY <3>1, <3>2
  <2>3. was[e].kind # "link"
    <3> SUFFICES ASSUME e = p, was[p].kind = "link" PROVE FALSE
      BY <2>2
    <3>1. tree[p].kind = "link" /\ was[p].to = p
      <4>1. tree[p].kind = "link" /\ tree[p].to = was[p].to
        BY DEF TreeInv, KindKept
      <4> QED
        BY <4>1 DEF Followed
    <3>2. p # NoPath
      BY ParentsInside
    <3> QED
      BY <3>1, <3>2 DEF TreeInv, Resolved
  <2> HIDE DEF e
  <2>4. Followed(was, e) = e
    BY <2>3 DEF Followed
  <2>5. was[e].kind = "file" /\ was[e].kind # "none"
    BY <1>3, <2>4 DEF Regular
  <2>6. tree[e].kind = "file"
    BY <1>3, <2>5 DEF TreeInv, KindKept
  <2>7. Exists(tree, e)
    BY <1>3, <2>6, ExistsIs
  <2>8. Exists(tree, p)
    <3>1. tree[p].kind # "none"
      BY <2>1, <2>6
    <3> QED
      BY <3>1, ExistsIs
  <2> QED
    BY <2>6, <2>7, <2>8 DEF e, Regular
<1> QED
  BY <1>1, <1>2, <1>3

(* Where the run ends.                                                       *)
LEMMA EndKeepsInv ==
  ASSUME MainInv, CapsInv, UNCHANGED <<tree, table, lineno, full_name, walk, made, was>>,
         \/ ret' \notin {"ok", "exit 0"}
         \/ ret' = ret
         \/ ret = "ok" /\ ret' = "exit 0" /\ lineno > Len(table)
  PROVE  MainInv' /\ CapsInv'
<1>1. TreeInv'
  <2>1. LineGrows /\ TreeInv /\ lineno' \in Nat \ {0}
    BY SameTree DEF MainInv, TreeInv, TreeTypes
  <2> QED
    BY <2>1, TreeGrown DEF LineGrows
<1>2. \A k, p : There(p, k)' = There(p, k) /\ Made(k)' = Made(k) /\ About(k, p)' = About(k, p)
                /\ Mentions(k, p)' = Mentions(k, p)
  BY SameLines
<1>3. LoopInv'
  <2>1. WalkInv'
    BY DEF MainInv, LoopInv, WalkInv, OwnerOf, IsEntry, Exists
  <2>2. MadeInv'
    BY DEF MainInv, LoopInv, MadeInv, OwnerOf, IsEntry, Batched, NumbersOf
  <2>3. NameInv'
    BY DEF MainInv, LoopInv, NameInv, IsEntry, EntryBefore, InLoop
  <2>4. Origin'
    <3>1. LineGrows /\ TreeInv
      BY SameTree DEF MainInv
    <3> QED
      BY <3>1, OriginStep DEF MainInv, LoopInv
  <2> QED
    BY <2>1, <2>2, <2>3, <2>4 DEF LoopInv
<1>4. OthersInv'
  BY <1>2 DEF MainInv, OthersInv
<1>5. CapsInv'
  BY CapsStep DEF CapsInv
<1>6. AppliedInv'
  <2>1. ret' \in {"ok", "exit 0"} => ret \in {"ok", "exit 0"}
    OBVIOUS
  <2>2. ret' = "exit 0" => lineno > Len(table)
    BY DEF MainInv, AppliedInv
  <2>3. ASSUME NEW k, NEW q PROVE SeenLine(k, q)' = SeenLine(k, q)
    <3>1. Mentions(k, q)' = Mentions(k, q)
      BY SameLines
    <3>2. (\E n \in NumbersOf(k) : Nth(k, n) = q /\ table[k].start + n < made.next)'
          = (\E n \in NumbersOf(k) : Nth(k, n) = q /\ table[k].start + n < made.next)
      BY DEF NumbersOf, Nth
    <3>3. (k < lineno)' = (k < lineno) /\ (k = lineno)' = (k = lineno)
          /\ (walk # {} /\ q \notin {v.path : v \in walk})' = (walk # {} /\ q \notin {v.path : v \in walk})
          /\ (made # NoLoop)' = (made # NoLoop)
      OBVIOUS
    <3> QED
      BY <3>1, <3>2, <3>3 DEF SeenLine
  <2>4. ASSUME NEW k, NEW q PROVE RowApplied(k, q)' = RowApplied(k, q)
    <3>1. LastSeen(k, q)' = LastSeen(k, q) /\ LastSeenMode(k, q)' = LastSeenMode(k, q)
      BY <2>3 DEF LastSeen, LastSeenMode
    <3> QED
      BY <3>1 DEF RowApplied, Exists, Batched, NumbersOf, Nth
  <2>5. DirsMade' = DirsMade
    BY DEF DirsMade, Exists, IsEntry
  <2> QED
    BY <2>1, <2>2, <2>3, <2>4, <2>5 DEF MainInv, AppliedInv
<1> QED
  BY <1>1, <1>3, <1>4, <1>5, <1>6 DEF MainInv

-----------------------------------------------------------------------------
(* The actions.                                                             *)
LEMMA ReadingFacts ==
  ASSUME MainInv, Reading
  PROVE  /\ TreeInv /\ table \in Seq(EntryLines \cup OtherLines) /\ lineno \in DOMAIN table
         /\ lineno \in Nat /\ lineno # 0 /\ ret \in {"ok", "failed"} /\ walk = {} /\ made = NoLoop
         /\ (IsEntry(lineno) <=> Line.is = "entry")
         /\ IsEntry(lineno) => table[lineno].name \in Paths /\ table[lineno].mode \in Int
                               /\ table[lineno].mode \in Nat \cup {Keep}
<1>1. /\ TreeInv /\ table \in Seq(EntryLines \cup OtherLines) /\ lineno \in Nat \ {0}
      /\ ret \in {"ok", "failed"} /\ walk = {} /\ made = NoLoop /\ lineno =< Len(table)
  BY DEF MainInv, TreeInv, TreeTypes, Reading
<1>2. lineno \in DOMAIN table
  BY <1>1
<1>3. IsEntry(lineno) => table[lineno].name \in Paths /\ table[lineno].mode \in Nat \cup {Keep}
  BY <1>1, <1>2, LineFacts
<1>4. \A m \in Nat \cup {Keep} : m \in Int
  BY DEF Keep
<1> QED
  BY <1>1, <1>2, <1>3, <1>4 DEF IsEntry, Line

LEMMA IdsFacts ==
  ASSUME MakeDevsAssumption, NEW uid, NEW gid, Ids(uid, gid)
  PROVE  OwnerOf(lineno, uid, gid)
<1>1. PICK user \in Field("user"), group \in Field("group") :
        Known(user) /\ Known(group) /\ uid = IdOf[user] /\ gid = IdOf[group]
  BY DEF Ids
<1>2. uid \in Int /\ gid \in Int
  BY <1>1 DEF Known, MakeDevsAssumption
<1>3. table[lineno].user # None => user = table[lineno].user
  BY DEF Field, Line
<1>4. table[lineno].group # None => group = table[lineno].group
  BY DEF Field, Line
<1> QED
  BY <1>1, <1>2, <1>3, <1>4 DEF OwnerOf

(* chown and chmod of one file that the line is about.                       *)
LEMMA OneFile ==
  ASSUME TreeInv, lineno \in DOMAIN table, NEW p \in Paths, tree[p].kind # "none", Mentions(lineno, p),
         NEW mode \in Int, NEW uid \in Int, NEW gid \in Int, NEW o \in Outcomes,
         tree' = Apply(tree, p, mode, uid, gid, o)
  PROVE  /\ LineGrows /\ \A q \in Paths : tree'[q].caps \subseteq tree[q].caps
         /\ \A q \in Paths : tree'[q].kind = tree[q].kind
         /\ \A q \in Paths \ {p} : tree'[q] = tree[q]
         /\ OwnerOf(lineno, uid, gid) /\ Applied(o, mode) /\ ~Batched(lineno)
            /\ (table[lineno].mode = Keep => mode = Keep)
            /\ (table[lineno].mode # Keep /\ tree[p].kind # "link" => mode = table[lineno].mode)
            => Renewed(p)
<1> DEFINE g == NewFile(tree[p], mode, uid, gid, o)
<1>1. tree \in [Paths -> Files] /\ tree[p] \in Files
  BY DEF TreeInv, TreeTypes
<1>2. tree' = [tree EXCEPT ![p] = g]
  BY <1>1, ApplyIsNew
<1>3. /\ g \in Files /\ g.kind = tree[p].kind /\ g.to = tree[p].to /\ g.dev = tree[p].dev
      /\ g.caps \subseteq tree[p].caps
      /\ Applied(o, mode) => g.uid = uid /\ g.gid = gid
      /\ Applied(o, mode) /\ mode # Keep => g.mode = mode
      /\ Applied(o, mode) /\ mode = Keep => g.mode \in {tree[p].mode, WithoutSetId(tree[p].mode)}
  BY <1>1, NewFileFacts
<1> HIDE DEF g
<1>4. tree'[p] = g /\ \A q \in Paths \ {p} : tree'[q] = tree[q]
  BY <1>1, <1>2
<1>5. tree' \in [Paths -> Files]
  BY <1>1, <1>2, <1>3
<1>6. \A q \in Paths : /\ tree'[q].kind = tree[q].kind /\ tree'[q].to = tree[q].to
                       /\ tree'[q].dev = tree[q].dev /\ tree'[q].caps \subseteq tree[q].caps
  BY <1>3, <1>4
<1>7. Grows
  BY <1>5, <1>6 DEF Grows
<1>8. About(lineno, p) /\ \A q \in Paths \ {p} : SameButCaps(tree'[q], tree[q])
  BY <1>4 DEF About, SameButCaps
<1>9. LineGrows
  BY <1>6, <1>7, <1>8 DEF LineGrows
<1>10. ASSUME OwnerOf(lineno, uid, gid), Applied(o, mode), ~Batched(lineno),
              table[lineno].mode = Keep => mode = Keep,
              table[lineno].mode # Keep /\ tree[p].kind # "link" => mode = table[lineno].mode
       PROVE  Renewed(p)
  BY <1>3, <1>4, <1>10 DEF Renewed, OwnerOf
<1> QED
  BY <1>4, <1>6, <1>9, <1>10

LEMMA KeepsIgnored == MainInv /\ CapsInv /\ (Ignored \/ Invalid) => MainInv' /\ CapsInv'
<1> SUFFICES ASSUME MainInv, CapsInv, Ignored \/ Invalid PROVE MainInv' /\ CapsInv'
  OBVIOUS
<1>1. Reading /\ tree' = tree /\ UNCHANGED <<table, was, walk, made, full_name>> /\ NextLine
      /\ (ret' = ret \/ ret' = "failed") /\ Line.is # "entry"
  BY DEF Ignored, Invalid, Reported
<1>2. TreeInv /\ ~IsEntry(lineno) /\ ret \in {"ok", "failed"}
  BY <1>1, ReadingFacts
<1>3. {q \in Paths : Mentions(lineno, q)} = {}
  BY <1>2, NoMentions
<1>4. LineGrows /\ LineDoes({}) /\ \A q \in Paths : tree'[q].caps \subseteq tree[q].caps
  BY <1>1, <1>2, SameTree
<1>5. MainInv'
  BY <1>1, <1>2, <1>3, <1>4, LineEnds
<1>6. CapsInv'
  BY <1>1, <1>4, CapsStep
<1> QED
  BY <1>5, <1>6

LEMMA KeepsUnsupported ==
  MainInv /\ CapsInv /\ (Unsupported \/ NoRegularFile) => MainInv' /\ CapsInv'
<1> SUFFICES ASSUME MainInv, CapsInv, Unsupported \/ NoRegularFile PROVE MainInv' /\ CapsInv'
  OBVIOUS
<1>1. Reading /\ tree' = tree /\ UNCHANGED <<table, was, walk, made>> /\ NextLine /\ Named
      /\ (ret' = ret \/ ret' = "failed") /\ Line.is = "entry"
  BY DEF Unsupported, NoRegularFile, Reported, Entry
<1>2. TreeInv /\ IsEntry(lineno) /\ ret \in {"ok", "failed"} /\ table[lineno].name \in Paths
  BY <1>1, ReadingFacts
<1>3. {q \in Paths : Mentions(lineno, q)} = {}
  <2>1. CASE Unsupported
    BY <2>1, NoMentions DEF Unsupported, Line
  <2>2. CASE NoRegularFile
    <3>1. table[lineno].type \in {"f", "F"} /\ ~Regular(tree, table[lineno].name)
      BY <2>2 DEF NoRegularFile, Entry, Line
    <3> SUFFICES ASSUME NEW q \in Paths, Mentions(lineno, q) PROVE FALSE
      OBVIOUS
    <3>2. q = Followed(was, table[lineno].name) /\ Regular(was, q)
      BY <3>1 DEF Mentions, Batched
    <3> QED
      BY <1>2, <3>1, <3>2, RegularSame
  <2> QED
    BY <2>1, <2>2
<1>4. LineGrows /\ LineDoes({}) /\ \A q \in Paths : tree'[q].caps \subseteq tree[q].caps
  BY <1>1, <1>2, SameTree
<1>5. table[lineno].type # "d"
  BY DEF Unsupported, NoRegularFile, Entry, Line
<1>6. MainInv'
  BY <1>1, <1>2, <1>3, <1>4, <1>5, LineEnds DEF Named, Line
<1>7. CapsInv'
  BY <1>1, <1>4, CapsStep
<1> QED
  BY <1>6, <1>7

LEMMA KeepsRegularFile == MainInv /\ CapsInv /\ RegularFile => MainInv' /\ CapsInv'
<1> SUFFICES ASSUME MainInv, CapsInv, RegularFile PROVE MainInv' /\ CapsInv'
  OBVIOUS
<1> DEFINE name == table[lineno].name
           mode == table[lineno].mode
           e == Followed(tree, name)
<1>1. PICK uid \in IdSet, gid \in IdSet, o \in Outcomes :
        /\ Ids(uid, gid) /\ tree' = Apply(tree, e, mode, uid, gid, o) /\ Reported(~Applied(o, mode))
  BY DEF RegularFile, Line
<1>2. Reading /\ UNCHANGED <<table, was, walk, made>> /\ NextLine /\ Named /\ Line.is = "entry"
      /\ table[lineno].type \in {"f", "F"} /\ Regular(tree, name)
  BY DEF RegularFile, Entry, Line
<1>3. TreeInv /\ IsEntry(lineno) /\ ret \in {"ok", "failed"} /\ name \in Paths /\ mode \in Int
      /\ lineno \in DOMAIN table
  BY <1>2, ReadingFacts
<1>4. e \in Paths /\ Regular(was, Followed(was, name)) /\ e = Followed(was, name)
  BY <1>2, <1>3, RegularSame, FollowedSame
<1>5. \A q : Mentions(lineno, q) <=> q = e
  BY <1>2, <1>3, <1>4 DEF Mentions, Batched
<1>6. tree[e].kind # "none"
  BY <1>2, <1>4, ExistsIs DEF Regular
<1>7. OwnerOf(lineno, uid, gid) /\ uid \in Int /\ gid \in Int
  BY <1>1, IdsFacts, MakeDevsAssumption DEF OwnerOf
<1>8. ~Batched(lineno)
  BY <1>2 DEF Batched
<1> HIDE DEF e, name, mode
<1>9. /\ LineGrows /\ \A q \in Paths : tree'[q].caps \subseteq tree[q].caps
      /\ \A q \in Paths \ {e} : tree'[q] = tree[q]
      /\ Applied(o, mode) => Renewed(e)
  BY <1>1, <1>3, <1>4, <1>5, <1>6, <1>7, <1>8, OneFile DEF mode
<1>10. {q \in Paths : Mentions(lineno, q)} = {e}
  BY <1>4, <1>5
<1>11. LineDoes({e})
  BY <1>1, <1>9 DEF LineDoes, Reported, SameButCaps
<1>12. ret' \in {"ok", "failed"}
  BY <1>1, <1>3 DEF Reported
<1>13. MainInv'
  BY <1>2, <1>3, <1>9, <1>10, <1>11, <1>12, LineEnds DEF Named, Line
<1>14. CapsInv'
  BY <1>2, <1>9, CapsStep
<1> QED
  BY <1>13, <1>14

LEMMA KeepsXattr == MainInv /\ CapsInv /\ Xattr => MainInv' /\ CapsInv'
<1> SUFFICES ASSUME MainInv, CapsInv, Xattr PROVE MainInv' /\ CapsInv'
  OBVIOUS
<1>1. CASE Dies
  BY <1>1, EndKeepsInv DEF Dies
<1>2. CASE ~Dies
  <2> DEFINE f == Followed(tree, full_name)
             cap == table[lineno].cap
  <2>1. /\ Reading /\ Line.is = "xattr" /\ HasCaps(tree, full_name)
        /\ tree' = [tree EXCEPT ![f].caps = @ \cup {cap}]
        /\ NextLine /\ UNCHANGED <<table, full_name, walk, made, ret, was>>
    BY <1>2 DEF Xattr, Line
  <2>2. TreeInv /\ ~IsEntry(lineno) /\ ret' \in {"ok", "failed"} /\ lineno \in DOMAIN table
        /\ table \in Seq(EntryLines \cup OtherLines) /\ walk = {} /\ made = NoLoop
    BY <2>1, ReadingFacts
  <2>3. cap \in STRING
    <3>1. table[lineno] \in EntryLines \cup OtherLines
      BY <2>2
    <3> QED
      BY <2>1, <3>1 DEF Line, EntryLines, OtherLines
  <2>4. full_name # NoPath
    BY <2>1 DEF HasCaps, Exists
  <2>5. PICK k \in DOMAIN table : full_name = table[k].name /\ k \in EntryBefore(lineno) /\ IsEntry(k)
    BY <2>2, <2>4 DEF MainInv, LoopInv, NameInv, InLoop
  <2>6. full_name \in Paths
    BY <2>2, <2>5, LineFacts
  <2>7. f \in Paths /\ f = Followed(was, table[k].name)
    BY <2>1, <2>2, <2>5, <2>6, FollowedSame DEF HasCaps, Exists
  <2> HIDE DEF f, cap
  <2>8. tree \in [Paths -> Files] /\ tree[f] \in Files
    BY <2>2, <2>7 DEF TreeInv, TreeTypes
  <2> DEFINE g == [tree[f] EXCEPT !.caps = @ \cup {cap}]
  <2>9. g \in Files /\ SameButCaps(g, tree[f]) /\ g.caps = tree[f].caps \cup {cap}
    BY <2>3, <2>8 DEF Files, SameButCaps
  <2>10. tree' = [tree EXCEPT ![f] = g]
    BY <2>1, <2>8
  <2> HIDE DEF g
  <2>11. tree' \in [Paths -> Files] /\ tree'[f] = g /\ \A q \in Paths \ {f} : tree'[q] = tree[q]
    BY <2>7, <2>8, <2>9, <2>10
  <2>12. \A q \in Paths : SameButCaps(tree'[q], tree[q])
    BY <2>9, <2>11 DEF SameButCaps
  <2>13. LineGrows
    BY <2>11, <2>12 DEF LineGrows, Grows, SameButCaps
  <2>14. LineDoes({})
    BY <2>1, <2>12 DEF LineDoes
  <2>15. {q \in Paths : Mentions(lineno, q)} = {}
    BY <2>2, NoMentions
  <2>16. MainInv'
    BY <2>1, <2>2, <2>13, <2>14, <2>15, LineEnds
  <2>17. CapsInv'
    <3>1. \A x : EntryBefore(x)' = EntryBefore(x)
      BY <2>1 DEF EntryBefore, IsEntry
    <3> SUFFICES ASSUME NEW p \in Paths, NEW c \in tree'[p].caps \ was[p].caps
                 PROVE  \E x \in DOMAIN table : /\ table[x].is = "xattr" /\ table[x].cap = c
                                                /\ \E j \in EntryBefore(x) : p = Followed(was, table[j].name)
      BY <2>1, <3>1 DEF CapsInv, CapsOnTheirFile, Followed
    <3>2. CASE c \in tree[p].caps
      BY <3>2 DEF CapsInv, CapsOnTheirFile
    <3>3. CASE c \notin tree[p].caps
      <4>1. p = f /\ c = cap
        BY <2>9, <2>11, <3>3
      <4> QED
        BY <2>1, <2>2, <2>5, <2>7, <4>1 DEF cap, Line
    <3> QED
      BY <3>2, <3>3
  <2> QED
    BY <2>16, <2>17
<1> QED
  BY <1>1, <1>2

LEMMA KeepsEnd == MainInv /\ CapsInv /\ (UnknownName \/ DevEnd) => MainInv' /\ CapsInv'
<1> SUFFICES ASSUME MainInv, CapsInv, UnknownName \/ DevEnd PROVE MainInv' /\ CapsInv'
  OBVIOUS
<1>1. UNCHANGED <<tree, table, lineno, full_name, walk, made, was>>
  BY DEF UnknownName, DevEnd, Dies
<1>2. ret' \notin {"ok", "exit 0"} \/ (ret = "ok" /\ ret' = "exit 0" /\ lineno > Len(table))
  BY DEF UnknownName, DevEnd, Dies
<1> QED
  BY <1>1, <1>2, EndKeepsInv

(* bb_make_directory.                                                        *)
LEMMA DirectoryFacts ==
  ASSUME TreeInv, NEW p \in Paths, NEW mode \in Nat \cup {Keep}
  PROVE  LET d == WithDirectory(tree, p, mode)
         IN  /\ d \in [Paths -> Files]
             /\ \A q \in Paths : tree[q].kind # "none" => d[q] = tree[q]
             /\ \A q \in Paths : tree[q].kind = "none" =>
                  /\ d[q].kind \in {"none", "dir"}
                  /\ d[q].caps \subseteq tree[q].caps
                  /\ d[q].kind # "none" =>
                       q \in Above[p] /\ (Parent[q] # "/" => d[Parent[q]].kind # "none")
             /\ d[p].kind # "none" => \A a \in Above[p] : d[a].kind # "none"
<1> DEFINE d == WithDirectory(tree, p, mode)
           New(q) == Dir(IF q # p THEN ForAll ELSE IF mode = Keep THEN AllBits ELSE mode, 0, 0)
<1>1. tree \in [Paths -> Files] /\ Above[p] \subseteq Paths
  BY AboveFacts DEF TreeInv, TreeTypes
<1>2. CASE Blocked(tree, p)
  <2>1. d = tree
    BY <1>2 DEF WithDirectory
  <2>2. \A q \in Paths : Exists(tree, q) /\ Parent[q] # "/" => Exists(tree, Parent[q])
    BY DEF TreeInv, ParentsThere
  <2>3. ASSUME tree[p].kind # "none", NEW a \in Above[p] PROVE tree[a].kind # "none"
    <3>1. Exists(tree, p)
      BY <2>3, ExistsIs
    <3>2. Exists(tree, a)
      BY <2>2, <3>1, AllAboveThere
    <3> QED
      BY <1>1, <3>2, ExistsIs
  <2> HIDE DEF d
  <2> QED
    BY <1>1, <2>1, <2>3 DEF d
<1>3. CASE ~Blocked(tree, p)
  <2>1. d = [q \in Paths |-> IF q \notin Above[p] \/ Exists(tree, q) THEN tree[q] ELSE New(q)]
    BY <1>3 DEF WithDirectory
  <2>2. \A q : New(q) \in Files /\ New(q).kind = "dir" /\ New(q).caps = {}
    <3> TAKE q
    <3> DEFINE m == IF q # p THEN ForAll ELSE IF mode = Keep THEN AllBits ELSE mode
    <3>1. m \in Int
      BY DEF ForAll, Keep, AllBits
    <3> HIDE DEF m
    <3>2. Absent \in Files
      <4>1. <<>> \in Seq(Int) /\ {} \in SUBSET STRING
        OBVIOUS
      <4> QED
        BY <4>1 DEF Absent, Files
    <3>3. Dir(m, 0, 0) \in Files /\ Dir(m, 0, 0).kind = "dir" /\ Dir(m, 0, 0).caps = {}
      BY <3>1, <3>2 DEF Dir, File, Files, Absent
    <3> QED
      BY <3>3 DEF m
  <2> HIDE DEF d, New
  <2>3. \A q \in Paths : d[q] = IF q \notin Above[p] \/ tree[q].kind # "none" THEN tree[q] ELSE New(q)
    BY <2>1, ExistsIs
  <2>4. d \in [Paths -> Files]
    BY <1>1, <2>1, <2>2
  <2>5. \A a \in Above[p] : d[a].kind # "none"
    BY <1>1, <2>2, <2>3
  <2>6. \A q \in Paths : tree[q].kind = "none" =>
                  /\ d[q].kind \in {"none", "dir"}
                  /\ d[q].caps \subseteq tree[q].caps
                  /\ d[q].kind # "none" => q \in Above[p]
    BY <2>2, <2>3
  <2>7. \A q \in Paths : q \in Above[p] /\ Parent[q] # "/" => d[Parent[q]].kind # "none"
    BY <2>5, AboveFacts
  <2> QED
    BY <2>3, <2>4, <2>5, <2>6, <2>7 DEF d
<1> QED
  BY <1>2, <1>3

LEMMA DirectoryLeaves ==
  ASSUME NEW p \in Paths, NEW mode, NEW q \in Paths, WithDirectory(tree, p, mode)[q].kind = "none"
  PROVE  WithDirectory(tree, p, mode)[q] = tree[q]
<1>1. CASE Blocked(tree, p)
  BY <1>1 DEF WithDirectory
<1>2. CASE ~Blocked(tree, p)
  <2>1. ASSUME NEW m PROVE Dir(m, 0, 0).kind = "dir"
    BY DEF Dir, File, Absent
  <2> QED
    BY <1>2, <2>1 DEF WithDirectory
<1> QED
  BY <1>1, <1>2

LEMMA KeepsDirectory == MainInv /\ CapsInv /\ Directory => MainInv' /\ CapsInv'
<1> SUFFICES ASSUME MainInv, CapsInv, Directory PROVE MainInv' /\ CapsInv'
  OBVIOUS
<1> DEFINE name == table[lineno].name
           mode == table[lineno].mode
           d == WithDirectory(tree, name, mode)
           e == Followed(d, name)
<1>1. PICK uid \in IdSet, gid \in IdSet, o \in Outcomes :
        /\ Ids(uid, gid)
        /\ tree' = IF Exists(d, e) THEN Apply(d, e, mode, uid, gid, o) ELSE d
        /\ Reported(~Exists(d, e) \/ ~Applied(o, mode))
  BY DEF Directory, Line
<1>2. Reading /\ UNCHANGED <<table, was, walk, made>> /\ NextLine /\ Named /\ Line.is = "entry"
      /\ table[lineno].type = "d"
  BY DEF Directory, Entry, Line
<1>3. TreeInv /\ IsEntry(lineno) /\ ret \in {"ok", "failed"} /\ name \in Paths /\ mode \in Int
      /\ lineno \in DOMAIN table /\ mode \in Nat \cup {Keep}
  BY <1>2, ReadingFacts
<1> HIDE DEF name, mode
<1>4. /\ d \in [Paths -> Files]
      /\ \A q \in Paths : tree[q].kind # "none" => d[q] = tree[q]
      /\ \A q \in Paths : tree[q].kind = "none" =>
           /\ d[q].kind \in {"none", "dir"}
           /\ d[q].caps \subseteq tree[q].caps
           /\ d[q].kind # "none" =>
                q \in Above[name] /\ (Parent[q] # "/" => d[Parent[q]].kind # "none")
      /\ d[name].kind # "none" => \A a \in Above[name] : d[a].kind # "none"
  BY <1>3, DirectoryFacts
<1> HIDE DEF d
<1>5. e = Followed(was, name) /\ e \in Paths \cup {NoPath}
      /\ (e # name => tree[name].kind = "link")
  <2>1. Followed(tree, name) = Followed(was, name) /\ Followed(tree, name) \in Paths \cup {NoPath}
    BY <1>3, FollowedSame
  <2>2. e = Followed(tree, name)
    BY <1>3, <1>4 DEF Followed
  <2> QED
    BY <2>1, <2>2 DEF Followed
<1>6. \A q : Mentions(lineno, q) <=> q = e
  BY <1>2, <1>3, <1>5 DEF Mentions, Batched, name
<1>7. Made(lineno) = Above[name]
  BY <1>2, <1>3 DEF Made, Batched, name
<1>8. OwnerOf(lineno, uid, gid) /\ uid \in Int /\ gid \in Int
  BY <1>1, IdsFacts, MakeDevsAssumption DEF OwnerOf
<1>9. ~Batched(lineno)
  BY <1>2 DEF Batched
<1> DEFINE g == IF Exists(d, e) THEN NewFile(d[e], mode, uid, gid, o) ELSE d[e]
           P == {q \in Paths : Mentions(lineno, q)}
<1> HIDE DEF e
<1>10. e \in Paths =>
         /\ g \in Files /\ g.kind = d[e].kind /\ g.to = d[e].to /\ g.dev = d[e].dev
         /\ g.caps \subseteq d[e].caps
         /\ Exists(d, e) /\ Applied(o, mode) => g.uid = uid /\ g.gid = gid
         /\ Exists(d, e) /\ Applied(o, mode) /\ mode # Keep => g.mode = mode
         /\ Exists(d, e) /\ Applied(o, mode) /\ mode = Keep => g.mode \in {d[e].mode, WithoutSetId(d[e].mode)}
  <2> SUFFICES ASSUME e \in Paths PROVE
         /\ g \in Files /\ g.kind = d[e].kind /\ g.to = d[e].to /\ g.dev = d[e].dev
         /\ g.caps \subseteq d[e].caps
         /\ Exists(d, e) /\ Applied(o, mode) => g.uid = uid /\ g.gid = gid
         /\ Exists(d, e) /\ Applied(o, mode) /\ mode # Keep => g.mode = mode
         /\ Exists(d, e) /\ Applied(o, mode) /\ mode = Keep => g.mode \in {d[e].mode, WithoutSetId(d[e].mode)}
    OBVIOUS
  <2>1. d[e] \in Files
    BY <1>4
  <2>2. CASE Exists(d, e)
    BY <1>3, <1>8, <2>1, <2>2, NewFileFacts
  <2>3. CASE ~Exists(d, e)
    BY <2>1, <2>3
  <2> QED
    BY <2>2, <2>3
<1>11. (e \in Paths /\ tree' = [d EXCEPT ![e] = g]) \/ (e \notin Paths /\ tree' = d)
  <2>1. CASE e \in Paths /\ Exists(d, e)
    <3>1. Apply(d, e, mode, uid, gid, o) = [d EXCEPT ![e] = NewFile(d[e], mode, uid, gid, o)]
      BY <1>4, <2>1, ApplyIsNew
    <3> QED
      BY <1>1, <2>1, <3>1
  <2>2. CASE e \in Paths /\ ~Exists(d, e)
    BY <1>1, <1>4, <2>2
  <2>3. CASE e \notin Paths
    BY <1>1, <1>5, <2>3 DEF Exists
  <2> QED
    BY <2>1, <2>2, <2>3
<1> HIDE DEF g
<1>12. tree' \in [Paths -> Files] /\ \A q \in Paths : tree'[q] = IF q = e THEN g ELSE d[q]
  BY <1>4, <1>10, <1>11
<1>13. \A q \in Paths : /\ tree'[q].kind = d[q].kind /\ tree'[q].to = d[q].to
                        /\ tree'[q].dev = d[q].dev /\ tree'[q].caps \subseteq d[q].caps
  BY <1>10, <1>12
<1>14. \A q \in Paths : tree'[q].caps \subseteq tree[q].caps
  BY <1>4, <1>13
<1>15. Grows
  <2>1. \A q \in Paths : tree[q].kind = "none" /\ d[q].kind # "none" /\ Parent[q] # "/" =>
           tree'[Parent[q]].kind # "none"
    BY <1>4, <1>13, ParentsInside
  <2> QED
    BY <1>4, <1>12, <1>13, <2>1 DEF Grows
<1>16. \A q \in Paths \ P : tree[q].kind # "none" => SameButCaps(tree'[q], tree[q])
  BY <1>4, <1>6, <1>12 DEF SameButCaps
<1>17. LineGrows
  <2>1. \A q \in Paths : tree[q].kind = "none" /\ tree'[q].kind # "none" => q \in Made(lineno)
    BY <1>4, <1>7, <1>13
  <2>2. ASSUME NEW q \in Paths PROVE SameButCaps(tree'[q], tree[q]) \/ About(lineno, q)
    <3>1. CASE q = e
      BY <1>3, <1>6, <3>1 DEF About
    <3>2. CASE q # e /\ tree[q].kind # "none"
      BY <1>6, <1>16, <3>2
    <3>3. CASE q # e /\ tree[q].kind = "none" /\ d[q].kind # "none"
      BY <1>3, <1>4, <1>7, <3>3 DEF About
    <3>4. CASE q # e /\ tree[q].kind = "none" /\ d[q].kind = "none"
      <4>1. d[q] = tree[q]
        BY <1>3, <3>4, DirectoryLeaves DEF d
      <4> QED
        BY <1>12, <3>4, <4>1 DEF SameButCaps
    <3> QED
      BY <3>1, <3>2, <3>3, <3>4
  <2> QED
    BY <1>15, <2>1, <2>2 DEF LineGrows
<1>18. LineDoes(P)
  <2>1. ASSUME ret' = "ok" PROVE ret = "ok" /\ \A q \in P : Renewed(q)
    <3>1. ret = "ok" /\ Exists(d, e) /\ Applied(o, mode)
      BY <1>1, <2>1 DEF Reported
    <3> SUFFICES ASSUME e \in Paths PROVE Renewed(e)
      BY <1>6, <3>1
    <3>2. tree'[e] = g /\ g.kind # "none"
      BY <1>10, <1>12, <3>1, ExistsIs
    <3>3. tree[e].kind # "none" /\ mode = Keep => tree'[e].mode \in {tree[e].mode, WithoutSetId(tree[e].mode)}
      BY <1>4, <1>10, <3>1, <3>2
    <3> QED
      BY <1>8, <1>9, <1>10, <3>1, <3>2, <3>3 DEF Renewed, OwnerOf, mode
  <2> QED
    BY <1>16, <2>1 DEF LineDoes
<1>19. ASSUME ret' = "ok", NEW a \in Above[name] PROVE tree'[a].kind # "none"
  <2>1. Exists(d, e)
    BY <1>1, <1>19, <1>3 DEF Reported
  <2>2. d[name].kind # "none"
    BY <1>3, <1>4, <1>5, <2>1 DEF Exists
  <2>3. a \in Paths
    BY <1>3, AboveFacts
  <2> QED
    BY <1>4, <1>13, <2>2, <2>3
<1>20. ret' \in {"ok", "failed"}
  BY <1>1, <1>3 DEF Reported
<1>21. MainInv'
  BY <1>2, <1>3, <1>17, <1>18, <1>19, <1>20, LineEnds DEF Named, Line, name
<1>22. CapsInv'
  BY <1>2, <1>14, CapsStep
<1> QED
  BY <1>21, <1>22

-----------------------------------------------------------------------------
(* The two loops.                                                           *)

(* Where a loop begins, or is in its next round, the line is the same.       *)
LEMMA NameInLoop ==
  ASSUME lineno \in DOMAIN table, IsEntry(lineno), full_name' \in {NoPath, table[lineno].name},
         UNCHANGED <<table, lineno>>, InLoop'
  PROVE  NameInv'
<1>1. PICK l \in DOMAIN table : l = lineno
  OBVIOUS
<1>2. IsEntry(l)' /\ full_name' \in {NoPath, table'[l].name} /\ l = lineno'
  BY <1>1 DEF IsEntry
<1> QED
  BY <1>2 DEF NameInv

LEMMA NameAfterLoop ==
  ASSUME lineno \in DOMAIN table, lineno \in Nat \ {0}, IsEntry(lineno), full_name' \in {NoPath, table[lineno].name},
         UNCHANGED table, lineno' = lineno + 1, ~InLoop'
  PROVE  NameInv'
<1>1. PICK l \in DOMAIN table : l = lineno
  OBVIOUS
<1>2. l \in EntryBefore(lineno + 1)
  BY <1>1, EntryBeforeNext
<1>3. IsEntry(l)' /\ full_name' \in {NoPath, table'[l].name} /\ l \in EntryBefore(lineno)'
  BY <1>1, <1>2 DEF EntryBefore, IsEntry
<1> QED
  BY <1>3 DEF NameInv

LEMMA KeepsRecursive == MainInv /\ CapsInv /\ Recursive => MainInv' /\ CapsInv'
<1> SUFFICES ASSUME MainInv, CapsInv, Recursive PROVE MainInv' /\ CapsInv'
  OBVIOUS
<1> DEFINE name == table[lineno].name
<1>1. Reading /\ tree' = tree /\ UNCHANGED <<table, was, made>> /\ Named /\ Line.is = "entry"
      /\ table[lineno].type = "r"
  BY DEF Recursive, Entry, Line
<1>2. TreeInv /\ IsEntry(lineno) /\ ret \in {"ok", "failed"} /\ name \in Paths
      /\ lineno \in DOMAIN table /\ lineno \in Nat \ {0} /\ walk = {} /\ made = NoLoop
      /\ table \in Seq(EntryLines \cup OtherLines)
  BY <1>1, ReadingFacts
<1>3. LineGrows /\ (\A q \in Paths : tree'[q].caps \subseteq tree[q].caps)
      /\ \A P : (ret' = "ok" => ret = "ok" /\ P = {}) => LineDoes(P)
  BY <1>1, <1>2, SameTree
<1>4. CapsInv'
  BY <1>1, <1>3, CapsStep
<1>5. full_name' = name
  BY <1>1 DEF Named, Line
<1>6. CASE ~Exists(tree, name)
  <2>1. walk' = walk /\ ret' = "failed" /\ NextLine
    BY <1>2, <1>6 DEF Recursive, Line, Reported
  <2>2. LineDoes({q \in Paths : Mentions(lineno, q)})
    BY <1>3, <2>1
  <2>3. MainInv'
    BY <1>1, <1>2, <1>3, <1>5, <2>1, <2>2, LineEnds
  <2> QED
    BY <1>4, <2>3
<1>7. CASE Exists(tree, name)
  <2>1. PICK uid \in IdSet, gid \in IdSet :
          /\ Ids(uid, gid)
          /\ walk' = {[path |-> q, uid |-> uid, gid |-> gid] : q \in {b \in Below(name) : Exists(tree, b)}}
    BY <1>7 DEF Recursive, Line
  <2>2. lineno' = lineno /\ ret' = ret
    BY <1>7 DEF Recursive, Line
  <2> HIDE DEF name
  <2>3. name \in Below(name)
    BY <1>2, AboveFacts DEF Below
  <2>4. walk' # {}
    BY <1>7, <2>1, <2>3
  <2>5. OwnerOf(lineno, uid, gid)
    BY <2>1, IdsFacts, MakeDevsAssumption
  <2>6. \A v \in walk' : v.path \in Below(name) /\ Exists(tree, v.path)
                         /\ v = [path |-> v.path, uid |-> uid, gid |-> gid]
    BY <2>1
  <2>7. ASSUME NEW q \in Below(name), Exists(tree, q) PROVE \E v \in walk' : v.path = q
    <3>1. [path |-> q, uid |-> uid, gid |-> gid] \in walk'
      BY <2>1, <2>7
    <3> QED
      BY <3>1
  <2>8. WalkInv'
    <3>1. \A v \in walk' : v.uid = uid /\ v.gid = gid
      BY <2>6
    <3>2. \A v \in walk' : OwnerOf(lineno, v.uid, v.gid)
      BY <2>5, <3>1
    <3>3. \A v \in walk', w \in walk' : w.path = v.path => w = v
      BY <2>6
    <3>4. \A q : (q \in Below(table[lineno].name))' <=> q \in Below(name)
      BY <1>1, <2>2 DEF Below, name
    <3>5. \A u, g : OwnerOf(lineno, u, g)' <=> OwnerOf(lineno, u, g)
      BY <1>1, <2>2 DEF OwnerOf
    <3> QED
      BY <1>1, <1>2, <2>2, <2>6, <3>2, <3>3, <3>4, <3>5 DEF WalkInv, IsEntry, Exists
  <2>9. MadeInv'
    BY <1>1, <1>2 DEF MadeInv
  <2>10. NameInv'
    BY <1>1, <1>2, <1>5, <2>2, <2>4, NameInLoop DEF InLoop, name
  <2>11. Origin'
    BY <1>1, <1>2, <1>3, <2>2, OriginStep DEF MainInv, LoopInv
  <2>12. LoopInv'
    BY <2>8, <2>9, <2>10, <2>11 DEF LoopInv
  <2>13. LineDoes({})
    BY <1>3, <2>2
  <2>14. ASSUME ret' = "ok", NEW q \in Paths, Mentions(lineno, q) PROVE \E v \in walk' : v.path = q
    <3>1. q \in Below(name) /\ There(q, lineno)
      BY <1>1, <2>14 DEF Mentions, Batched, name
    <3>2. Exists(tree, q)
      <4>1. CASE Exists(was, q)
        <5>1. was[q].kind # "none"
          BY <4>1, ExistsIs
        <5>2. tree[q].kind # "none"
          BY <1>2, <5>1 DEF TreeInv, KindKept
        <5> QED
          BY <5>2, ExistsIs
      <4>2. CASE ~Exists(was, q)
        <5>1. PICK j \in 1 .. lineno - 1 : q \in Made(j)
          BY <3>1, <4>2 DEF There
        <5>2. j \in DOMAIN table /\ j < lineno
          BY <1>2, <5>1
        <5>3. IsEntry(j) /\ (Batched(j) \/ (table[j].type = "d" /\ q \in Above[table[j].name]))
          BY <5>1 DEF Made
        <5>4. CASE Batched(j)
          <6>1. SeenLine(j, q)
            BY <5>1, <5>2, <5>3, <5>4 DEF SeenLine, Mentions, Batched
          <6>2. RowApplied(j, q)
            BY <2>2, <2>14, <5>2, <6>1 DEF MainInv, AppliedInv
          <6> QED
            BY <6>2 DEF RowApplied
        <5>5. CASE table[j].type = "d" /\ q \in Above[table[j].name]
          BY <2>2, <2>14, <5>2, <5>3, <5>5 DEF MainInv, AppliedInv, DirsMade
        <5> QED
          BY <5>3, <5>4, <5>5
      <4> QED
        BY <4>1, <4>2
    <3> QED
      BY <2>7, <3>1, <3>2
  <2>15. ASSUME ret' = "ok", NEW k \in DOMAIN table, NEW q \in Paths
         PROVE  SeenLine(k, q)' <=> SeenLine(k, q)
    <3>1. Mentions(k, q)' = Mentions(k, q)
      BY <1>1, SameLines
    <3>2. SeenLine(k, q)' <=> Mentions(k, q) /\ (k < lineno \/ (k = lineno /\ q \notin {v.path : v \in walk'}))
      BY <1>1, <1>2, <2>2, <2>4, <3>1 DEF SeenLine
    <3>3. SeenLine(k, q) <=> Mentions(k, q) /\ k < lineno
      BY <1>2 DEF SeenLine
    <3>4. Mentions(k, q) /\ k = lineno => q \in {v.path : v \in walk'}
      BY <2>14, <2>15
    <3> QED
      BY <3>2, <3>3, <3>4
  <2>16. MainInv'
    BY <1>1, <1>2, <1>3, <2>2, <2>12, <2>13, <2>15, StepKeeps
  <2> QED
    BY <1>4, <2>16
<1> QED
  BY <1>6, <1>7

LEMMA KeepsVisit == MainInv /\ CapsInv /\ Visit => MainInv' /\ CapsInv'
<1> SUFFICES ASSUME MainInv, CapsInv, Visit PROVE MainInv' /\ CapsInv'
  OBVIOUS
<1> DEFINE name == table[lineno].name
           mode == table[lineno].mode
<1>1. PICK v \in walk, o \in Outcomes :
       \E chmod \in {mode # Keep /\ (tree[v.path].kind # "link" \/ Dangling(v.path))} :
          \E fails \in {~o.chown \/ (chmod /\ (Dangling(v.path) \/ ~o.chmod))} :
            /\ tree' = Apply(tree, v.path, IF chmod /\ ~fails THEN mode ELSE Keep, v.uid, v.gid, o)
            /\ Leaves(IF fails THEN {} ELSE walk \ {v})
            /\ Reported(fails)
  BY DEF Visit, Touched, Line
<1> DEFINE p == v.path
           chmod == mode # Keep /\ (tree[p].kind # "link" \/ Dangling(p))
           fails == ~o.chown \/ (chmod /\ (Dangling(p) \/ ~o.chmod))
           m == IF chmod /\ ~fails THEN mode ELSE Keep
<1>2. tree' = Apply(tree, p, m, v.uid, v.gid, o) /\ Leaves(IF fails THEN {} ELSE walk \ {v}) /\ Reported(fails)
  BY <1>1
<1>3. UNCHANGED <<table, full_name, made, was>>
  BY DEF Visit
<1>4. /\ lineno \in DOMAIN table /\ IsEntry(lineno) /\ table[lineno].type = "r" /\ made = NoLoop
      /\ p \in Below(name) /\ Exists(tree, p) /\ OwnerOf(lineno, v.uid, v.gid)
      /\ \A u \in walk : /\ u.path \in Below(name) /\ Exists(tree, u.path) /\ OwnerOf(lineno, u.uid, u.gid)
                         /\ \A w \in walk : w.path = u.path => w = u
  BY DEF MainInv, LoopInv, WalkInv
<1>5. TreeInv /\ lineno \in Nat \ {0} /\ table \in Seq(EntryLines \cup OtherLines) /\ p \in Paths
  BY <1>4 DEF MainInv, TreeInv, TreeTypes, Below
<1>6. mode \in Int
  <2>1. mode \in Nat \cup {Keep}
    BY <1>4, <1>5, LineFacts
  <2> QED
    BY <2>1 DEF Keep
<1>7. tree[p].kind # "none" /\ Mentions(lineno, p)
  <2>1. There(p, lineno)
    BY <1>4, <1>5 DEF MainInv, LoopInv, Origin
  <2> QED
    BY <1>4, <1>5, <2>1, ExistsIs DEF Mentions, Batched
<1>8. ~Batched(lineno)
  BY <1>4 DEF Batched
<1>9. m \in Int /\ v.uid \in Int /\ v.gid \in Int
  BY <1>4, <1>6 DEF Keep, OwnerOf
<1>10. ~fails => /\ Applied(o, m) /\ (mode = Keep => m = Keep)
                 /\ (mode # Keep /\ tree[p].kind # "link" => m = mode)
  BY DEF Applied
<1> HIDE DEF fails, m, p, mode, name
<1>11. /\ LineGrows /\ \A q \in Paths : tree'[q].caps \subseteq tree[q].caps
       /\ \A q \in Paths : tree'[q].kind = tree[q].kind
       /\ \A q \in Paths \ {p} : tree'[q] = tree[q]
       /\ ~fails => Renewed(p)
  <2> DEFINE u == v.uid
             g == v.gid
  <2>1. tree' = Apply(tree, p, m, u, g, o) /\ u \in Int /\ g \in Int /\ OwnerOf(lineno, u, g)
    BY <1>2, <1>4, <1>9
  <2> HIDE DEF u, g
  <2> QED
    BY <1>4, <1>5, <1>7, <1>8, <1>9, <1>10, <2>1, OneFile DEF mode
<1>12. LineDoes({p})
  BY <1>2, <1>11 DEF LineDoes, Reported, SameButCaps
<1>13. ret' # "exit 0"
  <2>1. ~(lineno > Len(table))
    BY <1>4, <1>5, LineFacts
  <2>2. ret # "exit 0"
    BY <2>1 DEF MainInv, AppliedInv
  <2> QED
    BY <1>2, <2>2 DEF Reported
<1>14. walk' \subseteq walk /\ (walk' = {} => lineno' = lineno + 1) /\ (walk' # {} => lineno' = lineno)
       /\ (~fails => walk' = walk \ {v})
  BY <1>2 DEF Leaves
<1>15. LoopInv'
  <2>1. full_name \in {NoPath, name}
    BY <1>4 DEF MainInv, LoopInv, NameInv, InLoop, name
  <2>2. WalkInv'
    <3> SUFFICES ASSUME walk' # {} PROVE WalkInv'
      BY DEF WalkInv
    <3>1. lineno' = lineno
      BY <1>14
    <3>2. \A u, g : OwnerOf(lineno, u, g)' <=> OwnerOf(lineno, u, g)
      BY <1>3, <3>1 DEF OwnerOf
    <3>3. \A q : (q \in Below(table[lineno].name))' <=> q \in Below(name)
      BY <1>3, <3>1 DEF Below, name
    <3>4. \A q : q \in Below(name) /\ Exists(tree, q) => Exists(tree', q)
      BY <1>11, ExistsIs DEF Below
    <3> QED
      BY <1>3, <1>4, <1>14, <3>1, <3>2, <3>3, <3>4 DEF WalkInv, IsEntry, Exists
  <2>3. MadeInv'
    BY <1>3, <1>4 DEF MadeInv
  <2>4. Origin'
    BY <1>3, <1>4, <1>5, <1>11, <1>14, OriginStep DEF MainInv, LoopInv
  <2>5. NameInv'
    <3>1. CASE walk' # {}
      BY <1>3, <1>4, <1>14, <2>1, <3>1, NameInLoop DEF InLoop, name
    <3>2. CASE walk' = {}
      BY <1>3, <1>4, <1>5, <1>14, <2>1, <3>2, NameAfterLoop DEF InLoop, name
    <3> QED
      BY <3>1, <3>2
  <2> QED
    BY <2>2, <2>3, <2>4, <2>5 DEF LoopInv
<1>16. ASSUME ret' = "ok", NEW k \in DOMAIN table, NEW q \in Paths
       PROVE  SeenLine(k, q)' <=> SeenLine(k, q) \/ (k = lineno /\ q \in {p})
  <2>1. Mentions(k, q)' = Mentions(k, q)
    BY <1>3, SameLines
  <2>2. walk' = walk \ {v}
    BY <1>2, <1>14, <1>16 DEF Reported
  <2>3. SeenLine(k, q)' <=> Mentions(k, q) /\ (k < lineno' \/ (k = lineno' /\ walk' # {} /\ q \notin {w.path : w \in walk'}))
    BY <1>3, <1>4, <2>1 DEF SeenLine
  <2>4. SeenLine(k, q) <=> Mentions(k, q) /\ (k < lineno \/ (k = lineno /\ walk # {} /\ q \notin {w.path : w \in walk}))
    BY <1>4 DEF SeenLine
  <2>5. q \in {w.path : w \in walk} <=> q \in {w.path : w \in walk'} \/ q = p
    BY <1>4, <2>2 DEF p
  <2>6. q = p => q \notin {w.path : w \in walk'}
    BY <1>4, <2>2 DEF p
  <2>7. k \in Nat
    BY <1>5, LineFacts
  <2>8. k = lineno /\ q = p => Mentions(k, q)
    BY <1>7
  <2>9. CASE walk' = {}
    <3>1. lineno' = lineno + 1 /\ (q \in {w.path : w \in walk} <=> q = p)
      BY <1>14, <2>5, <2>9
    <3>2. k < lineno + 1 <=> k < lineno \/ k = lineno
      BY <1>5, <2>7
    <3> HIDE DEF p
    <3> QED
      BY <2>3, <2>4, <2>8, <2>9, <3>1, <3>2
  <2>10. CASE walk' # {}
    <3> HIDE DEF p
    <3> QED
      BY <1>14, <2>3, <2>4, <2>5, <2>6, <2>8, <2>10
  <2> QED
    BY <2>9, <2>10
<1>17. MainInv'
  <2>1. lineno' \in {lineno, lineno + 1} /\ {p} \in SUBSET Paths /\ table[lineno].type # "d"
    BY <1>4, <1>5, <1>14
  <2> QED
    BY <1>3, <1>4, <1>11, <1>12, <1>13, <1>15, <1>16, <2>1, StepKeeps
<1>18. CapsInv'
  BY <1>3, <1>11, CapsStep
<1> QED
  BY <1>17, <1>18

LEMMA KeepsBatch == MainInv /\ CapsInv /\ Batch => MainInv' /\ CapsInv'
<1> SUFFICES ASSUME MainInv, CapsInv, Batch PROVE MainInv' /\ CapsInv'
  OBVIOUS
<1> DEFINE start == table[lineno].start
<1>1. Reading /\ tree' = tree /\ UNCHANGED <<table, was, walk, lineno, ret>> /\ Named /\ Line.is = "entry"
      /\ table[lineno].type \in {"c", "b", "p"}
  BY DEF Batch, Entry, Line
<1>2. PICK uid \in IdSet, gid \in IdSet : Ids(uid, gid) /\ made' = [next |-> start, uid |-> uid, gid |-> gid]
  BY DEF Batch, Line
<1>3. TreeInv /\ IsEntry(lineno) /\ ret \in {"ok", "failed"} /\ walk = {} /\ made = NoLoop
      /\ lineno \in DOMAIN table /\ table \in Seq(EntryLines \cup OtherLines)
  BY <1>1, ReadingFacts
<1>4. start \in Nat /\ table[lineno].count \in Nat
  BY <1>3, LineFacts
<1>5. OwnerOf(lineno, uid, gid) /\ uid \in Int /\ gid \in Int
  BY <1>2, IdsFacts, MakeDevsAssumption DEF OwnerOf
<1> HIDE DEF start
<1>6. made' # NoLoop /\ made'.next = start /\ made'.uid = uid /\ made'.gid = gid
      /\ made' \in [next : Int, uid : Int, gid : Int]
  <2>1. NoLoop.next = -1 /\ made'.next # -1
    BY <1>2, <1>4 DEF NoLoop
  <2> QED
    BY <1>2, <1>4, <1>5, <2>1
<1>7. LineGrows /\ (\A q \in Paths : tree'[q].caps \subseteq tree[q].caps) /\ LineDoes({})
  BY <1>1, <1>3, SameTree
<1>8. LoopInv'
  <2>1. WalkInv'
    BY <1>1, <1>3 DEF WalkInv
  <2>2. MadeInv'
    <3>1. start - start = 0 /\ 0 \in NumbersOf(lineno)
      BY <1>4 DEF NumbersOf
    <3>2. (made.next - table[lineno].start)' = 0 /\ (0 \in NumbersOf(lineno))' 
      BY <1>1, <1>6, <3>1 DEF NumbersOf, start
    <3>3. Batched(lineno)' /\ IsEntry(lineno)' /\ lineno' \in DOMAIN table'
      BY <1>1, <1>3 DEF Batched, IsEntry
    <3>4. OwnerOf(lineno, made.uid, made.gid)'
      BY <1>1, <1>5, <1>6 DEF OwnerOf
    <3> QED
      BY <1>6, <3>2, <3>3, <3>4 DEF MadeInv
  <2>3. NameInv'
    BY <1>1, <1>3, <1>6, NameInLoop DEF InLoop, Named, Line
  <2>4. Origin'
    BY <1>1, <1>3, <1>6, <1>7, OriginStep DEF MainInv, LoopInv
  <2> QED
    BY <2>1, <2>2, <2>3, <2>4 DEF LoopInv
<1>9. ASSUME NEW k \in DOMAIN table, NEW q \in Paths
      PROVE  SeenLine(k, q)' <=> SeenLine(k, q)
  <2>1. Mentions(k, q)' = Mentions(k, q) /\ NumbersOf(k)' = NumbersOf(k)
    BY <1>1, SameLines
  <2>2. SeenLine(k, q) <=> Mentions(k, q) /\ k < lineno
    BY <1>3 DEF SeenLine
  <2>3. SeenLine(k, q)' => Mentions(k, q) /\ (k < lineno \/ (k = lineno /\ \E n \in NumbersOf(k) : start + n < start))
    BY <1>1, <1>3, <1>6, <2>1 DEF SeenLine, start
  <2>4. Mentions(k, q) /\ k < lineno => SeenLine(k, q)'
    BY <1>1, <2>1 DEF SeenLine
  <2>5. k = lineno => \A n \in NumbersOf(k) : ~(start + n < start)
    BY <1>4 DEF NumbersOf
  <2> QED
    BY <2>2, <2>3, <2>4, <2>5
<1>10. MainInv'
  BY <1>1, <1>3, <1>7, <1>8, <1>9, StepKeeps
<1>11. CapsInv'
  BY <1>1, <1>7, CapsStep
<1> QED
  BY <1>10, <1>11

(* mknod, chown and chmod of one file.                                       *)
LEMMA OneNode ==
  ASSUME TreeInv, lineno \in DOMAIN table, NEW p \in Paths, ~Exists(tree, p), ParentIsThere(p),
         IsEntry(lineno), Batched(lineno), NEW n \in NumbersOf(lineno), Nth(lineno, n) = p,
         made.next \in Int, n = made.next - table[lineno].start,
         NEW uid \in Int, NEW gid \in Int, OwnerOf(lineno, uid, gid), NEW o \in Outcomes,
         tree' = Apply([tree EXCEPT ![p] = Fresh], p, table[lineno].mode, uid, gid, o)
  PROVE  /\ LineGrows /\ \A q \in Paths : tree'[q].caps \subseteq tree[q].caps
         /\ \A q \in Paths \ {p} : tree'[q] = tree[q]
         /\ Applied(o, table[lineno].mode) => Renewed(p)
<1> DEFINE mode == table[lineno].mode
           g == NewFile(Fresh, mode, uid, gid, o)
<1>1. tree \in [Paths -> Files] /\ table \in Seq(EntryLines \cup OtherLines)
  BY DEF TreeInv, TreeTypes
<1>2. /\ mode \in Nat \cup {Keep} /\ table[lineno].start \in Nat /\ table[lineno].major \in Nat
      /\ table[lineno].minor \in Nat /\ table[lineno].inc \in Nat
  BY <1>1, LineFacts
<1>3. mode \in Int
  BY <1>2 DEF Keep
<1> DEFINE i == made.next - table[lineno].start
           minor == table[lineno].minor + i * table[lineno].inc
<1>4. minor \in Int /\ Minor(made.next) = minor /\ n = i
  BY <1>2 DEF Minor, Line
<1> HIDE DEF minor, i
<1>5. table[lineno].type \in {"c", "b", "p"}
  BY DEF Batched
<1>6. /\ Fresh \in Files /\ Fresh.kind = table[lineno].type /\ Fresh.caps = {}
      /\ Fresh.dev = <<table[lineno].major, minor>>
  <2>1. <<table[lineno].major, minor>> \in Seq(Int) /\ <<>> \in Seq(Int)
    BY <1>2, <1>4
  <2>2. Absent \in Files
    BY <2>1 DEF Absent, Files
  <2>3. Fresh = [Absent EXCEPT !.kind = table[lineno].type, !.mode = mode, !.dev = <<table[lineno].major, minor>>]
    BY <1>4 DEF Fresh, Line
  <2> HIDE DEF mode
  <2> QED
    BY <1>3, <1>5, <2>1, <2>2, <2>3 DEF Files, Absent
<1> HIDE DEF mode
<1>7. [tree EXCEPT ![p] = Fresh] \in [Paths -> Files]
  BY <1>1, <1>6
<1>8. tree' = [tree EXCEPT ![p] = g]
  <2> DEFINE t == [tree EXCEPT ![p] = Fresh]
  <2>1. t[p] = Fresh
    BY <1>1
  <2>2. tree' = [t EXCEPT ![p] = NewFile(t[p], mode, uid, gid, o)]
    <3>1. tree' = Apply(t, p, mode, uid, gid, o) /\ t \in [Paths -> Files] /\ p \in Paths
      BY <1>7 DEF mode
    <3> HIDE DEF t
    <3>2. Apply(t, p, mode, uid, gid, o) = [t EXCEPT ![p] = NewFile(t[p], mode, uid, gid, o)]
      BY ONLY <3>1, ApplyIsNew
    <3> QED
      BY ONLY <3>1, <3>2
  <2> QED
    BY <1>1, <2>1, <2>2
<1>9. /\ g \in Files /\ g.kind = Fresh.kind /\ g.dev = Fresh.dev /\ g.caps \subseteq Fresh.caps
      /\ Applied(o, mode) => g.uid = uid /\ g.gid = gid
      /\ Applied(o, mode) /\ mode # Keep => g.mode = mode
  BY <1>3, <1>6, NewFileFacts
<1> HIDE DEF g
<1>10. tree'[p] = g /\ (\A q \in Paths \ {p} : tree'[q] = tree[q]) /\ tree' \in [Paths -> Files]
  BY <1>1, <1>8, <1>9
<1>11. tree[p].kind = "none" /\ g.kind \notin {"file", "link", "none"} /\ g.caps = {}
  BY <1>5, <1>6, <1>9, ExistsIs
<1>12. Parent[p] # "/" => Parent[p] \in Paths /\ Parent[p] # p /\ tree[Parent[p]].kind # "none"
  <2> SUFFICES ASSUME Parent[p] # "/" PROVE Parent[p] \in Paths /\ Parent[p] # p /\ tree[Parent[p]].kind # "none"
    OBVIOUS
  <2>1. Parent[p] \in Paths
    BY ParentsInside
  <2>2. Exists(tree, Parent[p])
    BY DEF ParentIsThere
  <2> QED
    BY <2>1, <2>2, ExistsIs
<1>13. Grows
  <2>1. tree'[p].kind \notin {"file", "link"}
    BY <1>10, <1>11
  <2>2. Parent[p] # "/" => tree'[Parent[p]].kind # "none"
    BY <1>10, <1>12
  <2>3. ASSUME NEW q \in Paths
        PROVE  /\ tree[q].kind # "none" =>
                    tree'[q].kind = tree[q].kind /\ tree'[q].to = tree[q].to /\ tree'[q].dev = tree[q].dev
               /\ tree[q].kind = "none" => tree'[q].kind \notin {"file", "link"} \/ tree'[q] = tree[q]
               /\ tree[q].kind = "none" /\ tree'[q].kind # "none" /\ Parent[q] # "/" =>
                    tree'[Parent[q]].kind # "none"
    <3>1. CASE q = p
      BY <1>11, <2>1, <2>2, <3>1
    <3>2. CASE q # p
      BY <1>10, <3>2
    <3> QED
      BY <3>1, <3>2
  <2> QED
    BY <1>10, <2>3 DEF Grows
<1>14. p \in Made(lineno)
  BY DEF Made, Batched
<1>15. LineGrows
  BY <1>10, <1>13, <1>14 DEF LineGrows, About, SameButCaps
<1>16. \A m \in NumbersOf(lineno) : Nth(lineno, m) = p => m = n
  BY DEF TreeInv, TreeTypes
<1>17. Applied(o, mode) => Renewed(p)
  <2> SUFFICES ASSUME Applied(o, mode) PROVE Renewed(p)
    OBVIOUS
  <2>1. tree'[p].uid = uid /\ tree'[p].gid = gid /\ tree'[p].kind # "none" /\ (mode # Keep => tree'[p].mode = mode)
    BY <1>9, <1>10, <1>11
  <2>2. tree'[p].kind = table[lineno].type
        /\ tree'[p].dev = <<table[lineno].major, table[lineno].minor + n * table[lineno].inc>>
    BY <1>4, <1>6, <1>9, <1>10 DEF minor
  <2> QED
    BY <1>11, <1>16, <2>1, <2>2 DEF Renewed, OwnerOf, mode
<1> QED
  BY <1>10, <1>11, <1>15, <1>17 DEF mode

LEMMA KeepsMakeNode == MainInv /\ CapsInv /\ MakeNode => MainInv' /\ CapsInv'
<1> SUFFICES ASSUME MainInv, CapsInv, MakeNode PROVE MainInv' /\ CapsInv'
  OBVIOUS
<1> DEFINE start == table[lineno].start
           n0 == made.next - start
           p == Nth(lineno, n0)
           mode == table[lineno].mode
           last == IF table[lineno].count = 0 THEN 0 ELSE table[lineno].count - 1
<1>1. UNCHANGED <<table, full_name, walk, was>> /\ made # NoLoop
  BY DEF MakeNode
<1>2. /\ lineno \in DOMAIN table /\ IsEntry(lineno) /\ Batched(lineno)
      /\ made \in [next : Int, uid : Int, gid : Int] /\ n0 \in NumbersOf(lineno)
      /\ OwnerOf(lineno, made.uid, made.gid)
  BY <1>1 DEF MainInv, LoopInv, MadeInv
<1>3. TreeInv /\ lineno \in Nat \ {0} /\ table \in Seq(EntryLines \cup OtherLines)
  BY DEF MainInv, TreeInv, TreeTypes
<1>4. start \in Nat /\ table[lineno].count \in Nat /\ made.next \in Int
  BY <1>2, <1>3, LineFacts
<1>5. p \in Paths /\ \A m \in NumbersOf(lineno) : Nth(lineno, m) = p => m = n0
  BY <1>2, <1>3 DEF TreeInv, TreeTypes
<1>6. NodeOf(made.next) = p
  <2>1. start + n0 = made.next
    BY <1>4
  <2> QED
    BY <2>1 DEF NodeOf, Nth, Line
<1>7. walk = {}
  BY <1>1 DEF MainInv, LoopInv, WalkInv
<1> HIDE DEF p, mode
<1>8. PICK o \in Outcomes :
        \E refused \in {Exists(tree, p) \/ ~ParentIsThere(p) \/ mode = Keep} :
        /\ tree' = IF refused THEN tree ELSE Apply([tree EXCEPT ![p] = Fresh], p, mode, made.uid, made.gid, o)
        /\ Reported(refused \/ ~Applied(o, mode))
  BY <1>6 DEF MakeNode, Line, mode
<1> DEFINE refused == Exists(tree, p) \/ ~ParentIsThere(p) \/ mode = Keep
<1>9. /\ tree' = IF refused THEN tree ELSE Apply([tree EXCEPT ![p] = Fresh], p, mode, made.uid, made.gid, o)
      /\ Reported(refused \/ ~Applied(o, mode))
  BY <1>8
<1> HIDE DEF n0
<1>10. LineGrows /\ (\A q \in Paths : tree'[q].caps \subseteq tree[q].caps) /\ LineDoes({p})
  <2>1. CASE refused
    BY <1>3, <1>9, <2>1, SameTree DEF Reported
  <2>2. CASE ~refused
    <3> DEFINE u == made.uid
               g == made.gid
    <3>1. u \in Int /\ g \in Int /\ OwnerOf(lineno, u, g)
          /\ tree' = Apply([tree EXCEPT ![p] = Fresh], p, mode, u, g, o)
      BY <1>2, <1>9, <2>2
    <3> HIDE DEF u, g
    <3>2. ~Exists(tree, p) /\ ParentIsThere(p)
      BY <2>2
    <3>3. /\ LineGrows /\ \A q \in Paths : tree'[q].caps \subseteq tree[q].caps
          /\ \A q \in Paths \ {p} : tree'[q] = tree[q]
          /\ Applied(o, mode) => Renewed(p)
      BY <1>2, <1>3, <1>4, <1>5, <3>1, <3>2, OneNode DEF mode, p, n0
    <3>4. LineDoes({p})
      BY <1>9, <2>2, <3>3 DEF LineDoes, Reported, SameButCaps
    <3> QED
      BY <3>3, <3>4
  <2> QED
    BY <2>1, <2>2
<1>11. ret' # "exit 0"
  <2>1. ~(lineno > Len(table))
    BY <1>2, <1>3, LineFacts
  <2>2. ret # "exit 0"
    BY <2>1 DEF MainInv, AppliedInv
  <2> QED
    BY <1>9, <2>2 DEF Reported
<1> HIDE DEF start
<1>12. n0 \in 0 .. last /\ NumbersOf(lineno) = 0 .. last /\ last \in Nat
  BY <1>2, <1>4 DEF NumbersOf
<1> HIDE DEF last
<1>13. \/ made' = [made EXCEPT !.next = @ + 1] /\ lineno' = lineno /\ n0 + 1 \in 0 .. last
       \/ made' = NoLoop /\ lineno' = lineno + 1 /\ n0 = last
  <2>1. made.next + 1 \in Numbers <=> n0 + 1 \in 0 .. last
    <3>1. Numbers = start .. start + last
      BY DEF Numbers, start, last, Line
    <3>2. n0 = made.next - start
      BY DEF n0
    <3> QED
      BY <1>4, <1>12, <3>1, <3>2
  <2>2. CASE made.next + 1 \in Numbers
    BY <2>1, <2>2 DEF MakeNode
  <2>3. CASE made.next + 1 \notin Numbers
    BY <1>12, <2>1, <2>3 DEF MakeNode, NextLine
  <2> QED
    BY <2>2, <2>3
<1>14. made' # NoLoop =>
         /\ made' \in [next : Int, uid : Int, gid : Int]
         /\ made'.next = made.next + 1 /\ made'.uid = made.uid /\ made'.gid = made.gid
         /\ lineno' = lineno /\ n0 + 1 \in 0 .. last
  BY <1>2, <1>13
<1>15. made' = NoLoop => lineno' = lineno + 1 /\ n0 = last
  <2> SUFFICES ASSUME made' = [made EXCEPT !.next = @ + 1], n0 + 1 \in 0 .. last PROVE made' # NoLoop
    BY <1>13
  <2>1. made'.next = made.next + 1
    BY <1>2
  <2>2. made.next >= 0
    BY <1>4, <1>12 DEF n0
  <2>3. NoLoop.next = -1
    BY DEF NoLoop
  <2>4. made.next + 1 # -1
    BY ONLY <1>4, <2>2
  <2> QED
    BY ONLY <2>1, <2>3, <2>4
<1>16. LoopInv'
  <2>1. WalkInv'
    BY <1>1, <1>7 DEF WalkInv
  <2>2. MadeInv'
    <3> SUFFICES ASSUME made' # NoLoop PROVE MadeInv'
      BY DEF MadeInv
    <3>1. (made.next - table[lineno].start)' = n0 + 1
      BY <1>1, <1>4, <1>14 DEF n0, start
    <3>2. NumbersOf(lineno)' = 0 .. last
      BY <1>1, <1>12, <1>14 DEF NumbersOf
    <3>3. Batched(lineno)' /\ IsEntry(lineno)' /\ lineno' \in DOMAIN table'
      BY <1>1, <1>2, <1>14 DEF Batched, IsEntry
    <3>4. OwnerOf(lineno, made.uid, made.gid)'
      BY <1>1, <1>2, <1>14 DEF OwnerOf
    <3> QED
      BY <1>14, <3>1, <3>2, <3>3, <3>4 DEF MadeInv
  <2>3. NameInv'
    <3>1. full_name \in {NoPath, table[lineno].name}
      BY <1>1 DEF MainInv, LoopInv, NameInv, InLoop
    <3>2. CASE made' # NoLoop
      BY <1>1, <1>2, <1>14, <3>1, <3>2, NameInLoop DEF InLoop
    <3>3. CASE made' = NoLoop
      BY <1>1, <1>2, <1>3, <1>7, <1>15, <3>1, <3>3, NameAfterLoop DEF InLoop
    <3> QED
      BY <3>2, <3>3
  <2>4. Origin'
    BY <1>1, <1>3, <1>10, <1>14, <1>15, OriginStep DEF MainInv, LoopInv
  <2> QED
    BY <2>1, <2>2, <2>3, <2>4 DEF LoopInv
<1>17. Mentions(lineno, p) /\ \A q : Mentions(lineno, q) => \E n \in 0 .. last : Nth(lineno, n) = q
  BY <1>2, <1>12 DEF Mentions, Made, Batched, p
<1>18. ASSUME NEW k \in DOMAIN table, NEW q \in Paths
       PROVE  SeenLine(k, q)' <=> SeenLine(k, q) \/ (k = lineno /\ q \in {p})
  <2>1. Mentions(k, q)' = Mentions(k, q) /\ NumbersOf(k)' = NumbersOf(k) /\ \A n : Nth(k, n)' = Nth(k, n)
    BY <1>1, SameLines
  <2>2. k \in Nat
    BY <1>3, LineFacts
  <2> DEFINE Before(x) == \E n \in NumbersOf(k) : Nth(k, n) = q /\ table[k].start + n < x
  <2>3. SeenLine(k, q) <=> Mentions(k, q) /\ (k < lineno \/ (k = lineno /\ Before(made.next)))
    BY <1>1, <1>7 DEF SeenLine
  <2>4. Before(made.next)' <=> Before(made'.next)
    BY <1>1, <2>1
  <2>5. SeenLine(k, q)' <=> Mentions(k, q) /\ (k < lineno' \/ (k = lineno' /\ made' # NoLoop /\ Before(made.next)'))
    BY <1>1, <1>7, <2>1 DEF SeenLine
  <2>6. CASE k # lineno
    <3>1. SeenLine(k, q) <=> Mentions(k, q) /\ k < lineno
      BY <2>3, <2>6
    <3>2. CASE made' # NoLoop
      BY <1>14, <2>5, <2>6, <3>1, <3>2
    <3>3. CASE made' = NoLoop
      <4>1. SeenLine(k, q)' <=> Mentions(k, q) /\ k < lineno + 1
        BY <1>15, <2>5, <3>3
      <4>2. k < lineno + 1 <=> k < lineno
        BY <1>3, <2>2, <2>6
      <4> QED
        BY <2>6, <3>1, <4>1, <4>2
    <3> QED
      BY <3>2, <3>3
  <2>7. CASE k = lineno
    <3>1. /\ SeenLine(k, q) <=> Mentions(k, q) /\ Before(made.next)
      BY <1>3, <2>3, <2>7
    <3>2. \A x \in Int : Before(x) <=> \E n \in 0 .. last : Nth(lineno, n) = q /\ start + n < x
      BY <1>12, <2>7 DEF start
    <3>3. \A n \in 0 .. last : start + n < made.next <=> n < n0
      BY <1>4, <1>12 DEF n0
    <3>4. \A n \in 0 .. last : start + n < made.next + 1 <=> n < n0 \/ n = n0
      BY <1>4, <1>12 DEF n0
    <3>5. \A n \in 0 .. last : Nth(lineno, n) = p <=> n = n0
      BY <1>5, <1>12 DEF p
    <3>6. Before(made.next) <=> \E n \in 0 .. last : Nth(lineno, n) = q /\ n < n0
      BY <1>4, <3>2, <3>3
    <3>7. Before(made.next + 1) <=> Before(made.next) \/ q = p
      <4>1. Before(made.next + 1) <=> \E n \in 0 .. last : Nth(lineno, n) = q /\ (n < n0 \/ n = n0)
        BY <1>4, <3>2, <3>4
      <4> HIDE DEF Before
      <4> QED
        BY <1>12, <3>5, <3>6, <4>1
    <3> HIDE DEF Before
    <3>8. CASE made' # NoLoop
      <4>1. SeenLine(k, q)' <=> Mentions(k, q) /\ Before(made.next + 1)
        BY <1>3, <1>14, <2>4, <2>5, <2>7, <3>8
      <4> QED
        BY <1>17, <2>7, <3>1, <3>7, <4>1
    <3>9. CASE made' = NoLoop
      <4>1. SeenLine(k, q)' <=> Mentions(k, q)
        BY <1>3, <1>15, <2>5, <2>7, <3>9
      <4>2. Mentions(k, q) => Before(made.next) \/ q = p
        <5> SUFFICES ASSUME Mentions(k, q) PROVE Before(made.next) \/ q = p
          OBVIOUS
        <5>1. PICK n \in 0 .. last : Nth(lineno, n) = q
          BY <1>17, <2>7
        <5>2. n < n0 \/ n = n0
          BY <1>12, <1>15, <3>9, <5>1
        <5> QED
          BY <3>5, <3>6, <5>1, <5>2
      <4> QED
        BY <1>17, <2>7, <3>1, <4>1, <4>2
    <3> QED
      BY <3>8, <3>9
  <2> QED
    BY <2>6, <2>7
<1>19. MainInv'
  <2>1. lineno' \in {lineno, lineno + 1} /\ {p} \in SUBSET Paths /\ table[lineno].type # "d"
    BY <1>2, <1>5, <1>13 DEF Batched
  <2> QED
    BY <1>1, <1>2, <1>10, <1>11, <1>16, <1>18, <2>1, StepKeeps
<1>20. CapsInv'
  BY <1>1, <1>10, CapsStep
<1> QED
  BY <1>19, <1>20

-----------------------------------------------------------------------------
LEMMA DevInitInv == DevInit => MainInv /\ CapsInv
<1> SUFFICES ASSUME DevInit PROVE MainInv /\ CapsInv
  OBVIOUS
<1>1. /\ tree \in Trees /\ was = tree /\ table \in Tables /\ lineno = 1
      /\ full_name = NoPath /\ walk = {} /\ made = NoLoop /\ ret = "ok"
  BY DEF DevInit
<1>2. table \in Seq(EntryLines \cup OtherLines)
  BY <1>1, MakeDevsAssumption
<1>3. TreeInv
  <2>1. TreeTypes
    <3>1. tree \in [Paths -> Files]
      BY <1>1, MakeDevsAssumption
    <3>2. ASSUME NEW k \in DOMAIN table, IsEntry(k), NEW n \in NumbersOf(k), NEW m \in NumbersOf(k)
          PROVE  Nth(k, n) \in Paths /\ (Nth(k, n) = Nth(k, m) => n = m)
      <4>1. /\ table[k].name \in Paths /\ table[k].start \in Nat /\ table[k].count \in Nat
        BY <1>2, <3>2, LineFacts
      <4>2. CASE table[k].count =< 1
        <5>1. n = 0 /\ m = 0
          BY <4>1, <4>2 DEF NumbersOf
        <5> QED
          BY <4>1, <4>2, <5>1 DEF Nth
      <4>3. CASE table[k].count > 1
        <5> DEFINE a == table[k].start + n
                   b == table[k].start + m
                   top == table[k].start + table[k].count - 1
        <5>1. a \in table[k].start .. top /\ b \in table[k].start .. top /\ (a = b => n = m)
          BY <4>1, <4>3 DEF NumbersOf
        <5>2. Nth(k, n) = Node[table[k].name][a] /\ Nth(k, m) = Node[table[k].name][b]
          BY <4>1, <4>3 DEF Nth
        <5>3. \A i, j \in table[k].start .. top :
                 Node[table[k].name][i] \in Paths /\ (Node[table[k].name][i] = Node[table[k].name][j] => i = j)
          BY <1>1, <3>2, <4>3, MakeDevsAssumption DEF IsEntry
        <5> HIDE DEF a, b, top
        <5> QED
          BY <5>1, <5>2, <5>3
      <4> QED
        BY <4>1, <4>2, <4>3
    <3> QED
      BY <1>1, <1>2, <3>1, <3>2 DEF TreeTypes
  <2>2. Resolved
    BY <1>1, MakeDevsAssumption DEF Resolved
  <2>3. KindKept
    BY <1>1 DEF KindKept
  <2>4. ParentsThere
    <3> SUFFICES ASSUME NEW p \in Paths, Exists(tree, p), Parent[p] # "/" PROVE Exists(tree, Parent[p])
      BY DEF ParentsThere
    <3>1. Parent[p] \in Paths
      BY ParentsInside
    <3>2. tree[p].kind # "none"
      BY ExistsIs
    <3>3. tree[Parent[p]].kind # "none"
      BY <1>1, <3>2, MakeDevsAssumption
    <3> QED
      BY <3>1, <3>3, ExistsIs
  <2> QED
    BY <2>1, <2>2, <2>3, <2>4 DEF TreeInv
<1>4. LoopInv
  BY <1>1 DEF LoopInv, WalkInv, MadeInv, NameInv, Origin, There
<1>5. OthersInv
  BY <1>1 DEF OthersInv, SameButCaps
<1>6. CapsInv
  BY <1>1 DEF CapsInv, CapsOnTheirFile
<1>7. AppliedInv
  <2>1. \A k \in DOMAIN table : ~(k < lineno) /\ k \in Nat
    BY <1>1, <1>2, LineFacts
  <2> QED
    BY <1>1, <2>1 DEF AppliedInv, DirsMade, SeenLine
<1> QED
  BY <1>3, <1>4, <1>5, <1>6, <1>7 DEF MainInv

LEMMA DevStays == MainInv /\ CapsInv /\ UNCHANGED devVars => MainInv' /\ CapsInv'
<1> SUFFICES ASSUME MainInv, CapsInv, UNCHANGED devVars PROVE MainInv' /\ CapsInv'
  OBVIOUS
<1>1. UNCHANGED <<tree, table, lineno, full_name, walk, made, was>> /\ ret' = ret
  BY DEF devVars
<1> QED
  BY <1>1, EndKeepsInv

LEMMA DevStep == MainInv /\ CapsInv /\ [DevNext]_devVars => MainInv' /\ CapsInv'
<1> SUFFICES ASSUME MainInv, CapsInv, [DevNext]_devVars PROVE MainInv' /\ CapsInv'
  OBVIOUS
<1>1. CASE Ignored \/ Invalid
  BY <1>1, KeepsIgnored
<1>2. CASE Xattr
  BY <1>2, KeepsXattr
<1>3. CASE UnknownName \/ DevEnd
  BY <1>3, KeepsEnd
<1>4. CASE Directory
  BY <1>4, KeepsDirectory
<1>5. CASE RegularFile
  BY <1>5, KeepsRegularFile
<1>6. CASE NoRegularFile \/ Unsupported
  BY <1>6, KeepsUnsupported
<1>7. CASE Recursive
  BY <1>7, KeepsRecursive
<1>8. CASE Visit
  BY <1>8, KeepsVisit
<1>9. CASE Batch
  BY <1>9, KeepsBatch
<1>10. CASE MakeNode
  BY <1>10, KeepsMakeNode
<1>11. CASE UNCHANGED devVars
  BY <1>11, DevStays
<1> QED
  BY <1>1, <1>2, <1>3, <1>4, <1>5, <1>6, <1>7, <1>8, <1>9, <1>10, <1>11 DEF DevNext

(* At the end, every line that a file is mentioned by has been applied.       *)
LEMMA AppliedAtEnd == MainInv => TableIsApplied
<1> SUFFICES ASSUME MainInv, ret = "exit 0", NEW k \in DOMAIN table, NEW p \in Paths, Mentions(k, p)
             PROVE  LET f == tree[p]
                        m == table[k].mode
                    IN  /\ LastLine(k, p) =>
                             /\ table[k].user # None => f.uid = IdOf[table[k].user]
                             /\ table[k].group # None => f.gid = IdOf[table[k].group]
                        /\ LastMode(k, p) /\ f.kind # "link" =>
                             f.mode = m \/ (~LastLine(k, p) /\ f.mode = WithoutSetId(m))
                        /\ Batched(k) =>
                             \A n \in NumbersOf(k) : Nth(k, n) = p =>
                               f.kind = table[k].type /\ f.dev = <<table[k].major, table[k].minor + n * table[k].inc>>
  BY DEF TableIsApplied
<1>1. /\ TreeInv /\ table \in Seq(EntryLines \cup OtherLines) /\ lineno > Len(table) /\ lineno \in Nat
      /\ Len(table) \in Nat /\ k \in Nat \ {0}
  BY LineFacts DEF MainInv, TreeInv, TreeTypes, AppliedInv
<1>2. \A j \in DOMAIN table : j < lineno
  <2> TAKE j \in DOMAIN table
  <2>1. j \in Nat /\ j =< Len(table)
    BY <1>1, LineFacts
  <2> QED
    BY ONLY <1>1, <2>1
<1>3. \A j \in DOMAIN table : SeenLine(j, p) <=> Mentions(j, p)
  BY <1>2 DEF SeenLine
<1>4. RowApplied(k, p)
  BY <1>3 DEF MainInv, AppliedInv
<1>5. \A j \in k + 1 .. Len(table) : j \in DOMAIN table
  <2>1. DOMAIN table = 1 .. Len(table)
    BY ONLY <1>1
  <2> QED
    BY ONLY <1>1, <2>1
<1>6. (LastSeen(k, p) <=> LastLine(k, p)) /\ (LastSeenMode(k, p) <=> LastMode(k, p))
  BY <1>3, <1>5 DEF LastSeen, LastLine, LastSeenMode, LastMode
<1> QED
  BY <1>4, <1>6 DEF RowApplied

LEMMA OthersAtAnyTime == MainInv /\ CapsInv => NothingElseChanged
<1> SUFFICES ASSUME MainInv, CapsInv PROVE OthersAreLeft
  BY DEF NothingElseChanged, CapsInv
<1> SUFFICES ASSUME NEW p \in Paths, \A k \in DOMAIN table : ~Mentions(k, p) /\ p \notin Made(k)
             PROVE  [tree[p] EXCEPT !.caps = was[p].caps] = was[p]
  BY DEF OthersAreLeft
<1>1. tree[p] \in Files /\ was[p] \in Files
  BY DEF MainInv, TreeInv, TreeTypes
<1>2. SameButCaps(tree[p], was[p])
  BY DEF MainInv, OthersInv, About
<1> QED
  BY <1>1, <1>2 DEF SameButCaps, Files

(* A run that reports success has given every file the owner, the group, the *)
(* mode and the device numbers of the last line about it.                   *)
THEOREM TableApplied == DevSpec => []TableIsApplied
<1>1. DevInit => MainInv /\ CapsInv
  BY DevInitInv
<1>2. MainInv /\ CapsInv /\ [DevNext]_devVars => MainInv' /\ CapsInv'
  BY DevStep
<1>3. MainInv => TableIsApplied
  BY AppliedAtEnd
<1> QED
  BY <1>1, <1>2, <1>3, PTL DEF DevSpec

(* At any time, and whatever has failed, the files that no line mentions or  *)
(* makes are as they were, and each capability is on the file it is for.     *)
THEOREM OthersAlwaysLeft == DevSpec => []NothingElseChanged
<1>1. DevInit => MainInv /\ CapsInv
  BY DevInitInv
<1>2. MainInv /\ CapsInv /\ [DevNext]_devVars => MainInv' /\ CapsInv'
  BY DevStep
<1>3. MainInv /\ CapsInv => NothingElseChanged
  BY OthersAtAnyTime
<1> QED
  BY <1>1, <1>2, <1>3, PTL DEF DevSpec

=============================================================================
