------------------------------- MODULE MakeDevs -------------------------------
(***************************************************************************)
(* package/makedevs/makedevs.c: run as root of a fakeroot session, it goes *)
(* through the table of permissions and devices of a root filesystem, line *)
(* by line, and gives the files their owner, mode and capabilities, or     *)
(* makes them.  A line that fails is reported by the exit code, and the    *)
(* next one is read; a name or a capability that is not known ends it.     *)
(***************************************************************************)
EXTENDS Integers, Sequences

CONSTANTS
  Paths,         \* names below the root directory
  Parent,        \* Parent[p]: the directory of p; "/" above the highest
  Node,          \* Node[p][i]: the name p followed by the number i
  Trees,         \* what the root directory may hold
  Tables,        \* the tables
  IdOf,          \* the ids of etc/passwd and etc/group, and of numbers
  ExtendedAttributes  \* compiled with EXTENDED_ATTRIBUTES

NoPath == "none"
None == "none"       \* a field that the line does not have

\* Modes are numbers; -1 leaves the mode alone.  07777 and 0777:
Keep == -1
AllBits == 4095
ForAll == 511

\* Files and lines.  A link leads to the file at its end, or to none.
Files ==
  [kind : {"none", "file", "dir", "link", "c", "b", "p"}, mode : Int, uid : Int, gid : Int,
   dev : Seq(Int), to : Paths \cup {NoPath}, caps : SUBSET STRING]
EntryLines ==
  [is : {"entry"}, name : Paths, type : STRING, mode : Nat \cup {Keep}, user : STRING, group : STRING,
   major : Nat, minor : Nat, start : Nat, inc : Nat, count : Nat]
OtherLines ==
  [is : {"xattr"}, cap : STRING] \cup [is : {"comment"}] \cup [is : {"invalid"}, indented : BOOLEAN]

(* Names are of a tree; a file is in a directory that is there; numbers make   *)
(* different names; and a table has the fields that its lines are read into.   *)
ASSUME MakeDevsAssumption ==
  /\ NoPath \notin Paths /\ "/" \notin Paths
  /\ \A p \in Paths : Parent[p] \in Paths \cup {"/"}
  /\ \A S \in SUBSET Paths : S # {} => \E p \in S : Parent[p] \notin S
  /\ \A name \in DOMAIN IdOf : IdOf[name] \in Int
  /\ Trees \subseteq [Paths -> Files]
  /\ \A t \in Trees : \A p \in Paths :
       /\ t[p].kind # "none" /\ Parent[p] # "/" => t[Parent[p]].kind # "none"
       /\ t[p].kind = "link" /\ t[p].to # NoPath => t[t[p].to].kind # "link"
  /\ \A lines \in Tables :
       /\ lines \in Seq(EntryLines \cup OtherLines)
       /\ \A k \in DOMAIN lines : lines[k].is = "entry" /\ lines[k].count > 1 =>
            \A i, j \in lines[k].start .. lines[k].start + lines[k].count - 1 :
              Node[lines[k].name][i] \in Paths /\ (Node[lines[k].name][i] = Node[lines[k].name][j] => i = j)

VARIABLES
  tree,          \* what the root directory holds
  table,         \* the lines
  lineno,        \* the one that is read next
  full_name,     \* the file of the last entry, or none
  walk,          \* what nftw has still to visit
  made,          \* the loop over the nodes of a device, or NoLoop
  ret,           \* "ok" or "failed" while it runs, then how it has ended
  was            \* what the root directory held at first; for the properties

devVars == <<tree, table, lineno, full_name, walk, made, ret, was>>

Absent == [kind |-> "none", mode |-> 0, uid |-> 0, gid |-> 0, dev |-> <<>>, to |-> NoPath, caps |-> {}]
File(mode, uid, gid) == [Absent EXCEPT !.kind = "file", !.mode = mode, !.uid = uid, !.gid = gid]
Dir(mode, uid, gid) == [File(mode, uid, gid) EXCEPT !.kind = "dir"]
Link(to) == [Absent EXCEPT !.kind = "link", !.mode = 511, !.to = to]

NoLoop == [next |-> -1, uid |-> 0, gid |-> 0]

DevInit ==
  /\ tree \in Trees /\ was = tree /\ table \in Tables
  /\ lineno = 1 /\ full_name = NoPath
  /\ walk = {} /\ made = NoLoop /\ ret = "ok"

Exists(t, p) == p # NoPath /\ p # "/" /\ t[p].kind # "none"
\* stat, chown and chmod follow a link.
Followed(t, p) == IF t[p].kind = "link" THEN t[p].to ELSE p

Above[p \in Paths] == {p} \cup (IF Parent[p] = "/" THEN {} ELSE Above[Parent[p]])
Below(p) == {q \in Paths : p \in Above[q]}

\* chown of what is no directory takes the set-id bits and the capabilities
\* away, on systems where it does so for root, too.
WithoutSetId(mode) == mode % 1024
Owned(f, uid, gid, strips) ==
  IF strips /\ f.kind # "dir"
  THEN [f EXCEPT !.uid = uid, !.gid = gid, !.mode = WithoutSetId(@), !.caps = {}]
  ELSE [f EXCEPT !.uid = uid, !.gid = gid]

-----------------------------------------------------------------------------
(* One line *)

Reading == ret \in {"ok", "failed"} /\ walk = {} /\ made = NoLoop /\ lineno =< Len(table)
Line == table[lineno]
NextLine == lineno' = lineno + 1
Reported(bad) == ret' = IF bad THEN "failed" ELSE ret
Dies == ret' = "died" /\ UNCHANGED <<tree, table, lineno, full_name, walk, made, was>>

\* A line of blanks or a comment; but also one that cannot be read and begins
\* with a blank.
Ignored ==
  /\ Reading /\ (Line.is = "comment" \/ (Line.is = "invalid" /\ Line.indented))
  /\ NextLine /\ UNCHANGED <<tree, table, full_name, walk, made, ret, was>>

Invalid ==
  /\ Reading /\ Line.is = "invalid" /\ ~Line.indented
  /\ NextLine /\ Reported(TRUE) /\ UNCHANGED <<tree, table, full_name, walk, made, was>>

\* bb_set_xattr: cap_get_file wants a regular file.
HasCaps(t, p) == Exists(t, p) /\ Exists(t, Followed(t, p)) /\ t[Followed(t, p)].kind = "file"
Xattr ==
  /\ Reading /\ Line.is = "xattr"
  /\ \/ /\ ExtendedAttributes /\ HasCaps(tree, full_name)
        /\ tree' = [tree EXCEPT ![Followed(tree, full_name)].caps = @ \cup {Line.cap}]
        /\ NextLine /\ UNCHANGED <<table, full_name, walk, made, ret, was>>
     \/ Dies

\* user and group are not initialised: when sscanf has not reached them, they
\* hold what an earlier line left there, nothing, or no name at all.
Earlier(f) == {table[k][f] : k \in {j \in 1 .. lineno - 1 : table[j].is = "entry"}} \ {None}
Field(f) == IF Line[f] # None THEN {Line[f]} ELSE Earlier(f) \cup {"", "junk"}
Known(name) == name \in DOMAIN IdOf

Entry(type) == Reading /\ Line.is = "entry" /\ Line.type \in type
Named == full_name' = Line.name

UnknownName ==
  /\ Reading /\ Line.is = "entry"
  /\ \E user \in Field("user"), group \in Field("group") :
       ~Known(user) \/ ~Known(group)
  /\ Dies

Ids(uid, gid) == \E user \in Field("user"), group \in Field("group") :
  Known(user) /\ Known(group) /\ uid = IdOf[user] /\ gid = IdOf[group]
IdSet == {IdOf[name] : name \in DOMAIN IdOf}

\* The calls that may fail, and the mode that is left.
Outcomes == [chown : BOOLEAN, chmod : BOOLEAN, strips : BOOLEAN]
NewMode(mode, old) == IF mode = Keep THEN old ELSE mode

\* Mutant: the mode is set first.
Apply_ModeFirst(t, p, mode, uid, gid, o) ==
  [t EXCEPT ![p] =
     IF ~o.chown THEN @
     ELSE Owned(IF o.chmod THEN [@ EXCEPT !.mode = NewMode(mode, @)] ELSE @, uid, gid, o.strips)]

\* chown, then chmod, of one file.
Apply(t, p, mode, uid, gid, o) ==
  [t EXCEPT ![p] =
     IF ~o.chown THEN @
     ELSE LET f == Owned(@, uid, gid, o.strips)
          IN  IF o.chmod THEN [f EXCEPT !.mode = NewMode(mode, @)] ELSE f]

Applied(o, mode) == o.chown /\ (o.chmod \/ mode = Keep)

(* bb_make_directory: what is missing on the way is made with all permissions  *)
(* (the umask is 0), the directory itself is given its mode; of -1, made long  *)
(* on its way, all bits are left.                                              *)
Blocked(t, p) ==
  \E q \in Above[p] : Exists(t, q) /\ ~(Exists(t, Followed(t, q)) /\ t[Followed(t, q)].kind = "dir")
WithDirectory(t, p, mode) ==
  IF Blocked(t, p) THEN t
  ELSE [q \in Paths |->
          IF q \notin Above[p] \/ Exists(t, q) THEN t[q]
          ELSE Dir(IF q # p THEN ForAll ELSE IF mode = Keep THEN AllBits ELSE mode, 0, 0)]

Directory ==
  /\ Entry({"d"}) /\ Named
  /\ \E uid \in IdSet, gid \in IdSet, o \in Outcomes :
     \E t \in {WithDirectory(tree, Line.name, Line.mode)} :
     \E p \in {Followed(t, Line.name)} :
       /\ Ids(uid, gid)
       /\ tree' = IF Exists(t, p) THEN Apply(t, p, Line.mode, uid, gid, o) ELSE t
       /\ Reported(~Exists(t, p) \/ ~Applied(o, Line.mode))
  /\ NextLine /\ UNCHANGED <<table, walk, made, was>>

Regular(t, p) == Exists(t, p) /\ Exists(t, Followed(t, p)) /\ t[Followed(t, p)].kind = "file"
RegularFile ==
  /\ Entry({"f", "F"}) /\ Named /\ Regular(tree, Line.name)
  /\ \E uid \in IdSet, gid \in IdSet, o \in Outcomes :
       /\ Ids(uid, gid)
       /\ tree' = Apply(tree, Followed(tree, Line.name), Line.mode, uid, gid, o)
       /\ Reported(~Applied(o, Line.mode))
  /\ NextLine /\ UNCHANGED <<table, walk, made, was>>

NoRegularFile ==
  /\ Entry({"f", "F"}) /\ Named /\ ~Regular(tree, Line.name)
  /\ \E uid \in IdSet, gid \in IdSet : Ids(uid, gid)
  /\ Reported(Line.type = "f")
  /\ NextLine /\ UNCHANGED <<tree, table, walk, made, was>>

Unsupported ==
  /\ Reading /\ Line.is = "entry" /\ Line.type \notin {"d", "f", "F", "r", "c", "b", "p"} /\ Named
  /\ \E uid \in IdSet, gid \in IdSet : Ids(uid, gid)
  /\ Reported(TRUE) /\ NextLine /\ UNCHANGED <<tree, table, walk, made, was>>

-----------------------------------------------------------------------------
(* nftw: a directory before what is in it, and links are not followed *)

Recursive ==
  /\ Entry({"r"}) /\ Named
  /\ IF Exists(tree, Line.name)
     THEN \E uid \in IdSet, gid \in IdSet :
            /\ Ids(uid, gid)
            /\ walk' = {[path |-> q, uid |-> uid, gid |-> gid] :
                          q \in {b \in Below(Line.name) : Exists(tree, b)}}
            /\ UNCHANGED <<lineno, ret>>
     ELSE (\E uid \in IdSet, gid \in IdSet : Ids(uid, gid)) /\ walk' = {} /\ Reported(TRUE) /\ NextLine
  /\ UNCHANGED <<tree, table, made, was>>

Leaves(w) == walk' = w /\ lineno' = IF w = {} THEN lineno + 1 ELSE lineno
Dangling(p) == tree[p].kind = "link" /\ ~Exists(tree, tree[p].to)

\* Mutant: chown, which follows a link.
Touched_Followed(v) == IF Dangling(v.path) THEN v.path ELSE Followed(tree, v.path)

\* lchown
Touched(v) == v.path

\* bb_recursive: no chmod of a link, but of one that leads nowhere, which fails.
Visit ==
  /\ \E v \in walk, o \in Outcomes :
       /\ \A w \in walk \ {v} : v.path \notin Below(w.path)
       /\ \E chmod \in {Line.mode # Keep /\ (tree[v.path].kind # "link" \/ Dangling(v.path))} :
          \E fails \in {~o.chown \/ (chmod /\ (Dangling(v.path) \/ ~o.chmod))} :
            /\ tree' = Apply(tree, Touched(v), IF chmod /\ ~fails THEN Line.mode ELSE Keep, v.uid, v.gid, o)
            /\ Leaves(IF fails THEN {} ELSE walk \ {v})
            /\ Reported(fails)
  /\ UNCHANGED <<table, full_name, made, was>>

-----------------------------------------------------------------------------
(* Devices and pipes *)

Numbers == Line.start .. Line.start + (IF Line.count = 0 THEN 0 ELSE Line.count - 1)

Batch ==
  /\ Entry({"c", "b", "p"}) /\ Named
  /\ \E uid \in IdSet, gid \in IdSet :
       Ids(uid, gid) /\ made' = [next |-> Line.start, uid |-> uid, gid |-> gid]
  /\ UNCHANGED <<tree, table, lineno, walk, ret, was>>

Minor(i) == Line.minor + (i - Line.start) * Line.inc

NodeOf(i) == IF Line.count =< 1 THEN Line.name ELSE Node[Line.name][i]
ParentIsThere(p) == Parent[p] = "/" \/ (Exists(tree, Parent[p]) /\ tree[Parent[p]].kind = "dir")

Fresh == [Absent EXCEPT !.kind = Line.type, !.mode = Line.mode, !.dev = <<Line.major, Minor(made.next)>>]

\* mknod fails, too, with the mode -1, whose bits are of no kind of file.
MakeNode ==
  /\ made # NoLoop
  /\ \E o \in Outcomes, p \in {NodeOf(made.next)} :
     \E refused \in {Exists(tree, p) \/ ~ParentIsThere(p) \/ Line.mode = Keep} :
       /\ tree' = IF refused THEN tree
                  ELSE Apply([tree EXCEPT ![p] = Fresh], p, Line.mode, made.uid, made.gid, o)
       /\ Reported(refused \/ ~Applied(o, Line.mode))
  /\ IF made.next + 1 \in Numbers THEN made' = [made EXCEPT !.next = @ + 1] /\ UNCHANGED lineno
     ELSE made' = NoLoop /\ NextLine
  /\ UNCHANGED <<table, full_name, walk, was>>

\* main returns ret.
DevEnd ==
  /\ ret \in {"ok", "failed"} /\ lineno > Len(table)
  /\ ret' = IF ret = "ok" THEN "exit 0" ELSE "exit 1"
  /\ UNCHANGED <<tree, table, lineno, full_name, walk, made, was>>

DevNext ==
  \/ Ignored \/ Invalid \/ Xattr \/ UnknownName
  \/ Directory \/ RegularFile \/ NoRegularFile \/ Unsupported
  \/ Recursive \/ Visit \/ Batch \/ MakeNode \/ DevEnd

DevSpec == DevInit /\ [][DevNext]_devVars

-----------------------------------------------------------------------------
(* Which files line k is about: those that are there when it is read. *)
IsEntry(k) == table[k].is = "entry"
Batched(k) == table[k].type \in {"c", "b", "p"}
NumbersOf(k) == 0 .. (IF table[k].count = 0 THEN 0 ELSE table[k].count - 1)
Nth(k, n) == IF table[k].count =< 1 THEN table[k].name ELSE Node[table[k].name][table[k].start + n]
Made(k) ==
  IF ~IsEntry(k) THEN {}
  ELSE CASE Batched(k) -> {Nth(k, n) : n \in NumbersOf(k)}
         [] table[k].type = "d" -> Above[table[k].name]
         [] OTHER -> {}
There(p, k) == Exists(was, p) \/ \E j \in 1 .. k - 1 : p \in Made(j)
Mentions(k, p) ==
  /\ IsEntry(k)
  /\ CASE Batched(k) -> p \in Made(k)
       [] table[k].type = "d" -> p = Followed(was, table[k].name)
       [] table[k].type \in {"f", "F"} -> p = Followed(was, table[k].name) /\ Regular(was, p)
       [] table[k].type = "r" -> p \in Below(table[k].name) /\ There(p, k)
       [] OTHER -> FALSE

(* When makedevs reports success, every file has the owner and the mode that   *)
(* the last line about it gives, the set-id bits included; a line with the     *)
(* mode -1 that follows may take only those.  And a batch of devices has the   *)
(* names and numbers that the usage text gives to such lines: count names from *)
(* start on, with minor numbers that go up by inc ("/dev/uio[1-5] with minor   *)
(* numbers 0,2,4,6,8", makedevs.c:424, 435).  That is not the loop of the      *)
(* manual, "incrementing its counter by inc until it reaches count"            *)
(* (docs/manual/makedev-syntax.adoc:42-44): with start 1, inc 2 and count 2    *)
(* the manual's has the one node 1, and the program makes 1 and 2.             *)
LastLine(k, p) == \A j \in k + 1 .. Len(table) : ~Mentions(j, p)
LastMode(k, p) ==
  table[k].mode # Keep /\ \A j \in k + 1 .. Len(table) : Mentions(j, p) => table[j].mode = Keep
TableIsApplied ==
  ret = "exit 0" =>
    \A k \in DOMAIN table : \A p \in Paths : Mentions(k, p) =>
      LET f == tree[p]
          m == table[k].mode
      IN  /\ LastLine(k, p) =>
               /\ table[k].user # None => f.uid = IdOf[table[k].user]
               /\ table[k].group # None => f.gid = IdOf[table[k].group]
          /\ LastMode(k, p) /\ f.kind # "link" =>
               f.mode = m \/ (~LastLine(k, p) /\ f.mode = WithoutSetId(m))
          /\ Batched(k) =>
               \A n \in NumbersOf(k) : Nth(k, n) = p =>
                 f.kind = table[k].type /\ f.dev = <<table[k].major, table[k].minor + n * table[k].inc>>

OthersAreLeft ==
  \A p \in Paths :
    (\A k \in DOMAIN table : ~Mentions(k, p) /\ p \notin Made(k)) =>
      [tree[p] EXCEPT !.caps = was[p].caps] = was[p]

EntryBefore(x) == {k \in 1 .. x - 1 : IsEntry(k) /\ \A j \in k + 1 .. x - 1 : ~IsEntry(j)}
CapsOnTheirFile ==
  \A p \in Paths : \A cap \in tree[p].caps \ was[p].caps :
    \E x \in DOMAIN table :
      table[x].is = "xattr" /\ table[x].cap = cap
      /\ \E k \in EntryBefore(x) : p = Followed(was, table[k].name)

(* Whatever fails, a file that no line is about, and that no line makes, is    *)
(* left as it was: a line for a directory and all below it changes nothing     *)
(* outside, where links in it lead (bb_recursive).  And a capability goes to   *)
(* the file of the entry before it, and to no other, even when that entry      *)
(* named a file that may be missing or one that failed.                        *)
NothingElseChanged == OthersAreLeft /\ CapsOnTheirFile
=============================================================================
