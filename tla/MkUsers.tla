------------------------------ MODULE MkUsers ------------------------------
(***************************************************************************)
(* support/scripts/mkusers: the users and groups of the packages are added *)
(* to /etc/passwd, /etc/group and /etc/gshadow of a target directory.  The *)
(* script goes through the table five times, calls add_one_group or        *)
(* add_one_user for some of the lines, and stops at the first that fails.  *)
(* The password, shell and comment of a user play no part here.            *)
(***************************************************************************)
EXTENDS Integers, Sequences, Functions

CONSTANTS
  Users, Groups,          \* names; "-" in a line asks for no user
  UsersTables,            \* the tables considered: sequences of lines
  Skeletons,              \* the passwd, group and gshadow of the skeleton
  FIRST_SYSTEM, LAST_SYSTEM, FIRST_USER, LAST_USER

AUTO_SYSTEM_ID == -1
AUTO_USER_ID == -2

UserLines == [username : Users \cup {"-"}, uid : Int, group : Groups, gid : Int,
          groups : Seq(Groups), home : {"none", "absolute", "invalid"}]

Accounts == [uid : Nat, gid : Int]

ASSUME UsersAssumption ==
  /\ "-" \notin Users
  /\ FIRST_SYSTEM \in Nat \ {0} /\ FIRST_USER \in Nat \ {0}
  /\ LAST_SYSTEM \in Nat /\ LAST_USER \in Nat
  /\ UsersTables \subseteq Seq(UserLines)
  /\ \A s \in Skeletons :
       /\ \A u \in DOMAIN s.passwd : s.passwd[u] \in Accounts
       /\ \A u, v \in DOMAIN s.passwd : s.passwd[u].uid = s.passwd[v].uid => u = v
       /\ \A g, h \in DOMAIN s.gid : s.gid[g] = s.gid[h] => g = h

VARIABLES
  userTable, skel,      \* the input
  passwd,           \* passwd[u]: uid and gid of u
  gid, members,     \* gid[g], members[g]: the lines of /etc/group
  gshadow,          \* gshadow[g]: the members in /etc/gshadow
  turn,             \* [pass, row, call]: how far main has come
  chowns,           \* the "chown uid:gid home" lines printed for fakeroot
  verdict            \* "running", "done" or "failed"

userFiles == <<passwd, gid, members, gshadow>>
usersVars == <<userTable, skel, userFiles, turn, chowns, verdict>>

-----------------------------------------------------------------------------
(* main: the five passes over the table.                                         *)
IsUser(l) == l.username # "-"
GroupCall(g, id) == [op |-> "group", group |-> g, gid |-> id]
UserCall(l) == [op |-> "user", line |-> l]
MainGroupCall(l) == GroupCall(l.group, l.gid)

ExtraId(uid) == CASE uid <= 0 -> uid
                  [] uid > 0 /\ uid <= LAST_SYSTEM -> AUTO_SYSTEM_ID
                  [] OTHER -> AUTO_USER_ID
ExtraCalls(l) == [i \in 1..Len(l.groups) |-> GroupCall(l.groups[i], ExtraId(l.uid))]

(* The calls for a line in each of the passes: main groups with a gid, main    *)
(* groups without, additional groups, users with a uid, users without.         *)
Only(test, call) == IF test THEN <<call>> ELSE <<>>

GroupCalls(l, pass) == Only(IF pass = 1 THEN l.gid >= 0 ELSE l.gid < 0, MainGroupCall(l))

UserCalls(l, pass) ==
  Only(IsUser(l) /\ (IF pass = 4 THEN l.uid >= 0 ELSE l.uid < 0), UserCall(l))

Calls(l, pass) ==
  CASE pass \in {1, 2} -> GroupCalls(l, pass)
    [] pass = 3 -> ExtraCalls(l)
    [] OTHER -> UserCalls(l, pass)

-----------------------------------------------------------------------------
(* get_group, get_username: all the names that have an id.                 *)
GroupsWith(id) == {g \in DOMAIN gid : gid[g] = id}
UsersWith(id) == {u \in DOMAIN passwd : passwd[u].uid = id}

(* What remains unused of the range that an automatic id is taken from.    *)
Range_(id) == IF id = AUTO_USER_ID THEN FIRST_USER..LAST_USER ELSE FIRST_SYSTEM..LAST_SYSTEM
FreeGids(id) == {n \in Range_(id) : GroupsWith(n) = {}}

FreeUids(id) == {n \in Range_(id) : UsersWith(n) = {}}

AutoIds == {AUTO_SYSTEM_ID, AUTO_USER_ID}

(* generate_gid and generate_uid, called for the automatic ids only.       *)
GidsFor(g, id) == CASE id \notin AutoIds -> {id}
                    [] id \in AutoIds /\ g \in DOMAIN gid -> {gid[g]}
                    [] OTHER -> FreeGids(id)

UidsFor(u, id) == CASE id \notin AutoIds -> {id}
                    [] id \in AutoIds /\ u \in DOMAIN passwd -> {passwd[u].uid}
                    [] OTHER -> FreeUids(id)

With(f, x, v) == [y \in DOMAIN f \cup {x} |-> IF y = x THEN v ELSE f[y]]
(* get_members                                                             *)
Members(g) == IF g \in DOMAIN members THEN members[g] ELSE {}

-----------------------------------------------------------------------------
Turn(pass, row, call) == [pass |-> pass, row |-> row, call |-> call]

UsersInit ==
  /\ userTable \in UsersTables /\ skel \in Skeletons
  /\ passwd = skel.passwd /\ gid = skel.gid
  /\ members = skel.members /\ gshadow = skel.gshadow
  /\ turn = Turn(1, 1, 1) /\ chowns = {} /\ verdict = "running"

\* The calls for the line that is read; behind the last line there are none.
RowCalls == IF turn.row > Len(userTable) THEN <<>> ELSE Calls(userTable[turn.row], turn.pass)
Current == RowCalls[turn.call]

Call(op) == verdict = "running" /\ turn.call =< Len(RowCalls) /\ Current.op = op
GoTo(next) == turn' = next /\ UNCHANGED <<userTable, skel, verdict>>
Return == GoTo([turn EXCEPT !.call = turn.call + 1])
Fail == verdict' = "failed" /\ UNCHANGED <<userTable, skel, userFiles, turn, chowns>>

NoCallLeft == verdict = "running" /\ turn.call > Len(RowCalls)
NextEntry ==
  /\ NoCallLeft /\ turn.row =< Len(userTable) /\ GoTo(Turn(turn.pass, turn.row + 1, 1))
  /\ UNCHANGED <<userFiles, chowns>>
NextPass ==
  /\ NoCallLeft /\ turn.row > Len(userTable) /\ turn.pass < 5 /\ GoTo(Turn(turn.pass + 1, 1, 1))
  /\ UNCHANGED <<userFiles, chowns>>

Lowest(n, ids) == n \in ids /\ \A m \in ids : n <= m

(* add_one_group: the line of the group is removed and written again.      *)
AddGroup ==
  /\ Call("group")
  /\ LET c == Current
     IN \E id \in GidsFor(c.group, c.gid) :
          /\ Lowest(id, GidsFor(c.group, c.gid))
          /\ gid' = With(gid, c.group, id)
          /\ members' = With(members, c.group, Members(c.group))
          /\ gshadow' = IF skel.hasGshadow THEN With(gshadow, c.group, {}) ELSE gshadow
  /\ Return /\ UNCHANGED <<passwd, chowns>>

NoGid ==
  /\ Call("group") /\ GidsFor(Current.group, Current.gid) = {}
  /\ Fail

(* The entry of a user, if there is one.                                   *)
Existing(u) == {passwd[v] : v \in DOMAIN passwd \cap {u}}

(* Mutant: a uid that another user has already is not refused.             *)
UidValid_Taken(l) ==
  \/ l.uid \in AutoIds
  \/ l.uid > 0 /\ \A a \in Existing(l.username) : a.uid = l.uid

UidValid(l) ==
  \/ l.uid \in AutoIds
  \/ /\ l.uid > 0 /\ UsersWith(l.uid) \subseteq {l.username}
     /\ \A a \in Existing(l.username) : a.uid = l.uid

(* Mutant: a gid that another group has already is not refused.            *)
GidValid_Taken(l) ==
  \/ l.gid \in AutoIds
  \/ /\ l.gid > 0 /\ gid[l.group] = l.gid
     /\ \A a \in Existing(l.username) : a.gid = l.gid

GidValid(l) ==
  \/ l.gid \in AutoIds
  \/ /\ l.gid > 0 /\ GroupsWith(l.gid) \subseteq {l.group} /\ gid[l.group] = l.gid
     /\ \A a \in Existing(l.username) : a.gid = l.gid

SameGroup(l) ==
  \A a \in Existing(l.username) : GroupsWith(a.gid) \subseteq {l.group}

(* check_user_validity                                                     *)
CheckUserValidity(l) ==
  /\ l.username # "root"
  /\ GidValid(l) /\ UidValid(l) /\ SameGroup(l)

Owner(l, uid) == <<l.username, uid, gid[l.group]>>

(* add_user_to_group, on a file that has a line for each of the groups.    *)
WithMember(f, l) ==
  [g \in DOMAIN f |-> IF g \in Range(l.groups) THEN f[g] \cup {l.username} ELSE f[g]]

(* add_one_user                                                            *)
AddUser ==
  /\ Call("user")
  /\ LET l == Current.line
     IN /\ CheckUserValidity(l) /\ l.home # "invalid"
        /\ \E uid \in UidsFor(l.username, l.uid) :
             /\ Lowest(uid, UidsFor(l.username, l.uid))
             /\ passwd' = With(passwd, l.username, [uid |-> uid, gid |-> gid[l.group]])
             /\ chowns' = chowns \cup (IF l.home = "none" THEN {} ELSE {Owner(l, uid)})
        /\ members' = WithMember(members, l)
        /\ gshadow' = WithMember(gshadow, l)
  /\ Return /\ UNCHANGED gid

NoUser ==
  /\ Call("user")
  /\ LET l == Current.line IN ~CheckUserValidity(l) \/ UidsFor(l.username, l.uid) = {}
  /\ Fail

(* An invalid home is found when the old lines of the user are gone.       *)
BadHome ==
  /\ Call("user")
  /\ LET l == Current.line
     IN /\ CheckUserValidity(l) /\ UidsFor(l.username, l.uid) # {} /\ l.home = "invalid"
        /\ passwd' = [u \in DOMAIN passwd \ {l.username} |-> passwd[u]]
  /\ verdict' = "failed" /\ UNCHANGED <<userTable, skel, gid, members, gshadow, turn, chowns>>

Finish ==
  /\ NoCallLeft /\ turn.row > Len(userTable) /\ turn.pass = 5 /\ verdict' = "done"
  /\ UNCHANGED <<userTable, skel, userFiles, turn, chowns>>

UsersNext == AddGroup \/ NoGid \/ AddUser \/ NoUser \/ BadHome \/ NextEntry \/ NextPass \/ Finish
UsersSpec == UsersInit /\ [][UsersNext]_usersVars

-----------------------------------------------------------------------------
(* At no moment do two users share a uid, whatever mixture of given and    *)
(* automatic uids the packages and the skeleton ask for.                   *)
UidsUnique ==
  \A u, v \in DOMAIN passwd : passwd[u].uid = passwd[v].uid => u = v

GivenIdsUsed ==
  verdict = "done" => \A i \in 1..Len(userTable) :
    LET l == userTable[i]
    IN IsUser(l) => /\ l.uid >= 0 => passwd[l.username].uid = l.uid
                    /\ l.gid >= 0 => gid[l.group] = l.gid
                    /\ passwd[l.username].gid = gid[l.group]

\* Two lines that differ in that m leaves the uid to the script, and nothing
\* else that could go wrong.
SameUserTwice(l, m) ==
  /\ m = [l EXCEPT !.uid = m.uid] /\ l.groups = <<>>
  /\ IsUser(l) /\ l.username # "root" /\ l.username \notin DOMAIN skel.passwd
  /\ l.uid > 0 /\ m.uid \in AutoIds /\ l.home # "invalid"
  /\ \A u \in DOMAIN skel.passwd : skel.passwd[u].uid # l.uid
  /\ l.gid > 0 /\ \A g \in DOMAIN skel.gid : skel.gid[g] # l.gid

SpecifiedUidFits ==
  \A p, q \in 1..Len(userTable) :
    Len(userTable) = 2 /\ SameUserTwice(userTable[p], userTable[q]) => verdict # "failed"

MembersKept ==
  verdict = "done" =>
    /\ \A i \in 1..Len(userTable) : IsUser(userTable[i]) =>
         \A g \in Range(userTable[i].groups) : userTable[i].username \in members[g]
    /\ \A g \in DOMAIN skel.members : skel.members[g] \subseteq members[g]

HomesOwned ==
  verdict = "done" => \A c \in chowns : passwd[c[1]] = [uid |-> c[2], gid |-> c[3]]

GidsUnique ==
  verdict = "done" /\ (\A i \in 1..Len(userTable) : IsUser(userTable[i])) =>
    \A g, h \in DOMAIN gid : gid[g] = gid[h] => g = h

(* When the script succeeds, every user of the table has the uid and the gid   *)
(* that one of its lines gives, not an automatic one that another line has led *)
(* to, is a member of all the groups it asks for, and owns its home directory; *)
(* the groups of the skeleton keep their members.  Where every line has a      *)
(* user, so that its gid is checked, no two groups share a gid.  And two       *)
(* packages may ask for one user, one with a uid and one without: the script   *)
(* does not fail for having generated an incompatible uid first.               *)
TableIsHonoured ==
  GivenIdsUsed /\ MembersKept /\ HomesOwned /\ GidsUnique /\ SpecifiedUidFits

(* A user of the skeleton is still in the main group it was in, when every  *)
(* line of the table has a user and so goes through check_user_validity     *)
(* (mkusers:126 and :130, "check the group does not already exist with      *)
(* another gid", "check the user does not already exist in another group"). *)
UserKeepsGroup ==
  verdict = "done" /\ (\A i \in 1..Len(userTable) : IsUser(userTable[i])) => \A u \in DOMAIN skel.passwd :
    {g \in DOMAIN skel.gid : skel.gid[g] = skel.passwd[u].gid} \subseteq GroupsWith(passwd[u].gid)
=============================================================================
