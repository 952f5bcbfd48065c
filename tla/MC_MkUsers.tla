---------------------------- MODULE MC_MkUsers -----------------------------
(* Two lines about two users and two groups, over the skeletons with and   *)
(* without the first user, the first group and a gshadow.                  *)
EXTENDS MkUsers, TLC

CONSTANTS Names, Extras, Home

Uids == {-2, -1, 0, 2, 5}
Gids == {-1, 2}
TheLines == [username : Names, uid : Uids, group : Groups, gid : Gids,
             groups : Extras, home : {Home}]
BadHomes == {[l EXCEPT !.home = "invalid"] : l \in TheLines}
TheTables == {<<l>> : l \in TheLines \cup BadHomes} \cup {<<l, m>> : l, m \in TheLines}
SomeExtras == {<<>>, <<"h", "g">>}

Skeleton(users, groups, shadow) ==
  [passwd |-> [u \in users \cup {"root"} |->
                 IF u = "root" THEN [uid |-> 0, gid |-> 0] ELSE [uid |-> 1, gid |-> 1]],
   gid |-> [g \in groups \cup {"root"} |-> IF g = "root" THEN 0 ELSE 1],
   members |-> [g \in groups \cup {"root"} |-> IF g = "root" THEN {} ELSE users],
   gshadow |-> IF shadow THEN [g \in groups \cup {"root"} |-> IF g = "root" THEN {} ELSE users]
               ELSE <<>>,
   hasGshadow |-> shadow]

Skeleta == {Skeleton({}, {}, FALSE), Skeleton({"u"}, {"g"}, FALSE), Skeleton({"u"}, {"g"}, TRUE)}
=============================================================================
