---------------------------- MODULE MC_GitCache ----------------------------
(* Three commits: c1 and c2 link different versions of a submodule, c3 has  *)
(* none, and each has a file with a hint, or a git-lfs file, or both.  The  *)
(* packages ask for v1 with and without its submodule, and for v2.          *)
EXTENDS GitCache, TLC

CONSTANTS v1, v2, c1, c2, c3, hint, large, header, junk

MCMain == c1 :> {hint} @@ c2 :> {hint} @@ c3 :> {large}
MCSub == c1 :> {large, header} @@ c2 :> {header} @@ c3 :> {}
MCDescends == {<<c1, c2>>, <<c2, c3>>}
MCRequests ==
  {<<v1, TRUE, FALSE>>, <<v1, FALSE, FALSE>>, <<v2, TRUE, TRUE>>}
MCPublished ==
  {v1 :> c1 @@ v2 :> c3, v1 :> c2 @@ v2 :> NoCommit}

=============================================================================
