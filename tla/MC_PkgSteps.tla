---------------------------- MODULE MC_PkgSteps ----------------------------
(* Instances of PkgSteps: a library with an OVERRIDE_SRCDIR, installed to  *)
(* staging and target, and an application that depends on it.              *)
EXTENDS PkgSteps, TLC

InstallsDef == [p \in Packages |-> IF p = "lib" THEN {"staging", "target"} ELSE {"target"}]
DepsDef == [p \in Packages |-> IF p = "lib" THEN {} ELSE {"lib"}]
NoDeps == [p \in Packages |-> {}]

All == <<<<"app", "pkg">>>>
SerialGoals == {All, <<<<"lib", "rebuild">>, <<"app", "pkg">>>>}
ParallelGoals == {All} \cup {<<<<"lib", s>>>> : s \in {"rebuild", "reinstall", "reconfigure", "dirclean"}}

ASSUME CleansFirstAssumption == CommandLinesCleanFirst
=============================================================================
