--------------------------- MODULE MCConditionSet ---------------------------
(***************************************************************************)
(* Instances of ConditionSet.  The type names sort the way TypeRank says:  *)
(* one dependent sorts before the root and one after it, as does the       *)
(* independent type.                                                       *)
(***************************************************************************)
EXTENDS ConditionSet

MCDependents == {"Foo", "Synced"}
MCIndependents == {"Tainted"}
MCSettable == MCDependents \cup MCIndependents
MCTypeRank == [t \in {"Foo", "Ready", "Synced", "Tainted"} |->
                 CASE t = "Foo" -> 1 [] t = "Ready" -> 2 [] t = "Synced" -> 3 [] t = "Tainted" -> 4]
=============================================================================
