------------------------- MODULE MCStatusController -------------------------
(***************************************************************************)
(* Instances of StatusController: one dependent and one independent type,  *)
(* one True value and two False ones that differ in their reason.          *)
(***************************************************************************)
EXTENDS StatusController

MCDependents == {"Foo"}
MCIndependents == {"Tainted"}
MCValues == {[status |-> "True", reason |-> "Ok"],
             [status |-> "False", reason |-> "Failed"],
             [status |-> "False", reason |-> "Expired"]}
=============================================================================
