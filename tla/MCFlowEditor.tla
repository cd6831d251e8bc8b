---------------------------- MODULE MCFlowEditor ----------------------------
(* An instance of FlowEditor for TLC: one saved file, edited by hand so that   *)
(* an edge names a node that is not in it.                                  *)
EXTENDS FlowEditor, TLC

CONSTANTS v0, v1

OneFile == {[nodes |-> {2}, edges |-> {<<3, 2>>}, data |-> 2 :> v1]}
=============================================================================
