---------------------------- MODULE RevisionedModel ----------------------------
(***************************************************************************)
(* What a model revision promises a reader: the label changes with every   *)
(* change of the model the routes can expose, and only then, and no label  *)
(* is ever given to two publications.                                      *)
(***************************************************************************)
EXTENDS Naturals

VARIABLES model, label

Init == label = 1

Publish == model' # model /\ label' = label + 1

Spec == Init /\ [][Publish]_<<model, label>>
=============================================================================
