-------------------------- MODULE MCTemplateEditing --------------------------
(* Instances of TemplateEditing for TLC. *)
EXTENDS TemplateEditing, TLC

CONSTANTS r1, r2

RequestSymmetry == Permutations(Requests)
=============================================================================
