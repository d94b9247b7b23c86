------------------------ MODULE MCGraduatedRegistry ------------------------
(* Instances of GraduatedRegistry for model checking. *)
EXTENDS GraduatedRegistry, TLC

NodeSymmetry == Permutations(Node)
=============================================================================
