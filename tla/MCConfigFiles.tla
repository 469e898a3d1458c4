--------------------------- MODULE MCConfigFiles ---------------------------
(* Model-checking instance of ConfigFiles. *)
EXTENDS ConfigFiles

Symmetry == Permutations(Texts)
=============================================================================
