---------------------------- MODULE MCModelImport ----------------------------
(* ModelImport with three versions of the model, one after the other.         *)
EXTENDS ModelImport
=============================================================================
