---------------------------- MODULE MCTypeConfig ----------------------------
(***************************************************************************)
(* Two data types and two concurrent register processes are enough for a   *)
(* lost update and for mixed file contents.                                *)
(***************************************************************************)
EXTENDS TypeConfig, TLC

Symmetry == Permutations(Type) \cup Permutations(Registrar)

=============================================================================
