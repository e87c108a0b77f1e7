--------------------------- MODULE MCSyncSession ---------------------------
(***************************************************************************)
(* Instances of SyncSession for TLC: the fields of which a part may arrive *)
(* have two bytes, the others one.                                         *)
(***************************************************************************)
EXTENDS SyncSession

MCWidth == [f \in Field |-> IF f \in {"nameLen", "name"} THEN 1 ELSE 2]

=============================================================================
