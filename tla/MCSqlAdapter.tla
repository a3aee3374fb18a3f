---------------------------- MODULE MCSqlAdapter ----------------------------
(* Instances of SqlAdapter for TLC. *)
EXTENDS SqlAdapter

CONSTANTS c1, c2, c3

MCCallers == {c1, c2, c3}

=============================================================================
