--------------------------- MODULE MCGatedRequest ---------------------------
(* An instance of GatedRequest for TLC. *)
EXTENDS GatedRequest

CONSTANTS c1, c2, c3

MCCallers == {c1, c2, c3}

=============================================================================
