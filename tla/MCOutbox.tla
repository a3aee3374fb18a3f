------------------------------ MODULE MCOutbox ------------------------------
(* An instance of Outbox for TLC. *)
EXTENDS Outbox

CONSTANTS d1, d2

MCDispatchers == {d1, d2}

\* Two times that text puts in the wrong order, the second they are of, and the next.
MCTimes == {0, 10, 12, 100}

=============================================================================
