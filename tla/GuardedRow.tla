----------------------------- MODULE GuardedRow -----------------------------
(***************************************************************************)
(* What the store needs of a DatabaseAdapter (database.go): guarded writes *)
(* to one row.  Update with a revokedAt IS NULL clause, IncrementOne with  *)
(* a limit, and ConsumeOne each test their guard and write in one atomic   *)
(* step, and report whether they found the row.  The memory adapter, which *)
(* runs every statement and transaction under one mutex, is this module.   *)
(***************************************************************************)
EXTENDS Naturals

CONSTANTS
    Callers,    \* each performs one operation
    Limit       \* the guard of IncrementOne: counter < Limit

VARIABLES
    row,        \* the committed row
    result      \* what each caller was told

Row == [present: BOOLEAN, open: BOOLEAN, counter: Nat]

InitialRow == [present |-> TRUE, open |-> TRUE, counter |-> 0]

Ops == {"update", "increment", "consume"}

\* The WHERE clause of an operation, evaluated on one version of the row.
Matches(op, v) ==
    /\ v.present
    /\ op = "update" => v.open
    /\ op = "increment" => v.counter < Limit

\* The version that the operation's SET clause, or DELETE, makes of v.
Written(op, v) ==
    CASE op = "update"    -> [v EXCEPT !.open = FALSE]
      [] op = "increment" -> [v EXCEPT !.counter = @ + 1]
      [] op = "consume"   -> [v EXCEPT !.present = FALSE]

Results == {"none", "lost", "failed"} \cup Ops

GuardedInit ==
    /\ row = InitialRow
    /\ result = [c \in Callers |-> "none"]

\* The statement finds the row and writes it.
Win(c, op) ==
    /\ result[c] = "none" /\ Matches(op, row)
    /\ row' = Written(op, row)
    /\ result' = [result EXCEPT ![c] = op]

\* The statement returns no row.
Lose(c) ==
    /\ result[c] = "none"
    /\ result' = [result EXCEPT ![c] = "lost"]
    /\ UNCHANGED row

\* The transaction is rolled back.
Fail(c) ==
    /\ result[c] = "none"
    /\ result' = [result EXCEPT ![c] = "failed"]
    /\ UNCHANGED row

GuardedNext ==
    \E c \in Callers : (\E op \in Ops : Win(c, op)) \/ Lose(c) \/ Fail(c)

GuardedSpec == GuardedInit /\ [][GuardedNext]_<<row, result>>

=============================================================================
