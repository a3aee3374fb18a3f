----------------------------- MODULE SqlAdapter -----------------------------
(***************************************************************************)
(* The guarded writes of sqladapter.Adapter.  Update, IncrementOne and     *)
(* ConsumeOne issue one statement of the shape                             *)
(*    UPDATE t SET ... WHERE id = (SELECT id FROM t WHERE guard LIMIT 1)   *)
(* inside a transaction begun with the driver's default isolation.  What   *)
(* that means depends on the database:                                     *)
(*   "sqlite":      a writing statement takes the database's write lock    *)
(*                  before it reads and keeps it until the commit;         *)
(*   "postgresql":  the sub-select reads the statement's snapshot, the     *)
(*                  outer statement then waits for the row's lock, and     *)
(*                  READ COMMITTED re-checks only the outer clause (id)    *)
(*                  on the version it finds.                               *)
(***************************************************************************)
EXTENDS Naturals

CONSTANTS
    Callers,    \* each performs one operation
    Limit,      \* the guard of IncrementOne: counter < Limit
    Dialect

ASSUME SqlAdapterAssumption ==
    Limit \in Nat /\ Dialect \in {"sqlite", "postgresql"}

VARIABLES
    table,      \* the committed row
    reply,      \* what each caller was told
    step,       \* what each caller's transaction does next
    op,         \* the operation it performs, once begun
    lock        \* the holder of the row's (or database's) write lock, if any

vars == <<table, reply, step, op, lock>>

\* The contract sees the committed row.  A write takes effect at its commit, before
\* the caller is told.
G == INSTANCE GuardedRow WITH
        row <- table,
        result <- [c \in Callers |-> IF step[c] = "committed" THEN op[c] ELSE reply[c]]

TypeOK ==
    /\ table \in G!Row
    /\ reply \in [Callers -> G!Results]
    /\ step \in [Callers -> {"idle", "write", "commit", "committed", "done"}]
    /\ op \in [Callers -> G!Ops \cup {"none"}]
    /\ lock \subseteq Callers

Init ==
    /\ table = G!InitialRow
    /\ reply = [c \in Callers |-> "none"]
    /\ step = [c \in Callers |-> "idle"]
    /\ op = [c \in Callers |-> "none"]
    /\ lock = {}

Holds(c) == c \in lock

Acquire(c) == lock' = {c}

Release == lock' = {}

Answer(c, answer) ==
    /\ step' = [step EXCEPT ![c] = "done"]
    /\ reply' = [reply EXCEPT ![c] = answer]

\* Fault variant of SubSelect: the guard is read before any lock is taken.
SubSelectUnlocked(c) ==
    /\ step[c] = "idle"
    /\ \E o \in G!Ops :
         IF G!Matches(o, table)
         THEN /\ step' = [step EXCEPT ![c] = "write"]
              /\ op' = [op EXCEPT ![c] = o]
              /\ UNCHANGED reply
         ELSE Answer(c, "lost") /\ UNCHANGED op
    /\ UNCHANGED <<table, lock>>

\* The caller's operation begins.  Its sub-select looks for a row that satisfies
\* the guard in the version its snapshot holds; without one the statement affects
\* no row.
SubSelect(c) ==
    /\ step[c] = "idle"
    /\ Dialect = "sqlite" => lock = {}
    /\ \E o \in G!Ops :
         \/ /\ G!Matches(o, table)
            /\ step' = [step EXCEPT ![c] = "write"]
            /\ op' = [op EXCEPT ![c] = o]
            /\ IF Dialect = "sqlite" THEN Acquire(c) ELSE UNCHANGED lock
            /\ UNCHANGED reply
         \/ /\ ~G!Matches(o, table)
            /\ Answer(c, "lost")
            /\ UNCHANGED <<op, lock>>
    /\ UNCHANGED table

\* The outer UPDATE or DELETE takes the row's lock and finds the row by its id;
\* the row may have been deleted meanwhile.
OuterWrite(c) ==
    /\ step[c] = "write"
    /\ lock \subseteq {c}
    /\ \/ /\ table.present
          /\ Acquire(c)
          /\ step' = [step EXCEPT ![c] = "commit"]
          /\ UNCHANGED reply
       \/ /\ ~table.present
          /\ Release
          /\ Answer(c, "lost")
    /\ UNCHANGED <<table, op>>

\* Transaction commits: the new version becomes visible, the lock is released.
Commit(c) ==
    /\ step[c] = "commit"
    /\ table' = G!Written(op[c], table)
    /\ Release
    /\ step' = [step EXCEPT ![c] = "committed"]
    /\ UNCHANGED <<reply, op>>

\* The method returns the row to its caller.
Return(c) ==
    /\ step[c] = "committed"
    /\ Answer(c, op[c])
    /\ UNCHANGED <<table, op, lock>>

\* Fault variant of Rollback: the transaction is left open.
RollbackForgotten(c) ==
    /\ step[c] \in {"write", "commit"}
    /\ Answer(c, "failed")
    /\ UNCHANGED <<table, op, lock>>

\* The callback returns an error, or the connection is lost.
Rollback(c) ==
    /\ step[c] \in {"write", "commit"}
    /\ IF Holds(c) THEN Release ELSE UNCHANGED lock
    /\ Answer(c, "failed")
    /\ UNCHANGED <<table, op>>

Next ==
    \E c \in Callers : SubSelect(c) \/ OuterWrite(c) \/ Commit(c) \/ Return(c) \/ Rollback(c)

\* Every transaction runs to its end.
Spec == Init /\ [][Next]_vars /\ \A c \in Callers :
            /\ WF_vars(SubSelect(c)) /\ WF_vars(OuterWrite(c))
            /\ WF_vars(Commit(c)) /\ WF_vars(Return(c))

-----------------------------------------------------------------------------
(* Properties                                                              *)

Winners(o) == {c \in Callers : reply[c] = o}

\* The statements implement the contract: every committed write tested its guard
\* on the version it replaced, whatever the callers have been told by then.
Contract == G!GuardedSpec

\* SECURITY.md: "Adapter atomic consume and guarded increment operations have
\* one-winner concurrency semantics."
OneWinner ==
    /\ \A c, d \in Winners("consume") : c = d
    /\ table.counter <= Limit

=============================================================================
