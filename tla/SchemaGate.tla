----------------------------- MODULE SchemaGate -----------------------------
(***************************************************************************)
(* The schema check that every request passes first (schema_check.go).     *)
(* schemaGate.check lets one caller, the leader, ask the database; callers *)
(* that arrive meanwhile wait for its answer, and only a clean answer is   *)
(* kept.  The gate's mutex protects `clean` and `pending`; the leader asks *)
(* without it.  A caller leads at most once, so a call is named by its     *)
(* leader.                                                                 *)
(***************************************************************************)
EXTENDS Naturals

CONSTANT Callers    \* concurrent requests

VARIABLES
    fits,       \* the live schema is what the server needs
    canceled,   \* callers whose context has ended
    clean,      \* schemaGate.clean
    pending,    \* schemaGate.pending: the leader of the running check, if any
    done,       \* calls whose channel is closed
    call,       \* the verdict of each call, and whether it says nothing
    at,         \* where each caller is
    leader      \* the call a waiting caller has joined

gateVars == <<fits, canceled, clean, pending, done, call, at, leader>>

Verdicts == {"none", "clean", "mismatch", "failed", "canceled"}

GateTypeOK ==
    /\ fits \in BOOLEAN /\ clean \in BOOLEAN
    /\ canceled \subseteq Callers /\ pending \subseteq Callers /\ done \subseteq Callers
    /\ \A c, d \in pending : c = d
    /\ call \in [Callers -> [err: Verdicts, canceled: BOOLEAN]]
    /\ at \in [Callers -> {"enter", "run", "publish", "close", "wait"} \cup Verdicts]
    /\ leader \in [Callers -> Callers]

\* Nothing has been checked; the schema may be right, or wait for its migration.
GateInit ==
    /\ fits \in BOOLEAN
    /\ canceled = {} /\ clean = FALSE /\ pending = {} /\ done = {}
    /\ call = [c \in Callers |-> [err |-> "none", canceled |-> FALSE]]
    /\ at = [c \in Callers |-> "enter"]
    /\ leader = [c \in Callers |-> c]

Goto(c, place) == at' = [at EXCEPT ![c] = place]

\* check returned: the error of the call, or the caller's own.
Checked(c) == at[c] \in Verdicts

\* The fast path and the locked part of check: pass, lead or join.
Enter(c) ==
    /\ at[c] = "enter"
    /\ \/ clean /\ Goto(c, "clean") /\ UNCHANGED <<pending, leader>>
       \/ /\ ~clean /\ pending = {}
          /\ pending' = {c}
          /\ Goto(c, "run")
          /\ UNCHANGED leader
       \/ /\ ~clean
          /\ \E l \in pending : leader' = [leader EXCEPT ![c] = l]
          /\ Goto(c, "wait")
          /\ UNCHANGED pending
    /\ UNCHANGED <<fits, canceled, clean, done, call>>

\* What CheckSchema may return to c: what it found, an error of the database, or
\* the error of a context that has ended.
Outcomes(c) ==
    {IF fits THEN "clean" ELSE "mismatch", "failed"} \cup
    (IF c \in canceled THEN {"canceled"} ELSE {})

\* Fault variant of SaysNothing: every error is the error of all callers.
SaysSomething(c, err) == FALSE

\* The leader's own request was cancelled; that says nothing about the schema.
SaysNothing(c, err) == err # "clean" /\ c \in canceled

\* The leader asks the database, without the mutex.
RunCheck(c) ==
    /\ at[c] = "run"
    /\ \E err \in Outcomes(c) :
         call' = [call EXCEPT ![c] = [err |-> err, canceled |-> SaysNothing(c, err)]]
    /\ Goto(c, "publish")
    /\ UNCHANGED <<fits, canceled, clean, pending, done, leader>>

\* The leader keeps a clean result and makes room for the next check.
Publish(c) ==
    /\ at[c] = "publish"
    /\ clean' = (clean \/ call[c].err = "clean")
    /\ pending' = {}
    /\ Goto(c, "close")
    /\ UNCHANGED <<fits, canceled, done, call, leader>>

\* close(call.done); the leader returns its own error.
CloseCall(c) ==
    /\ at[c] = "close"
    /\ done' = done \cup {c}
    /\ Goto(c, call[c].err)
    /\ UNCHANGED <<fits, canceled, clean, pending, call, leader>>

\* The select of a follower.  When both channels are ready either may be chosen.
Await(c) ==
    /\ at[c] = "wait"
    /\ \/ c \in canceled /\ Goto(c, "canceled")
       \/ /\ leader[c] \in done
          /\ Goto(c, IF call[leader[c]].canceled THEN "enter" ELSE call[leader[c]].err)
    /\ leader' = [leader EXCEPT ![c] = c]
    /\ UNCHANGED <<fits, canceled, clean, pending, done, call>>

CheckStep(c) == Enter(c) \/ RunCheck(c) \/ Publish(c) \/ CloseCall(c) \/ Await(c)

\* The client disconnects; past the check nobody looks at the context again.
CancelRequest(c) ==
    /\ c \notin canceled /\ at[c] \in {"enter", "run", "wait"}
    /\ canceled' = canceled \cup {c}
    /\ UNCHANGED <<fits, clean, pending, done, call, at, leader>>

\* An operator runs Migrate.
Migrate ==
    /\ ~fits
    /\ fits' = TRUE
    /\ UNCHANGED <<canceled, clean, pending, done, call, at, leader>>

-----------------------------------------------------------------------------
(* Properties                                                              *)

\* A request is refused as cancelled only if its own client went away: the end of
\* the leader's context never becomes the answer of those who wait for it
\* (schemaGate.check).
OwnCancellation == \A c \in Callers : at[c] = "canceled" => c \in canceled

=============================================================================
