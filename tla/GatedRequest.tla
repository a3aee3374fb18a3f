---------------------------- MODULE GatedRequest ----------------------------
(***************************************************************************)
(* Requests from their arrival to their answer: requireSchema at the head  *)
(* of the handler (plugin_http.go, server.go), then a guarded write        *)
(* through the SQL adapter.  A request that the gate refuses never reaches *)
(* the database.                                                           *)
(***************************************************************************)
EXTENDS SqlAdapter

VARIABLES fits, canceled, clean, pending, done, call, at, leader

INSTANCE SchemaGate

gate == <<fits, canceled, clean, pending, done, call, at, leader>>

RequestInit == Init /\ GateInit

\* requireSchema, where validation is on and the adapter can check its schema;
\* otherwise it returns at once.
RequireSchema(c) == CheckStep(c) /\ UNCHANGED vars

\* What the handler does once the gate has let it pass.
Handle(c) ==
    /\ at[c] = "clean"
    /\ SubSelect(c) \/ OuterWrite(c) \/ Commit(c) \/ Return(c) \/ Rollback(c)
    /\ UNCHANGED gate

RequestNext ==
    \/ \E c \in Callers :
         \/ RequireSchema(c) \/ Handle(c)
         \/ CancelRequest(c) /\ UNCHANGED vars
    \/ Migrate /\ UNCHANGED vars

\* The goroutine of a request is scheduled, CheckSchema returns, and every
\* transaction runs to its end.
RequestSpec ==
    /\ RequestInit /\ [][RequestNext]_<<vars, gate>>
    /\ \A c \in Callers : WF_<<vars, gate>>(RequireSchema(c)) /\ WF_<<vars, gate>>(Handle(c))

-----------------------------------------------------------------------------
(* Properties                                                              *)

\* No request waits for ever, at the gate for a leader that went away or for a
\* lock that nobody releases: each is refused by the gate or answered by the
\* database.
EveryRequestAnswered ==
    \A c \in Callers : <>((Checked(c) /\ at[c] # "clean") \/ reply[c] # "none")

=============================================================================
