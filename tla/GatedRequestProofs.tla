------------------------- MODULE GatedRequestProofs -------------------------
(***************************************************************************)
(* Proofs about requests that pass the schema gate and then write through  *)
(* the SQL adapter, for any number of callers and any limit.  On SQLite    *)
(* the statements implement GuardedRow; the gate's answers are those of    *)
(* the schema, for either database.                                        *)
(*                                                                         *)
(* Then, each on its own, what the outbox promises of events, and what the *)
(* handlers of AccountEmail keep true of addresses and deletions.          *)
(***************************************************************************)
EXTENDS GatedRequest, EventDelivery, ProvedAddresses, TLAPS

-----------------------------------------------------------------------------
(* The gate                                                                *)

\* At most one check runs.  A call whose own client went away is marked as saying
\* nothing about the schema; "clean" is kept, or on its way, only if the schema
\* fits, which it does for good.
GateInv ==
    /\ GateTypeOK
    /\ \A c \in Callers :
         /\ call[c].err = "canceled" => call[c].canceled /\ c \in canceled
         /\ call[c].err = "clean" \/ at[c] = "clean" => fits
    /\ clean => fits
    /\ OwnCancellation

LEMMA GateInitial == GateInit => GateInv
<1> SUFFICES ASSUME GateInit PROVE GateInv
  OBVIOUS
<1>1. GateTypeOK
  BY DEF GateInit, GateTypeOK, Verdicts
<1>2. OwnCancellation /\ (clean => fits)
  BY DEF GateInit, OwnCancellation
<1>3. \A c \in Callers : call[c].err = "none" /\ at[c] = "enter"
  BY DEF GateInit
<1> QED
  BY <1>1, <1>2, <1>3 DEF GateInv

LEMMA CheckStepKeepsGate ==
    ASSUME GateInv, NEW c \in Callers, CheckStep(c)
    PROVE  GateInv'
<1>1. CASE Enter(c)
  <2>1. GateTypeOK'
    BY <1>1 DEF Enter, GateInv, GateTypeOK, Goto, Verdicts
  <2>2. \A d \in Callers : /\ at'[d] = "clean" => at[d] = "clean" \/ clean
                           /\ at'[d] = "canceled" => at[d] = "canceled"
    BY <1>1 DEF Enter, GateInv, GateTypeOK, Goto
  <2>3. UNCHANGED <<fits, canceled, clean, call>>
    BY <1>1 DEF Enter
  <2> QED
    BY <2>1, <2>2, <2>3 DEF GateInv, OwnCancellation
<1>2. CASE RunCheck(c)
  <2> PICK err \in Outcomes(c) :
        call' = [call EXCEPT ![c] = [err |-> err, canceled |-> SaysNothing(c, err)]]
    BY <1>2 DEF RunCheck
  <2>1. err \in Verdicts /\ SaysNothing(c, err) \in BOOLEAN
    BY DEF Outcomes, Verdicts, SaysNothing
  <2>2. GateTypeOK'
    BY <1>2, <2>1 DEF RunCheck, GateInv, GateTypeOK, Goto, Verdicts
  <2>3. /\ err = "canceled" => c \in canceled
        /\ err = "clean" => fits
    BY DEF Outcomes
  <2>4. \A d \in Callers : /\ call'[d].err = "canceled" => call'[d].canceled /\ d \in canceled
                           /\ call'[d].err = "clean" => fits
    BY <2>3 DEF GateInv, GateTypeOK, SaysNothing
  <2>5. \A d \in Callers : at'[d] \in {"clean", "canceled"} => at'[d] = at[d]
    BY <1>2 DEF RunCheck, Goto, GateInv, GateTypeOK
  <2>6. UNCHANGED <<fits, canceled, clean>>
    BY <1>2 DEF RunCheck
  <2> QED
    BY <2>2, <2>4, <2>5, <2>6 DEF GateInv, OwnCancellation
<1>3. CASE Publish(c)
  BY <1>3 DEF Publish, GateInv, GateTypeOK, OwnCancellation, Goto, Verdicts
<1>4. CASE CloseCall(c)
  BY <1>4 DEF CloseCall, GateInv, GateTypeOK, OwnCancellation, Goto, Verdicts
<1>5. CASE Await(c)
  BY <1>5 DEF Await, GateInv, GateTypeOK, OwnCancellation, Goto, Verdicts
<1> QED
  BY <1>1, <1>2, <1>3, <1>4, <1>5 DEF CheckStep

LEMMA GateStep == GateInv /\ [RequestNext]_<<vars, gate>> => GateInv'
<1> SUFFICES ASSUME GateInv, [RequestNext]_<<vars, gate>> PROVE GateInv'
  OBVIOUS
<1>1. ASSUME NEW c \in Callers, RequireSchema(c) PROVE GateInv'
  BY <1>1, CheckStepKeepsGate DEF RequireSchema
<1>2. CASE UNCHANGED gate
  BY <1>2 DEF gate, GateInv, GateTypeOK, OwnCancellation
<1>3. ASSUME NEW c \in Callers, CancelRequest(c) PROVE GateInv'
  BY <1>3 DEF CancelRequest, GateInv, GateTypeOK, OwnCancellation
<1>4. CASE Migrate
  BY <1>4 DEF Migrate, GateInv, GateTypeOK, OwnCancellation
<1> QED
  BY <1>1, <1>2, <1>3, <1>4 DEF RequestNext, Handle

LEMMA GateHolds == RequestSpec => []GateInv
<1>1. RequestInit => GateInv
  BY GateInitial DEF RequestInit
<1> QED
  BY <1>1, GateStep, PTL DEF RequestSpec

\* A request is refused as cancelled only if its own client went away, whoever
\* led the check it waited for (schemaGate.check).
THEOREM CancellationIsOwn == RequestSpec => []OwnCancellation
<1>1. GateInv => OwnCancellation
  BY DEF GateInv
<1> QED
  BY <1>1, GateHolds, PTL

\* No statement reaches a database whose schema does not fit: whoever has begun
\* passed the gate, and what lets a request pass is a check that found the schema
\* right, its own or that of a leader (requireSchema before every handler).
NothingBeforeTheSchemaFits ==
    \A c \in Callers : step[c] # "idle" => at[c] = "clean" /\ fits

THEOREM GateGuardsTheDatabase == RequestSpec => []NothingBeforeTheSchemaFits
<1> DEFINE Passed == step \in [Callers -> {"idle", "write", "commit", "committed", "done"}]
                     /\ \A c \in Callers : step[c] # "idle" => at[c] = "clean"
<1>1. RequestInit => Passed
  BY DEF RequestInit, Init
<1>2. Passed /\ GateInv /\ [RequestNext]_<<vars, gate>> => Passed'
  <2> SUFFICES ASSUME Passed, GateInv, [RequestNext]_<<vars, gate>> PROVE Passed'
    OBVIOUS
  <2>1. ASSUME NEW c \in Callers, RequireSchema(c) PROVE Passed'
    <3>1. UNCHANGED step /\ at[c] # "clean" /\ \A d \in Callers \ {c} : at'[d] = at[d]
      BY <2>1 DEF RequireSchema, vars, CheckStep, Enter, RunCheck, Publish, CloseCall, Await,
                  Goto, GateInv, GateTypeOK
    <3> QED
      BY <3>1
  <2>2. ASSUME NEW c \in Callers, Handle(c) PROVE Passed'
    <3>1. at[c] = "clean" /\ UNCHANGED at
      BY <2>2 DEF Handle, gate
    <3>2. /\ step' \in [Callers -> {"idle", "write", "commit", "committed", "done"}]
          /\ \A d \in Callers \ {c} : step'[d] = step[d]
      BY <2>2 DEF Handle, SubSelect, OuterWrite, Commit, Return, Rollback, Answer
    <3> QED
      BY <3>1, <3>2
  <2>3. CASE UNCHANGED <<at, step>>
    BY <2>3
  <2> QED
    BY <2>1, <2>2, <2>3 DEF RequestNext, CancelRequest, Migrate, vars, gate
<1>3. Passed /\ GateInv => NothingBeforeTheSchemaFits
  BY DEF GateInv, NothingBeforeTheSchemaFits
<1> QED
  BY <1>1, <1>2, <1>3, GateHolds, PTL DEF RequestSpec

-----------------------------------------------------------------------------
(* The statements, on SQLite                                               *)

\* A transaction that has read its guard holds the write lock, so the guard is
\* still true of the row it will write; nobody is told before the commit.  A
\* committed consume is the last write, and increments stop at the limit.
Guarded(c) ==
    /\ step[c] = "idle" => reply[c] = "none"
    /\ step[c] \in {"write", "commit"} =>
         lock = {c} /\ reply[c] = "none" /\ op[c] \in G!Ops /\ G!Matches(op[c], table)
    /\ step[c] = "committed" => reply[c] = "none" /\ op[c] \in G!Ops

Effect(c) == IF step[c] = "committed" THEN op[c] ELSE reply[c]

SqliteInv ==
    /\ TypeOK
    /\ \A c \in Callers : Guarded(c)
    /\ table.counter <= Limit
    /\ \A c \in Callers : Effect(c) = "consume" => ~table.present
    /\ \A c, d \in Callers : Effect(c) = "consume" /\ Effect(d) = "consume" => c = d

\* What a statement writes is a row, and what its guard allows keeps the counter
\* within its limit.
LEMMA WrittenRow ==
    ASSUME NEW o \in G!Ops, NEW v \in G!Row, G!Matches(o, v)
    PROVE  /\ G!Written(o, v) \in G!Row
           /\ v.counter <= Limit => G!Written(o, v).counter <= Limit
           /\ v.present
           /\ G!Written(o, v).present <=> o # "consume"
<1> USE SqlAdapterAssumption DEF G!Row, G!Matches, G!Written
<1>1. CASE o = "update"
  BY <1>1
<1>2. CASE o = "increment"
  BY <1>2
<1>3. CASE o = "consume"
  BY <1>3
<1> QED
  BY <1>1, <1>2, <1>3 DEF G!Ops

LEMMA SqliteInitial == Init => SqliteInv
<1> SUFFICES ASSUME Init PROVE SqliteInv
  OBVIOUS
<1>1. TypeOK
  BY DEF Init, TypeOK, G!Row, G!InitialRow, G!Results
<1> QED
  BY <1>1, SqlAdapterAssumption DEF Init, SqliteInv, Guarded, Effect, G!InitialRow

LEMMA SubSelectKeeps ==
    ASSUME Dialect = "sqlite", SqliteInv, NEW c \in Callers, SubSelect(c)
    PROVE  SqliteInv'
<1> PICK o \in G!Ops :
      \/ /\ G!Matches(o, table)
         /\ step' = [step EXCEPT ![c] = "write"]
         /\ op' = [op EXCEPT ![c] = o]
         /\ lock' = {c} /\ reply' = reply
      \/ /\ step' = [step EXCEPT ![c] = "done"]
         /\ reply' = [reply EXCEPT ![c] = "lost"]
         /\ op' = op /\ lock' = lock
  BY DEF SubSelect, Acquire, Answer
<1>1. table' = table /\ step[c] = "idle" /\ lock = {}
  BY DEF SubSelect
<1>2. TypeOK'
  BY <1>1 DEF SqliteInv, TypeOK, G!Results
<1>3. \A d \in Callers : Guarded(d)'
  BY <1>1 DEF SqliteInv, TypeOK, Guarded, G!Matches
<1>4. \A d \in Callers : Effect(d)' = "consume" => Effect(d) = "consume"
  BY <1>1 DEF SqliteInv, TypeOK, Effect, Guarded
<1> QED
  BY <1>1, <1>2, <1>3, <1>4 DEF SqliteInv

LEMMA CommitKeeps ==
    ASSUME SqliteInv, NEW c \in Callers, Commit(c)
    PROVE  SqliteInv'
<1>1. /\ step[c] = "commit" /\ table' = G!Written(op[c], table) /\ lock' = {}
      /\ step' = [step EXCEPT ![c] = "committed"] /\ reply' = reply /\ op' = op
  BY DEF Commit, Release
<1>2. op[c] \in G!Ops /\ G!Matches(op[c], table) /\ reply[c] = "none" /\ lock = {c}
  BY <1>1 DEF SqliteInv, Guarded
<1>3. /\ table' \in G!Row /\ table'.counter <= Limit /\ table.present
      /\ op[c] = "consume" => ~table'.present
  BY <1>1, <1>2, WrittenRow DEF SqliteInv, TypeOK
<1>4. \A d \in Callers : d # c => step[d] \notin {"write", "commit"}
  BY <1>2 DEF SqliteInv, Guarded
<1>5. TypeOK'
  BY <1>1, <1>3 DEF SqliteInv, TypeOK
<1>6. \A d \in Callers : Guarded(d)'
  BY <1>1, <1>2, <1>4 DEF SqliteInv, TypeOK, Guarded
<1>7. \A d \in Callers : Effect(d) # "consume"
  BY <1>3 DEF SqliteInv
<1>8. \A d \in Callers : Effect(d)' = "consume" => d = c /\ op[c] = "consume"
  BY <1>1, <1>7 DEF SqliteInv, TypeOK, Effect
<1> QED
  BY <1>3, <1>5, <1>6, <1>8 DEF SqliteInv

\* The other steps of a transaction leave the row alone.
LEMMA OtherStepsKeep ==
    ASSUME SqliteInv, NEW c \in Callers, OuterWrite(c) \/ Return(c) \/ Rollback(c)
    PROVE  SqliteInv'
<1>1. table' = table /\ op' = op /\ step[c] \in {"write", "commit", "committed"}
  BY DEF OuterWrite, Return, Rollback
<1>2. step[c] \in {"write", "commit"} => lock = {c} /\ table.present /\ op[c] \in G!Ops
  BY DEF SqliteInv, Guarded, G!Matches
<1>3. TypeOK'
  BY <1>1, <1>2 DEF SqliteInv, TypeOK, Guarded, OuterWrite, Return, Rollback, Answer, Acquire,
                    Release, Holds, G!Results, G!Ops
<1>4. \A d \in Callers : Guarded(d)'
  BY <1>1, <1>2 DEF SqliteInv, TypeOK, Guarded, OuterWrite, Return, Rollback, Answer, Acquire,
                    Release, Holds
<1>5. \A d \in Callers : Effect(d)' = "consume" => Effect(d) = "consume"
  BY <1>1, <1>2 DEF SqliteInv, TypeOK, Effect, Guarded, OuterWrite, Return, Rollback, Answer
<1> QED
  BY <1>1, <1>3, <1>4, <1>5 DEF SqliteInv

LEMMA SqliteStep ==
    ASSUME Dialect = "sqlite"
    PROVE  SqliteInv /\ [RequestNext]_<<vars, gate>> => SqliteInv'
<1> SUFFICES ASSUME SqliteInv, [RequestNext]_<<vars, gate>> PROVE SqliteInv'
  OBVIOUS
<1>1. CASE UNCHANGED vars
  BY <1>1 DEF vars, SqliteInv, TypeOK, Guarded, Effect
<1>2. ASSUME NEW c \in Callers, Handle(c) PROVE SqliteInv'
  BY <1>2, SubSelectKeeps, CommitKeeps, OtherStepsKeep DEF Handle
<1> QED
  BY <1>1, <1>2 DEF RequestNext, RequireSchema

LEMMA SqliteHolds ==
    ASSUME Dialect = "sqlite"
    PROVE  RequestSpec => []SqliteInv
<1>1. RequestInit => SqliteInv
  BY SqliteInitial DEF RequestInit
<1> QED
  BY <1>1, SqliteStep, PTL DEF RequestSpec

\* On SQLite the adapter keeps SECURITY.md's promise for any number of callers: one
\* of them consumes the row, and guarded increments never pass the limit.
THEOREM SqliteOneWinner ==
    ASSUME Dialect = "sqlite"
    PROVE  RequestSpec => []OneWinner
<1>1. SqliteInv => OneWinner
  BY DEF SqliteInv, OneWinner, Winners, Effect, Guarded
<1> QED
  BY <1>1, SqliteHolds, PTL

\* On SQLite every step of every request is a step of the contract of database.go
\* or leaves its row and its answers alone: a guard is tested on the very version
\* that is written (Update, IncrementOne, ConsumeOne).
THEOREM SqliteImplementsContract ==
    ASSUME Dialect = "sqlite"
    PROVE  RequestSpec => Contract
<1> DEFINE Told == [c \in Callers |-> IF step[c] = "committed" THEN op[c] ELSE reply[c]]
<1>1. RequestInit => G!GuardedInit
  BY DEF RequestInit, Init, G!GuardedInit
<1>2. SqliteInv /\ [RequestNext]_<<vars, gate>> => [G!GuardedNext]_<<table, Told>>
  <2> SUFFICES ASSUME SqliteInv, [RequestNext]_<<vars, gate>>
               PROVE  G!GuardedNext \/ UNCHANGED <<table, Told>>
    OBVIOUS
  <2>1. CASE UNCHANGED vars
    BY <2>1 DEF vars
  <2>2. ASSUME NEW c \in Callers, SubSelect(c) PROVE G!Lose(c) \/ UNCHANGED <<table, Told>>
    <3>1. CASE step' = [step EXCEPT ![c] = "write"]
      BY <2>2, <3>1 DEF SubSelect, SqliteInv, TypeOK, Answer
    <3>2. CASE Answer(c, "lost") /\ UNCHANGED op
      BY <2>2, <3>2 DEF SubSelect, SqliteInv, TypeOK, Guarded, Answer, G!Lose
    <3> QED
      BY <2>2, <3>1, <3>2 DEF SubSelect
  <2>3. ASSUME NEW c \in Callers, OuterWrite(c) PROVE UNCHANGED <<table, Told>>
    <3>1. table.present
      BY <2>3 DEF OuterWrite, SqliteInv, Guarded, G!Matches
    <3> QED
      BY <2>3, <3>1 DEF OuterWrite, SqliteInv, TypeOK
  <2>4. ASSUME NEW c \in Callers, Commit(c) PROVE \E o \in G!Ops : G!Win(c, o)
    <3>1. op[c] \in G!Ops /\ G!Matches(op[c], table) /\ reply[c] = "none"
      BY <2>4 DEF Commit, SqliteInv, Guarded
    <3>2. Told' = [Told EXCEPT ![c] = op[c]]
      BY <2>4 DEF Commit, SqliteInv, TypeOK
    <3> QED
      BY <2>4, <3>1, <3>2 DEF Commit, G!Win
  <2>5. ASSUME NEW c \in Callers, Return(c) PROVE UNCHANGED <<table, Told>>
    BY <2>5 DEF Return, Answer, SqliteInv, TypeOK
  <2>6. ASSUME NEW c \in Callers, Rollback(c) PROVE G!Fail(c)
    <3>1. Told[c] = "none" /\ Told' = [Told EXCEPT ![c] = "failed"]
      BY <2>6 DEF Rollback, Answer, SqliteInv, TypeOK, Guarded
    <3> QED
      BY <2>6, <3>1 DEF Rollback, G!Fail
  <2>7. ASSUME NEW c \in Callers, Handle(c) PROVE G!GuardedNext \/ UNCHANGED <<table, Told>>
    <3>1. CASE SubSelect(c)
      BY <2>2, <3>1 DEF G!GuardedNext
    <3>2. CASE Commit(c)
      BY <2>4, <3>2 DEF G!GuardedNext
    <3>3. CASE Rollback(c)
      BY <2>6, <3>3 DEF G!GuardedNext
    <3> QED
      BY <2>3, <2>5, <2>7, <3>1, <3>2, <3>3 DEF Handle
  <2> QED
    BY <2>1, <2>7 DEF RequestNext, RequireSchema
<1> QED
  BY <1>1, <1>2, SqliteHolds, PTL DEF RequestSpec, Contract, G!GuardedSpec

-----------------------------------------------------------------------------
(* The outbox                                                              *)

CONSTANTS Dispatchers, BatchSize, MaxEvents, Times, MaxFailures

VARIABLES dispatching, current, batch, failures

Outbox == INSTANCE Outbox WITH step <- dispatching

Bounds == MaxEvents \in Nat /\ Times \subseteq Nat /\ 0 \in Times /\ MaxFailures \in Nat

\* What a dispatcher is about to mark has been handled.
MarksHandled == \A d \in Dispatchers : dispatching[d] = "mark" => current[d] \in handled

\* The batch was read in the order of what is stored as occurredAt: an event that
\* precedes one of its events and committed before it is in it too, or was handled.
BatchesAreComplete ==
    \A d \in Dispatchers : \A f \in batch[d], e \in 1..last :
       e < f /\ Precedes(occurredAt[e], occurredAt[f]) => e \in handled \cup batch[d]

OutboxInv ==
    /\ Outbox!TypeOK
    /\ PublishedWasHandled
    /\ MarksHandled
    /\ BatchesAreComplete
    /\ NoOvertaking

\* Both forms of storing a time put a time that precedes another before it: text
\* orders seconds by their digits and the times of one second behind these.
LEMMA StoredInOrder ==
    ASSUME NEW t \in Nat, NEW u \in Nat, Precedes(t, u)
    PROVE  ~(Outbox!Stored(u) <= Outbox!Stored(t))
<1>1. CASE dates
  BY <1>1 DEF Precedes, Outbox!Stored
<1>2. CASE ~dates
  <2>1. Second(t) < Second(u)
    BY <1>2 DEF Precedes
  <2>2. /\ Second(t) \in Nat /\ Second(u) \in Nat
        /\ t % 100 \in 0..99 /\ u % 100 \in 0..99 /\ t % 10 \in 0..9 /\ u % 10 \in 0..9
    BY DEF Second
  <2>3. Outbox!Tenth(t) \in 0..10 /\ Outbox!Tenth(u) \in 0..10
    BY <2>2 DEF Outbox!Tenth
  <2>4. Outbox!Hundredth(t) \in 0..10 /\ Outbox!Hundredth(u) \in 0..10
    BY <2>2 DEF Outbox!Hundredth
  <2>5. /\ Outbox!Stored(t) = Second(t) * 121 + Outbox!Tenth(t) * 11 + Outbox!Hundredth(t)
        /\ Outbox!Stored(u) = Second(u) * 121 + Outbox!Tenth(u) * 11 + Outbox!Hundredth(u)
    BY <1>2 DEF Outbox!Stored, Second, Outbox!Second
  <2> QED
    BY <2>1, <2>2, <2>3, <2>4, <2>5
<1> QED
  BY <1>1, <1>2

LEMMA OccurredAtType ==
    ASSUME Bounds, OutboxInv
    PROVE  \A e \in 1..last : occurredAt[e] \in Nat
<1>1. last \in 0..MaxEvents /\ occurredAt \in [1..MaxEvents -> Times] /\ Times \subseteq Nat
  BY DEF OutboxInv, Outbox!TypeOK, Outbox!Events, Bounds
<1>2. 1..last \subseteq 1..MaxEvents
  BY <1>1 DEF Bounds
<1> QED
  BY <1>1, <1>2

LEMMA OutboxInitial ==
    ASSUME Bounds
    PROVE  Outbox!Init => OutboxInv
BY DEF Bounds, OutboxInv, Outbox!Init, Outbox!TypeOK, Outbox!Events,
       PublishedWasHandled, MarksHandled, BatchesAreComplete, NoOvertaking

LEMMA AppendEventKeeps ==
    ASSUME Bounds, OutboxInv, Outbox!AppendEvent
    PROVE  OutboxInv'
<1>1. PICK t \in Times : occurredAt' = [occurredAt EXCEPT ![last + 1] = t]
  BY DEF Outbox!AppendEvent
<1>2. /\ last \in Nat /\ last < MaxEvents /\ last' = last + 1
      /\ UNCHANGED <<dates, published, handled, dispatching, current, batch, failures>>
      /\ handled \subseteq 1..last /\ published \subseteq 1..last
      /\ batch \in [Dispatchers -> SUBSET (1..last)]
      /\ occurredAt \in [1..MaxEvents -> Times]
  BY DEF Outbox!AppendEvent, OutboxInv, Outbox!TypeOK, Bounds, Outbox!Events
<1>3. \A e \in 1..last : occurredAt'[e] = occurredAt[e]
  BY <1>1, <1>2 DEF Bounds
<1>4. Outbox!TypeOK'
  <2>1. 1..last \subseteq 1..last' /\ 0..last \subseteq 0..last' /\ last' \in 0..MaxEvents
    BY <1>2 DEF Bounds
  <2>2. occurredAt' \in [1..MaxEvents -> Times]
    BY <1>1, <1>2
  <2> QED
    BY <1>2, <2>1, <2>2 DEF OutboxInv, Outbox!TypeOK, Outbox!Events
<1>5. BatchesAreComplete'
  <2> SUFFICES ASSUME NEW d \in Dispatchers, NEW f \in batch[d], NEW e \in 1..last',
                      e < f, Precedes(occurredAt[e], occurredAt[f])'
               PROVE  e \in handled \cup batch[d]
    BY <1>2 DEF BatchesAreComplete
  <2>1. f \in 1..last /\ e \in 1..last
    BY <1>2
  <2> QED
    BY <1>2, <1>3, <2>1 DEF OutboxInv, BatchesAreComplete, Precedes, Second
<1>6. NoOvertaking'
  <2> SUFFICES ASSUME NEW e \in 1..last', NEW f \in 1..last',
                      e < f, Precedes(occurredAt[e], occurredAt[f])', f \in handled
               PROVE  e \in handled
    BY <1>2 DEF NoOvertaking
  <2>1. f \in 1..last /\ e \in 1..last
    BY <1>2
  <2> QED
    BY <1>2, <1>3, <2>1 DEF OutboxInv, NoOvertaking, Precedes, Second
<1> QED
  BY <1>2, <1>4, <1>5, <1>6
     DEF OutboxInv, MarksHandled, PublishedWasHandled

LEMMA ReadBatchKeeps ==
    ASSUME Bounds, OutboxInv, NEW d \in Dispatchers, Outbox!ReadBatch(d)
    PROVE  OutboxInv'
<1>1. PICK events \in SUBSET (1..last) :
        /\ Outbox!IsBatch(events)
        /\ batch' = [batch EXCEPT ![d] = events]
        /\ dispatching' = [dispatching EXCEPT ![d] = IF events = {} THEN "idle" ELSE "handle"]
  BY DEF Outbox!ReadBatch
<1>2. UNCHANGED <<last, occurredAt, dates, published, handled, current, failures>>
  BY DEF Outbox!ReadBatch
<1>3. Outbox!TypeOK'
  BY <1>1, <1>2 DEF OutboxInv, Outbox!TypeOK
<1>4. MarksHandled'
  BY <1>1, <1>2 DEF OutboxInv, Outbox!TypeOK, MarksHandled
<1>5. ASSUME NEW f \in events, NEW e \in 1..last, Precedes(occurredAt[e], occurredAt[f])
      PROVE  e \in handled \cup events
  <2>1. occurredAt[e] \in Nat /\ occurredAt[f] \in Nat
    BY <1>1, OccurredAtType
  <2>2. CASE e \notin events /\ e \notin published
    BY <1>1, <1>5, <2>1, <2>2, StoredInOrder DEF Outbox!IsBatch, Outbox!Unpublished, Outbox!Earlier
  <2> QED
    BY <2>2 DEF OutboxInv, PublishedWasHandled
<1>6. BatchesAreComplete'
  <2> SUFFICES ASSUME NEW x \in Dispatchers, NEW f \in batch'[x], NEW e \in 1..last,
                      e < f, Precedes(occurredAt[e], occurredAt[f])
               PROVE  e \in handled \cup batch'[x]
    BY <1>2 DEF BatchesAreComplete, Precedes, Second
  <2>1. CASE x = d
    BY <1>1, <1>5, <2>1 DEF OutboxInv, Outbox!TypeOK
  <2>2. CASE x # d
    BY <1>1, <2>2 DEF OutboxInv, Outbox!TypeOK, BatchesAreComplete
  <2> QED
    BY <2>1, <2>2
<1> QED
  BY <1>2, <1>3, <1>4, <1>6 DEF OutboxInv, PublishedWasHandled, NoOvertaking, Precedes, Second

\* Handling the next event of a batch, whether or not the handler then fails, keeps
\* the order: an earlier event would still be in the batch, before this one.
LEMMA HandlingKeepsOrder ==
    ASSUME Bounds, OutboxInv, NEW d \in Dispatchers, NEW g, Outbox!IsNext(d, g),
           handled' = handled \cup {g}, UNCHANGED <<last, occurredAt, dates>>
    PROVE  /\ handled' \subseteq 1..last' /\ NoOvertaking'
           /\ g \in 1..last
<1>1. g \in batch[d] /\ g \in 1..last
  BY DEF Outbox!IsNext, OutboxInv, Outbox!TypeOK
<1>2. ASSUME NEW e \in 1..last, e < g, Precedes(occurredAt[e], occurredAt[g])
      PROVE  e \in handled
  <2>1. occurredAt[e] \in Nat /\ occurredAt[g] \in Nat
    BY <1>1, OccurredAtType
  <2>2. e \notin batch[d]
    BY <1>2, <2>1, StoredInOrder DEF Outbox!IsNext, Outbox!Earlier
  <2> QED
    BY <1>1, <1>2, <2>2 DEF OutboxInv, BatchesAreComplete
<1>3. NoOvertaking'
  BY <1>2 DEF OutboxInv, NoOvertaking, Precedes, Second
<1> QED
  BY <1>1, <1>3 DEF OutboxInv, Outbox!TypeOK

LEMMA HandleEventKeeps ==
    ASSUME Bounds, OutboxInv, NEW d \in Dispatchers, Outbox!HandleEvent(d)
    PROVE  OutboxInv'
<1>1. PICK g \in batch[d] :
        /\ Outbox!IsNext(d, g)
        /\ handled' = handled \cup {g}
        /\ current' = [current EXCEPT ![d] = g]
  BY DEF Outbox!HandleEvent
<1>2. /\ dispatching' = [dispatching EXCEPT ![d] = "mark"]
      /\ UNCHANGED <<last, occurredAt, dates, published, batch, failures>>
  BY DEF Outbox!HandleEvent
<1>3. /\ handled' \subseteq 1..last' /\ NoOvertaking' /\ g \in 1..last
  BY <1>1, <1>2, HandlingKeepsOrder
<1>4. Outbox!TypeOK'
  BY <1>1, <1>2, <1>3 DEF OutboxInv, Outbox!TypeOK
<1>5. MarksHandled'
  BY <1>1, <1>2 DEF OutboxInv, Outbox!TypeOK, MarksHandled
<1> QED
  BY <1>1, <1>2, <1>3, <1>4, <1>5
     DEF OutboxInv, PublishedWasHandled, BatchesAreComplete, Precedes, Second

LEMMA MarkPublishedKeeps ==
    ASSUME Bounds, OutboxInv, NEW d \in Dispatchers, Outbox!MarkPublished(d)
    PROVE  OutboxInv'
<1>1. /\ current[d] \in handled /\ published' = published \cup {current[d]}
      /\ batch' = [batch EXCEPT ![d] = @ \ {current[d]}]
      /\ dispatching' = [dispatching EXCEPT ![d] = IF batch'[d] = {} THEN "idle" ELSE "handle"]
      /\ current' = [current EXCEPT ![d] = 0]
      /\ UNCHANGED <<last, occurredAt, dates, handled, failures>>
  BY DEF Outbox!MarkPublished, OutboxInv, MarksHandled
<1>2. Outbox!TypeOK'
  <2>1. published' \subseteq 1..last /\ current' \in [Dispatchers -> 0..last]
    <3>1. published \subseteq 1..last /\ handled \subseteq 1..last /\ 0 \in 0..last
      BY DEF OutboxInv, Outbox!TypeOK, Bounds
    <3>2. current \in [Dispatchers -> 0..last]
      BY DEF OutboxInv, Outbox!TypeOK
    <3> QED
      BY <1>1, <3>1, <3>2
  <2>2. batch' \in [Dispatchers -> SUBSET (1..last)]
    BY <1>1 DEF OutboxInv, Outbox!TypeOK
  <2>3. dispatching' \in [Dispatchers -> {"idle", "handle", "mark"}]
    BY <1>1 DEF OutboxInv, Outbox!TypeOK
  <2> QED
    BY <1>1, <2>1, <2>2, <2>3 DEF OutboxInv, Outbox!TypeOK
<1>3. MarksHandled'
  BY <1>1 DEF OutboxInv, Outbox!TypeOK, MarksHandled
<1>4. \A x \in Dispatchers : batch'[x] \subseteq batch[x] /\ batch[x] \subseteq batch'[x] \cup handled
  BY <1>1 DEF OutboxInv, Outbox!TypeOK
<1>5. BatchesAreComplete'
  <2> SUFFICES ASSUME NEW x \in Dispatchers, NEW f \in batch'[x], NEW e \in 1..last,
                      e < f, Precedes(occurredAt[e], occurredAt[f])
               PROVE  e \in handled \cup batch'[x]
    BY <1>1 DEF BatchesAreComplete, Precedes, Second
  <2>1. f \in batch[x] /\ (e \in batch[x] => e \in batch'[x] \cup handled)
    BY <1>4
  <2> QED
    BY <2>1 DEF OutboxInv, BatchesAreComplete
<1> QED
  BY <1>1, <1>2, <1>3, <1>5 DEF OutboxInv, PublishedWasHandled, NoOvertaking, Precedes, Second

\* A dispatcher that stops forgets its batch.
LEMMA StopKeeps ==
    ASSUME Bounds, OutboxInv, NEW d \in Dispatchers, Outbox!Stop(d),
           UNCHANGED <<last, occurredAt, dates, published>>, handled \subseteq handled',
           handled' \subseteq 1..last, NoOvertaking'
    PROVE  OutboxInv'
<1>1. /\ failures' \in 0..MaxFailures
      /\ dispatching' = [dispatching EXCEPT ![d] = "idle"]
      /\ current' = [current EXCEPT ![d] = 0]
      /\ batch' = [batch EXCEPT ![d] = {}]
  BY DEF Outbox!Stop, OutboxInv, Outbox!TypeOK, Bounds
<1>2. Outbox!TypeOK'
  BY <1>1 DEF OutboxInv, Outbox!TypeOK, Bounds
<1>3. MarksHandled'
  BY <1>1 DEF OutboxInv, Outbox!TypeOK, MarksHandled
<1>4. BatchesAreComplete'
  BY <1>1 DEF OutboxInv, Outbox!TypeOK, BatchesAreComplete, Precedes, Second
<1> QED
  BY <1>2, <1>3, <1>4 DEF OutboxInv, PublishedWasHandled

LEMMA OutboxStep ==
    ASSUME Bounds
    PROVE  OutboxInv /\ [Outbox!Next]_(Outbox!vars) => OutboxInv'
<1> SUFFICES ASSUME OutboxInv, [Outbox!Next]_(Outbox!vars) PROVE OutboxInv'
  OBVIOUS
<1>1. ASSUME NEW d \in Dispatchers, Outbox!HandlerFails(d) PROVE OutboxInv'
  <2>1. PICK g \in batch[d], seen \in BOOLEAN :
          Outbox!IsNext(d, g) /\ handled' = IF seen THEN handled \cup {g} ELSE handled
    BY <1>1 DEF Outbox!HandlerFails
  <2>2. Outbox!Stop(d) /\ UNCHANGED <<last, occurredAt, dates, published>>
    BY <1>1 DEF Outbox!HandlerFails
  <2>3. CASE handled' = handled \cup {g}
    BY <2>1, <2>2, <2>3, HandlingKeepsOrder, StopKeeps
  <2>4. CASE handled' = handled
    BY <2>2, <2>4, StopKeeps DEF OutboxInv, Outbox!TypeOK, NoOvertaking, Precedes, Second
  <2> QED
    BY <2>1, <2>3, <2>4
<1>2. ASSUME NEW d \in Dispatchers, Outbox!FailBeforeMark(d) PROVE OutboxInv'
  BY <1>2, StopKeeps DEF Outbox!FailBeforeMark, OutboxInv, Outbox!TypeOK, NoOvertaking,
                         Precedes, Second
<1>3. CASE UNCHANGED Outbox!vars
  BY <1>3 DEF Outbox!vars, OutboxInv, Outbox!TypeOK, PublishedWasHandled, MarksHandled,
              BatchesAreComplete, NoOvertaking, Precedes, Second
<1> QED
  BY <1>1, <1>2, <1>3, AppendEventKeeps, ReadBatchKeeps, HandleEventKeeps, MarkPublishedKeeps
     DEF Outbox!Next

LEMMA OutboxHolds ==
    ASSUME Bounds
    PROVE  Outbox!Spec => []OutboxInv
BY OutboxInitial, OutboxStep, PTL DEF Outbox!Spec

\* At-least-once, for any number of dispatchers, batch size, errors and crashes: no
\* event is marked published that the handler has not seen (RunOnce).
THEOREM PublishedEventsWereHandled ==
    ASSUME Bounds
    PROVE  Outbox!Spec => []PublishedWasHandled
<1>1. OutboxInv => PublishedWasHandled
  BY DEF OutboxInv
<1> QED
  BY <1>1, OutboxHolds, PTL

\* The handler sees no event before an earlier one that committed first, although
\* dispatchers share the table and give up batches half way (RunOnce).  Earlier is
\* Precedes: of an earlier second in the databases that keep times as text, of any
\* earlier time in those that keep times as times.
THEOREM EventsStayInOrder ==
    ASSUME Bounds
    PROVE  Outbox!Spec => []NoOvertaking
<1>1. OutboxInv => NoOvertaking
  BY DEF OutboxInv
<1> QED
  BY <1>1, OutboxHolds, PTL

-----------------------------------------------------------------------------
(* The account's email address                                             *)
(*                                                                         *)
(* The handlers of AccountEmail have tables and requests of their own.     *)
(* What follows is about runs of Email!Spec alone.                         *)

CONSTANTS Emails, Requests, None, Configs

VARIABLE req

Email == INSTANCE AccountEmail

\* The address of the user was proved, or replaced without proof.
AddressProved(u, e) ==
    \/ config.updateEmailWithoutVerification
    \/ ~Email!Present(u)
    \/ users[u].email = e
    \/ <<u, users[u].email>> \in proved

\* A deletion link of the user was mailed and spent.
DeletionLinkSpent(u) ==
    \E t \in Tokens : /\ tokens[t].purpose = "delete" /\ tokens[t].user = u
                      /\ tokens[t].consumed
                      /\ <<u, tokens[t].mailedTo>> \in proved

Drawn(u) == u \in Users /\ users[u].state # "absent"

\* A one-time token: whom it is for, and what the inbox it reached will prove.
EmailTokenOK(t) ==
    /\ t.consumed => t.state = "gone"
    /\ t.mailedTo # None => t.state # "free"
    /\ t.state # "free" =>
         /\ Drawn(t.user) /\ t.purpose \in Email!Purposes
         /\ t.purpose \in {"change", "confirm"} => t.newEmail \in Emails
         /\ t.mailedTo # None =>
              /\ t.purpose = "change" => t.mailedTo = t.newEmail
              /\ t.purpose = "verify" => AddressProved(t.user, t.mailedTo)

Mailed(t) == t \in Tokens /\ tokens[t].mailedTo # None

\* What a request has established by its next step.
EmailRequestOK(q) ==
    /\ q.step = "resolve" =>
         /\ q.user \in Users
         /\ \/ q.op = "change-email" /\ q.email \in Emails
            \/ q.op = "delete"
            \/ q.op = "delete-token" /\ Mailed(q.token)
    /\ q.step = "find" =>
         /\ q.email \in Emails
         /\ q.op = "change-email" => Drawn(q.user) /\ q.seen.state = "present"
    /\ q.step = "create" => q.email \in Emails
    /\ q.step = "update" =>
         Drawn(q.user) /\ q.email \in Emails /\ config.updateEmailWithoutVerification
    /\ q.step = "mail" =>
         /\ Drawn(q.user) /\ q.seen.state = "present" /\ q.mail \in Email!Purposes
         /\ q.mail \in {"change", "confirm"} => q.email \in Emails
         /\ q.mail = "verify" => AddressProved(q.user, q.seen.email)
    /\ q.step = "consume" => Mailed(q.token)
    /\ q.step = "verify-user" =>
         /\ Drawn(q.user)
         /\ \/ config.updateEmailWithoutVerification
            \/ ~Email!Present(q.user)
            \/ <<q.user, users[q.user].email>> \in proved
    /\ q.step = "delete" =>
         /\ Drawn(q.user)
         /\ config.sendDeleteAccountVerification => DeletionLinkSpent(q.user)

EmailInv ==
    /\ Email!TypeOK
    /\ \A t \in Tokens : EmailTokenOK(tokens[t])
    /\ \A r \in Requests : EmailRequestOK(req[r])
    /\ VerifiedMeansProved
    /\ OneWorkingChangeLink
    /\ DeletionProved

-----------------------------------------------------------------------------
(* Rows                                                                    *)

LEMMA UserRowShape ==
    ASSUME NEW row \in Email!UserRow
    PROVE  /\ row.state \in {"present", "absent", "deleted"} /\ row.verified \in BOOLEAN
           /\ row.state = "present" => row.email \in Emails
           /\ row.verified => row.state = "present"
<1>1. CASE row \in [state : {"present"}, email : Emails, verified : BOOLEAN]
  BY <1>1
<1>2. CASE row = Email!NoUser
  BY <1>2 DEF Email!NoUser
<1>3. CASE row = Email!DeletedUser
  BY <1>3 DEF Email!DeletedUser, Email!NoUser
<1> QED
  BY <1>1, <1>2, <1>3 DEF Email!UserRow

LEMMA NewUserRow ==
    ASSUME NEW e \in Emails
    PROVE  \E row \in Email!UserRow :
             /\ row = [state |-> "present", email |-> e, verified |-> FALSE]
             /\ row.state = "present" /\ row.email = e /\ ~row.verified
<1>1. [state |-> "present", email |-> e, verified |-> FALSE]
        \in [state : {"present"}, email : Emails, verified : BOOLEAN]
  OBVIOUS
<1> QED
  BY <1>1 DEF Email!UserRow

LEMMA DeletedUserRow ==
    Email!DeletedUser \in Email!UserRow /\ Email!DeletedUser.state = "deleted"
      /\ ~Email!DeletedUser.verified
BY DEF Email!UserRow, Email!DeletedUser, Email!NoUser

LEMMA VerifiedRow ==
    ASSUME NEW row \in Email!UserRow, row.state = "present"
    PROVE  /\ [row EXCEPT !.verified = TRUE] \in Email!UserRow
           /\ [row EXCEPT !.verified = TRUE].state = "present"
           /\ [row EXCEPT !.verified = TRUE].email = row.email
<1>1. row \in [state : {"present"}, email : Emails, verified : BOOLEAN]
  BY DEF Email!UserRow, Email!NoUser, Email!DeletedUser
<1>2. /\ [row EXCEPT !.verified = TRUE] \in [state : {"present"}, email : Emails, verified : BOOLEAN]
      /\ [row EXCEPT !.verified = TRUE].email = row.email
  BY <1>1
<1> QED
  BY <1>2 DEF Email!UserRow

LEMMA ChangedRow ==
    ASSUME NEW row \in Email!UserRow, row.state = "present", NEW e \in Emails
    PROVE  \E new \in Email!UserRow : /\ new = [row EXCEPT !.email = e, !.verified = TRUE]
                                      /\ new.state = "present" /\ new.email = e
<1>1. row \in [state : {"present"}, email : Emails, verified : BOOLEAN]
  BY DEF Email!UserRow, Email!NoUser, Email!DeletedUser
<1>2. /\ [row EXCEPT !.email = e, !.verified = TRUE]
           \in [state : {"present"}, email : Emails, verified : BOOLEAN]
      /\ [row EXCEPT !.email = e, !.verified = TRUE].email = e
  BY <1>1
<1> QED
  BY <1>2 DEF Email!UserRow

LEMMA SpentToken ==
    ASSUME NEW t \in Email!TokenRow
    PROVE  /\ [t EXCEPT !.state = "gone"] \in Email!TokenRow
           /\ [t EXCEPT !.state = "gone"].state = "gone"
           /\ [t EXCEPT !.state = "gone"].purpose = t.purpose
           /\ [t EXCEPT !.state = "gone"].user = t.user
           /\ [t EXCEPT !.state = "gone"].newEmail = t.newEmail
           /\ [t EXCEPT !.state = "gone"].mailedTo = t.mailedTo
           /\ [t EXCEPT !.state = "gone"].consumed = t.consumed
BY DEF Email!TokenRow

LEMMA ConsumedToken ==
    ASSUME NEW t \in Email!TokenRow
    PROVE  /\ [t EXCEPT !.state = "gone", !.consumed = TRUE] \in Email!TokenRow
           /\ [t EXCEPT !.state = "gone", !.consumed = TRUE].state = "gone"
           /\ [t EXCEPT !.state = "gone", !.consumed = TRUE].purpose = t.purpose
           /\ [t EXCEPT !.state = "gone", !.consumed = TRUE].user = t.user
           /\ [t EXCEPT !.state = "gone", !.consumed = TRUE].newEmail = t.newEmail
           /\ [t EXCEPT !.state = "gone", !.consumed = TRUE].mailedTo = t.mailedTo
           /\ [t EXCEPT !.state = "gone", !.consumed = TRUE].consumed
BY DEF Email!TokenRow

LEMMA IdleEmailRequest ==
    /\ Email!Idle \in Email!Request /\ Email!Idle.step = "idle"
    /\ Email!Idle.user = None /\ Email!Idle.email = None /\ Email!Idle.token = None
<1>1. Email!NoUser \in Email!UserRow
  BY DEF Email!UserRow
<1> QED
  BY <1>1 DEF Email!Idle, Email!Request, Email!Steps

LEMMA IdleEmailRequestOK == EmailRequestOK(Email!Idle) /\ EmailRequestOK(Email!Idle)'
BY IdleEmailRequest DEF EmailRequestOK

LEMMA NextStep ==
    ASSUME NEW q \in Email!Request, NEW next \in Email!Steps
    PROVE  \E n \in Email!Request :
             /\ n = [q EXCEPT !.step = next] /\ n.step = next
             /\ n.op = q.op /\ n.user = q.user /\ n.email = q.email /\ n.token = q.token
             /\ n.seen = q.seen /\ n.mail = q.mail
<1>1. /\ [q EXCEPT !.step = next] \in Email!Request /\ [q EXCEPT !.step = next].step = next
      /\ [q EXCEPT !.step = next].op = q.op /\ [q EXCEPT !.step = next].user = q.user
      /\ [q EXCEPT !.step = next].email = q.email /\ [q EXCEPT !.step = next].token = q.token
      /\ [q EXCEPT !.step = next].seen = q.seen /\ [q EXCEPT !.step = next].mail = q.mail
  BY DEF Email!Request
<1> QED
  BY <1>1

-----------------------------------------------------------------------------
(* What steps leave alone                                                  *)

\* No user is drawn again, and an address changes only as it is proved.
UsersKept ==
    /\ config' = config /\ proved \subseteq proved'
    /\ \A u \in Users : users[u].state # "absent" =>
         /\ users'[u].state # "absent"
         /\ \/ config.updateEmailWithoutVerification
            \/ users'[u].state # "present"
            \/ users[u].state = "present" /\ users'[u].email = users[u].email
            \/ <<u, users'[u].email>> \in proved'

LEMMA AddressStays ==
    ASSUME UsersKept, NEW u, NEW e, Drawn(u), AddressProved(u, e)
    PROVE  Drawn(u)' /\ AddressProved(u, e)'
BY DEF UsersKept, Drawn, AddressProved, Email!Present

\* A drawn token is not drawn again.
TokensKept ==
    \A t \in Tokens : tokens[t].state # "free" =>
        /\ tokens'[t].purpose = tokens[t].purpose /\ tokens'[t].user = tokens[t].user
        /\ tokens'[t].mailedTo = tokens[t].mailedTo
        /\ tokens[t].consumed => tokens'[t].consumed

LEMMA LinkStays ==
    ASSUME EmailInv, UsersKept, TokensKept, NEW u, DeletionLinkSpent(u)
    PROVE  DeletionLinkSpent(u)'
<1>1. PICK t \in Tokens : /\ tokens[t].purpose = "delete" /\ tokens[t].user = u
                          /\ tokens[t].consumed
                          /\ <<u, tokens[t].mailedTo>> \in proved
  BY DEF DeletionLinkSpent
<1>2. tokens[t].state # "free"
  BY <1>1 DEF EmailInv, EmailTokenOK
<1>3. /\ tokens'[t].purpose = "delete" /\ tokens'[t].user = u /\ tokens'[t].consumed
      /\ <<u, tokens'[t].mailedTo>> \in proved'
  BY <1>1, <1>2 DEF TokensKept, UsersKept
<1> QED
  BY <1>3 DEF DeletionLinkSpent

LEMMA MailedStays ==
    ASSUME EmailInv, TokensKept, NEW t, Mailed(t)
    PROVE  Mailed(t)'
BY DEF EmailInv, EmailTokenOK, TokensKept, Mailed

LEMMA EmailRequestStays ==
    ASSUME EmailInv, UsersKept, TokensKept, NEW q, EmailRequestOK(q)
    PROVE  EmailRequestOK(q)'
<1>1. config' = config
  BY DEF UsersKept
<1>2. Drawn(q.user) => Drawn(q.user)'
  BY DEF Drawn, UsersKept
<1>3. Mailed(q.token) => Mailed(q.token)'
  BY MailedStays
<1>4. Drawn(q.user) /\ AddressProved(q.user, q.seen.email) => AddressProved(q.user, q.seen.email)'
  BY AddressStays
<1>5. Drawn(q.user) /\ (\/ config.updateEmailWithoutVerification
                        \/ ~Email!Present(q.user)
                        \/ <<q.user, users[q.user].email>> \in proved)
        => (\/ config'.updateEmailWithoutVerification
            \/ ~Email!Present(q.user)'
            \/ <<q.user, users'[q.user].email>> \in proved')
  BY DEF Drawn, UsersKept, Email!Present
<1>6. DeletionLinkSpent(q.user) => DeletionLinkSpent(q.user)'
  BY LinkStays
<1> QED
  BY <1>1, <1>2, <1>3, <1>4, <1>5, <1>6 DEF EmailRequestOK

\* A token that is as it was, or spent.
LEMMA EmailTokenStays ==
    ASSUME EmailInv, UsersKept, NEW t \in Tokens,
           tokens'[t] = tokens[t] \/ tokens'[t] = [tokens[t] EXCEPT !.state = "gone"]
             \/ tokens'[t] = [tokens[t] EXCEPT !.state = "gone", !.consumed = TRUE],
           tokens[t].state # "free" \/ tokens'[t] = tokens[t]
    PROVE  \E old, new \in Email!TokenRow :
             /\ old = tokens[t] /\ new = tokens'[t] /\ EmailTokenOK(new)'
             /\ new.state = "valid" => old.state = "valid"
             /\ new.purpose = old.purpose /\ new.user = old.user
             /\ new.mailedTo = old.mailedTo
             /\ old.consumed => new.consumed
<1>1. PICK old \in Email!TokenRow : old = tokens[t] /\ EmailTokenOK(old)
  BY DEF EmailInv, Email!TypeOK
<1>2. PICK new \in Email!TokenRow :
        /\ new = tokens'[t] /\ new.purpose = old.purpose /\ new.user = old.user
        /\ new.newEmail = old.newEmail /\ new.mailedTo = old.mailedTo
        /\ old.consumed => new.consumed
        /\ new = old \/ new.state = "gone"
  <2>1. CASE tokens'[t] = tokens[t]
    BY <1>1, <2>1
  <2>2. CASE tokens'[t] = [tokens[t] EXCEPT !.state = "gone"]
    <3>1. [old EXCEPT !.state = "gone"] = tokens'[t]
      BY <1>1, <2>2
    <3>2. /\ [old EXCEPT !.state = "gone"] \in Email!TokenRow
          /\ [old EXCEPT !.state = "gone"].state = "gone"
          /\ [old EXCEPT !.state = "gone"].purpose = old.purpose
          /\ [old EXCEPT !.state = "gone"].user = old.user
          /\ [old EXCEPT !.state = "gone"].newEmail = old.newEmail
          /\ [old EXCEPT !.state = "gone"].mailedTo = old.mailedTo
          /\ [old EXCEPT !.state = "gone"].consumed = old.consumed
      BY SpentToken
    <3> QED
      BY <3>1, <3>2
  <2>3. CASE tokens'[t] = [tokens[t] EXCEPT !.state = "gone", !.consumed = TRUE]
    <3>1. [old EXCEPT !.state = "gone", !.consumed = TRUE] = tokens'[t]
      BY <1>1, <2>3
    <3>2. /\ [old EXCEPT !.state = "gone", !.consumed = TRUE] \in Email!TokenRow
          /\ [old EXCEPT !.state = "gone", !.consumed = TRUE].state = "gone"
          /\ [old EXCEPT !.state = "gone", !.consumed = TRUE].purpose = old.purpose
          /\ [old EXCEPT !.state = "gone", !.consumed = TRUE].user = old.user
          /\ [old EXCEPT !.state = "gone", !.consumed = TRUE].newEmail = old.newEmail
          /\ [old EXCEPT !.state = "gone", !.consumed = TRUE].mailedTo = old.mailedTo
          /\ [old EXCEPT !.state = "gone", !.consumed = TRUE].consumed
      BY ConsumedToken
    <3> QED
      BY <3>1, <3>2
  <2> QED
    BY <2>1, <2>2, <2>3
<1>3. old.state # "free" \/ new = old
  BY <1>1, <1>2
<1>4. Drawn(old.user) => Drawn(old.user)'
  BY DEF UsersKept, Drawn
<1>5. Drawn(old.user) /\ AddressProved(old.user, old.mailedTo)
        => AddressProved(old.user, old.mailedTo)'
  BY AddressStays
<1>6. EmailTokenOK(new)'
  <2>1. new.consumed => new.state = "gone"
    BY <1>1, <1>2 DEF EmailTokenOK
  <2>2. CASE old.state = "free"
    BY <1>1, <1>2, <1>3, <2>2 DEF EmailTokenOK
  <2>3. CASE old.state # "free"
    BY <1>1, <1>2, <1>4, <1>5, <2>1, <2>3 DEF EmailTokenOK
  <2> QED
    BY <2>2, <2>3
<1> QED
  BY <1>1, <1>2, <1>6

LEMMA EmailTokensStay ==
    ASSUME EmailInv, UsersKept, tokens' = [t \in Tokens |-> tokens'[t]],
           \A t \in Tokens :
              /\ \/ tokens'[t] = tokens[t]
                 \/ tokens'[t] = [tokens[t] EXCEPT !.state = "gone"]
                 \/ tokens'[t] = [tokens[t] EXCEPT !.state = "gone", !.consumed = TRUE]
              /\ tokens[t].state # "free" \/ tokens'[t] = tokens[t]
    PROVE  /\ tokens' \in [Tokens -> Email!TokenRow] /\ TokensKept
           /\ \A t \in Tokens : EmailTokenOK(tokens[t])'
           /\ OneWorkingChangeLink'
<1>1. \A t \in Tokens : \E old, new \in Email!TokenRow :
        /\ old = tokens[t] /\ new = tokens'[t] /\ EmailTokenOK(new)'
        /\ new.state = "valid" => old.state = "valid"
        /\ new.purpose = old.purpose /\ new.user = old.user
        /\ new.mailedTo = old.mailedTo
        /\ old.consumed => new.consumed
  BY EmailTokenStays
<1>2. tokens' \in [Tokens -> Email!TokenRow] /\ TokensKept
  BY <1>1 DEF TokensKept
<1>3. ASSUME NEW t \in Tokens PROVE EmailTokenOK(tokens[t])'
  <2>1. PICK new : new = tokens'[t] /\ EmailTokenOK(new)'
    BY <1>1
  <2> QED
    BY <2>1 DEF EmailTokenOK
<1>4. \A t \in Tokens : /\ tokens'[t].state = "valid" => tokens[t].state = "valid"
                        /\ tokens'[t].purpose = tokens[t].purpose
                        /\ tokens'[t].user = tokens[t].user
  <2> SUFFICES ASSUME NEW t \in Tokens
               PROVE  /\ tokens'[t].state = "valid" => tokens[t].state = "valid"
                      /\ tokens'[t].purpose = tokens[t].purpose
                      /\ tokens'[t].user = tokens[t].user
    OBVIOUS
  <2>1. PICK old, new \in Email!TokenRow :
          /\ old = tokens[t] /\ new = tokens'[t]
          /\ new.state = "valid" => old.state = "valid"
          /\ new.purpose = old.purpose /\ new.user = old.user
    BY <1>1
  <2> QED
    BY <2>1
<1>5. OneWorkingChangeLink'
  <2> SUFFICES ASSUME NEW s \in Tokens, NEW t \in Tokens,
                      tokens'[s].state = "valid", tokens'[t].state = "valid",
                      tokens'[s].user = tokens'[t].user, tokens'[s].purpose = tokens'[t].purpose,
                      tokens'[s].purpose \in {"change", "confirm"}
               PROVE  s = t
    BY DEF OneWorkingChangeLink
  <2>1. /\ tokens[s].state = "valid" /\ tokens[t].state = "valid"
        /\ tokens[s].user = tokens[t].user /\ tokens[s].purpose = tokens[t].purpose
        /\ tokens[s].purpose \in {"change", "confirm"}
    BY <1>4
  <2> QED
    BY <2>1 DEF EmailInv, OneWorkingChangeLink
<1> QED
  BY <1>2, <1>3, <1>5

\* A step of one request that keeps the tables in order.
LEMMA EmailInvKept ==
    ASSUME EmailInv, UsersKept, TokensKept,
           users' \in [Users -> Email!UserRow], tokens' \in [Tokens -> Email!TokenRow],
           proved' \subseteq Users \X Emails,
           \A t \in Tokens : EmailTokenOK(tokens[t])',
           VerifiedMeansProved', OneWorkingChangeLink', DeletionProved',
           NEW r \in Requests, NEW q \in Email!Request, EmailRequestOK(q)',
           req' = [req EXCEPT ![r] = q]
    PROVE  EmailInv'
<1>1. req' \in [Requests -> Email!Request]
  BY DEF EmailInv, Email!TypeOK
<1>2. Email!TypeOK'
  BY <1>1 DEF EmailInv, Email!TypeOK, UsersKept
<1>3. ASSUME NEW x \in Requests PROVE EmailRequestOK(req[x])'
  <2>1. CASE x = r
    <3>1. req'[x] = q
      BY <2>1 DEF EmailInv, Email!TypeOK
    <3> QED
      BY <3>1 DEF EmailRequestOK
  <2>2. CASE x # r
    <3>1. PICK p : p = req[x] /\ p = req'[x] /\ EmailRequestOK(p)
      BY <2>2 DEF EmailInv, Email!TypeOK
    <3>2. EmailRequestOK(p)'
      BY <3>1, EmailRequestStays
    <3> QED
      BY <3>1, <3>2 DEF EmailRequestOK
  <2> QED
    BY <2>1, <2>2
<1> QED
  BY <1>2, <1>3 DEF EmailInv

\* A step that changes users only as they may change, and no token but to spend it.
LEMMA UsersWritten ==
    ASSUME EmailInv, UsersKept, users' \in [Users -> Email!UserRow],
           proved' \subseteq Users \X Emails, tokens' = [t \in Tokens |-> tokens'[t]],
           \A t \in Tokens :
              /\ \/ tokens'[t] = tokens[t]
                 \/ tokens'[t] = [tokens[t] EXCEPT !.state = "gone"]
                 \/ tokens'[t] = [tokens[t] EXCEPT !.state = "gone", !.consumed = TRUE]
              /\ tokens[t].state # "free" \/ tokens'[t] = tokens[t],
           \A u \in Users : users'[u].state = "deleted" /\ config.sendDeleteAccountVerification
              => users[u].state = "deleted" \/ DeletionLinkSpent(u),
           \A u \in Users : users'[u].verified =>
              \/ config.updateEmailWithoutVerification
              \/ users[u].verified /\ users'[u].email = users[u].email
              \/ <<u, users'[u].email>> \in proved',
           NEW r \in Requests, NEW q \in Email!Request, EmailRequestOK(q)',
           req' = [req EXCEPT ![r] = q]
    PROVE  EmailInv'
<1>1. /\ tokens' \in [Tokens -> Email!TokenRow] /\ TokensKept
      /\ \A t \in Tokens : EmailTokenOK(tokens[t])'
      /\ OneWorkingChangeLink'
  BY EmailTokensStay
<1>2. VerifiedMeansProved'
  BY DEF EmailInv, VerifiedMeansProved, UsersKept
<1>3. DeletionProved'
  <2> SUFFICES ASSUME config.sendDeleteAccountVerification,
                      NEW u \in Users, users'[u].state = "deleted"
               PROVE  DeletionLinkSpent(u)'
    BY DEF DeletionProved, DeletionLinkSpent, UsersKept
  <2>1. DeletionLinkSpent(u)
    BY DEF EmailInv, DeletionProved, DeletionLinkSpent
  <2> QED
    BY <1>1, <2>1, LinkStays
<1> QED
  BY <1>1, <1>2, <1>3, EmailInvKept

\* A step that touches nothing but its request.
LEMMA RequestWritten ==
    ASSUME EmailInv, UNCHANGED <<config, users, tokens, proved>>,
           NEW r \in Requests, NEW q \in Email!Request, EmailRequestOK(q),
           req' = [req EXCEPT ![r] = q]
    PROVE  EmailInv'
<1>1. UsersKept /\ users' \in [Users -> Email!UserRow] /\ proved' \subseteq Users \X Emails
  BY DEF UsersKept, EmailInv, Email!TypeOK
<1>2. TokensKept /\ tokens' = [t \in Tokens |-> tokens'[t]]
  BY DEF TokensKept, EmailInv, Email!TypeOK
<1>3. EmailRequestOK(q)'
  BY <1>1, <1>2, EmailRequestStays
<1> QED
  BY <1>1, <1>2, <1>3, UsersWritten

LEMMA RequestFinished ==
    ASSUME EmailInv, UNCHANGED <<config, users, tokens, proved>>,
           NEW r \in Requests, Email!Finish(r)
    PROVE  EmailInv'
BY IdleEmailRequest, IdleEmailRequestOK, RequestWritten DEF Email!Finish

\* A request goes on to its next step with all that it holds.
LEMMA RequestGoesOn ==
    ASSUME EmailInv, NEW r \in Requests, NEW next \in Email!Steps, Email!Goto(r, next)
    PROVE  \E n \in Email!Request :
             /\ req' = [req EXCEPT ![r] = n]
             /\ n.step = next /\ n.op = req[r].op /\ n.user = req[r].user
             /\ n.email = req[r].email /\ n.token = req[r].token
             /\ n.seen = req[r].seen /\ n.mail = req[r].mail
<1>1. PICK q \in Email!Request : q = req[r]
  BY DEF EmailInv, Email!TypeOK
<1>2. req' = [req EXCEPT ![r] = [q EXCEPT !.step = next]]
  BY <1>1 DEF Email!Goto, EmailInv, Email!TypeOK
<1>3. PICK n \in Email!Request :
        /\ n = [q EXCEPT !.step = next] /\ n.step = next
        /\ n.op = q.op /\ n.user = q.user /\ n.email = q.email /\ n.token = q.token
        /\ n.seen = q.seen /\ n.mail = q.mail
  BY NextStep
<1> QED
  BY <1>1, <1>2, <1>3

-----------------------------------------------------------------------------
(* The handlers                                                            *)

LEMMA EmailArriveKeeps ==
    ASSUME EmailInv, NEW r \in Requests, Email!Arrive(r), config' = config
    PROVE  EmailInv'
<1>1. UNCHANGED <<config, users, tokens, proved>>
  BY DEF Email!Arrive
<1>2. ASSUME NEW e \in Emails, NEW kind \in {"sign-up", "send-verification"},
             req' = [req EXCEPT ![r] =
               [Email!Idle EXCEPT !.op = kind, !.step = "find", !.email = e]]
      PROVE  EmailInv'
  <2> DEFINE n == [Email!Idle EXCEPT !.op = kind, !.step = "find", !.email = e]
  <2>1. n \in Email!Request /\ n.step = "find" /\ n.op = kind /\ n.email \in Emails
    BY IdleEmailRequest DEF Email!Request, Email!Steps, Email!Ops
  <2>2. req' = [req EXCEPT ![r] = n]
    BY <1>2
  <2> HIDE DEF n
  <2>3. EmailRequestOK(n)
    BY <2>1 DEF EmailRequestOK
  <2> QED
    BY <1>1, <2>1, <2>2, <2>3, RequestWritten
<1>3. ASSUME NEW u \in Users, NEW e \in Emails,
             req' = [req EXCEPT ![r] =
               [Email!Idle EXCEPT !.op = "change-email", !.step = "resolve", !.user = u, !.email = e]]
      PROVE  EmailInv'
  <2> DEFINE n == [Email!Idle EXCEPT !.op = "change-email", !.step = "resolve", !.user = u, !.email = e]
  <2>1. n \in Email!Request /\ n.step = "resolve" /\ n.op = "change-email"
        /\ n.user \in Users /\ n.email \in Emails
    BY IdleEmailRequest DEF Email!Request, Email!Steps, Email!Ops
  <2>2. req' = [req EXCEPT ![r] = n]
    BY <1>3
  <2> HIDE DEF n
  <2>3. EmailRequestOK(n)
    BY <2>1 DEF EmailRequestOK
  <2> QED
    BY <1>1, <2>1, <2>2, <2>3, RequestWritten
<1>4. ASSUME NEW u \in Users,
             req' = [req EXCEPT ![r] =
               [Email!Idle EXCEPT !.op = "delete", !.step = "resolve", !.user = u]]
      PROVE  EmailInv'
  <2> DEFINE n == [Email!Idle EXCEPT !.op = "delete", !.step = "resolve", !.user = u]
  <2>1. n \in Email!Request /\ n.step = "resolve" /\ n.op = "delete" /\ n.user \in Users
    BY IdleEmailRequest DEF Email!Request, Email!Steps, Email!Ops
  <2>2. req' = [req EXCEPT ![r] = n]
    BY <1>4
  <2> HIDE DEF n
  <2>3. EmailRequestOK(n)
    BY <2>1 DEF EmailRequestOK
  <2> QED
    BY <1>1, <2>1, <2>2, <2>3, RequestWritten
<1>5. ASSUME NEW t \in Tokens, Mailed(t),
             req' = [req EXCEPT ![r] =
               [Email!Idle EXCEPT !.op = "verify", !.step = "consume", !.token = t]]
      PROVE  EmailInv'
  <2> DEFINE n == [Email!Idle EXCEPT !.op = "verify", !.step = "consume", !.token = t]
  <2>1. n \in Email!Request /\ n.step = "consume" /\ n.token = t
    BY IdleEmailRequest DEF Email!Request, Email!Steps, Email!Ops
  <2>2. req' = [req EXCEPT ![r] = n]
    BY <1>5
  <2> HIDE DEF n
  <2>3. EmailRequestOK(n)
    BY <1>5, <2>1 DEF EmailRequestOK
  <2> QED
    BY <1>1, <2>1, <2>2, <2>3, RequestWritten
<1>6. ASSUME NEW u \in Users, NEW t \in Tokens, Mailed(t),
             req' = [req EXCEPT ![r] =
               [Email!Idle EXCEPT !.op = "delete-token", !.step = "resolve", !.user = u, !.token = t]]
      PROVE  EmailInv'
  <2> DEFINE n == [Email!Idle EXCEPT !.op = "delete-token", !.step = "resolve", !.user = u, !.token = t]
  <2>1. n \in Email!Request /\ n.step = "resolve" /\ n.op = "delete-token"
        /\ n.user \in Users /\ n.token = t
    BY IdleEmailRequest DEF Email!Request, Email!Steps, Email!Ops
  <2>2. req' = [req EXCEPT ![r] = n]
    BY <1>6
  <2> HIDE DEF n
  <2>3. EmailRequestOK(n)
    BY <1>6, <2>1 DEF EmailRequestOK
  <2> QED
    BY <1>1, <2>1, <2>2, <2>3, RequestWritten
<1> QED
  BY <1>2, <1>3, <1>4, <1>5, <1>6 DEF Email!Arrive, Email!Start, Mailed

\* A request that is about to issue a mail.
LEMMA MailRequestOK ==
    ASSUME NEW n, n.step = "mail", Drawn(n.user), n.seen.state = "present",
           n.mail \in Email!Purposes, n.mail \in {"change", "confirm"} => n.email \in Emails,
           n.mail = "verify" => AddressProved(n.user, n.seen.email)
    PROVE  EmailRequestOK(n)
BY DEF EmailRequestOK

LEMMA MailRequestNext ==
    ASSUME NEW n, n.step = "mail", Drawn(n.user)', n.seen.state = "present",
           n.mail \in Email!Purposes, n.mail \in {"change", "confirm"} => n.email \in Emails,
           n.mail = "verify" => AddressProved(n.user, n.seen.email)'
    PROVE  EmailRequestOK(n)'
BY DEF EmailRequestOK, Email!Purposes

LEMMA EmailResolveKeeps ==
    ASSUME EmailInv, NEW r \in Requests, Email!Resolve(r), config' = config
    PROVE  EmailInv'
<1>1. PICK q \in Email!Request : q = req[r] /\ EmailRequestOK(q) /\ q.step = "resolve"
  BY DEF EmailInv, Email!TypeOK, Email!Resolve
<1>2. UNCHANGED <<config, users, tokens, proved>>
  BY DEF Email!Resolve
<1>3. CASE Email!Finish(r)
  BY <1>2, <1>3, RequestFinished
<1>4. CASE ~Email!Finish(r)
  <2>1. PICK row \in Email!UserRow : row = users[q.user] /\ row.state = "present"
    BY <1>1, <1>4 DEF Email!Resolve, Email!Present, EmailRequestOK, EmailInv, Email!TypeOK
  <2>2. PICK mail, next :
          /\ req' = [req EXCEPT ![r].seen = row, ![r].mail = mail, ![r].step = next]
          /\ mail = IF q.op = "delete" /\ config.sendDeleteAccountVerification
                    THEN "delete" ELSE None
          /\ q.op = "change-email" => next = "find"
          /\ q.op = "delete-token" => next = "consume"
          /\ q.op = "delete" => next = IF config.sendDeleteAccountVerification
                                       THEN "mail" ELSE "delete"
    <3> DEFINE m == IF q.op = "delete" /\ config.sendDeleteAccountVerification
                    THEN "delete" ELSE None
               st == CASE q.op = "change-email" -> "find"
                       [] q.op = "delete-token" -> "consume"
                       [] q.op = "delete"       ->
                            IF config.sendDeleteAccountVerification THEN "mail" ELSE "delete"
    <3>1. req' = [req EXCEPT ![r].seen = row, ![r].mail = m, ![r].step = st]
      BY <1>1, <1>4, <2>1 DEF Email!Resolve
    <3>2. /\ q.op = "change-email" => st = "find"
          /\ q.op = "delete-token" => st = "consume"
          /\ q.op = "delete" => st = IF config.sendDeleteAccountVerification
                                     THEN "mail" ELSE "delete"
      OBVIOUS
    <3> HIDE DEF st
    <3> QED
      BY <3>1, <3>2
  <2>3. mail \in Email!Purposes \cup {None} /\ next \in Email!Steps
    BY <1>1, <2>2 DEF Email!Purposes, Email!Steps, EmailRequestOK
  <2> DEFINE n == [q EXCEPT !.seen = row, !.mail = mail, !.step = next]
  <2>4. /\ n \in Email!Request /\ n.step = next /\ n.op = q.op /\ n.user = q.user
        /\ n.email = q.email /\ n.token = q.token /\ n.seen = row /\ n.mail = mail
    BY <2>3 DEF Email!Request
  <2>5. req' = [req EXCEPT ![r] = n]
    BY <1>1, <2>2 DEF EmailInv, Email!TypeOK
  <2> HIDE DEF n
  <2>6. Drawn(q.user)
    BY <1>1, <2>1 DEF Drawn, EmailRequestOK
  <2>7. EmailRequestOK(n)
    <3>1. CASE q.op = "change-email"
      BY <1>1, <2>1, <2>2, <2>4, <2>6, <3>1 DEF EmailRequestOK
    <3>2. CASE q.op = "delete-token"
      BY <1>1, <2>2, <2>4, <3>2 DEF EmailRequestOK
    <3>3. CASE q.op = "delete" /\ config.sendDeleteAccountVerification
      BY <2>1, <2>2, <2>4, <2>6, <3>3, MailRequestOK DEF Email!Purposes
    <3>4. CASE q.op = "delete" /\ ~config.sendDeleteAccountVerification
      BY <2>2, <2>4, <2>6, <3>4 DEF EmailRequestOK
    <3> QED
      BY <1>1, <3>1, <3>2, <3>3, <3>4 DEF EmailRequestOK
  <2> QED
    BY <1>2, <2>4, <2>5, <2>7, RequestWritten
<1> QED
  BY <1>3, <1>4

LEMMA SignUpFindKeeps ==
    ASSUME EmailInv, NEW r \in Requests, Email!SignUpFind(r), config' = config
    PROVE  EmailInv'
<1>1. EmailRequestOK(req[r]) /\ req[r].step = "find"
  BY DEF EmailInv, Email!SignUpFind
<1>2. UNCHANGED <<config, users, tokens, proved>>
  BY DEF Email!SignUpFind
<1>3. CASE Email!Goto(r, "create")
  <2>1. PICK n \in Email!Request : /\ req' = [req EXCEPT ![r] = n]
                                   /\ n.step = "create" /\ n.email = req[r].email
    BY <1>3, RequestGoesOn DEF Email!Steps
  <2>2. EmailRequestOK(n)
    BY <1>1, <2>1 DEF EmailRequestOK
  <2> QED
    BY <1>2, <2>1, <2>2, RequestWritten
<1> QED
  BY <1>2, <1>3, RequestFinished DEF Email!SignUpFind

LEMMA SendVerificationKeeps ==
    ASSUME EmailInv, NEW r \in Requests, Email!SendVerification(r), config' = config
    PROVE  EmailInv'
<1>1. UNCHANGED <<config, users, tokens, proved>>
  BY DEF Email!SendVerification
<1>2. ASSUME NEW u \in Email!Owners(req[r].email),
             req' = [req EXCEPT ![r].user = u, ![r].seen = users[u],
                                ![r].step = "mail", ![r].mail = "verify"]
      PROVE  EmailInv'
  <2>1. PICK q \in Email!Request : q = req[r]
    BY DEF EmailInv, Email!TypeOK
  <2>2. PICK row \in Email!UserRow : row = users[u] /\ row.state = "present" /\ u \in Users
    BY DEF Email!Owners, Email!Present, EmailInv, Email!TypeOK
  <2> DEFINE n == [q EXCEPT !.user = u, !.seen = row, !.step = "mail", !.mail = "verify"]
  <2>3. /\ n \in Email!Request
        /\ n.step = "mail" /\ n.user = u /\ n.seen = row /\ n.mail = "verify"
    BY <2>2 DEF Email!Request, Email!Steps, Email!Purposes
  <2>4. req' = [req EXCEPT ![r] = n]
    BY <1>2, <2>1, <2>2 DEF EmailInv, Email!TypeOK
  <2> HIDE DEF n
  <2>5. Drawn(u) /\ AddressProved(u, row.email)
    BY <2>2 DEF Drawn, AddressProved
  <2>6. EmailRequestOK(n)
    BY <2>2, <2>3, <2>5, MailRequestOK DEF Email!Purposes
  <2> QED
    BY <1>1, <2>3, <2>4, <2>6, RequestWritten
<1> QED
  BY <1>1, <1>2, RequestFinished DEF Email!SendVerification

LEMMA ChangeEmailKeeps ==
    ASSUME EmailInv, NEW r \in Requests, Email!ChangeEmail(r), config' = config
    PROVE  EmailInv'
<1>1. PICK q \in Email!Request : /\ q = req[r] /\ EmailRequestOK(q)
                                 /\ q.step = "find" /\ q.op = "change-email"
  BY DEF EmailInv, Email!TypeOK, Email!ChangeEmail
<1>2. UNCHANGED <<config, users, tokens, proved>>
  BY DEF Email!ChangeEmail
<1>3. ASSUME config.updateEmailWithoutVerification, Email!Goto(r, "update") PROVE EmailInv'
  <2>1. PICK n \in Email!Request :
          /\ req' = [req EXCEPT ![r] = n]
          /\ n.step = "update" /\ n.email = req[r].email /\ n.user = req[r].user
    BY <1>3, RequestGoesOn DEF Email!Steps
  <2>2. EmailRequestOK(n)
    BY <1>1, <1>3, <2>1 DEF EmailRequestOK
  <2> QED
    BY <1>2, <2>1, <2>2, RequestWritten
<1>4. ASSUME NEW mail \in {"confirm", "change"},
             req' = [req EXCEPT ![r].step = "mail", ![r].mail = mail]
      PROVE  EmailInv'
  <2> DEFINE n == [q EXCEPT !.step = "mail", !.mail = mail]
  <2>2. /\ n \in Email!Request /\ n.step = "mail" /\ n.user = q.user /\ n.email = q.email
        /\ n.seen = q.seen /\ n.mail = mail
    BY DEF Email!Request, Email!Steps, Email!Purposes
  <2>3. req' = [req EXCEPT ![r] = n]
    BY <1>1, <1>4 DEF EmailInv, Email!TypeOK
  <2> HIDE DEF n
  <2>4. EmailRequestOK(n)
    <3>1. Drawn(q.user) /\ q.seen.state = "present" /\ q.email \in Emails
      BY <1>1 DEF EmailRequestOK
    <3> QED
      BY <2>2, <3>1, MailRequestOK DEF Email!Purposes
  <2> QED
    BY <1>2, <2>2, <2>3, <2>4, RequestWritten
<1> QED
  BY <1>2, <1>3, <1>4, RequestFinished DEF Email!ChangeEmail

\* One row of the user table is written.
LEMMA UserWritten ==
    ASSUME EmailInv, NEW u \in Users, NEW row \in Email!UserRow,
           users' = [users EXCEPT ![u] = row]
    PROVE  /\ users' \in [Users -> Email!UserRow] /\ users'[u] = row
           /\ \A v \in Users \ {u} : users'[v] = users[v]
BY DEF EmailInv, Email!TypeOK

LEMMA TokensSame ==
    ASSUME EmailInv, UNCHANGED tokens
    PROVE  tokens' = [t \in Tokens |-> tokens'[t]]
BY DEF EmailInv, Email!TypeOK

LEMMA CreateEmailUserKeeps ==
    ASSUME EmailInv, NEW r \in Requests, Email!CreateEmailUser(r), config' = config
    PROVE  EmailInv'
<1>1. PICK q \in Email!Request : q = req[r] /\ EmailRequestOK(q) /\ q.step = "create"
  BY DEF EmailInv, Email!TypeOK, Email!CreateEmailUser
<1>2. UNCHANGED <<config, tokens, proved>> /\ proved' \subseteq Users \X Emails
  BY DEF Email!CreateEmailUser, EmailInv, Email!TypeOK
<1>3. CASE Email!Finish(r) /\ UNCHANGED users
  BY <1>2, <1>3, RequestFinished
<1>4. PICK row \in Email!UserRow :
        /\ row = [state |-> "present", email |-> q.email, verified |-> FALSE]
        /\ row.state = "present" /\ row.email = q.email /\ ~row.verified
  BY <1>1, NewUserRow DEF EmailRequestOK
<1>5. ASSUME NEW u \in Users, users[u].state = "absent",
             users' = [users EXCEPT ![u] = row],
             Email!Finish(r) \/ req' = [req EXCEPT ![r].user = u, ![r].seen = row,
                                                   ![r].step = "mail", ![r].mail = "verify"]
      PROVE  EmailInv'
  <2>1. /\ users' \in [Users -> Email!UserRow] /\ users'[u] = row
        /\ \A v \in Users \ {u} : users'[v] = users[v]
    BY <1>5, UserWritten
  <2>2. UsersKept
    BY <1>2, <1>5, <2>1 DEF UsersKept
  <2>3. /\ \A v \in Users : users'[v].state = "deleted" => users[v].state = "deleted"
        /\ \A v \in Users : users'[v].verified =>
              users[v].verified /\ users'[v].email = users[v].email
    BY <1>4, <2>1
  <2>4. ASSUME NEW n \in Email!Request, req' = [req EXCEPT ![r] = n], EmailRequestOK(n)'
        PROVE  EmailInv'
    BY <1>2, <2>1, <2>2, <2>3, <2>4, TokensSame, UsersWritten
  <2>5. CASE Email!Finish(r)
    BY <2>4, <2>5, IdleEmailRequest, IdleEmailRequestOK DEF Email!Finish
  <2>6. CASE ~Email!Finish(r)
    <3> DEFINE n == [q EXCEPT !.user = u, !.seen = row, !.step = "mail", !.mail = "verify"]
    <3>1. /\ n \in Email!Request
          /\ n.step = "mail" /\ n.user = u /\ n.seen = row /\ n.mail = "verify"
      BY DEF Email!Request, Email!Steps, Email!Purposes
    <3>2. req' = [req EXCEPT ![r] = n]
      BY <1>1, <1>5, <2>6 DEF EmailInv, Email!TypeOK
    <3> HIDE DEF n
    <3>3. Drawn(u)' /\ AddressProved(u, row.email)'
      BY <1>4, <2>1 DEF Drawn, AddressProved
    <3>4. EmailRequestOK(n)'
      BY <1>4, <3>1, <3>3, MailRequestNext DEF Email!Purposes
    <3> QED
      BY <2>4, <3>1, <3>2, <3>4
  <2> QED
    BY <2>5, <2>6
<1> QED
  BY <1>1, <1>3, <1>4, <1>5 DEF Email!CreateEmailUser

LEMMA UpdateEmailKeeps ==
    ASSUME EmailInv, NEW r \in Requests, Email!UpdateEmail(r), config' = config
    PROVE  EmailInv'
<1>1. PICK q \in Email!Request : q = req[r] /\ EmailRequestOK(q) /\ q.step = "update"
  BY DEF EmailInv, Email!TypeOK, Email!UpdateEmail
<1>2. UNCHANGED <<config, tokens, proved>> /\ proved' \subseteq Users \X Emails
  BY DEF Email!UpdateEmail, EmailInv, Email!TypeOK
<1>3. CASE Email!Finish(r) /\ UNCHANGED users
  BY <1>2, <1>3, RequestFinished
<1>4. PICK row \in Email!UserRow :
        /\ row = [state |-> "present", email |-> q.email, verified |-> FALSE]
        /\ row.state = "present" /\ row.email = q.email /\ ~row.verified
  BY <1>1, NewUserRow DEF EmailRequestOK
<1>5. PICK u \in Users : /\ u = q.user /\ users[u].state # "absent"
                         /\ config.updateEmailWithoutVerification
  BY <1>1 DEF EmailRequestOK, Drawn
<1>6. CASE /\ users' = [users EXCEPT ![u] = row]
           /\ req' = [req EXCEPT ![r].seen = row, ![r].step = "mail", ![r].mail = "verify"]
  <2>1. /\ users' \in [Users -> Email!UserRow] /\ users'[u] = row
        /\ \A v \in Users \ {u} : users'[v] = users[v]
    BY <1>6, UserWritten
  <2>2. UsersKept
    BY <1>2, <1>4, <1>5, <2>1 DEF UsersKept
  <2>3. \A v \in Users : users'[v].state = "deleted" => users[v].state = "deleted"
    BY <1>4, <2>1
  <2> DEFINE n == [q EXCEPT !.seen = row, !.step = "mail", !.mail = "verify"]
  <2>4. /\ n \in Email!Request
        /\ n.step = "mail" /\ n.user = q.user /\ n.seen = row /\ n.mail = "verify"
    BY DEF Email!Request, Email!Steps, Email!Purposes
  <2>5. req' = [req EXCEPT ![r] = n]
    BY <1>1, <1>6 DEF EmailInv, Email!TypeOK
  <2> HIDE DEF n
  <2>6. Drawn(u)' /\ AddressProved(u, row.email)'
    BY <1>4, <2>1 DEF Drawn, AddressProved
  <2>7. EmailRequestOK(n)'
    BY <1>4, <1>5, <2>4, <2>6, MailRequestNext DEF Email!Purposes
  <2> QED
    BY <1>2, <1>5, <2>1, <2>2, <2>3, <2>4, <2>5, <2>7, TokensSame, UsersWritten
<1> QED
  BY <1>1, <1>3, <1>4, <1>5, <1>6 DEF Email!UpdateEmail

LEMMA VerifyUserEmailKeeps ==
    ASSUME EmailInv, NEW r \in Requests, Email!VerifyUserEmail(r), config' = config
    PROVE  EmailInv'
<1>1. PICK q \in Email!Request : q = req[r] /\ EmailRequestOK(q) /\ q.step = "verify-user"
  BY DEF EmailInv, Email!TypeOK, Email!VerifyUserEmail
<1>2. /\ UNCHANGED <<config, tokens, proved>> /\ proved' \subseteq Users \X Emails
      /\ Email!Finish(r)
  BY DEF Email!VerifyUserEmail, EmailInv, Email!TypeOK
<1>3. CASE UNCHANGED users
  BY <1>2, <1>3, RequestFinished
<1>4. CASE ~UNCHANGED users
  <2>1. PICK u \in Users : u = q.user /\ users[u].state = "present"
    BY <1>1, <1>4 DEF Email!VerifyUserEmail, Email!Present, EmailRequestOK, Drawn
  <2>2. PICK old \in Email!UserRow : old = users[u] /\ old.state = "present" /\ old.email \in Emails
    BY <2>1, UserRowShape DEF EmailInv, Email!TypeOK
  <2>3. PICK row \in Email!UserRow : /\ row = [old EXCEPT !.verified = TRUE]
                                     /\ row.state = "present" /\ row.email = old.email
    <3>1. /\ [old EXCEPT !.verified = TRUE] \in Email!UserRow
          /\ [old EXCEPT !.verified = TRUE].state = "present"
          /\ [old EXCEPT !.verified = TRUE].email = old.email
      BY <2>2, VerifiedRow
    <3> QED
      BY <3>1
  <2>4. users' = [users EXCEPT ![u] = row]
    BY <1>1, <1>4, <2>1, <2>2, <2>3 DEF Email!VerifyUserEmail, EmailInv, Email!TypeOK
  <2>5. /\ users' \in [Users -> Email!UserRow] /\ users'[u] = row
        /\ \A v \in Users \ {u} : users'[v] = users[v]
    BY <2>4, UserWritten
  <2>6. UsersKept
    BY <1>2, <2>2, <2>3, <2>5 DEF UsersKept
  <2>7. config.updateEmailWithoutVerification \/ <<u, users'[u].email>> \in proved'
    BY <1>1, <1>2, <2>1, <2>2, <2>3, <2>5 DEF EmailRequestOK, Email!Present
  <2>8. /\ \A v \in Users : users'[v].state = "deleted" => users[v].state = "deleted"
        /\ \A v \in Users : users'[v].verified =>
              \/ config.updateEmailWithoutVerification
              \/ users[v].verified /\ users'[v].email = users[v].email
              \/ <<v, users'[v].email>> \in proved'
    BY <2>3, <2>5, <2>7
  <2> QED
    BY <1>2, <2>5, <2>6, <2>8, TokensSame, IdleEmailRequest, IdleEmailRequestOK, UsersWritten
       DEF Email!Finish
<1> QED
  BY <1>3, <1>4

LEMMA EmailDeleteUserKeeps ==
    ASSUME EmailInv, NEW r \in Requests, Email!DeleteUser(r), config' = config
    PROVE  EmailInv'
<1>1. PICK u \in Users :
        /\ u = req[r].user
        /\ config.sendDeleteAccountVerification => DeletionLinkSpent(u)
  BY DEF EmailInv, Email!DeleteUser, EmailRequestOK, Drawn
<1>2. /\ UNCHANGED <<config, tokens, proved>> /\ proved' \subseteq Users \X Emails
      /\ req' = [req EXCEPT ![r] = Email!Idle]
  BY DEF Email!DeleteUser, Email!Finish, EmailInv, Email!TypeOK
<1>3. PICK row \in Email!UserRow : row = Email!DeletedUser /\ row.state = "deleted" /\ ~row.verified
  BY DeletedUserRow
<1>4. /\ users' \in [Users -> Email!UserRow] /\ users'[u] = row
      /\ \A v \in Users \ {u} : users'[v] = users[v]
  BY <1>1, <1>3, UserWritten DEF Email!DeleteUser
<1>5. UsersKept
  BY <1>2, <1>3, <1>4 DEF UsersKept
<1>6. /\ \A v \in Users : users'[v].state = "deleted" /\ config.sendDeleteAccountVerification
            => users[v].state = "deleted" \/ DeletionLinkSpent(v)
      /\ \A v \in Users : users'[v].verified =>
            users[v].verified /\ users'[v].email = users[v].email
  BY <1>1, <1>3, <1>4
<1> QED
  BY <1>2, <1>4, <1>5, <1>6, TokensSame, IdleEmailRequest, IdleEmailRequestOK, UsersWritten

\* A row of the verification table is deleted by whoever presents it first.
LEMMA TokenConsumed ==
    ASSUME EmailInv, NEW t \in Tokens, tokens[t].state = "valid", tokens' = Email!Consume(t)
    PROVE  /\ tokens' = [x \in Tokens |-> tokens'[x]]
           /\ \A x \in Tokens :
                /\ \/ tokens'[x] = tokens[x]
                   \/ tokens'[x] = [tokens[x] EXCEPT !.state = "gone", !.consumed = TRUE]
                /\ tokens[x].state # "free" \/ tokens'[x] = tokens[x]
           /\ tokens'[t].consumed /\ tokens'[t].purpose = tokens[t].purpose
           /\ tokens'[t].user = tokens[t].user /\ tokens'[t].mailedTo = tokens[t].mailedTo
<1>1. PICK old \in Email!TokenRow : old = tokens[t]
  BY DEF EmailInv, Email!TypeOK
<1>2. PICK new \in Email!TokenRow :
        /\ new = [old EXCEPT !.state = "gone", !.consumed = TRUE]
        /\ new.consumed /\ new.purpose = old.purpose /\ new.user = old.user
        /\ new.mailedTo = old.mailedTo
  <2>1. /\ [old EXCEPT !.state = "gone", !.consumed = TRUE] \in Email!TokenRow
        /\ [old EXCEPT !.state = "gone", !.consumed = TRUE].consumed
        /\ [old EXCEPT !.state = "gone", !.consumed = TRUE].purpose = old.purpose
        /\ [old EXCEPT !.state = "gone", !.consumed = TRUE].user = old.user
        /\ [old EXCEPT !.state = "gone", !.consumed = TRUE].mailedTo = old.mailedTo
    BY ConsumedToken
  <2> QED
    BY <2>1
<1>3. tokens' = [tokens EXCEPT ![t] = new]
  BY <1>1, <1>2 DEF Email!Consume, EmailInv, Email!TypeOK
<1>4. /\ tokens' = [x \in Tokens |-> tokens'[x]] /\ tokens'[t] = new
      /\ \A x \in Tokens \ {t} : tokens'[x] = tokens[x]
  BY <1>3 DEF EmailInv, Email!TypeOK
<1>5. \A x \in Tokens :
        /\ \/ tokens'[x] = tokens[x]
           \/ tokens'[x] = [tokens[x] EXCEPT !.state = "gone", !.consumed = TRUE]
        /\ tokens[x].state # "free" \/ tokens'[x] = tokens[x]
  BY <1>1, <1>2, <1>4
<1> QED
  BY <1>1, <1>2, <1>4, <1>5

\* What the handler knows of the token that it redeems.
LEMMA PresentedToken ==
    ASSUME EmailInv, NEW r \in Requests, NEW kind, NEW purpose \in Email!Purposes,
           Email!Redeemable(r, kind, purpose)
    PROVE  \E t \in Tokens, tok \in Email!TokenRow :
             /\ t = req[r].token /\ tok = tokens[t] /\ EmailTokenOK(tok)
             /\ Email!Presented(r) = tok
             /\ tok.state = "valid" /\ tok.purpose = purpose
             /\ tok.mailedTo \in Emails /\ tok.mailedTo # None /\ Drawn(tok.user)
<1>1. req[r].step = "consume" /\ Mailed(req[r].token)
  BY DEF Email!Redeemable, EmailInv, EmailRequestOK
<1>2. PICK t \in Tokens : t = req[r].token /\ tokens[t].mailedTo # None
  BY <1>1 DEF Mailed
<1>3. PICK tok \in Email!TokenRow : tok = tokens[t] /\ EmailTokenOK(tok)
  BY DEF EmailInv, Email!TypeOK
<1>4. tok.state = "valid" /\ tok.purpose = purpose /\ Email!Presented(r) = tok
  BY <1>2, <1>3 DEF Email!Redeemable, Email!Presented
<1>5. tok.mailedTo \in Emails /\ tok.mailedTo # None
  BY <1>2, <1>3 DEF Email!TokenRow
<1>6. Drawn(tok.user)
  BY <1>3, <1>4 DEF EmailTokenOK
<1> QED
  BY <1>2, <1>3, <1>4, <1>5, <1>6

\* A step that consumes a token, adds to what has been proved and leaves users alone.
LEMMA TokenRedeemed ==
    ASSUME EmailInv, config' = config, UNCHANGED users,
           NEW t \in Tokens, tokens[t].state = "valid", tokens' = Email!Consume(t),
           proved \subseteq proved', proved' \subseteq Users \X Emails,
           NEW r \in Requests, NEW n \in Email!Request, EmailRequestOK(n)',
           req' = [req EXCEPT ![r] = n]
    PROVE  EmailInv'
<1>1. users' \in [Users -> Email!UserRow] /\ UsersKept
  BY DEF UsersKept, EmailInv, Email!TypeOK
<1>2. /\ tokens' = [x \in Tokens |-> tokens'[x]]
      /\ \A x \in Tokens :
           /\ \/ tokens'[x] = tokens[x]
              \/ tokens'[x] = [tokens[x] EXCEPT !.state = "gone", !.consumed = TRUE]
           /\ tokens[x].state # "free" \/ tokens'[x] = tokens[x]
  BY TokenConsumed
<1> QED
  BY <1>1, <1>2, UsersWritten

LEMMA ConsumeEmailVerificationKeeps ==
    ASSUME EmailInv, NEW r \in Requests, Email!ConsumeEmailVerification(r), config' = config
    PROVE  EmailInv'
<1>1. PICK t \in Tokens, tok \in Email!TokenRow :
        /\ t = req[r].token /\ tok = tokens[t] /\ EmailTokenOK(tok)
        /\ Email!Presented(r) = tok
        /\ tok.state = "valid" /\ tok.purpose = "verify"
        /\ tok.mailedTo \in Emails /\ tok.mailedTo # None /\ Drawn(tok.user)
  BY PresentedToken DEF Email!ConsumeEmailVerification, Email!Purposes
<1>2. PICK u \in Users, e \in Emails : u = tok.user /\ e = tok.mailedTo
  BY <1>1 DEF Drawn
<1>3. /\ tokens' = Email!Consume(t) /\ proved' = proved \cup {<<u, e>>} /\ UNCHANGED users
      /\ IF Email!Present(u) THEN req' = [req EXCEPT ![r].user = u, ![r].step = "verify-user"]
                             ELSE Email!Finish(r)
  BY <1>1, <1>2 DEF Email!ConsumeEmailVerification
<1>4. proved \subseteq proved' /\ proved' \subseteq Users \X Emails
  BY <1>3 DEF EmailInv, Email!TypeOK
<1>5. ASSUME NEW n \in Email!Request, EmailRequestOK(n)', req' = [req EXCEPT ![r] = n]
      PROVE  EmailInv'
  BY <1>1, <1>3, <1>4, <1>5, TokenRedeemed
<1>6. CASE Email!Finish(r)
  BY <1>5, <1>6, IdleEmailRequest, IdleEmailRequestOK DEF Email!Finish
<1>7. CASE ~Email!Finish(r)
  <2>1. PICK q \in Email!Request : q = req[r]
    BY DEF EmailInv, Email!TypeOK
  <2> DEFINE n == [q EXCEPT !.user = u, !.step = "verify-user"]
  <2>2. n \in Email!Request /\ n.step = "verify-user" /\ n.user = u
    BY DEF Email!Request, Email!Steps
  <2>3. req' = [req EXCEPT ![r] = n]
    BY <1>3, <1>7, <2>1 DEF EmailInv, Email!TypeOK
  <2> HIDE DEF n
  <2>4. AddressProved(u, e) /\ Drawn(u)
    BY <1>1, <1>2 DEF EmailTokenOK
  <2>5. /\ Drawn(u)'
        /\ config'.updateEmailWithoutVerification \/ ~Email!Present(u)'
             \/ <<u, users'[u].email>> \in proved'
    BY <1>3, <2>4 DEF AddressProved, Drawn, Email!Present
  <2>6. EmailRequestOK(n)'
    BY <2>2, <2>5 DEF EmailRequestOK
  <2> QED
    BY <1>5, <2>2, <2>3, <2>6
<1> QED
  BY <1>6, <1>7

LEMMA ConsumeEmailChangeConfirmationKeeps ==
    ASSUME EmailInv, NEW r \in Requests, Email!ConsumeEmailChangeConfirmation(r),
           config' = config
    PROVE  EmailInv'
<1>1. PICK t \in Tokens, tok \in Email!TokenRow :
        /\ t = req[r].token /\ tok = tokens[t] /\ EmailTokenOK(tok)
        /\ Email!Presented(r) = tok
        /\ tok.state = "valid" /\ tok.purpose = "confirm" /\ Drawn(tok.user)
  BY PresentedToken DEF Email!ConsumeEmailChangeConfirmation, Email!Purposes
<1>2. PICK u \in Users, e \in Emails : u = tok.user /\ e = tok.newEmail
  BY <1>1 DEF Drawn, EmailTokenOK
<1>3. /\ tokens' = Email!Consume(t) /\ UNCHANGED <<users, proved>>
      /\ IF Email!Present(u)
         THEN req' = [req EXCEPT ![r].user = u, ![r].email = e, ![r].seen = users[u],
                                 ![r].step = "mail", ![r].mail = "change"]
         ELSE Email!Finish(r)
  BY <1>1, <1>2 DEF Email!ConsumeEmailChangeConfirmation
<1>4. proved \subseteq proved' /\ proved' \subseteq Users \X Emails
  BY <1>3 DEF EmailInv, Email!TypeOK
<1>5. ASSUME NEW n \in Email!Request, EmailRequestOK(n)', req' = [req EXCEPT ![r] = n]
      PROVE  EmailInv'
  BY <1>1, <1>3, <1>4, <1>5, TokenRedeemed
<1>6. CASE Email!Finish(r)
  BY <1>5, <1>6, IdleEmailRequest, IdleEmailRequestOK DEF Email!Finish
<1>7. CASE ~Email!Finish(r)
  <2>1. PICK q \in Email!Request : q = req[r]
    BY DEF EmailInv, Email!TypeOK
  <2>2. PICK row \in Email!UserRow : row = users[u] /\ row.state = "present"
    BY <1>3, <1>7 DEF EmailInv, Email!TypeOK, Email!Present
  <2> DEFINE n == [q EXCEPT !.user = u, !.email = e, !.seen = row,
                            !.step = "mail", !.mail = "change"]
  <2>3. /\ n \in Email!Request /\ n.step = "mail" /\ n.user = u /\ n.email = e
        /\ n.seen = row /\ n.mail = "change"
    BY DEF Email!Request, Email!Steps, Email!Purposes
  <2>4. req' = [req EXCEPT ![r] = n]
    BY <1>3, <1>7, <2>1, <2>2 DEF EmailInv, Email!TypeOK
  <2> HIDE DEF n
  <2>5. Drawn(u)'
    BY <1>1, <1>2, <1>3 DEF Drawn
  <2>6. EmailRequestOK(n)'
    BY <2>2, <2>3, <2>5, MailRequestNext DEF Email!Purposes
  <2> QED
    BY <1>5, <2>3, <2>4, <2>6
<1> QED
  BY <1>6, <1>7

LEMMA ConsumeUserDeletionKeeps ==
    ASSUME EmailInv, NEW r \in Requests, Email!ConsumeUserDeletion(r), config' = config
    PROVE  EmailInv'
<1>1. PICK t \in Tokens, tok \in Email!TokenRow :
        /\ t = req[r].token /\ tok = tokens[t] /\ EmailTokenOK(tok)
        /\ Email!Presented(r) = tok
        /\ tok.state = "valid" /\ tok.purpose = "delete"
        /\ tok.mailedTo \in Emails /\ Drawn(tok.user)
  BY PresentedToken DEF Email!ConsumeUserDeletion, Email!Purposes
<1>2. PICK u \in Users, e \in Emails : u = tok.user /\ e = tok.mailedTo
  BY <1>1 DEF Drawn
<1>3. tokens' = Email!Consume(t) /\ UNCHANGED users
  BY <1>1 DEF Email!ConsumeUserDeletion
<1>4. CASE Email!Finish(r) /\ UNCHANGED proved
  <2>1. proved' \subseteq Users \X Emails
    BY <1>4 DEF EmailInv, Email!TypeOK
  <2> QED
    BY <1>1, <1>3, <1>4, <2>1, TokenRedeemed, IdleEmailRequest, IdleEmailRequestOK
       DEF Email!Finish
<1>5. CASE ~(Email!Finish(r) /\ UNCHANGED proved)
  <2>1. u = req[r].user /\ proved' = proved \cup {<<u, e>>} /\ Email!Goto(r, "delete")
    BY <1>1, <1>2, <1>5 DEF Email!ConsumeUserDeletion, Email!OwnsToken
  <2>2. proved \subseteq proved' /\ proved' \subseteq Users \X Emails
    BY <2>1 DEF EmailInv, Email!TypeOK
  <2>3. PICK n \in Email!Request : /\ req' = [req EXCEPT ![r] = n]
                                   /\ n.step = "delete" /\ n.user = u
    BY <2>1, RequestGoesOn DEF Email!Steps
  <2>4. /\ tokens'[t].consumed /\ tokens'[t].purpose = "delete"
        /\ tokens'[t].user = u /\ tokens'[t].mailedTo = e
    <3>1. tokens[t].state = "valid"
      BY <1>1
    <3>2. /\ tokens'[t].consumed /\ tokens'[t].purpose = tokens[t].purpose
          /\ tokens'[t].user = tokens[t].user /\ tokens'[t].mailedTo = tokens[t].mailedTo
      BY <1>3, <3>1, TokenConsumed, Zenon
    <3> QED
      BY <1>1, <1>2, <3>2
  <2>5. DeletionLinkSpent(u)'
    <3>1. <<u, tokens'[t].mailedTo>> \in proved'
      BY <2>1, <2>4
    <3> QED
      BY <2>4, <3>1 DEF DeletionLinkSpent
  <2>6. Drawn(u)'
    BY <1>1, <1>2, <1>3 DEF Drawn
  <2>7. EmailRequestOK(n)'
    <3>1. Drawn(n.user)' /\ DeletionLinkSpent(n.user)'
      BY <2>3, <2>5, <2>6
    <3> QED
      BY <2>3, <3>1 DEF EmailRequestOK
  <2> QED
    BY <1>1, <1>3, <2>2, <2>3, <2>7, TokenRedeemed
<1> QED
  BY <1>4, <1>5

LEMMA ConsumeEmailChangeKeeps ==
    ASSUME EmailInv, NEW r \in Requests, Email!ConsumeEmailChange(r), config' = config
    PROVE  EmailInv'
<1>1. PICK t \in Tokens, tok \in Email!TokenRow :
        /\ t = req[r].token /\ tok = tokens[t] /\ EmailTokenOK(tok)
        /\ Email!Presented(r) = tok
        /\ tok.state = "valid" /\ tok.purpose = "change"
        /\ tok.mailedTo \in Emails /\ tok.mailedTo # None /\ Drawn(tok.user)
  BY PresentedToken DEF Email!ConsumeEmailChange, Email!Purposes
<1>2. PICK u \in Users, e \in Emails :
        u = tok.user /\ e = tok.newEmail /\ tok.mailedTo = e /\ users[u].state # "absent"
  BY <1>1 DEF Drawn, EmailTokenOK
<1>3. Email!Finish(r)
  BY DEF Email!ConsumeEmailChange
<1>4. CASE UNCHANGED <<tokens, users, proved>>
  BY <1>3, <1>4, RequestFinished
<1>5. CASE ~UNCHANGED <<tokens, users, proved>>
  <2>1. /\ users[u].state = "present" /\ tokens' = Email!Consume(t)
        /\ users' = [users EXCEPT ![u].email = e, ![u].verified = TRUE]
        /\ proved' = proved \cup {<<u, e>>}
    BY <1>1, <1>2, <1>5 DEF Email!ConsumeEmailChange, Email!Present
  <2>2. PICK old \in Email!UserRow : old = users[u] /\ old.state = "present"
    BY <2>1 DEF EmailInv, Email!TypeOK
  <2>3. PICK row \in Email!UserRow : /\ row = [old EXCEPT !.email = e, !.verified = TRUE]
                                     /\ row.state = "present" /\ row.email = e
    BY <2>2, ChangedRow
  <2>4. users' = [users EXCEPT ![u] = row]
    BY <2>1, <2>2, <2>3 DEF EmailInv, Email!TypeOK
  <2>5. /\ users' \in [Users -> Email!UserRow] /\ users'[u] = row
        /\ \A v \in Users \ {u} : users'[v] = users[v]
    BY <2>4, UserWritten
  <2>6. /\ proved \subseteq proved' /\ proved' \subseteq Users \X Emails
        /\ <<u, users'[u].email>> \in proved'
    BY <2>1, <2>3, <2>5 DEF EmailInv, Email!TypeOK
  <2>7. UsersKept
    BY <2>3, <2>5, <2>6 DEF UsersKept
  <2>8. /\ \A v \in Users : users'[v].state = "deleted" => users[v].state = "deleted"
        /\ \A v \in Users : users'[v].verified =>
              \/ users[v].verified /\ users'[v].email = users[v].email
              \/ <<v, users'[v].email>> \in proved'
    BY <2>3, <2>5, <2>6
  <2>9. /\ tokens' = [x \in Tokens |-> tokens'[x]]
        /\ \A x \in Tokens :
             /\ \/ tokens'[x] = tokens[x]
                \/ tokens'[x] = [tokens[x] EXCEPT !.state = "gone", !.consumed = TRUE]
             /\ tokens[x].state # "free" \/ tokens'[x] = tokens[x]
    BY <1>1, <2>1, TokenConsumed
  <2> QED
    BY <1>3, <2>5, <2>6, <2>7, <2>8, <2>9, IdleEmailRequest, IdleEmailRequestOK, UsersWritten
       DEF Email!Finish
<1> QED
  BY <1>4, <1>5

\* A new change or confirmation token takes the place of the user's earlier one.
LEMMA IssueMailKeeps ==
    ASSUME EmailInv, NEW r \in Requests, Email!IssueMail(r), config' = config
    PROVE  EmailInv'
<1>1. PICK q \in Email!Request : q = req[r] /\ EmailRequestOK(q) /\ q.step = "mail"
  BY DEF EmailInv, Email!TypeOK, Email!IssueMail
<1>2. PICK u \in Users :
        /\ u = q.user /\ Drawn(u) /\ q.seen.state = "present" /\ q.mail \in Email!Purposes
        /\ q.mail \in {"change", "confirm"} => q.email \in Emails
        /\ q.mail = "verify" => AddressProved(u, q.seen.email)
  BY <1>1 DEF EmailRequestOK, Drawn
<1>3. q.seen.email \in Emails
  BY <1>2, UserRowShape DEF Email!Request
<1>4. PICK t \in Tokens, delivered \in BOOLEAN :
        /\ tokens[t].state = "free"
        /\ tokens' = Email!PutOneTimeToken(t,
              [state |-> "valid", purpose |-> q.mail, user |-> u,
               newEmail |-> IF q.mail \in {"change", "confirm"} THEN q.email ELSE None,
               mailedTo |-> IF delivered THEN Email!Recipient(r) ELSE None,
               consumed |-> FALSE])
  BY <1>1, <1>2 DEF Email!IssueMail
<1>5. PICK newEmail \in Emails \cup {None} :
        newEmail = IF q.mail \in {"change", "confirm"} THEN q.email ELSE None
  BY <1>2
<1>6. PICK mailedTo \in Emails \cup {None} :
        /\ mailedTo = IF delivered THEN Email!Recipient(r) ELSE None
        /\ mailedTo # None /\ q.mail = "change" => mailedTo = q.email
        /\ mailedTo # None /\ q.mail # "change" => mailedTo = q.seen.email
  BY <1>1, <1>2, <1>3 DEF Email!Recipient
<1>7. PICK row \in Email!TokenRow :
        /\ row = [state |-> "valid", purpose |-> q.mail, user |-> u, newEmail |-> newEmail,
                  mailedTo |-> mailedTo, consumed |-> FALSE]
        /\ row.state = "valid" /\ row.purpose = q.mail /\ row.user = u
        /\ row.newEmail = newEmail /\ row.mailedTo = mailedTo /\ ~row.consumed
  <2> DEFINE new == [state |-> "valid", purpose |-> q.mail, user |-> u, newEmail |-> newEmail,
                     mailedTo |-> mailedTo, consumed |-> FALSE]
  <2>1. new \in Email!TokenRow
    BY <1>2 DEF Email!TokenRow
  <2>2. /\ new.state = "valid" /\ new.purpose = q.mail /\ new.user = u
        /\ new.newEmail = newEmail /\ new.mailedTo = mailedTo /\ ~new.consumed
    OBVIOUS
  <2> QED
    BY <2>1, <2>2
<1>8. tokens' = Email!PutOneTimeToken(t, row)
  BY <1>4, <1>5, <1>6, <1>7
<1>9. UNCHANGED <<config, users, proved>> /\ req' = [req EXCEPT ![r] = Email!Idle]
  BY DEF Email!IssueMail, Email!Finish
<1>10. /\ UsersKept /\ users' \in [Users -> Email!UserRow] /\ proved' \subseteq Users \X Emails
       /\ VerifiedMeansProved'
  BY <1>9 DEF UsersKept, EmailInv, Email!TypeOK, VerifiedMeansProved
<1>11. tokens'[t] = row /\ tokens' = [x \in Tokens |-> tokens'[x]]
  BY <1>8 DEF Email!PutOneTimeToken
<1>12. ASSUME NEW x \in Tokens, x # t
       PROVE  /\ tokens'[x] = tokens[x] \/ tokens'[x] = [tokens[x] EXCEPT !.state = "gone"]
              /\ tokens[x].state # "free" \/ tokens'[x] = tokens[x]
              /\ row.purpose \in {"change", "confirm"} /\ tokens[x].state = "valid"
                   /\ tokens[x].purpose = row.purpose /\ tokens[x].user = row.user
                 => tokens'[x] = [tokens[x] EXCEPT !.state = "gone"]
  BY <1>8, <1>12 DEF Email!PutOneTimeToken
<1>13. ASSUME NEW x \in Tokens, x # t
       PROVE  \E old, new \in Email!TokenRow :
                /\ old = tokens[x] /\ new = tokens'[x] /\ EmailTokenOK(new)'
                /\ new.state = "valid" => old.state = "valid"
                /\ new.purpose = old.purpose /\ new.user = old.user
                /\ new.mailedTo = old.mailedTo
                /\ old.consumed => new.consumed
  BY <1>10, <1>12, <1>13, EmailTokenStays
<1>14. EmailTokenOK(row)'
  <2>1. Drawn(u)' /\ (q.mail = "verify" => AddressProved(u, q.seen.email)')
    <3>1. Drawn(u)'
      BY <1>2, <1>9 DEF Drawn
    <3>2. CASE q.mail = "verify"
      BY <1>2, <1>10, <3>2, AddressStays
    <3> QED
      BY <3>1, <3>2
  <2>2. q.mail = "change" => newEmail = q.email
    BY <1>5
  <2>3. q.mail \in {"change", "confirm"} => newEmail \in Emails
    BY <1>2, <1>5
  <2> QED
    BY <1>2, <1>6, <1>7, <2>1, <2>2, <2>3 DEF EmailTokenOK, Email!Purposes
<1>15. tokens' \in [Tokens -> Email!TokenRow]
  BY <1>7, <1>11, <1>13
<1>16. TokensKept
  <2> SUFFICES ASSUME NEW x \in Tokens, tokens[x].state # "free"
               PROVE  /\ tokens'[x].purpose = tokens[x].purpose /\ tokens'[x].user = tokens[x].user
                      /\ tokens'[x].mailedTo = tokens[x].mailedTo
                      /\ tokens[x].consumed => tokens'[x].consumed
    BY DEF TokensKept
  <2>1. PICK old, new \in Email!TokenRow :
          /\ old = tokens[x] /\ new = tokens'[x]
          /\ new.purpose = old.purpose /\ new.user = old.user
          /\ new.mailedTo = old.mailedTo
          /\ old.consumed => new.consumed
    BY <1>4, <1>13
  <2> QED
    BY <2>1
<1>17. ASSUME NEW x \in Tokens PROVE EmailTokenOK(tokens[x])'
  <2>1. PICK new : new = tokens'[x] /\ EmailTokenOK(new)'
    <3>1. CASE x = t
      BY <1>11, <1>14, <3>1
    <3>2. CASE x # t
      BY <1>13, <3>2
    <3> QED
      BY <3>1, <3>2
  <2> QED
    BY <2>1 DEF EmailTokenOK
<1>18. ASSUME NEW x \in Tokens, x # t, tokens'[x].state = "valid"
       PROVE  /\ tokens[x].state = "valid" /\ tokens'[x].purpose = tokens[x].purpose
              /\ tokens'[x].user = tokens[x].user
              /\ ~ (/\ row.purpose \in {"change", "confirm"}
                    /\ tokens[x].purpose = row.purpose /\ tokens[x].user = row.user)
  <2>1. PICK old, new \in Email!TokenRow :
          /\ old = tokens[x] /\ new = tokens'[x]
          /\ new.state = "valid" => old.state = "valid"
          /\ new.purpose = old.purpose /\ new.user = old.user
    BY <1>13, <1>18
  <2>2. [old EXCEPT !.state = "gone"].state = "gone"
    BY SpentToken
  <2>3. tokens'[x] # [tokens[x] EXCEPT !.state = "gone"]
    BY <1>18, <2>1, <2>2
  <2> QED
    BY <1>12, <1>18, <2>1, <2>3
<1>19. OneWorkingChangeLink'
  <2> SUFFICES ASSUME NEW s \in Tokens, NEW x \in Tokens,
                      tokens'[s].state = "valid", tokens'[x].state = "valid",
                      tokens'[s].user = tokens'[x].user, tokens'[s].purpose = tokens'[x].purpose,
                      tokens'[s].purpose \in {"change", "confirm"}
               PROVE  s = x
    BY DEF OneWorkingChangeLink
  <2>1. CASE s # t /\ x # t
    <3>1. /\ tokens[s].state = "valid" /\ tokens[x].state = "valid"
          /\ tokens[s].user = tokens[x].user /\ tokens[s].purpose = tokens[x].purpose
          /\ tokens[s].purpose \in {"change", "confirm"}
      BY <1>18, <2>1
    <3> QED
      BY <3>1 DEF EmailInv, OneWorkingChangeLink
  <2>2. CASE s = t
    BY <1>11, <1>18, <2>2
  <2>3. CASE x = t
    BY <1>11, <1>18, <2>3
  <2> QED
    BY <2>1, <2>2, <2>3
<1>20. DeletionProved'
  <2> SUFFICES ASSUME config.sendDeleteAccountVerification,
                      NEW v \in Users, users[v].state = "deleted"
               PROVE  DeletionLinkSpent(v)'
    BY <1>9 DEF DeletionProved, DeletionLinkSpent
  <2>1. DeletionLinkSpent(v)
    BY DEF EmailInv, DeletionProved, DeletionLinkSpent
  <2> QED
    BY <1>10, <1>16, <2>1, LinkStays
<1> QED
  BY <1>9, <1>10, <1>15, <1>16, <1>17, <1>19, <1>20, IdleEmailRequest, IdleEmailRequestOK,
     EmailInvKept

LEMMA EmailExpireKeeps ==
    ASSUME EmailInv, NEW t \in Tokens, Email!Expire(t), config' = config
    PROVE  EmailInv'
<1>1. UNCHANGED <<config, users, req, proved>>
  BY DEF Email!Expire
<1>2. UsersKept
  BY <1>1 DEF UsersKept
<1>3. /\ tokens' = [x \in Tokens |-> tokens'[x]]
      /\ \A x \in Tokens :
           /\ tokens'[x] = tokens[x] \/ tokens'[x] = [tokens[x] EXCEPT !.state = "gone"]
           /\ tokens[x].state # "free" \/ tokens'[x] = tokens[x]
  BY DEF Email!Expire, EmailInv, Email!TypeOK
<1>4. /\ tokens' \in [Tokens -> Email!TokenRow] /\ TokensKept
      /\ \A x \in Tokens : EmailTokenOK(tokens[x])'
      /\ OneWorkingChangeLink'
  BY <1>2, <1>3, EmailTokensStay
<1>5. DeletionProved'
  <2> SUFFICES ASSUME config.sendDeleteAccountVerification,
                      NEW v \in Users, users[v].state = "deleted"
               PROVE  DeletionLinkSpent(v)'
    BY <1>1 DEF DeletionProved, DeletionLinkSpent
  <2>1. DeletionLinkSpent(v)
    BY DEF EmailInv, DeletionProved, DeletionLinkSpent
  <2> QED
    BY <1>2, <1>4, <2>1, LinkStays
<1>6. ASSUME NEW r \in Requests PROVE EmailRequestOK(req[r])'
  <2>1. PICK q : q = req[r] /\ EmailRequestOK(q)
    BY DEF EmailInv
  <2>2. EmailRequestOK(q)'
    BY <1>2, <1>4, <2>1, EmailRequestStays
  <2> QED
    BY <1>1, <2>1, <2>2 DEF EmailRequestOK
<1> QED
  BY <1>1, <1>4, <1>5, <1>6 DEF EmailInv, Email!TypeOK, VerifiedMeansProved

LEMMA EmailInitial == Email!Init => EmailInv
<1> SUFFICES ASSUME Email!Init PROVE EmailInv
  OBVIOUS
<1>1. /\ users = [u \in Users |-> Email!NoUser] /\ tokens = [t \in Tokens |-> Email!FreeToken]
      /\ req = [r \in Requests |-> Email!Idle] /\ proved = {} /\ config \in Configs
  BY DEF Email!Init
<1>2. /\ Email!NoUser \in Email!UserRow /\ Email!NoUser.state = "absent"
      /\ ~Email!NoUser.verified
  BY DEF Email!NoUser, Email!UserRow
<1>3. /\ Email!FreeToken \in Email!TokenRow /\ Email!FreeToken.state = "free"
      /\ ~Email!FreeToken.consumed /\ Email!FreeToken.mailedTo = None
  BY DEF Email!FreeToken, Email!TokenRow
<1>4. Email!TypeOK
  BY <1>1, <1>2, <1>3, IdleEmailRequest DEF Email!TypeOK
<1>5. \A t \in Tokens : EmailTokenOK(tokens[t])
  BY <1>1, <1>3 DEF EmailTokenOK
<1>6. ASSUME NEW r \in Requests PROVE EmailRequestOK(req[r])
  <2>1. req[r] = Email!Idle
    BY <1>1
  <2> QED
    BY <2>1, IdleEmailRequestOK
<1>7. VerifiedMeansProved /\ OneWorkingChangeLink /\ DeletionProved
  BY <1>1, <1>2, <1>3 DEF VerifiedMeansProved, OneWorkingChangeLink,
                          DeletionProved
<1> QED
  BY <1>4, <1>5, <1>6, <1>7 DEF EmailInv

LEMMA EmailStep == EmailInv /\ [Email!Next]_(Email!vars) => EmailInv'
<1> SUFFICES ASSUME EmailInv, [Email!Next]_(Email!vars) PROVE EmailInv'
  OBVIOUS
<1>1. ASSUME NEW r \in Requests, Email!InvalidToken(r) \/ Email!Abort(r), config' = config
      PROVE  EmailInv'
  BY <1>1, RequestFinished DEF Email!InvalidToken, Email!Abort
<1>2. CASE UNCHANGED Email!vars
  <2>1. UNCHANGED <<config, users, tokens, req, proved>>
    BY <1>2 DEF Email!vars
  <2>2. UsersKept /\ TokensKept
    BY <2>1 DEF UsersKept, TokensKept
  <2>3. /\ tokens' \in [Tokens -> Email!TokenRow]
        /\ \A x \in Tokens : EmailTokenOK(tokens[x])'
        /\ OneWorkingChangeLink'
    BY <2>1, <2>2, TokensSame, EmailTokensStay
  <2>4. ASSUME NEW r \in Requests PROVE EmailRequestOK(req[r])'
    <3>1. PICK q : q = req[r] /\ EmailRequestOK(q)
      BY DEF EmailInv
    <3>2. EmailRequestOK(q)'
      BY <2>2, <3>1, EmailRequestStays
    <3> QED
      BY <2>1, <3>1, <3>2 DEF EmailRequestOK
  <2> QED
    BY <2>1, <2>3, <2>4 DEF EmailInv, Email!TypeOK, VerifiedMeansProved,
                            DeletionProved
<1> QED
  BY <1>1, <1>2, EmailArriveKeeps, EmailResolveKeeps, SignUpFindKeeps, CreateEmailUserKeeps,
     SendVerificationKeeps, IssueMailKeeps, ChangeEmailKeeps, UpdateEmailKeeps,
     ConsumeEmailVerificationKeeps, VerifyUserEmailKeeps, ConsumeEmailChangeKeeps,
     ConsumeEmailChangeConfirmationKeeps, ConsumeUserDeletionKeeps, EmailDeleteUserKeeps,
     EmailExpireKeeps DEF Email!Next

LEMMA EmailHolds == Email!Spec => []EmailInv
BY EmailInitial, EmailStep, PTL DEF Email!Spec

\* No address is marked verified that its user has not proved, for any number of
\* users, tokens and requests and every deployment without
\* UpdateEmailWithoutVerification (ConsumeEmailVerification and VerifyUserEmail,
\* ConsumeEmailChange).
THEOREM VerifiedAddressesWereProved == Email!Spec => []VerifiedMeansProved
<1>1. EmailInv => VerifiedMeansProved
  BY DEF EmailInv
<1> QED
  BY <1>1, EmailHolds, PTL

\* At most one change link and one confirmation link of a user work at a time
\* (PutOneTimeToken).
THEOREM ChangeLinksReplaceEachOther == Email!Spec => []OneWorkingChangeLink
<1>1. EmailInv => OneWorkingChangeLink
  BY DEF EmailInv
<1> QED
  BY <1>1, EmailHolds, PTL

\* Under SendDeleteAccountVerification no account disappears but by its own mailed
\* link (ConsumeUserDeletion, deleteUserAccount).
THEOREM DeletedAccountsHadLinks == Email!Spec => []DeletionProved
<1>1. EmailInv => DeletionProved
  BY DEF EmailInv
<1> QED
  BY <1>1, EmailHolds, PTL

=============================================================================
