------------------------------- MODULE Outbox -------------------------------
(***************************************************************************)
(* The transactional outbox (outbox.go).  Store transactions append domain *)
(* events; any number of dispatchers call RunOnce, hand each event of an   *)
(* ordered batch to the application's EventHandler and mark it published.  *)
(* Reading the batch, handling an event and marking it are three steps     *)
(* that other dispatchers, crashes and handler errors come between.        *)
(*                                                                         *)
(* Events are numbered in the order in which their transactions commit.    *)
(* occurredAt is read from the clock before the transaction, so commit     *)
(* order and time order may differ, and several events may share a time.   *)
(***************************************************************************)
EXTENDS EventDelivery, FiniteSets

CONSTANTS
    Dispatchers,
    BatchSize,      \* OutboxDispatcher.BatchSize
    MaxEvents,      \* bound on the events appended
    Times,          \* the times, in hundredths of a second, that the clock may show
    MaxFailures     \* bound on handler errors, failed updates and crashes

ASSUME OutboxAssumption ==
    /\ BatchSize \in Nat \ {0}
    /\ Times \subseteq Nat /\ 0 \in Times
    /\ MaxEvents \in Nat /\ MaxFailures \in Nat

Events == 1..MaxEvents

VARIABLES
    step,           \* what each dispatcher does next
    current,        \* the event it has handled and not marked yet, or 0
    batch,          \* the events of its batch it has not finished with
    failures

vars == <<last, occurredAt, dates, published, handled, step, current, batch, failures>>

TypeOK ==
    /\ last \in 0..MaxEvents
    /\ occurredAt \in [Events -> Times]
    /\ dates \in BOOLEAN
    /\ published \subseteq 1..last
    /\ handled \subseteq 1..last
    /\ step \in [Dispatchers -> {"idle", "handle", "mark"}]
    /\ current \in [Dispatchers -> 0..last]
    /\ batch \in [Dispatchers -> SUBSET (1..last)]
    /\ failures \in 0..MaxFailures

Init ==
    /\ last = 0
    /\ occurredAt = [e \in Events |-> 0]
    /\ dates \in BOOLEAN
    /\ published = {}
    /\ handled = {}
    /\ step = [d \in Dispatchers |-> "idle"]
    /\ current = [d \in Dispatchers |-> 0]
    /\ batch = [d \in Dispatchers |-> {}]
    /\ failures = 0

\* CreateEmailUser, UpsertOAuthUser: the event commits with its user.
AppendEvent ==
    /\ last < MaxEvents
    /\ \E t \in Times : occurredAt' = [occurredAt EXCEPT ![last + 1] = t]
    /\ last' = last + 1
    /\ UNCHANGED <<dates, published, handled, step, current, batch, failures>>

\* Fault variant of Unpublished: an event that was handled is not read again.
Unhandled == (1..last) \ (published \cup handled)

Unpublished == (1..last) \ published

\* schemaAdapter.inputValue.  RFC3339Nano drops the zeros at the end of the fraction,
\* and the fraction itself when it is zero, and the letter Z that follows is greater
\* than any digit and than the point: as text 00.12Z < 00.1Z < 00.2Z < 00Z.
Tenth(t) == IF t % 100 = 0 THEN 10 ELSE (t % 100) \div 10
Hundredth(t) == IF t % 10 = 0 THEN 10 ELSE t % 10
Stored(t) == IF dates THEN t ELSE Second(t) * 121 + Tenth(t) * 11 + Hundredth(t)

\* ORDER BY occurredAt compares what is stored.
Earlier(e, f) == Stored(occurredAt[e]) <= Stored(occurredAt[f])

\* Fault variant of IsBatch: the query has no ORDER BY.
IsUnorderedBatch(events) ==
    /\ events \subseteq Unpublished
    /\ IF Cardinality(Unpublished) <= BatchSize THEN events = Unpublished
       ELSE Cardinality(events) = BatchSize

\* FindMany with publishedAt IS NULL, ORDER BY occurredAt, LIMIT BatchSize; the
\* order of events of one time is the database's choice.
IsBatch(events) ==
    /\ events \subseteq Unpublished
    /\ \A e \in events, f \in Unpublished \ events : Earlier(e, f)
    /\ IF Cardinality(Unpublished) <= BatchSize THEN events = Unpublished
       ELSE Cardinality(events) = BatchSize

\* The start of RunOnce.  An empty batch ends it at once.
ReadBatch(d) ==
    /\ step[d] = "idle"
    /\ \E events \in SUBSET (1..last) :
         /\ IsBatch(events)
         /\ batch' = [batch EXCEPT ![d] = events]
         /\ step' = [step EXCEPT ![d] = IF events = {} THEN "idle" ELSE "handle"]
    /\ UNCHANGED <<last, occurredAt, dates, published, handled, current, failures>>

IsNext(d, e) == e \in batch[d] /\ \A f \in batch[d] : Earlier(e, f)

\* HandleEvent returns nil: the dispatcher goes on to mark the event.
HandleEvent(d) ==
    /\ step[d] = "handle"
    /\ \E e \in batch[d] :
         /\ IsNext(d, e)
         /\ handled' = handled \cup {e}
         /\ current' = [current EXCEPT ![d] = e]
    /\ step' = [step EXCEPT ![d] = "mark"]
    /\ UNCHANGED <<last, occurredAt, dates, published, batch, failures>>

\* The guarded update of publishedAt, won or lost to another dispatcher, and the
\* next iteration of the loop.
MarkPublished(d) ==
    /\ step[d] = "mark"
    /\ published' = published \cup {current[d]}
    /\ batch' = [batch EXCEPT ![d] = @ \ {current[d]}]
    /\ step' = [step EXCEPT ![d] = IF batch'[d] = {} THEN "idle" ELSE "handle"]
    /\ current' = [current EXCEPT ![d] = 0]
    /\ UNCHANGED <<last, occurredAt, dates, handled, failures>>

Stop(d) ==
    /\ failures < MaxFailures
    /\ failures' = failures + 1
    /\ step' = [step EXCEPT ![d] = "idle"]
    /\ current' = [current EXCEPT ![d] = 0]
    /\ batch' = [batch EXCEPT ![d] = {}]

\* Fault variant of HandlerFails: the error is dropped and the event marked.
HandlerErrorDropped(d) ==
    /\ step[d] = "handle" /\ failures < MaxFailures
    /\ failures' = failures + 1
    /\ \E e \in batch[d] : IsNext(d, e) /\ current' = [current EXCEPT ![d] = e]
    /\ step' = [step EXCEPT ![d] = "mark"]
    /\ UNCHANGED <<last, occurredAt, dates, published, handled, batch>>

\* HandleEvent returns an error, after its effect or without any: RunOnce returns.
HandlerFails(d) ==
    /\ step[d] = "handle"
    /\ Stop(d)
    /\ \E e \in batch[d], seen \in BOOLEAN :
         IsNext(d, e) /\ handled' = IF seen THEN handled \cup {e} ELSE handled
    /\ UNCHANGED <<last, occurredAt, dates, published>>

\* The update of publishedAt fails, or the process stops, after HandleEvent.
FailBeforeMark(d) ==
    /\ step[d] = "mark"
    /\ Stop(d)
    /\ UNCHANGED <<last, occurredAt, dates, published, handled>>

Next ==
    \/ AppendEvent
    \/ \E d \in Dispatchers :
         \/ ReadBatch(d) \/ HandleEvent(d) \/ MarkPublished(d)
         \/ HandlerFails(d) \/ FailBeforeMark(d)

\* The application calls RunOnce again and again, and its handler returns.
Fairness ==
    \A d \in Dispatchers :
        WF_vars(ReadBatch(d)) /\ WF_vars(HandleEvent(d)) /\ WF_vars(MarkPublished(d))

Spec == Init /\ [][Next]_vars /\ Fairness

-----------------------------------------------------------------------------
(* Liveness (the safety properties are in EventDelivery)                   *)

\* Every committed event is published in the end, when handler errors and crashes
\* are finitely many.
EventuallyPublished == \A e \in Events : (e <= last) ~> (e \in published)

=============================================================================
