--------------------------- MODULE EventDelivery ----------------------------
(***************************************************************************)
(* What becomes of domain events, as the application sees it, and what the *)
(* outbox promises about it.  Outbox says how dispatchers do it.           *)
(*                                                                         *)
(* Events are numbered in the order in which their transactions commit.    *)
(* Times are counted in hundredths of a second.                            *)
(***************************************************************************)
EXTENDS Naturals

VARIABLES
    last,           \* the number of events committed
    occurredAt,     \* their occurredAt column
    dates,          \* Capabilities().Dates: the database keeps times as times
    published,      \* those whose publishedAt is set
    handled         \* history: those HandleEvent has seen

\* At-least-once: an event is marked published only after the handler has seen
\* it, whichever dispatcher fails between the two and whichever one marks it.
PublishedWasHandled == published \subseteq handled

Second(t) == t \div 100

\* The order of time that a database can be relied on for.  The SQL adapters keep
\* times as RFC3339Nano text, whose order is that of time to the second only.
Precedes(t, u) == IF dates THEN t < u ELSE Second(t) < Second(u)

\* Delivery respects occurredAt: when an event commits before a later one, the
\* handler sees it first, also with several dispatchers, a batch limit and batches
\* cut short by errors.  Later means in a later second where times are kept as text
\* (SQLite, PostgreSQL), at any later time where they are kept as times (memory,
\* MongoDB).
NoOvertaking ==
    \A e, f \in 1..last :
        (e < f /\ Precedes(occurredAt[e], occurredAt[f]) /\ f \in handled) => e \in handled

=============================================================================
