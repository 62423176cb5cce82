----------------------------- MODULE EventFeed -----------------------------
(***************************************************************************)
(* What the event bus promises to the readers of live events, without      *)
(* channels, copies or handlers.  A reader is owed every event published   *)
(* while its stream is open and gets what it is owed oldest first, each    *)
(* event once.  The one exception: a reader that is already owed Slack     *)
(* events may be passed over.                                              *)
(***************************************************************************)
EXTENDS Naturals, FiniteSets

CONSTANTS
    Readers,
    Slack       \* how far behind a reader may fall without losing anything

VARIABLES
    published,  \* number of the last event
    open,       \* the readers with an open stream
    owed        \* owed[r]: the events r has yet to get

vars == <<published, open, owed>>

Init ==
    /\ published = 0
    /\ open = {}
    /\ owed = [r \in Readers |-> {}]

Open(r) ==
    /\ r \notin open
    /\ owed[r] = {}
    /\ open' = open \cup {r}
    /\ UNCHANGED <<published, owed>>

\* Everyone with an open stream is owed the new event, but for those in
\* passedOver, who are all far behind.
Emit ==
    \E passedOver \in SUBSET {r \in open : Cardinality(owed[r]) >= Slack} :
        /\ published' = published + 1
        /\ owed' = [r \in Readers |-> IF r \in open \ passedOver
                                        THEN owed[r] \cup {published + 1}
                                        ELSE owed[r]]
        /\ UNCHANGED open

\* The reader gets the oldest event it is owed.
Deliver(r) ==
    /\ r \in open
    /\ \E e \in owed[r] :
        /\ \A f \in owed[r] : e <= f
        /\ owed' = [owed EXCEPT ![r] = owed[r] \ {e}]
    /\ UNCHANGED <<published, open>>

\* The stream ends; what was still owed is never delivered.
Close(r) ==
    /\ r \in open
    /\ open' = open \ {r}
    /\ UNCHANGED <<published, owed>>

Next == Emit \/ \E r \in Readers : Open(r) \/ Deliver(r) \/ Close(r)

Spec == Init /\ [][Next]_vars
=============================================================================
