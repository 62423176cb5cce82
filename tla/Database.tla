------------------------------ MODULE Database ------------------------------
(***************************************************************************)
(* What the database of the daemon promises to whoever uses it, without    *)
(* processes, transactions or statements: its version only ever goes up,   *)
(* one migration at a time; nothing is written or read before the last;    *)
(* the history is one log, added to at its end and cut at its beginning,   *)
(* but never so far that the newest Keep entries are touched.              *)
(***************************************************************************)
EXTENDS Integers

CONSTANTS
    MaxVersion,     \* the last version
    Keep,           \* how many entries are never cut
    MaxLimit        \* how many entries a reader is given at most

VARIABLES
    version,
    first, last,    \* the history has the entries first to last
    shown           \* what the last reader was given

vars == <<version, first, last, shown>>

Init ==
    /\ version = 0
    /\ first = 1 /\ last = 0
    /\ shown = {}

Upgrade ==
    /\ version < MaxVersion
    /\ version' = version + 1
    /\ UNCHANGED <<first, last, shown>>

Add ==
    /\ version = MaxVersion
    /\ last' = last + 1
    /\ UNCHANGED <<version, first, shown>>

\* What is beyond the newest Keep is cut, and all of it.
Cut ==
    /\ version = MaxVersion
    /\ first + Keep <= last
    /\ first' = last + 1 - Keep
    /\ UNCHANGED <<version, last, shown>>

\* A reader is given the newest entries.
Read ==
    /\ version = MaxVersion
    /\ \E n \in 1 .. MaxLimit : shown' = {i \in first .. last : i > last - n}
    /\ UNCHANGED <<version, first, last>>

Next == Upgrade \/ Add \/ Cut \/ Read

Spec == Init /\ [][Next]_vars
=============================================================================
