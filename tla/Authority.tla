----------------------------- MODULE Authority -----------------------------
(***************************************************************************)
(* What a named pipe promises its clients, without processes that boot,    *)
(* drain and die: one authority at a time.  A daemon may claim the pipe    *)
(* only when nobody has anything to do with it any more, not even as one   *)
(* that has closed it and still talks to its last clients; so whoever is   *)
(* connected talks to the one there is.                                    *)
(***************************************************************************)
CONSTANTS
    Daemons,    \* who may claim the pipe
    Calls       \* who may connect

VARIABLES
    stage,      \* stage[d]: what daemon d has to do with the pipe
    clients     \* who is connected

vars == <<stage, clients>>

Init ==
    /\ stage = [d \in Daemons |-> "none"]
    /\ clients = {}

Move(d, from, to) == stage[d] = from /\ stage' = [stage EXCEPT ![d] = to]

Claim(d) ==
    /\ \A e \in Daemons : stage[e] = "none"
    /\ Move(d, "none", "claimed")
    /\ UNCHANGED clients

Open(d) == Move(d, "claimed", "open") /\ UNCHANGED clients

Join ==
    /\ \E d \in Daemons : stage[d] = "open"
    /\ \E k \in Calls : clients' = clients \cup {k}
    /\ UNCHANGED stage

\* The last client of a daemon that has closed the pipe frees it.
Leave ==
    \E k \in clients :
        /\ clients' = clients \ {k}
        /\ stage' = [d \in Daemons |-> IF stage[d] = "closing" /\ clients = {k}
                                         THEN "none" ELSE stage[d]]

Close(d) ==
    /\ Move(d, "open", IF clients = {} THEN "none" ELSE "closing")
    /\ UNCHANGED clients

\* A daemon that dies takes its clients' connections with it.
Fail(d) ==
    /\ stage[d] # "none"
    /\ stage' = [stage EXCEPT ![d] = "none"]
    /\ clients' = {}

Next ==
    \/ Join
    \/ Leave
    \/ \E d \in Daemons : Claim(d) \/ Open(d) \/ Close(d) \/ Fail(d)

Spec == Init /\ [][Next]_vars
=============================================================================
