--------------------------- MODULE EventBusProofs ---------------------------
(***************************************************************************)
(* Proofs about EventBus, for any number of streams, any capacities and    *)
(* any number of events.                                                   *)
(*                                                                         *)
(* The argument rests on one observation: sending an event and receiving   *)
(* one from the channel both move an event along the line                  *)
(*     got[s] \o todo[s] \o chan[s]                                        *)
(* without changing the line itself.  Only Publish (which appends to it)   *)
(* and Replay (which puts the copy of the buffer in front of it) do.  The  *)
(* inductive invariant LineInv therefore speaks of positions of the line.  *)
(*                                                                         *)
(* The liveness at the end (leaving, publishing, sending the next event    *)
(* and so every event) takes from GuardsSuffice that the next step of each *)
(* can be taken.                                                           *)
(***************************************************************************)
EXTENDS EventBus, SequenceTheorems, FiniteSetTheorems, TLAPS

Open == {"subscribed", "streaming", "leaving"}

\* The handler's progress and what it has touched so far agree.
PhaseInv(s) ==
    /\ s \in subs <=> pc[s] \in Open
    /\ pc[s] \in {"idle", "subscribed"} =>
            got[s] = <<>> /\ todo[s] = <<>> /\ copied[s] = 0
    /\ pc[s] = "idle" => chan[s] = <<>>
    /\ joined[s] <= seq
    /\ pc[s] \notin {"idle", "subscribed"} =>
            /\ joined[s] <= copiedAt[s]
            /\ copiedAt[s] <= seq
            /\ copied[s] <= copiedAt[s]
            /\ ~replay[s] => copied[s] = 0 /\ copiedAt[s] = joined[s]

\* Line L begins with a copy of k events, an interval that ends at event at;
\* what follows is increasing and lies in (from, to].
Ordered(L, k, at, from, to) ==
    /\ \A i \in 1..k : L[i] = at - k + i
    /\ \A i \in (k + 1)..Len(L) : from < L[i] /\ L[i] <= to
    /\ \A i, j \in (k + 1)..Len(L) : i < j => L[i] < L[j]

\* Past the first k events, L has all of (from, to] but for missing.
Covers(L, k, from, to, missing) ==
    \A e \in (from + 1)..to :
        \/ \E i \in (k + 1)..Len(L) : L[i] = e
        \/ e \in missing

\* The order of the line: the copy, then the live events.
OrderInv(s) ==
    /\ copied[s] <= Len(Line(s))
    /\ Ordered(Line(s), copied[s], copiedAt[s], joined[s], seq)

\* No event published since the subscription is missing, unless it was lost.
NoGapInv(s) ==
    s \in subs => Covers(Line(s), copied[s], joined[s], seq, lost[s])

LineInv == \A s \in Streams : PhaseInv(s) /\ OrderInv(s) /\ NoGapInv(s)

-----------------------------------------------------------------------------
(* Sequences                                                                *)

LEMMA LineType ==
    ASSUME NEW g \in Seq(Nat), NEW t \in Seq(Nat), NEW c \in Seq(Nat)
    PROVE  /\ g \o t \o c \in Seq(Nat)
           /\ Len(g \o t \o c) \in Nat
           /\ Len(g) <= Len(g \o t \o c)
           /\ \A i \in 1..Len(g) : (g \o t \o c)[i] = g[i]
  OBVIOUS

LEMMA SendKeepsLine ==
    ASSUME NEW g \in Seq(Nat), NEW t \in Seq(Nat), NEW c \in Seq(Nat), t # <<>>
    PROVE  Append(g, Head(t)) \o Tail(t) \o c = g \o t \o c
  OBVIOUS

LEMMA ReceiveKeepsLine ==
    ASSUME NEW g \in Seq(Nat), NEW c \in Seq(Nat), c # <<>>
    PROVE  g \o <<Head(c)>> \o Tail(c) = g \o <<>> \o c
  OBVIOUS

LEMMA PublishExtendsLine ==
    ASSUME NEW g \in Seq(Nat), NEW t \in Seq(Nat), NEW c \in Seq(Nat), NEW e \in Nat
    PROVE  g \o t \o Append(c, e) = Append(g \o t \o c, e)
  OBVIOUS

LEMMA OrderedAppend ==
    ASSUME NEW L \in Seq(Nat), NEW k \in Nat, NEW at \in Nat, NEW from \in Nat,
           NEW to \in Nat, k <= Len(L), from <= to, Ordered(L, k, at, from, to)
    PROVE  Ordered(Append(L, to + 1), k, at, from, to + 1)
<1> DEFINE M == Append(L, to + 1)
<1>1. /\ M \in Seq(Nat) /\ Len(M) = Len(L) + 1 /\ M[Len(L) + 1] = to + 1
      /\ \A i \in 1..Len(L) : M[i] = L[i]
  BY AppendProperties
<1>2. Len(L) \in Nat /\ \A i \in 1..Len(L) : L[i] \in Nat
  OBVIOUS
<1> HIDE DEF M
<1>3. \A i \in 1..k : M[i] = at - k + i
  BY <1>1, <1>2 DEF Ordered
<1>4. \A i \in (k + 1)..Len(M) :
          IF i = Len(L) + 1
            THEN M[i] = to + 1
            ELSE /\ i \in (k + 1)..Len(L) /\ M[i] = L[i] /\ M[i] \in Nat
                 /\ from < M[i] /\ M[i] <= to
  <2> SUFFICES ASSUME NEW i \in (k + 1)..Len(M), i # Len(L) + 1
               PROVE  /\ i \in (k + 1)..Len(L) /\ M[i] = L[i] /\ M[i] \in Nat
                      /\ from < M[i] /\ M[i] <= to
    BY <1>1
  <2>1. i \in (k + 1)..Len(L) /\ i \in 1..Len(L)
    BY <1>1, <1>2
  <2> QED
    BY <1>1, <1>2, <2>1 DEF Ordered
<1>5. \A i \in (k + 1)..Len(M) : from < M[i] /\ M[i] <= to + 1
  BY <1>4
<1>6. ASSUME NEW i \in (k + 1)..Len(M), NEW j \in (k + 1)..Len(M), i < j
      PROVE  M[i] < M[j]
  <2>1. i # Len(L) + 1
    BY <1>1, <1>2, <1>6
  <2>2. CASE j = Len(L) + 1
    BY <1>4, <1>6, <2>1, <2>2
  <2>3. CASE j # Len(L) + 1
    BY <1>4, <1>6, <2>1, <2>3 DEF Ordered
  <2> QED
    BY <2>2, <2>3
<1> QED
  BY <1>3, <1>5, <1>6 DEF Ordered, M

LEMMA OrderedLater ==
    ASSUME NEW L \in Seq(Nat), NEW k \in Nat, NEW at \in Nat, NEW from \in Nat,
           NEW to \in Nat, Ordered(L, k, at, from, to)
    PROVE  Ordered(L, k, at, from, to + 1)
<1>1. Len(L) \in Nat /\ \A i \in 1..Len(L) : L[i] \in Nat
  OBVIOUS
<1> QED
  BY <1>1 DEF Ordered

LEMMA OrderedCopy ==
    ASSUME NEW b \in Seq(Nat), NEW c \in Seq(Nat), NEW old \in Nat,
           NEW from \in Nat, NEW to \in Nat, Ordered(c, 0, old, from, to),
           \A i \in 1..Len(b) : b[i] = to - Len(b) + i
    PROVE  Ordered(b \o c, Len(b), to, from, to)
<1> DEFINE L == b \o c
<1>1. /\ Len(L) = Len(b) + Len(c) /\ Len(b) \in Nat /\ Len(c) \in Nat
      /\ \A i \in 1..Len(b) : L[i] = b[i]
      /\ \A i \in (Len(b) + 1)..Len(L) : L[i] = c[i - Len(b)]
  OBVIOUS
<1>2. /\ \A i \in 1..Len(c) : c[i] \in Nat /\ from < c[i] /\ c[i] <= to
      /\ \A i, j \in 1..Len(c) : i < j => c[i] < c[j]
  BY DEF Ordered
<1> HIDE DEF L
<1>3. \A i \in (Len(b) + 1)..Len(L) : i - Len(b) \in 1..Len(c)
  BY <1>1
<1>4. \A i \in 1..Len(b) : L[i] = to - Len(b) + i
  BY <1>1
<1>5. \A i \in (Len(b) + 1)..Len(L) : from < L[i] /\ L[i] <= to
  BY <1>1, <1>2, <1>3
<1>6. ASSUME NEW i \in (Len(b) + 1)..Len(L), NEW j \in (Len(b) + 1)..Len(L), i < j
      PROVE  L[i] < L[j]
  <2>1. i - Len(b) \in 1..Len(c) /\ j - Len(b) \in 1..Len(c) /\ i - Len(b) < j - Len(b)
    BY <1>1, <1>3, <1>6
  <2> QED
    BY <1>1, <1>2, <2>1
<1> QED
  BY <1>4, <1>5, <1>6 DEF Ordered, L

LEMMA CoversAppend ==
    ASSUME NEW L \in Seq(Nat), NEW k \in Nat, NEW from \in Nat, NEW to \in Nat,
           NEW missing, k <= Len(L), Covers(L, k, from, to, missing)
    PROVE  Covers(Append(L, to + 1), k, from, to + 1, missing)
<1> DEFINE M == Append(L, to + 1)
<1>1. /\ Len(M) = Len(L) + 1 /\ Len(L) \in Nat /\ M[Len(L) + 1] = to + 1
      /\ \A i \in 1..Len(L) : M[i] = L[i]
  BY AppendProperties
<1> HIDE DEF M
<1>2. ASSUME NEW e \in (from + 1)..(to + 1), e \notin missing
      PROVE  \E i \in (k + 1)..Len(M) : M[i] = e
  <2>1. CASE e = to + 1
    BY <1>1, <2>1
  <2>2. CASE e # to + 1
    <3>1. e \in (from + 1)..to
      BY <2>2
    <3>2. PICK i \in (k + 1)..Len(L) : L[i] = e
      BY <1>2, <3>1 DEF Covers
    <3>3. i \in 1..Len(L) /\ i \in (k + 1)..Len(M)
      BY <1>1
    <3> QED
      BY <1>1, <3>2, <3>3
  <2> QED
    BY <2>1, <2>2
<1> QED
  BY <1>2 DEF Covers, M

LEMMA CoversLost ==
    ASSUME NEW L, NEW k, NEW from \in Nat, NEW to \in Nat, NEW missing,
           Covers(L, k, from, to, missing)
    PROVE  Covers(L, k, from, to + 1, missing \cup {to + 1})
<1>1. \A e \in (from + 1)..(to + 1) : e = to + 1 \/ e \in (from + 1)..to
  OBVIOUS
<1> QED
  BY <1>1 DEF Covers

LEMMA CoversCopy ==
    ASSUME NEW b \in Seq(Nat), NEW c \in Seq(Nat), NEW from \in Nat,
           NEW to \in Nat, NEW missing, Covers(c, 0, from, to, missing)
    PROVE  Covers(b \o c, Len(b), from, to, missing)
<1> DEFINE L == b \o c
<1>1. /\ Len(L) = Len(b) + Len(c) /\ Len(b) \in Nat /\ Len(c) \in Nat
      /\ \A i \in 1..Len(c) : L[Len(b) + i] = c[i]
  OBVIOUS
<1> HIDE DEF L
<1>2. ASSUME NEW e \in (from + 1)..to, e \notin missing
      PROVE  \E i \in (Len(b) + 1)..Len(L) : L[i] = e
  <2>1. PICK i \in 1..Len(c) : c[i] = e
    BY <1>2 DEF Covers
  <2>2. Len(b) + i \in (Len(b) + 1)..Len(L)
    BY <1>1
  <2> QED
    BY <1>1, <2>1, <2>2
<1> QED
  BY <1>2 DEF Covers, L

\* What the trim leaves: the last BufMax elements.
LEMMA NewestType ==
    ASSUME NEW b \in Seq(Nat)
    PROVE  /\ Newest(b) \in Seq(Nat)
           /\ Len(Newest(b)) = IF Len(b) > BufMax THEN BufMax ELSE Len(b)
           /\ \A i \in 1..Len(Newest(b)) :
                Newest(b)[i] = b[Len(b) - Len(Newest(b)) + i]
<1>1. CASE Len(b) > BufMax
  <2> DEFINE m == Len(b) - BufMax + 1
  <2>1. Newest(b) = SubSeq(b, m, Len(b)) /\ m \in 1..(Len(b) + 1)
    BY <1>1, BusAssumption DEF Newest
  <2>2. \A i \in m..Len(b) : b[i] \in Nat
    BY <2>1
  <2>3. Len(b) - m + 1 = BufMax /\ m \in Int /\ Len(b) \in Int
    BY <1>1, BusAssumption
  <2> HIDE DEF m
  <2>4. /\ SubSeq(b, m, Len(b)) \in Seq(Nat)
        /\ Len(SubSeq(b, m, Len(b))) = BufMax
        /\ \A i \in 1..BufMax : SubSeq(b, m, Len(b))[i] = b[m + i - 1]
    BY <2>2, <2>3, <1>1, BusAssumption, SubSeqProperties
  <2> QED
    BY <2>1, <2>3, <2>4, <1>1, BusAssumption
<1>2. CASE ~(Len(b) > BufMax)
  BY <1>2 DEF Newest
<1> QED
  BY <1>1, <1>2

-----------------------------------------------------------------------------
(* Type correctness                                                         *)

\* Every reachable state is type-correct, whatever the constants.
THEOREM TypeCorrect == Spec => []TypeOK
<1>1. Init => TypeOK
  BY BusAssumption DEF Init, TypeOK, Phases
<1>2. TypeOK /\ [Next]_vars => TypeOK'
  <2> SUFFICES ASSUME TypeOK, [Next]_vars PROVE TypeOK'
    OBVIOUS
  <2> USE BusAssumption DEF TypeOK
  <2>1. CASE Publish
    <3>1. /\ Newest(Append(buffer, seq + 1)) \in Seq(Nat)
          /\ Len(Newest(Append(buffer, seq + 1))) <= BufMax
      <4>1. Append(buffer, seq + 1) \in Seq(Nat)
        OBVIOUS
      <4> DEFINE b == Append(buffer, seq + 1)
      <4>2. Len(b) \in Nat
        BY <4>1
      <4>3. /\ Newest(b) \in Seq(Nat)
            /\ Len(Newest(b)) = IF Len(b) > BufMax THEN BufMax ELSE Len(b)
        BY <4>1, NewestType
      <4> HIDE DEF b
      <4>4. Len(Newest(b)) <= BufMax
        BY <4>2, <4>3
      <4> QED
        BY <4>3, <4>4 DEF b
    <3>2. chan' \in [Streams -> Seq(Nat)]
      BY <2>1 DEF Publish
    <3>3. lost' \in [Streams -> SUBSET Nat]
      BY <2>1 DEF Publish
    <3>4. ASSUME NEW s \in Streams PROVE Len(chan'[s]) <= ChanCap
      BY <2>1 DEF Publish, HasRoom
    <3> QED
      BY <2>1, <3>1, <3>2, <3>3, <3>4 DEF Publish, handler
  <2>2. ASSUME NEW s \in Streams, Subscribe(s) PROVE TypeOK'
    BY <2>2 DEF Subscribe, Phases
  <2>3. ASSUME NEW s \in Streams, Replay(s) PROVE TypeOK'
    BY <2>3 DEF Replay, Phases, bus
  <2>4. ASSUME NEW s \in Streams, NoReplay(s) PROVE TypeOK'
    BY <2>4 DEF NoReplay, Phases, bus
  <2>5. ASSUME NEW s \in Streams, Send(s) PROVE TypeOK'
    <3>1. Append(got[s], Head(todo[s])) \in Seq(Nat) /\ Tail(todo[s]) \in Seq(Nat)
      BY <2>5 DEF Send
    <3> QED
      BY <2>5, <3>1 DEF Send, bus
  <2>6. ASSUME NEW s \in Streams, Receive(s) PROVE TypeOK'
    <3>1. <<Head(chan[s])>> \in Seq(Nat) /\ Tail(chan[s]) \in Seq(Nat)
      BY <2>6 DEF Receive
    <3>2. Len(Tail(chan[s])) <= ChanCap
      BY <2>6 DEF Receive
    <3> QED
      BY <2>6, <3>1, <3>2 DEF Receive, history
  <2>7. ASSUME NEW s \in Streams, SeeDone(s) PROVE TypeOK'
    BY <2>7 DEF SeeDone, Phases, bus, history
  <2>8. ASSUME NEW s \in Streams, SendFails(s) PROVE TypeOK'
    BY <2>8 DEF SendFails, Phases, bus, history
  <2>9. ASSUME NEW s \in Streams, Unsubscribe(s) PROVE TypeOK'
    BY <2>9 DEF Unsubscribe, Phases, history
  <2>10. ASSUME NEW s \in Streams, Disconnect(s) PROVE TypeOK'
    BY <2>10 DEF Disconnect, bus, history
  <2>11. CASE UNCHANGED vars
    BY <2>11 DEF vars
  <2> QED
    BY <2>1, <2>2, <2>3, <2>4, <2>5, <2>6, <2>7, <2>8, <2>9, <2>10, <2>11
       DEF Next, Handler
<1> QED
  BY <1>1, <1>2, PTL DEF Spec

-----------------------------------------------------------------------------
(* The replay buffer                                                        *)

\* The buffer is the window of the newest events at all times.
THEOREM BufferIsWindow == Spec => []ReplayWindow
<1>1. Init => ReplayWindow
  BY BusAssumption DEF Init, ReplayWindow
<1>2. TypeOK /\ ReplayWindow /\ [Next]_vars => ReplayWindow'
  <2> SUFFICES ASSUME TypeOK, ReplayWindow, [Next]_vars PROVE ReplayWindow'
    OBVIOUS
  <2>1. CASE Publish
    <3> DEFINE b == Append(buffer, seq + 1)
    <3>0. buffer \in Seq(Nat) /\ seq \in Nat /\ seq + 1 \in Nat
      BY BusAssumption DEF TypeOK
    <3>1. /\ b \in Seq(Nat)
          /\ Len(b) = Len(buffer) + 1
          /\ \A i \in 1..Len(buffer) : b[i] = buffer[i]
          /\ b[Len(buffer) + 1] = seq + 1
      BY <3>0, AppendProperties
    <3>2. buffer' = Newest(b) /\ seq' = seq + 1
      BY <2>1 DEF Publish
    <3>3. \A i \in 1..Len(b) : b[i] = seq - Len(buffer) + i
      BY <3>0, <3>1 DEF ReplayWindow
    <3>4. /\ Len(buffer') = IF Len(b) > BufMax THEN BufMax ELSE Len(b)
          /\ \A i \in 1..Len(buffer') : buffer'[i] = b[Len(b) - Len(buffer') + i]
      BY <3>1, <3>2, NewestType
    <3>5. Len(buffer') = IF seq' < BufMax THEN seq' ELSE BufMax
      BY <3>0, <3>1, <3>2, <3>4, BusAssumption DEF ReplayWindow
    <3>6. Len(buffer') \in Nat /\ Len(buffer') <= Len(b) /\ Len(b) \in Nat
      BY <3>1, <3>4, BusAssumption
    <3>7. ASSUME NEW i \in 1..Len(buffer')
          PROVE  buffer'[i] = seq' - Len(buffer') + i
      <4>1. Len(b) - Len(buffer') + i \in 1..Len(b)
        BY <3>6, <3>7
      <4>2. buffer'[i] = seq - Len(buffer) + (Len(b) - Len(buffer') + i)
        BY <3>3, <3>4, <3>7, <4>1
      <4> QED
        BY <3>0, <3>1, <3>2, <3>6, <3>7, <4>2
    <3> QED
      BY <3>5, <3>7 DEF ReplayWindow
  <2>2. CASE UNCHANGED <<seq, buffer>>
    BY <2>2 DEF ReplayWindow
  <2> QED
    BY <2>1, <2>2 DEF Next, Handler, Subscribe, Replay, NoReplay, Send, Receive,
       SeeDone, SendFails, Unsubscribe, Disconnect, vars, bus
<1> QED
  BY <1>1, <1>2, TypeCorrect, PTL DEF Spec

-----------------------------------------------------------------------------
(* The line                                                                 *)

LEMMA LineFacts ==
    ASSUME TypeOK, NEW s \in Streams
    PROVE  /\ got[s] \in Seq(Nat) /\ todo[s] \in Seq(Nat) /\ chan[s] \in Seq(Nat)
           /\ Line(s) \in Seq(Nat)
           /\ Len(got[s]) <= Len(Line(s))
           /\ Len(got[s]) \in Nat /\ Len(Line(s)) \in Nat
           /\ \A i \in 1..Len(got[s]) : Line(s)[i] = got[s][i]
<1>1. got[s] \in Seq(Nat) /\ todo[s] \in Seq(Nat) /\ chan[s] \in Seq(Nat)
  BY DEF TypeOK
<1>2. /\ got[s] \o todo[s] \o chan[s] \in Seq(Nat)
      /\ Len(got[s] \o todo[s] \o chan[s]) \in Nat
      /\ Len(got[s]) <= Len(got[s] \o todo[s] \o chan[s])
      /\ \A i \in 1..Len(got[s]) : (got[s] \o todo[s] \o chan[s])[i] = got[s][i]
  BY <1>1, LineType, Zenon
<1>3. Len(got[s]) \in Nat
  BY <1>1
<1> QED
  BY <1>1, <1>2, <1>3, Zenon DEF Line

\* A step that moves events along the line, or does not touch it, keeps the
\* order and leaves no gap.
LEMMA LineUnchanged ==
    ASSUME NEW s \in Streams, OrderInv(s), NoGapInv(s),
           Line(s)' = Line(s), seq' = seq,
           copied'[s] = copied[s], copiedAt'[s] = copiedAt[s],
           joined'[s] = joined[s], lost'[s] = lost[s],
           s \in subs' => s \in subs
    PROVE  OrderInv(s)' /\ NoGapInv(s)'
  BY DEF OrderInv, NoGapInv

\* Publish puts the event at the end of a subscriber's line or into lost.
LEMMA PublishKeepsLine ==
    ASSUME TypeOK, LineInv, Publish, NEW s \in Streams
    PROVE  PhaseInv(s)' /\ OrderInv(s)' /\ NoGapInv(s)'
<1>0. /\ PhaseInv(s) /\ OrderInv(s) /\ NoGapInv(s)
      /\ seq \in Nat /\ joined[s] \in Nat /\ copied[s] \in Nat /\ copiedAt[s] \in Nat
  BY BusAssumption DEF LineInv, TypeOK
<1>1. /\ seq' = seq + 1
      /\ UNCHANGED <<subs, pc, replay, got, todo, joined, copied, copiedAt>>
  BY DEF Publish, handler
<1>2. PhaseInv(s)'
  <2>1. chan[s] = <<>> => s \in subs \/ chan'[s] = <<>>
    BY DEF Publish, TypeOK
  <2> QED
    BY <1>0, <1>1, <2>1 DEF PhaseInv, Open
<1>3. /\ Line(s) \in Seq(Nat)
      /\ got[s] \in Seq(Nat) /\ todo[s] \in Seq(Nat) /\ chan[s] \in Seq(Nat)
  BY LineFacts
<1>4. copied[s] <= Len(Line(s)) /\ joined[s] <= seq
  BY <1>0 DEF OrderInv, PhaseInv
<1>5. CASE s \in subs /\ HasRoom(s)
  <2>1. chan'[s] = Append(chan[s], seq + 1) /\ lost'[s] = lost[s]
    BY <1>5 DEF Publish, TypeOK
  <2>2. Line(s)' = Append(Line(s), seq + 1)
    <3>1. seq + 1 \in Nat
      BY <1>0
    <3>2. got[s] \o todo[s] \o Append(chan[s], seq + 1)
            = Append(got[s] \o todo[s] \o chan[s], seq + 1)
      BY <1>3, <3>1, PublishExtendsLine, Zenon
    <3> QED
      BY <1>1, <2>1, <3>2 DEF Line
  <2>3. OrderInv(s)'
    <3>1. Ordered(Append(Line(s), seq + 1), copied[s], copiedAt[s], joined[s], seq + 1)
      BY <1>0, <1>3, <1>4, OrderedAppend DEF OrderInv
    <3> QED
      BY <1>0, <1>1, <2>2, <3>1 DEF OrderInv
  <2>4. NoGapInv(s)'
    <3>1. Covers(Append(Line(s), seq + 1), copied[s], joined[s], seq + 1, lost[s])
      BY <1>0, <1>3, <1>4, <1>5, CoversAppend DEF NoGapInv
    <3> QED
      BY <1>1, <2>1, <2>2, <3>1 DEF NoGapInv
  <2> QED
    BY <1>2, <2>3, <2>4
<1>6. CASE ~(s \in subs /\ HasRoom(s))
  <2>1. chan'[s] = chan[s] /\ Line(s)' = Line(s)
    BY <1>1, <1>6 DEF Publish, TypeOK, Line
  <2>2. s \in subs => lost'[s] = lost[s] \cup {seq + 1}
    BY <1>6 DEF Publish, TypeOK
  <2>3. OrderInv(s)'
    <3>1. Ordered(Line(s), copied[s], copiedAt[s], joined[s], seq + 1)
      BY <1>0, <1>3, OrderedLater DEF OrderInv
    <3> QED
      BY <1>0, <1>1, <2>1, <3>1 DEF OrderInv
  <2>4. NoGapInv(s)'
    <3>1. s \in subs =>
            Covers(Line(s), copied[s], joined[s], seq + 1, lost[s] \cup {seq + 1})
      BY <1>0, CoversLost DEF NoGapInv
    <3> QED
      BY <1>1, <2>1, <2>2, <3>1 DEF NoGapInv
  <2> QED
    BY <1>2, <2>3, <2>4
<1> QED
  BY <1>5, <1>6

\* Replay puts the copy, the window of the newest events, before the channel.
LEMMA ReplayKeepsLine ==
    ASSUME TypeOK, LineInv, ReplayWindow, NEW s \in Streams, Replay(s)
    PROVE  PhaseInv(s)' /\ OrderInv(s)' /\ NoGapInv(s)'
<1>0. /\ PhaseInv(s) /\ OrderInv(s) /\ NoGapInv(s)
      /\ seq \in Nat /\ joined[s] \in Nat /\ copiedAt[s] \in Nat
      /\ buffer \in Seq(Nat) /\ chan[s] \in Seq(Nat)
  BY BusAssumption DEF LineInv, TypeOK
<1>1. /\ UNCHANGED <<seq, buffer, subs, chan, replay, got, joined, lost>>
      /\ pc[s] = "subscribed" /\ pc'[s] = "streaming" /\ replay[s]
      /\ todo'[s] = buffer /\ copied'[s] = Len(buffer) /\ copiedAt'[s] = seq
  BY DEF Replay, bus, TypeOK
<1>2. got[s] = <<>> /\ todo[s] = <<>> /\ copied[s] = 0 /\ joined[s] <= seq
  BY <1>0, <1>1 DEF PhaseInv
<1>3. Line(s) = chan[s] /\ Line(s)' = buffer \o chan[s]
  <2>1. <<>> \o <<>> \o chan[s] = chan[s] /\ <<>> \o buffer = buffer
    BY <1>0
  <2> QED
    BY <1>1, <1>2, <2>1 DEF Line
<1>4. Len(buffer) \in Nat /\ Len(buffer) <= seq
  BY <1>0, BusAssumption DEF ReplayWindow
<1>5. PhaseInv(s)'
  BY <1>0, <1>1, <1>2, <1>4 DEF PhaseInv, Open
<1>6. OrderInv(s)'
  <2>1. Ordered(buffer \o chan[s], Len(buffer), seq, joined[s], seq)
    <3>1. \A i \in 1..Len(buffer) : buffer[i] = seq - Len(buffer) + i
      BY DEF ReplayWindow
    <3>2. Ordered(chan[s], 0, copiedAt[s], joined[s], seq)
      BY <1>0, <1>2, <1>3 DEF OrderInv
    <3> QED
      BY <1>0, <3>1, <3>2, OrderedCopy
  <2>2. Len(buffer) <= Len(buffer \o chan[s])
    BY <1>0
  <2> QED
    BY <1>1, <1>3, <2>1, <2>2 DEF OrderInv
<1>7. NoGapInv(s)'
  <2>1. s \in subs => Covers(buffer \o chan[s], Len(buffer), joined[s], seq, lost[s])
    <3>1. s \in subs => Covers(chan[s], 0, joined[s], seq, lost[s])
      BY <1>0, <1>2, <1>3 DEF NoGapInv
    <3> QED
      BY <1>0, <3>1, CoversCopy
  <2> QED
    BY <1>1, <1>3, <2>1 DEF NoGapInv
<1> QED
  BY <1>5, <1>6, <1>7

\* A new subscriber starts with an empty line and owes nothing.
LEMMA SubscribeStartsLine ==
    ASSUME TypeOK, LineInv, NEW s \in Streams, Subscribe(s)
    PROVE  PhaseInv(s)' /\ OrderInv(s)' /\ NoGapInv(s)'
<1>0. /\ PhaseInv(s) /\ OrderInv(s) /\ seq \in Nat
  BY BusAssumption DEF LineInv, TypeOK
<1>1. /\ UNCHANGED <<seq, chan, got, todo, copied, copiedAt, lost>>
      /\ pc[s] = "idle" /\ pc'[s] = "subscribed"
      /\ s \in subs' /\ joined'[s] = seq
  BY DEF Subscribe, TypeOK
<1>2. got[s] = <<>> /\ todo[s] = <<>> /\ chan[s] = <<>> /\ copied[s] = 0
  BY <1>0, <1>1 DEF PhaseInv
<1>3. Line(s)' = <<>> /\ Line(s) = <<>>
  BY <1>1, <1>2 DEF Line
<1>4. PhaseInv(s)'
  BY <1>0, <1>1, <1>2 DEF PhaseInv, Open
<1>5. OrderInv(s)'
  BY <1>1, <1>2, <1>3 DEF OrderInv, Ordered
<1>6. NoGapInv(s)'
  BY <1>0, <1>1 DEF NoGapInv, Covers
<1> QED
  BY <1>4, <1>5, <1>6

\* The other steps of the handler of s, and the client's hanging up.
Moves(s) == NoReplay(s) \/ Send(s) \/ Receive(s) \/ SeeDone(s) \/ SendFails(s)
              \/ Unsubscribe(s) \/ Disconnect(s)

LEMMA MovesKeepLine ==
    ASSUME TypeOK, LineInv, NEW s \in Streams, Moves(s)
    PROVE  PhaseInv(s)' /\ OrderInv(s)' /\ NoGapInv(s)'
<1>0. /\ PhaseInv(s) /\ OrderInv(s) /\ NoGapInv(s)
      /\ seq \in Nat /\ joined[s] \in Nat /\ copiedAt[s] \in Nat
      /\ got[s] \in Seq(Nat) /\ todo[s] \in Seq(Nat) /\ chan[s] \in Seq(Nat)
  BY BusAssumption DEF LineInv, TypeOK
<1>1. CASE NoReplay(s)
  <2>1. /\ UNCHANGED <<seq, subs, chan, replay, got, todo, joined, lost, copied>>
        /\ pc[s] = "subscribed" /\ pc'[s] = "streaming" /\ ~replay[s]
        /\ copiedAt'[s] = joined[s]
    BY <1>1 DEF NoReplay, bus, TypeOK
  <2>2. PhaseInv(s)'
    BY <1>0, <2>1 DEF PhaseInv, Open
  <2>3. copied[s] = 0 /\ Line(s)' = Line(s)
    BY <1>0, <2>1 DEF PhaseInv, Line
  <2>4. Ordered(Line(s), 0, joined[s], joined[s], seq)
    <3>1. Ordered(Line(s), 0, copiedAt[s], joined[s], seq)
      BY <1>0, <2>3 DEF OrderInv
    <3> QED
      BY <3>1 DEF Ordered
  <2>5. OrderInv(s)' /\ NoGapInv(s)'
    BY <1>0, <2>1, <2>3, <2>4 DEF OrderInv, NoGapInv
  <2> QED
    BY <2>2, <2>5
<1>2. CASE Send(s)
  <2>1. /\ UNCHANGED <<seq, subs, chan, pc, replay, joined, lost, copied, copiedAt>>
        /\ pc[s] = "streaming" /\ todo[s] # <<>>
        /\ got'[s] = Append(got[s], Head(todo[s])) /\ todo'[s] = Tail(todo[s])
    BY <1>2 DEF Send, bus, TypeOK
  <2>2. Line(s)' = Line(s)
    <3>1. Append(got[s], Head(todo[s])) \o Tail(todo[s]) \o chan[s]
            = got[s] \o todo[s] \o chan[s]
      BY <1>0, <2>1, SendKeepsLine, Zenon
    <3> QED
      BY <2>1, <3>1 DEF Line
  <2>3. PhaseInv(s)'
    BY <1>0, <2>1 DEF PhaseInv, Open
  <2> QED
    BY <1>0, <2>1, <2>2, <2>3, LineUnchanged
<1>3. CASE Receive(s)
  <2>1. /\ UNCHANGED <<seq, subs, pc, replay, got, joined, lost, copied, copiedAt>>
        /\ pc[s] = "streaming" /\ todo[s] = <<>> /\ chan[s] # <<>>
        /\ todo'[s] = <<Head(chan[s])>> /\ chan'[s] = Tail(chan[s])
    BY <1>3 DEF Receive, history, TypeOK
  <2>2. Line(s)' = Line(s)
    BY <1>0, <2>1, ReceiveKeepsLine DEF Line
  <2>3. PhaseInv(s)'
    BY <1>0, <2>1 DEF PhaseInv, Open
  <2> QED
    BY <1>0, <2>1, <2>2, <2>3, LineUnchanged
<1>4. CASE SeeDone(s) \/ SendFails(s) \/ Unsubscribe(s) \/ Disconnect(s)
  <2>1. /\ UNCHANGED <<seq, chan, replay, got, todo, joined, lost, copied, copiedAt>>
        /\ \/ pc[s] = "streaming" /\ pc'[s] = "leaving" /\ subs' = subs
           \/ pc[s] = "leaving" /\ pc'[s] = "closed" /\ subs' = subs \ {s}
           \/ UNCHANGED <<pc, subs>>
    BY <1>4 DEF SeeDone, SendFails, Unsubscribe, Disconnect, bus, history, TypeOK
  <2>2. Line(s)' = Line(s)
    BY <2>1 DEF Line
  <2>3. PhaseInv(s)'
    BY <1>0, <2>1 DEF PhaseInv, Open
  <2> QED
    BY <1>0, <2>1, <2>2, <2>3, LineUnchanged
<1> QED
  BY <1>1, <1>2, <1>3, <1>4 DEF Moves

\* What one stream does leaves the line of every other stream alone.
LEMMA OthersKeepLine ==
    ASSUME TypeOK, LineInv, NEW s \in Streams, NEW q \in Streams, q # s,
           Subscribe(s) \/ Replay(s) \/ Moves(s)
    PROVE  PhaseInv(q)' /\ OrderInv(q)' /\ NoGapInv(q)'
<1>0. PhaseInv(q) /\ OrderInv(q) /\ NoGapInv(q)
  BY DEF LineInv
<1>1. /\ seq' = seq /\ chan'[q] = chan[q] /\ pc'[q] = pc[q] /\ replay'[q] = replay[q]
      /\ todo'[q] = todo[q] /\ got'[q] = got[q] /\ lost'[q] = lost[q]
      /\ joined'[q] = joined[q] /\ copied'[q] = copied[q] /\ copiedAt'[q] = copiedAt[q]
      /\ q \in subs' <=> q \in subs
  BY DEF Subscribe, Replay, Moves, NoReplay, Send, Receive, SeeDone, SendFails,
     Unsubscribe, Disconnect, bus, history, TypeOK
<1>2. Line(q)' = Line(q)
  BY <1>1 DEF Line
<1>3. PhaseInv(q)'
  BY <1>0, <1>1 DEF PhaseInv
<1> QED
  BY <1>0, <1>1, <1>2, <1>3, LineUnchanged

\* The inductive invariant behind the ordering and completeness theorems.
THEOREM LineInvariant == Spec => []LineInv
<1>1. Init => LineInv
  <2> SUFFICES ASSUME Init, NEW s \in Streams
               PROVE  PhaseInv(s) /\ OrderInv(s) /\ NoGapInv(s)
    BY DEF LineInv
  <2>1. Line(s) = <<>>
    BY DEF Init, Line
  <2> QED
    BY <2>1 DEF Init, PhaseInv, Open, OrderInv, Ordered, NoGapInv
<1>2. TypeOK /\ ReplayWindow /\ LineInv /\ [Next]_vars => LineInv'
  <2> SUFFICES ASSUME TypeOK, ReplayWindow, LineInv, [Next]_vars, NEW q \in Streams
               PROVE  PhaseInv(q)' /\ OrderInv(q)' /\ NoGapInv(q)'
    BY DEF LineInv
  <2>1. CASE Publish
    BY <2>1, PublishKeepsLine
  <2>2. ASSUME NEW s \in Streams, Subscribe(s) \/ Replay(s) \/ Moves(s)
        PROVE  PhaseInv(q)' /\ OrderInv(q)' /\ NoGapInv(q)'
    <3>1. CASE q # s
      BY <2>2, <3>1, OthersKeepLine
    <3>2. CASE q = s
      BY <2>2, <3>2, SubscribeStartsLine, ReplayKeepsLine, MovesKeepLine
    <3> QED
      BY <3>1, <3>2
  <2>3. CASE UNCHANGED vars
    <3>1. PhaseInv(q) /\ OrderInv(q) /\ NoGapInv(q)
      BY DEF LineInv
    <3> QED
      BY <2>3, <3>1 DEF vars, PhaseInv, OrderInv, NoGapInv, Line
  <2> QED
    BY <2>1, <2>2, <2>3 DEF Next, Handler, Moves
<1> QED
  BY <1>1, <1>2, TypeCorrect, BufferIsWindow, PTL DEF Spec

-----------------------------------------------------------------------------
(* What clients can rely on                                                 *)

\* Live events reach a client in order, none older than its subscription.
THEOREM LiveEventsInOrder == Spec => []LiveInOrder
<1>1. TypeOK /\ LineInv => LiveInOrder
  <2> SUFFICES ASSUME TypeOK, LineInv, NEW s \in Streams,
                      NEW i \in (copied[s] + 1)..Len(got[s]),
                      NEW j \in (copied[s] + 1)..Len(got[s])
               PROVE  got[s][i] > joined[s] /\ (i < j => got[s][i] < got[s][j])
    BY DEF LiveInOrder
  <2>1. /\ copied[s] \in Nat /\ joined[s] \in Nat
        /\ Len(got[s]) <= Len(Line(s))
        /\ Len(got[s]) \in Nat /\ Len(Line(s)) \in Nat
        /\ \A k \in 1..Len(got[s]) : Line(s)[k] = got[s][k]
    BY LineFacts DEF TypeOK
  <2>2. /\ i \in 1..Len(got[s]) /\ i \in (copied[s] + 1)..Len(Line(s))
        /\ j \in 1..Len(got[s]) /\ j \in (copied[s] + 1)..Len(Line(s))
    BY <2>1
  <2>3. Ordered(Line(s), copied[s], copiedAt[s], joined[s], seq)
    BY DEF LineInv, OrderInv
  <2>4. joined[s] < Line(s)[i] /\ (i < j => Line(s)[i] < Line(s)[j])
    BY <2>2, <2>3 DEF Ordered
  <2> QED
    BY <2>1, <2>2, <2>4
<1> QED
  BY <1>1, TypeCorrect, LineInvariant, PTL

\* Between the replayed copy and the live events nothing is missing that did
\* not meet a full channel.
THEOREM HandoffIsComplete == Spec => []HandoffComplete
<1>1. TypeOK /\ LineInv => HandoffComplete
  <2> SUFFICES ASSUME TypeOK, LineInv, NEW s \in Streams, pc[s] = "streaming",
                      NEW e \in (copiedAt[s] - copied[s] + 1)..seq, e \notin lost[s]
               PROVE  \E i \in 1..Len(Line(s)) : Line(s)[i] = e
    BY DEF HandoffComplete
  <2>1. /\ copied[s] \in Nat /\ joined[s] \in Nat /\ copiedAt[s] \in Nat /\ seq \in Nat
        /\ Len(Line(s)) \in Nat
    BY LineFacts, BusAssumption DEF TypeOK
  <2>2. PhaseInv(s) /\ OrderInv(s) /\ NoGapInv(s)
    BY DEF LineInv
  <2>3. CASE e <= copiedAt[s]
    <3> DEFINE i == e - (copiedAt[s] - copied[s])
    <3>1. i \in 1..copied[s] /\ i \in 1..Len(Line(s))
      BY <2>1, <2>2, <2>3 DEF OrderInv
    <3>2. Line(s)[i] = copiedAt[s] - copied[s] + i
      BY <2>2, <3>1 DEF OrderInv, Ordered
    <3> QED
      BY <2>1, <3>1, <3>2
  <2>4. CASE e > copiedAt[s]
    <3>1. e \in (joined[s] + 1)..seq /\ s \in subs
      BY <2>1, <2>2, <2>4 DEF PhaseInv, Open
    <3>2. PICK i \in (copied[s] + 1)..Len(Line(s)) : Line(s)[i] = e
      BY <2>2, <3>1 DEF NoGapInv, Covers
    <3> QED
      BY <2>1, <3>2
  <2> QED
    BY <2>1, <2>3, <2>4
<1> QED
  BY <1>1, TypeCorrect, LineInvariant, PTL

\* A client that sees an event again, or an older one after a newer one, sees
\* a live event that the replayed copy already had.
THEOREM DuplicatesComeFromHandoff == Spec => []DuplicatesOnlyAtHandoff
<1>1. TypeOK /\ LineInv => DuplicatesOnlyAtHandoff
  <2> SUFFICES ASSUME TypeOK, LineInv, NEW s \in Streams,
                      NEW i \in 1..Len(got[s]), NEW j \in 1..Len(got[s]),
                      i < j, got[s][j] <= got[s][i]
               PROVE  /\ i <= copied[s] /\ j > copied[s]
                      /\ joined[s] < got[s][j] /\ got[s][j] <= copiedAt[s]
    BY DEF DuplicatesOnlyAtHandoff
  <2>1. /\ copied[s] \in Nat /\ joined[s] \in Nat /\ copiedAt[s] \in Nat
        /\ Len(got[s]) <= Len(Line(s))
        /\ Len(got[s]) \in Nat /\ Len(Line(s)) \in Nat
        /\ Line(s)[i] = got[s][i] /\ Line(s)[j] = got[s][j]
    BY LineFacts DEF TypeOK
  <2>2. got[s][i] \in Nat /\ got[s][j] \in Nat
    <3>1. got[s] \in Seq(Nat)
      BY LineFacts
    <3> QED
      BY <3>1
  <2>3. Ordered(Line(s), copied[s], copiedAt[s], joined[s], seq)
    BY DEF LineInv, OrderInv
  <2>4. j > copied[s]
    <3> SUFFICES ASSUME j <= copied[s] PROVE FALSE
      BY <2>1
    <3>1. i \in 1..copied[s] /\ j \in 1..copied[s]
      BY <2>1
    <3>2. /\ got[s][i] = copiedAt[s] - copied[s] + i
          /\ got[s][j] = copiedAt[s] - copied[s] + j
      BY <2>1, <2>3, <3>1 DEF Ordered
    <3> QED
      BY <2>1, <3>1, <3>2
  <2>5. j \in (copied[s] + 1)..Len(Line(s))
    BY <2>1, <2>4
  <2>6. i <= copied[s]
    <3> SUFFICES ASSUME i > copied[s] PROVE FALSE
      BY <2>1
    <3>1. i \in (copied[s] + 1)..Len(Line(s))
      BY <2>1
    <3>2. got[s][i] < got[s][j]
      BY <2>1, <2>3, <2>5, <3>1 DEF Ordered
    <3> QED
      BY <2>2, <3>2
  <2>7. joined[s] < got[s][j]
    BY <2>1, <2>3, <2>5 DEF Ordered
  <2>8. got[s][i] = copiedAt[s] - copied[s] + i
    <3>1. i \in 1..copied[s]
      BY <2>1, <2>6
    <3> QED
      BY <2>1, <2>3, <3>1 DEF Ordered
  <2> QED
    BY <2>1, <2>2, <2>4, <2>6, <2>7, <2>8
<1> QED
  BY <1>1, TypeCorrect, LineInvariant, PTL

-----------------------------------------------------------------------------
(* Leaving                                                                  *)

\* A step can be taken when its guard holds.  That is what ENABLED means for
\* these actions, which constrain nothing else; but no prover here knows
\* ENABLED, so the liveness theorems have it for a hypothesis.
GuardsSuffice ==
    /\ seq < MaxSeq => ENABLED <<Publish>>_vars
    /\ \A s \in Streams :
        /\ pc[s] = "subscribed" /\ replay[s]  => ENABLED <<Replay(s)>>_vars
        /\ pc[s] = "subscribed" /\ ~replay[s] => ENABLED <<NoReplay(s)>>_vars
        /\ pc[s] = "streaming" /\ gone[s] /\ todo[s] = <<>> => ENABLED <<SeeDone(s)>>_vars
        /\ pc[s] = "streaming" /\ gone[s] /\ todo[s] # <<>> => ENABLED <<SendFails(s)>>_vars
        /\ pc[s] = "leaving" => ENABLED <<Unsubscribe(s)>>_vars
        /\ pc[s] = "streaming" /\ todo[s] = <<>> /\ chan[s] # <<>> => ENABLED <<Receive(s)>>_vars
        /\ pc[s] = "streaming" /\ todo[s] # <<>> => ENABLED <<Send(s)>>_vars

Live == FairSpec /\ []GuardsSuffice

\* How far a call is whose client has gone.
Left(s)      == gone[s]
Copying(s)   == pc[s] = "subscribed" /\ replay[s] /\ gone[s]
Skipping(s)  == pc[s] = "subscribed" /\ ~replay[s] /\ gone[s]
Idling(s)    == pc[s] = "streaming" /\ gone[s] /\ todo[s] = <<>>
Sending(s)   == pc[s] = "streaming" /\ gone[s] /\ todo[s] # <<>>
Leaving(s)   == pc[s] = "leaving"
Listed(s)    == s \in subs

LeftIsSomewhere(s) ==
    Left(s) /\ Listed(s) => Copying(s) \/ Skipping(s) \/ Idling(s) \/ Sending(s) \/ Leaving(s)

LEMMA Whereabouts ==
    ASSUME TypeOK, LineInv, NEW s \in Streams
    PROVE  LeftIsSomewhere(s)
BY DEF TypeOK, LineInv, PhaseInv, Open, LeftIsSomewhere, Left, Listed, Copying, Skipping, Idling,
       Sending, Leaving

\* Where a step takes such a call.
LEMMA Onward ==
    ASSUME TypeOK, NEW s \in Streams, [Next]_vars
    PROVE  /\ Copying(s) => Copying(s)' \/ Idling(s)' \/ Sending(s)'
           /\ Skipping(s) => Skipping(s)' \/ Idling(s)' \/ Sending(s)'
           /\ Idling(s) \/ Sending(s) => Idling(s)' \/ Sending(s)' \/ Leaving(s)'
           /\ Leaving(s) => Leaving(s)' \/ ~Listed(s)'
<1> USE DEF TypeOK, Copying, Skipping, Idling, Sending, Leaving, Listed, bus, handler, history
<1>1. CASE Publish
  BY <1>1 DEF Publish
<1>2. ASSUME NEW t \in Streams, Subscribe(t) \/ Disconnect(t)
      PROVE  /\ Copying(s) => Copying(s)'
             /\ Skipping(s) => Skipping(s)'
             /\ Idling(s) => Idling(s)'
             /\ Sending(s) => Sending(s)'
             /\ Leaving(s) => Leaving(s)'
  BY <1>2 DEF Subscribe, Disconnect
<1>3. ASSUME NEW t \in Streams, Replay(t) \/ NoReplay(t)
      PROVE  /\ Copying(s) => Copying(s)' \/ Idling(s)' \/ Sending(s)'
             /\ Skipping(s) => Skipping(s)' \/ Idling(s)' \/ Sending(s)'
             /\ Idling(s) => Idling(s)'
             /\ Sending(s) => Sending(s)'
             /\ Leaving(s) => Leaving(s)'
  BY <1>3 DEF Replay, NoReplay
<1>4. ASSUME NEW t \in Streams, Send(t) \/ Receive(t)
      PROVE  /\ Copying(s) => Copying(s)'
             /\ Skipping(s) => Skipping(s)'
             /\ Idling(s) \/ Sending(s) => Idling(s)' \/ Sending(s)'
             /\ Leaving(s) => Leaving(s)'
  BY <1>4 DEF Send, Receive
<1>5. ASSUME NEW t \in Streams, SeeDone(t) \/ SendFails(t) \/ Unsubscribe(t)
      PROVE  /\ Copying(s) => Copying(s)'
             /\ Skipping(s) => Skipping(s)'
             /\ Idling(s) \/ Sending(s) => Idling(s)' \/ Sending(s)' \/ Leaving(s)'
             /\ Leaving(s) => Leaving(s)' \/ ~Listed(s)'
  BY <1>5 DEF SeeDone, SendFails, Unsubscribe
<1>6. CASE UNCHANGED vars
  BY <1>6 DEF vars
<1> QED
  BY <1>1, <1>2, <1>3, <1>4, <1>5, <1>6 DEF Next, Handler

\* Its own steps take it on.
LEMMA Ownward ==
    ASSUME TypeOK, NEW s \in Streams
    PROVE  /\ Copying(s) /\ Replay(s) => ~Copying(s)'
           /\ Skipping(s) /\ NoReplay(s) => ~Skipping(s)'
           /\ SeeDone(s) => Leaving(s)'
           /\ SendFails(s) => Leaving(s)'
           /\ Unsubscribe(s) => ~Listed(s)'
BY DEF TypeOK, Copying, Skipping, Leaving, Listed, Replay, NoReplay, SeeDone, SendFails,
       Unsubscribe

LEMMA LeaverLeaves ==
    ASSUME NEW s \in Streams
    PROVE  Live => (Left(s) ~> ~Listed(s))
<1>1. HandlerFairness => Scheduled(s)
  BY DEF HandlerFairness
<1>2. TypeOK /\ LineInv => LeftIsSomewhere(s)
  BY Whereabouts
<1>3. TypeOK /\ [Next]_vars =>
           /\ Copying(s) => Copying(s)' \/ Idling(s)' \/ Sending(s)'
           /\ Skipping(s) => Skipping(s)' \/ Idling(s)' \/ Sending(s)'
           /\ Idling(s) \/ Sending(s) => Idling(s)' \/ Sending(s)' \/ Leaving(s)'
           /\ Leaving(s) => Leaving(s)' \/ ~Listed(s)'
  BY Onward
<1>4. /\ TypeOK /\ <<Replay(s)>>_vars => (Copying(s) => ~Copying(s)')
      /\ TypeOK /\ <<NoReplay(s)>>_vars => (Skipping(s) => ~Skipping(s)')
      /\ TypeOK /\ <<SeeDone(s)>>_vars => Leaving(s)'
      /\ TypeOK /\ <<SendFails(s)>>_vars => Leaving(s)'
      /\ TypeOK /\ <<Unsubscribe(s)>>_vars => ~Listed(s)'
  BY Ownward
<1>5. GuardsSuffice =>
        /\ Copying(s) => ENABLED <<Replay(s)>>_vars
        /\ Skipping(s) => ENABLED <<NoReplay(s)>>_vars
        /\ Idling(s) => ENABLED <<SeeDone(s)>>_vars
        /\ Sending(s) => ENABLED <<SendFails(s)>>_vars
        /\ Leaving(s) => ENABLED <<Unsubscribe(s)>>_vars
  BY Zenon DEF GuardsSuffice, Copying, Skipping, Idling, Sending, Leaving
<1>6. Spec => []TypeOK /\ []LineInv
  BY TypeCorrect, LineInvariant, PTL
<1>7. Live => (Copying(s) ~> Idling(s) \/ Sending(s))
  BY <1>1, <1>3, <1>4, <1>5, <1>6, PTL DEF Live, FairSpec, Spec, Scheduled
<1>8. Live => (Skipping(s) ~> Idling(s) \/ Sending(s))
  BY <1>1, <1>3, <1>4, <1>5, <1>6, PTL DEF Live, FairSpec, Spec, Scheduled
<1>9. Live => (Idling(s) \/ Sending(s) ~> Leaving(s))
  BY <1>1, <1>3, <1>4, <1>5, <1>6, PTL DEF Live, FairSpec, Spec, Scheduled
<1>10. Live => (Leaving(s) ~> ~Listed(s))
  BY <1>1, <1>3, <1>4, <1>5, <1>6, PTL DEF Live, FairSpec, Spec, Scheduled
<1> QED
  BY <1>2, <1>6, <1>7, <1>8, <1>9, <1>10, PTL DEF LeftIsSomewhere, Live, FairSpec

\* Every handler whose client has gone unsubscribes, wherever it is, and
\* though the client may stall it until then.  (StreamEvents: the deferred
\* unsubscribe)
THEOREM LeaversLeave == FairSpec /\ []GuardsSuffice => LeaversUnsubscribe
<1> SUFFICES ASSUME NEW s \in Streams
             PROVE  FairSpec /\ []GuardsSuffice => (gone[s] ~> s \notin subs)
  BY DEF LeaversUnsubscribe
<1>1. (gone[s] <=> Left(s)) /\ (s \notin subs <=> ~Listed(s))
  BY DEF Left, Listed
<1> QED
  BY <1>1, LeaverLeaves, PTL DEF Live

LEMMA OneIsPublished ==
    ASSUME NEW n \in Nat, n < MaxSeq
    PROVE  Spec /\ PublisherFairness /\ []GuardsSuffice => (seq = n ~> seq = n + 1)
<1> DEFINE Now  == seq = n
           Next1 == seq = n + 1
<1>1. Now /\ [Next]_vars => Now' \/ Next1'
  <2> SUFFICES ASSUME seq = n, [Next]_vars PROVE seq' = n \/ seq' = n + 1
    OBVIOUS
  <2> QED
    BY DEF Next, Handler, Publish, Subscribe, Disconnect, Replay, NoReplay, Send, Receive,
           SeeDone, SendFails, Unsubscribe, vars, bus, handler
<1>2. Now /\ <<Publish>>_vars => Next1'
  BY DEF Publish
<1>3. GuardsSuffice /\ Now => ENABLED <<Publish>>_vars
  <2>1. Now => seq < MaxSeq
    OBVIOUS
  <2> QED
    BY <2>1, Zenon DEF GuardsSuffice
<1> QED
  BY <1>1, <1>2, <1>3, PTL DEF Spec, PublisherFairness

\* Every event that the daemon comes to publish is published, whatever clients
\* do or fail to do.  (Publish: no send to a subscriber waits)
THEOREM PublisherGoesOn == Spec /\ []GuardsSuffice => EveryEventIsPublished
<1>1. ASSUME NEW n \in 0..(MaxSeq - 1)
      PROVE  Spec /\ []GuardsSuffice => (PublisherFairness => (seq = n ~> seq = n + 1))
  <2>1. n \in Nat /\ n < MaxSeq
    BY BusAssumption
  <2> QED
    BY <2>1, OneIsPublished, PTL
<1> QED
  BY <1>1, Zenon DEF EveryEventIsPublished

-----------------------------------------------------------------------------
(* Streaming                                                                *)

\* The next event for a client that has had n: its handler has still to start,
\* to take the event from the channel, or to send it.
Has(s, n)      == ~gone[s] /\ Len(got[s]) = n
Copies(s, n)   == pc[s] = "subscribed" /\ replay[s] /\ chan[s] # <<>> /\ Has(s, n)
Skips(s, n)    == pc[s] = "subscribed" /\ ~replay[s] /\ chan[s] # <<>> /\ Has(s, n)
Receives(s, n) == pc[s] = "streaming" /\ todo[s] = <<>> /\ chan[s] # <<>> /\ Has(s, n)
Sends(s, n)    == pc[s] = "streaming" /\ todo[s] # <<>> /\ Has(s, n)
SentOrLeft(s, n) == gone[s] \/ Len(got[s]) = n + 1
Queued(s, n)   == s \in subs /\ chan[s] # <<>> /\ Len(got[s]) = n

\* A handler leaves only when its client has gone.
LeavingIsLeft == \A s \in Streams : pc[s] = "leaving" => gone[s]

LEMMA NobodyLeavesEarly == Spec => []LeavingIsLeft
<1>1. Init => LeavingIsLeft
  BY DEF Init, LeavingIsLeft
<1>2. TypeOK /\ LeavingIsLeft /\ [Next]_vars => LeavingIsLeft'
  <2> SUFFICES ASSUME TypeOK, LeavingIsLeft, [Next]_vars, NEW s \in Streams
               PROVE  (pc[s] = "leaving" => gone[s])'
    BY DEF LeavingIsLeft
  <2>1. ASSUME UNCHANGED <<pc, gone>> PROVE (pc[s] = "leaving" => gone[s])'
    BY <2>1 DEF LeavingIsLeft
  <2>2. ASSUME NEW t \in Streams,
               \/ Subscribe(t) \/ Replay(t) \/ NoReplay(t) \/ Disconnect(t)
               \/ SeeDone(t) \/ SendFails(t) \/ Unsubscribe(t)
        PROVE  (pc[s] = "leaving" => gone[s])'
    BY <2>2 DEF TypeOK, LeavingIsLeft, handler, Subscribe, Replay, NoReplay, Disconnect, SeeDone,
                SendFails, Unsubscribe
  <2> QED
    BY <2>1, <2>2 DEF Next, Handler, Publish, Send, Receive, vars, handler
<1> QED
  BY <1>1, <1>2, TypeCorrect, PTL DEF Spec

\* A channel that is offered an event is not empty, and a client that is sent
\* one has one more.
LEMMA OneMore ==
    ASSUME NEW q \in Seq(Nat), NEW e \in Nat
    PROVE  Append(q, e) # <<>> /\ Len(Append(q, e)) = Len(q) + 1
BY AppendProperties

LEMMA SendIsOneMore ==
    ASSUME TypeOK, NEW s \in Streams, Send(s)
    PROVE  pc[s] = "streaming" /\ todo[s] # <<>> /\ Len(got'[s]) = Len(got[s]) + 1
<1>1. /\ pc[s] = "streaming" /\ todo[s] # <<>>
      /\ got'[s] = Append(got[s], Head(todo[s])) /\ todo[s] \in Seq(Nat)
  BY DEF Send, TypeOK
<1>2. Head(todo[s]) \in Nat
  BY <1>1
<1>3. got[s] \in Seq(Nat)
  BY DEF TypeOK
<1> QED
  BY <1>1, <1>2, <1>3, OneMore, Zenon

LEMMA QueuedIsSomewhere ==
    ASSUME TypeOK, LineInv, LeavingIsLeft, NEW s \in Streams, NEW n \in Nat
    PROVE  Queued(s, n) => SentOrLeft(s, n) \/ Copies(s, n) \/ Skips(s, n)
                             \/ Receives(s, n) \/ Sends(s, n)
BY DEF TypeOK, LineInv, PhaseInv, LeavingIsLeft, Open, Queued, SentOrLeft, Copies, Skips, Receives, Sends, Has

\* Where a step takes it.
LEMMA NextEvent ==
    ASSUME TypeOK, NEW s \in Streams, NEW n \in Nat, [Next]_vars
    PROVE  /\ Copies(s, n) => Copies(s, n)' \/ Receives(s, n)' \/ Sends(s, n)' \/ SentOrLeft(s, n)'
           /\ Skips(s, n) => Skips(s, n)' \/ Receives(s, n)' \/ Sends(s, n)' \/ SentOrLeft(s, n)'
           /\ Receives(s, n) => Receives(s, n)' \/ Sends(s, n)' \/ SentOrLeft(s, n)'
           /\ Sends(s, n) => Sends(s, n)' \/ SentOrLeft(s, n)'
<1> USE DEF TypeOK, Copies, Skips, Receives, Sends, SentOrLeft, Has, bus, handler, history
<1>1. CASE Publish
  <2>1. chan[s] # <<>> => chan'[s] # <<>>
    <3>1. seq + 1 \in Nat /\ chan[s] \in Seq(Nat)
      OBVIOUS
    <3>2. chan'[s] = chan[s] \/ chan'[s] = Append(chan[s], seq + 1)
      BY <1>1 DEF Publish
    <3>3. Append(chan[s], seq + 1) # <<>>
      BY <3>1, OneMore
    <3> QED
      BY <3>2, <3>3
  <2>2. UNCHANGED <<pc, replay, todo, gone, got>>
    BY <1>1 DEF Publish
  <2> QED
    BY <2>1, <2>2
<1>2. ASSUME NEW t \in Streams, Subscribe(t) \/ Disconnect(t)
      PROVE  /\ Copies(s, n) => Copies(s, n)' \/ SentOrLeft(s, n)'
             /\ Skips(s, n) => Skips(s, n)' \/ SentOrLeft(s, n)'
             /\ Receives(s, n) => Receives(s, n)' \/ SentOrLeft(s, n)'
             /\ Sends(s, n) => Sends(s, n)' \/ SentOrLeft(s, n)'
  BY <1>2 DEF Subscribe, Disconnect
<1>3. ASSUME NEW t \in Streams, Replay(t) \/ NoReplay(t)
      PROVE  /\ Copies(s, n) => Copies(s, n)' \/ Receives(s, n)' \/ Sends(s, n)'
             /\ Skips(s, n) => Skips(s, n)' \/ Receives(s, n)' \/ Sends(s, n)'
             /\ Receives(s, n) => Receives(s, n)'
             /\ Sends(s, n) => Sends(s, n)'
  BY <1>3 DEF Replay, NoReplay
<1>4. ASSUME NEW t \in Streams, Send(t)
      PROVE  /\ Copies(s, n) => Copies(s, n)'
             /\ Skips(s, n) => Skips(s, n)'
             /\ Receives(s, n) => Receives(s, n)'
             /\ Sends(s, n) => Sends(s, n)' \/ SentOrLeft(s, n)'
  <2>1. CASE t = s
    <3>1. pc[s] = "streaming" /\ todo[s] # <<>> /\ Len(got'[s]) = Len(got[s]) + 1
      BY <1>4, <2>1, SendIsOneMore, Zenon
    <3> QED
      BY <3>1
  <2>2. CASE t # s
    BY <1>4, <2>2 DEF Send
  <2> QED
    BY <2>1, <2>2
<1>5. ASSUME NEW t \in Streams, Receive(t)
      PROVE  /\ Copies(s, n) => Copies(s, n)'
             /\ Skips(s, n) => Skips(s, n)'
             /\ Receives(s, n) => Receives(s, n)' \/ Sends(s, n)'
             /\ Sends(s, n) => Sends(s, n)'
  BY <1>5 DEF Receive
<1>6. ASSUME NEW t \in Streams, SeeDone(t) \/ SendFails(t) \/ Unsubscribe(t)
      PROVE  /\ Copies(s, n) => Copies(s, n)'
             /\ Skips(s, n) => Skips(s, n)'
             /\ Receives(s, n) => Receives(s, n)'
             /\ Sends(s, n) => Sends(s, n)'
  BY <1>6 DEF SeeDone, SendFails, Unsubscribe
<1>7. CASE UNCHANGED vars
  BY <1>7 DEF vars
<1> QED
  BY <1>1, <1>2, <1>3, <1>4, <1>5, <1>6, <1>7 DEF Next, Handler

LEMMA NextEventOwn ==
    ASSUME TypeOK, NEW s \in Streams, NEW n \in Nat
    PROVE  /\ Copies(s, n) /\ Replay(s) => ~Copies(s, n)'
           /\ Skips(s, n) /\ NoReplay(s) => ~Skips(s, n)'
           /\ Receives(s, n) /\ Receive(s) => ~Receives(s, n)'
           /\ Sends(s, n) /\ Send(s) => SentOrLeft(s, n)'
<1>1. Sends(s, n) /\ Send(s) => SentOrLeft(s, n)'
  <2> SUFFICES ASSUME Sends(s, n), Send(s) PROVE Len(got'[s]) = n + 1
    BY DEF SentOrLeft
  <2>1. Len(got'[s]) = Len(got[s]) + 1
    BY SendIsOneMore
  <2> QED
    BY <2>1 DEF Sends, Has
<1>2. /\ Copies(s, n) /\ Replay(s) => ~Copies(s, n)'
      /\ Skips(s, n) /\ NoReplay(s) => ~Skips(s, n)'
  BY DEF TypeOK, Copies, Skips, Replay, NoReplay
<1>3. Receives(s, n) /\ Receive(s) => ~Receives(s, n)'
  <2> SUFFICES ASSUME Receive(s) PROVE todo'[s] # <<>>
    BY DEF Receives
  <2> QED
    BY DEF TypeOK, Receive
<1> QED
  BY <1>1, <1>2, <1>3

\* One of these is next for a client that has had n events.
UnderWay(s, n) == Copies(s, n) \/ Skips(s, n) \/ Receives(s, n) \/ Sends(s, n)

LEMMA UnderWayIsSent ==
    ASSUME NEW s \in Streams, NEW n \in Nat
    PROVE  Live /\ ReaderFairness => (UnderWay(s, n) ~> SentOrLeft(s, n))
<1>1. /\ HandlerFairness => Scheduled(s)
      /\ ReaderFairness => Reads(s)
  BY DEF HandlerFairness, ReaderFairness
<1>2. TypeOK /\ [Next]_vars =>
        /\ Copies(s, n) => Copies(s, n)' \/ Receives(s, n)' \/ Sends(s, n)' \/ SentOrLeft(s, n)'
        /\ Skips(s, n) => Skips(s, n)' \/ Receives(s, n)' \/ Sends(s, n)' \/ SentOrLeft(s, n)'
        /\ Receives(s, n) => Receives(s, n)' \/ Sends(s, n)' \/ SentOrLeft(s, n)'
        /\ Sends(s, n) => Sends(s, n)' \/ SentOrLeft(s, n)'
  BY NextEvent
<1>3. /\ TypeOK /\ <<Replay(s)>>_vars => (Copies(s, n) => ~Copies(s, n)')
      /\ TypeOK /\ <<NoReplay(s)>>_vars => (Skips(s, n) => ~Skips(s, n)')
      /\ TypeOK /\ <<Receive(s)>>_vars => (Receives(s, n) => ~Receives(s, n)')
      /\ TypeOK /\ <<Send(s)>>_vars => (Sends(s, n) => SentOrLeft(s, n)')
  BY NextEventOwn
<1>4. GuardsSuffice =>
        /\ Copies(s, n) => ENABLED <<Replay(s)>>_vars
        /\ Skips(s, n) => ENABLED <<NoReplay(s)>>_vars
        /\ Receives(s, n) => ENABLED <<Receive(s)>>_vars
        /\ Sends(s, n) => ENABLED <<Send(s)>>_vars
  BY Zenon DEF GuardsSuffice, Copies, Skips, Receives, Sends
<1>5. Live /\ Reads(s) => (Sends(s, n) ~> SentOrLeft(s, n))
  BY <1>2, <1>3, <1>4, TypeCorrect, PTL DEF Live, FairSpec, Spec, Reads
<1>6. Live => (Receives(s, n) ~> Sends(s, n) \/ SentOrLeft(s, n))
  BY <1>1, <1>2, <1>3, <1>4, TypeCorrect, PTL DEF Live, FairSpec, Spec, Scheduled
<1>7. Live => (Skips(s, n) ~> Receives(s, n) \/ Sends(s, n) \/ SentOrLeft(s, n))
  BY <1>1, <1>2, <1>3, <1>4, TypeCorrect, PTL DEF Live, FairSpec, Spec, Scheduled
<1>8. Live => (Copies(s, n) ~> Receives(s, n) \/ Sends(s, n) \/ SentOrLeft(s, n))
  BY <1>1, <1>2, <1>3, <1>4, TypeCorrect, PTL DEF Live, FairSpec, Spec, Scheduled
<1> QED
  BY <1>1, <1>5, <1>6, <1>7, <1>8, PTL DEF UnderWay

\* A stream with an event in its channel sends its client one more, as long as
\* the client reads and stays: neither the copy of the buffer, nor the publisher,
\* nor other streams can keep it from that.  (StreamEvents' receive loop)
THEOREM StreamGoesOn ==
    ASSUME NEW s \in Streams, NEW n \in Nat
    PROVE  FairSpec /\ ReaderFairness /\ []GuardsSuffice => (Queued(s, n) ~> SentOrLeft(s, n))
<1>1. TypeOK /\ LineInv /\ LeavingIsLeft =>
        (Queued(s, n) => SentOrLeft(s, n) \/ UnderWay(s, n))
  BY QueuedIsSomewhere DEF UnderWay
<1> QED
  BY <1>1, UnderWayIsSent, TypeCorrect, LineInvariant, NobodyLeavesEarly, PTL DEF Live, FairSpec

-----------------------------------------------------------------------------
(* The queue of a client that reads                                         *)

\* Event e is in q.
Within(e, q) == \E i \in 1..Len(q) : q[i] = e

LEMMA AppendHas ==
    ASSUME NEW q \in Seq(Nat), NEW f \in Nat, NEW e
    PROVE  Within(e, q) \/ e = f => Within(e, Append(q, f))
<1>1. /\ Len(Append(q, f)) = Len(q) + 1 /\ Append(q, f)[Len(q) + 1] = f
      /\ \A i \in 1..Len(q) : Append(q, f)[i] = q[i]
  BY AppendProperties
<1>2. Len(q) \in Nat
  OBVIOUS
<1> QED
  BY <1>1, <1>2 DEF Within

LEMMA HeadOrTail ==
    ASSUME NEW q \in Seq(Nat), q # <<>>, NEW e, Within(e, q)
    PROVE  e = Head(q) \/ Within(e, Tail(q))
<1>1. PICK i \in 1..Len(q) : q[i] = e
  BY DEF Within
<1>2. CASE i = 1
  BY <1>1, <1>2
<1>3. CASE i # 1
  <2>1. i - 1 \in 1..Len(Tail(q)) /\ Tail(q)[i - 1] = q[i]
    BY <1>1, <1>3
  <2> QED
    BY <1>1, <2>1 DEF Within
<1> QED
  BY <1>2, <1>3

LEMMA JustOne ==
    ASSUME NEW e \in Nat
    PROVE  Within(e, <<e>>)
BY DEF Within

LEMMA WithinIsSome ==
    ASSUME NEW q \in Seq(Nat), NEW e, Within(e, q)
    PROVE  q # <<>> /\ e \in Nat
BY DEF Within

\* Event e waits for the client of s, in the channel or in the handler; it no
\* longer has to.
Waits(s, e)   == s \in subs /\ ~gone[s] /\ (Within(e, chan[s]) \/ Within(e, todo[s]))
Settled(s, e) == gone[s] \/ Within(e, got[s])

LEMMA PublishKeepsWaiting ==
    ASSUME TypeOK, NEW s \in Streams, NEW e, Publish, Waits(s, e)
    PROVE  Waits(s, e)'
<1>1. chan[s] \in Seq(Nat) /\ seq + 1 \in Nat
  BY DEF TypeOK
<1>2. chan'[s] = chan[s] \/ chan'[s] = Append(chan[s], seq + 1)
  BY DEF Publish
<1>3. Within(e, chan[s]) => Within(e, chan'[s])
  BY <1>1, <1>2, AppendHas, Zenon
<1>4. subs' = subs /\ gone' = gone /\ todo' = todo
  BY DEF Publish, handler
<1> QED
  BY <1>3, <1>4, Zenon DEF Waits

LEMMA SendSettlesOne ==
    ASSUME TypeOK, NEW s \in Streams, NEW e, Send(s), Waits(s, e)
    PROVE  Waits(s, e)' \/ Settled(s, e)'
<1>1. /\ todo[s] # <<>> /\ got'[s] = Append(got[s], Head(todo[s])) /\ todo'[s] = Tail(todo[s])
      /\ subs' = subs /\ gone' = gone /\ chan' = chan
  BY DEF Send, TypeOK, bus
<1>2. todo[s] \in Seq(Nat)
  BY DEF TypeOK
<1>3. got[s] \in Seq(Nat)
  BY DEF TypeOK
<1>4. Head(todo[s]) \in Nat
  BY <1>1, <1>2
<1>5. Within(e, todo[s]) => e = Head(todo[s]) \/ Within(e, todo'[s])
  BY <1>1, <1>2, HeadOrTail, Zenon
<1>6. e = Head(todo[s]) => Within(e, got'[s])
  BY <1>1, <1>3, <1>4, AppendHas, Zenon
<1> QED
  BY <1>1, <1>5, <1>6, Zenon DEF Waits, Settled

LEMMA ReceiveKeepsWaiting ==
    ASSUME TypeOK, NEW s \in Streams, NEW e, Receive(s), Waits(s, e)
    PROVE  Waits(s, e)'
<1>1. /\ chan[s] # <<>> /\ chan'[s] = Tail(chan[s]) /\ todo'[s] = <<Head(chan[s])>>
      /\ todo[s] = <<>> /\ subs' = subs /\ gone' = gone
  BY DEF Receive, TypeOK
<1>2. chan[s] \in Seq(Nat)
  BY DEF TypeOK
<1>3. Head(chan[s]) \in Nat
  BY <1>1, <1>2
<1>4. ~Within(e, todo[s])
  BY <1>1 DEF Within
<1>5. Within(e, chan[s]) => e = Head(chan[s]) \/ Within(e, chan'[s])
  BY <1>1, <1>2, HeadOrTail, Zenon
<1>6. e = Head(chan[s]) => Within(e, todo'[s])
  BY <1>1, <1>3, JustOne, Zenon
<1> QED
  BY <1>1, <1>4, <1>5, <1>6, Zenon DEF Waits

\* What waits goes on to wait until it has been sent or the client has gone.
LEMMA WaitsOn ==
    ASSUME TypeOK, LineInv, LeavingIsLeft, [Next]_vars, NEW s \in Streams, NEW e
    PROVE  Waits(s, e) => Waits(s, e)' \/ Settled(s, e)'
<1> SUFFICES ASSUME Waits(s, e)
             PROVE  Waits(s, e)' \/ Settled(s, e)'
  OBVIOUS
<1>1. ASSUME chan'[s] = chan[s], todo'[s] = todo[s], s \in subs'
      PROVE  Waits(s, e)' \/ Settled(s, e)'
  BY <1>1, Zenon DEF Waits, Settled
<1>2. pc[s] # "leaving" /\ (pc[s] = "subscribed" => todo[s] = <<>>)
  BY DEF LeavingIsLeft, Waits, LineInv, PhaseInv
<1>3. CASE Publish
  BY <1>3, PublishKeepsWaiting
<1>4. ASSUME NEW t \in Streams, Subscribe(t) \/ NoReplay(t) \/ Disconnect(t) \/ SeeDone(t) \/ SendFails(t)
      PROVE  Waits(s, e)' \/ Settled(s, e)'
  <2>1. chan'[s] = chan[s] /\ todo'[s] = todo[s] /\ s \in subs'
    BY <1>4 DEF Waits, Subscribe, NoReplay, Disconnect, SeeDone, SendFails, bus
  <2> QED
    BY <1>1, <2>1
<1>5. ASSUME NEW t \in Streams, Replay(t)
      PROVE  Waits(s, e)' \/ Settled(s, e)'
  <2>1. CASE t = s
    <3>1. todo[s] = <<>>
      BY <1>2, <1>5, <2>1 DEF Replay
    <3>2. ~Within(e, todo[s])
      BY <3>1 DEF Within
    <3>3. chan' = chan /\ subs' = subs /\ gone' = gone
      BY <1>5 DEF Replay, bus
    <3> QED
      BY <3>2, <3>3, Zenon DEF Waits
  <2>2. CASE t # s
    <3>1. chan'[s] = chan[s] /\ todo'[s] = todo[s] /\ s \in subs'
      BY <1>5, <2>2 DEF Waits, Replay, bus, TypeOK
    <3> QED
      BY <1>1, <3>1
  <2> QED
    BY <2>1, <2>2
<1>6. ASSUME NEW t \in Streams, Send(t)
      PROVE  Waits(s, e)' \/ Settled(s, e)'
  <2>1. CASE t = s
    BY <1>6, <2>1, SendSettlesOne, Zenon
  <2>2. CASE t # s
    <3>1. chan'[s] = chan[s] /\ todo'[s] = todo[s] /\ s \in subs'
      BY <1>6, <2>2 DEF Waits, Send, bus, TypeOK
    <3> QED
      BY <1>1, <3>1
  <2> QED
    BY <2>1, <2>2
<1>7. ASSUME NEW t \in Streams, Receive(t)
      PROVE  Waits(s, e)' \/ Settled(s, e)'
  <2>1. CASE t = s
    BY <1>7, <2>1, ReceiveKeepsWaiting, Zenon
  <2>2. CASE t # s
    <3>1. chan'[s] = chan[s] /\ todo'[s] = todo[s] /\ s \in subs'
      BY <1>7, <2>2 DEF Waits, Receive, TypeOK
    <3> QED
      BY <1>1, <3>1
  <2> QED
    BY <2>1, <2>2
<1>8. ASSUME NEW t \in Streams, Unsubscribe(t)
      PROVE  Waits(s, e)' \/ Settled(s, e)'
  <2>1. t # s
    BY <1>2, <1>8 DEF Unsubscribe
  <2>2. chan'[s] = chan[s] /\ todo'[s] = todo[s] /\ s \in subs'
    BY <1>8, <2>1 DEF Waits, Unsubscribe
  <2> QED
    BY <1>1, <2>2
<1>9. CASE UNCHANGED vars
  <2>1. chan'[s] = chan[s] /\ todo'[s] = todo[s] /\ s \in subs'
    BY <1>9 DEF vars, Waits
  <2> QED
    BY <1>1, <2>1
<1> QED
  BY <1>3, <1>4, <1>5, <1>6, <1>7, <1>8, <1>9 DEF Next, Handler

\* Settled is settled.
LEMMA StaysSettled ==
    ASSUME TypeOK, [Next]_vars, NEW s \in Streams, NEW e
    PROVE  Settled(s, e) => Settled(s, e)'
<1>1. gone[s] => gone'[s]
  BY DEF TypeOK, Next, Handler, Publish, Subscribe, Disconnect, Replay, NoReplay, Send, Receive,
         SeeDone, SendFails, Unsubscribe, vars, handler
<1>2. Within(e, got[s]) => Within(e, got'[s])
  <2>1. CASE Send(s)
    <3>1. /\ got'[s] = Append(got[s], Head(todo[s])) /\ todo[s] # <<>> /\ todo[s] \in Seq(Nat)
      BY <2>1 DEF Send, TypeOK
    <3>2. Head(todo[s]) \in Nat
      BY <3>1
    <3>3. got[s] \in Seq(Nat)
      BY DEF TypeOK
    <3> QED
      BY <3>1, <3>2, <3>3, AppendHas, Zenon
  <2>2. CASE ~Send(s)
    <3>1. got'[s] = got[s]
      BY <2>2 DEF TypeOK, Next, Handler, Publish, Subscribe, Disconnect, Replay, NoReplay, Send, Receive,
         SeeDone, SendFails, Unsubscribe, vars, history
    <3> QED
      BY <3>1
  <2> QED
    BY <2>1, <2>2
<1> QED
  BY <1>1, <1>2, Zenon DEF Settled

\* Rising numbers of 1 .. m are at most m.
LEMMA RisingIsShort ==
    ASSUME NEW k \in Nat, NEW n \in Nat, NEW m \in Nat, NEW f \in [(k + 1)..n -> 1..m],
           \A i, j \in (k + 1)..n : i < j => f[i] < f[j]
    PROVE  n <= k + m
<1> SUFFICES ASSUME n > k + m PROVE FALSE
  OBVIOUS
<1> DEFINE D == (k + 1)..n
           R == 1..m
<1>1. k + 1 \in Int /\ n \in Int /\ 1 \in Int /\ m \in Int
  OBVIOUS
<1>2. IsFiniteSet(D) /\ Cardinality(D) = IF k + 1 > n THEN 0 ELSE n - (k + 1) + 1
  BY <1>1, FS_Interval, Zenon
<1>3. IsFiniteSet(R) /\ Cardinality(R) = IF 1 > m THEN 0 ELSE m - 1 + 1
  BY <1>1, FS_Interval, Zenon
<1>4. Cardinality(R) < Cardinality(D)
  BY <1>2, <1>3
<1>5. f \in [D -> R]
  OBVIOUS
<1> HIDE DEF D, R
<1>6. \E i, j \in D : i # j /\ f[i] = f[j]
  BY <1>2, <1>3, <1>4, <1>5, FS_PigeonHole, Zenon
<1>7. PICK i \in D, j \in D : i # j /\ f[i] = f[j]
  BY <1>6
<1>8. i < j \/ j < i
  BY <1>7 DEF D
<1>9. f[i] \in Nat /\ f[j] \in Nat
  BY <1>5 DEF R
<1> QED
  BY <1>7, <1>8, <1>9 DEF D

\* A stream ends in the end: the copy has no more events than have been
\* published, and neither has what follows it.
LEMMA StreamIsBounded ==
    ASSUME TypeOK, LineInv, NEW s \in Streams
    PROVE  Len(got[s]) <= MaxSeq + MaxSeq
<1>1. /\ seq \in 0..MaxSeq /\ copied[s] \in Nat /\ copiedAt[s] \in Nat /\ joined[s] \in Nat
      /\ MaxSeq \in Nat
  BY BusAssumption DEF TypeOK
<1>2. /\ Line(s) \in Seq(Nat) /\ Len(got[s]) <= Len(Line(s))
      /\ Len(got[s]) \in Nat /\ Len(Line(s)) \in Nat
  BY LineFacts
<1>3. PhaseInv(s) /\ Ordered(Line(s), copied[s], copiedAt[s], joined[s], seq)
  BY DEF LineInv, OrderInv
<1>4. copied[s] <= MaxSeq
  <2>1. pc[s] \in {"idle", "subscribed"} \/ pc[s] \notin {"idle", "subscribed"}
    OBVIOUS
  <2> QED
    BY <1>1, <1>3, <2>1 DEF PhaseInv
<1>5. Len(Line(s)) <= copied[s] + MaxSeq
  <2> DEFINE L == Line(s)
             I == (copied[s] + 1)..Len(L)
             f == [i \in I |-> L[i]]
  <2>1. \A i \in I : i \in 1..Len(L) /\ joined[s] < L[i] /\ L[i] <= seq
    BY <1>1, <1>3 DEF Ordered
  <2>2. \A i \in I : L[i] \in Nat
    BY <1>2, <2>1
  <2>3. f \in [I -> 1..MaxSeq]
    BY <1>1, <2>1, <2>2
  <2>4. \A i, j \in I : i < j => f[i] < f[j]
    BY <1>3 DEF Ordered
  <2> QED
    BY <1>1, <1>2, <2>3, <2>4, RisingIsShort, Zenon
<1> QED
  BY <1>1, <1>2, <1>4, <1>5

-----------------------------------------------------------------------------
\* Event e is sent to client s, or the client goes, or it has had n others.
Reaches(s, e, n) == Waits(s, e) ~> Settled(s, e) \/ Len(got[s]) >= n

LEMMA ReachesNone ==
    ASSUME NEW s \in Streams, NEW e
    PROVE  Spec => Reaches(s, e, 0)
<1>1. TypeOK => Len(got[s]) >= 0
  BY DEF TypeOK
<1> QED
  BY <1>1, TypeCorrect, PTL DEF Reaches

LEMMA WaitingIsUnderWay ==
    ASSUME TypeOK, LineInv, LeavingIsLeft, NEW s \in Streams, NEW e, NEW n \in Nat,
           Waits(s, e), Len(got[s]) = n
    PROVE  UnderWay(s, n)
<1>1. chan[s] # <<>> \/ todo[s] # <<>>
  <2>1. ~Within(e, <<>>)
    BY DEF Within
  <2> QED
    BY <2>1, Zenon DEF Waits
<1>2. pc[s] \in {"subscribed", "streaming"} /\ (pc[s] = "subscribed" => todo[s] = <<>>)
  BY DEF LeavingIsLeft, Waits, LineInv, PhaseInv, Open
<1> QED
  BY <1>1, <1>2 DEF Waits, UnderWay, Copies, Skips, Receives, Sends, Has

LEMMA ReachesOneMore ==
    ASSUME NEW s \in Streams, NEW e, NEW n \in Nat
    PROVE  Live /\ ReaderFairness => (Reaches(s, e, n) => Reaches(s, e, n + 1))
<1> DEFINE Had(m) == Len(got[s]) >= m
           Just  == Len(got[s]) = n
<1>1. TypeOK /\ LineInv /\ LeavingIsLeft /\ [Next]_vars =>
          (Waits(s, e) => Waits(s, e)' \/ Settled(s, e)')
  BY WaitsOn
<1>2. TypeOK /\ [Next]_vars => (Settled(s, e) => Settled(s, e)')
  BY StaysSettled
<1>3. TypeOK => (Had(n) => Had(n + 1) \/ Just)
  BY DEF TypeOK
<1>4. TypeOK /\ LineInv /\ LeavingIsLeft => (Waits(s, e) /\ Just => UnderWay(s, n))
  BY WaitingIsUnderWay
<1>5. SentOrLeft(s, n) => Settled(s, e) \/ Had(n + 1)
  BY DEF SentOrLeft, Settled
<1>6. Spec => []TypeOK /\ []LineInv /\ []LeavingIsLeft
  BY TypeCorrect, LineInvariant, NobodyLeavesEarly, PTL
<1>7. Live /\ ReaderFairness => (UnderWay(s, n) ~> SentOrLeft(s, n))
  BY UnderWayIsSent
<1> HIDE DEF Had, Just
<1>8. Live /\ (Waits(s, e) ~> Settled(s, e) \/ Had(n))
        => (Waits(s, e) ~> Settled(s, e) \/ (Waits(s, e) /\ Had(n)))
  BY <1>1, <1>2, <1>6, PTL DEF Live, FairSpec, Spec
<1>9. Live /\ ReaderFairness /\ (Waits(s, e) ~> Settled(s, e) \/ Had(n))
        => (Waits(s, e) ~> Settled(s, e) \/ Had(n + 1))
  BY <1>3, <1>4, <1>5, <1>6, <1>7, <1>8, PTL DEF Live, FairSpec
<1> QED
  BY <1>9 DEF Reaches, Had

\* A client has never had that many, so that only the other two are left.
TooMany == MaxSeq + MaxSeq + 1

LEMMA ReachedIsSent ==
    ASSUME NEW s \in Streams, NEW e
    PROVE  Spec /\ Reaches(s, e, TooMany) =>
             ((s \in subs /\ Within(e, chan[s])) ~> Settled(s, e))
<1>1. TypeOK /\ LineInv => ~(Len(got[s]) >= TooMany)
  <2> SUFFICES ASSUME TypeOK, LineInv PROVE ~(Len(got[s]) >= TooMany)
    OBVIOUS
  <2>1. Len(got[s]) <= MaxSeq + MaxSeq /\ Len(got[s]) \in Nat
    BY StreamIsBounded, LineFacts
  <2> QED
    BY <2>1, BusAssumption DEF TooMany
<1>2. s \in subs /\ Within(e, chan[s]) => Waits(s, e) \/ Settled(s, e)
  BY DEF Waits, Settled
<1> QED
  BY <1>1, <1>2, TypeCorrect, LineInvariant, PTL DEF Reaches

\* The induction over the natural numbers, for Reaches.
Counting(s, e) ==
    Reaches(s, e, 0) /\ (\A n \in Nat : Reaches(s, e, n) => Reaches(s, e, n + 1))
        => \A n \in Nat : Reaches(s, e, n)

\* What has been queued is sent to a client that reads, unless it goes.  The
\* first two hypotheses are those of the run; the third is not about the bus:
\* it is the induction over the natural numbers, for a formula of temporal
\* logic.  (StreamEvents' receive loop)
THEOREM QueuedGoesOut ==
    FairSpec /\ []GuardsSuffice /\ (\A s \in Streams, e \in 1..MaxSeq : Counting(s, e))
        => QueuedIsSent
<1> SUFFICES ASSUME NEW s \in Streams, NEW e \in 1..MaxSeq
             PROVE  Live /\ ReaderFairness /\ Counting(s, e) =>
                      ((s \in subs /\ Within(e, chan[s])) ~> Settled(s, e))
  BY Zenon DEF Live, QueuedIsSent, Within, Settled
<1>1. Live => Reaches(s, e, 0)
  BY ReachesNone DEF Live, FairSpec
<1>2. Live /\ ReaderFairness => \A n \in Nat : Reaches(s, e, n) => Reaches(s, e, n + 1)
  BY ReachesOneMore
<1>3. Live /\ ReaderFairness /\ Counting(s, e) => \A n \in Nat : Reaches(s, e, n)
  BY <1>1, <1>2 DEF Counting
<1>4. TooMany \in Nat
  BY BusAssumption DEF TooMany
<1>5. Live /\ ReaderFairness /\ Counting(s, e) => Reaches(s, e, TooMany)
  BY <1>3, <1>4
<1> QED
  BY <1>5, ReachedIsSent DEF Live, FairSpec

\* With two events, as in the run, the induction is five steps: any number of
\* streams with any capacities are sent what has been queued for them.
\* (StreamEvents' receive loop)
THEOREM TwoEventsGoOut ==
    ASSUME MaxSeq = 2
    PROVE  FairSpec /\ []GuardsSuffice => QueuedIsSent
<1> SUFFICES ASSUME NEW s \in Streams, NEW e \in 1..MaxSeq
             PROVE  Live /\ ReaderFairness =>
                      ((s \in subs /\ Within(e, chan[s])) ~> Settled(s, e))
  BY Zenon DEF Live, QueuedIsSent, Within, Settled
<1>1. Live => Reaches(s, e, 0)
  BY ReachesNone DEF Live, FairSpec
<1>2. Live /\ ReaderFairness => \A n \in Nat : Reaches(s, e, n) => Reaches(s, e, n + 1)
  BY ReachesOneMore
<1>3. 0 + 1 = 1 /\ 1 + 1 = 2 /\ 2 + 1 = 3 /\ 3 + 1 = 4 /\ 4 + 1 = 5 /\ TooMany = 5
  BY DEF TooMany
<1>4. 0 \in Nat /\ 1 \in Nat /\ 2 \in Nat /\ 3 \in Nat /\ 4 \in Nat
  OBVIOUS
<1>5. Live /\ ReaderFairness => Reaches(s, e, TooMany)
  BY <1>1, <1>2, <1>3, <1>4
<1> QED
  BY <1>5, ReachedIsSent DEF Live, FairSpec
=============================================================================
