--------------------------- MODULE EventFeedProofs ---------------------------
(***************************************************************************)
(* EventBus implements EventFeed, for any number of streams, any           *)
(* capacities and any number of events.  A step of the bus or of a handler *)
(* opens or closes a stream of the feed, emits an event, delivers one, or  *)
(* only moves events on their way, which the feed does not see.            *)
(*                                                                         *)
(* What is owed is the part of the line (EventBusProofs) that lies behind  *)
(* the copy and has not been sent.  The line being in order, the event     *)
(* that is sent is the oldest that is owed, and a full channel alone makes *)
(* ChanCap events owed, which is what passing a reader over takes.         *)
(***************************************************************************)
EXTENDS EventBusProofs, FiniteSetTheorems

Elements(q) == {q[i] : i \in 1..Len(q)}

\* What a handler holds is the rest of the copy, or one event at most.
TakenInv ==
    \A s \in Streams :
        IF Len(got[s]) < copied[s]
          THEN Len(todo[s]) = copied[s] - Len(got[s])
          ELSE Len(todo[s]) <= 1

FeedInv == TypeOK /\ LineInv /\ TakenInv

OwedMap == [s \in Streams |-> Owed(s)]

-----------------------------------------------------------------------------
(* Sequences                                                                *)

LEMMA LineParts ==
    ASSUME NEW g \in Seq(Nat), NEW t \in Seq(Nat), NEW c \in Seq(Nat)
    PROVE  /\ Len(g \o t \o c) = Len(g) + Len(t) + Len(c)
           /\ \A i \in 1..Len(t) : (g \o t \o c)[Len(g) + i] = t[i]
           /\ \A i \in 1..Len(c) : (g \o t \o c)[Len(g) + Len(t) + i] = c[i]
  OBVIOUS

LEMMA ElementsAppend ==
    ASSUME NEW q \in Seq(Nat), NEW e \in Nat
    PROVE  Elements(Append(q, e)) = Elements(q) \cup {e}
<1>1. /\ Len(Append(q, e)) = Len(q) + 1 /\ Len(q) \in Nat
      /\ Append(q, e)[Len(q) + 1] = e
      /\ \A i \in 1..Len(q) : Append(q, e)[i] = q[i]
  BY AppendProperties
<1>2. \A i \in 1..(Len(q) + 1) : i = Len(q) + 1 \/ i \in 1..Len(q)
  BY <1>1
<1>3. Len(q) + 1 \in 1..(Len(q) + 1) /\ \A i \in 1..Len(q) : i \in 1..(Len(q) + 1)
  BY <1>1
<1> QED
  BY <1>1, <1>2, <1>3, Zenon DEF Elements

LEMMA ElementsHeadTail ==
    ASSUME NEW q \in Seq(Nat), q # <<>>
    PROVE  Elements(q) = {Head(q)} \cup Elements(Tail(q))
<1>1. /\ Len(Tail(q)) = Len(q) - 1 /\ Len(q) \in Nat /\ Len(q) >= 1
      /\ Head(q) = q[1]
      /\ \A i \in 1..Len(Tail(q)) : Tail(q)[i] = q[i + 1]
  BY HeadTailProperties
<1>2. \A i \in 1..Len(q) : i = 1 \/ (i - 1 \in 1..Len(Tail(q)) /\ (i - 1) + 1 = i)
  BY <1>1
<1>3. 1 \in 1..Len(q) /\ \A i \in 1..Len(Tail(q)) : i + 1 \in 1..Len(q)
  BY <1>1
<1>4. ASSUME NEW x \in Elements(q)
      PROVE  x \in {Head(q)} \cup Elements(Tail(q))
  <2>1. PICK i \in 1..Len(q) : x = q[i]
    BY Zenon DEF Elements
  <2>2. CASE i = 1
    BY <1>1, <2>1, <2>2
  <2>3. CASE i # 1
    <3>1. i - 1 \in 1..Len(Tail(q)) /\ Tail(q)[i - 1] = x
      BY <1>1, <1>2, <2>1, <2>3
    <3> QED
      BY <3>1, Zenon DEF Elements
  <2> QED
    BY <2>2, <2>3
<1>5. Head(q) \in Elements(q)
  BY <1>1, <1>3, Zenon DEF Elements
<1>6. ASSUME NEW x \in Elements(Tail(q))
      PROVE  x \in Elements(q)
  <2>1. PICK i \in 1..Len(Tail(q)) : x = Tail(q)[i]
    BY <1>6, Zenon DEF Elements
  <2>2. i + 1 \in 1..Len(q) /\ x = q[i + 1]
    BY <1>1, <1>3, <2>1, Zenon
  <2> QED
    BY <2>2, Zenon DEF Elements
<1> QED
  BY <1>4, <1>5, <1>6, Zenon

LEMMA ElementsEmpty == Elements(<<>>) = {}
  BY DEF Elements

LEMMA ElementsOne == \A e : Elements(<<e>>) = {e}
<1> SUFFICES ASSUME NEW e PROVE Elements(<<e>>) = {e}
  OBVIOUS
<1>1. Len(<<e>>) = 1 /\ <<e>>[1] = e
  OBVIOUS
<1>2. \A i : i \in 1..1 <=> i = 1
  OBVIOUS
<1> QED
  BY <1>1, <1>2, Zenon DEF Elements

\* What is owed, and how a step changes it.
LEMMA OwedIs ==
    ASSUME NEW s
    PROVE  Owed(s) = Elements(chan[s]) \cup
                     (IF Len(got[s]) >= copied[s] THEN Elements(todo[s]) ELSE {})
  BY Zenon DEF Owed, Elements

-----------------------------------------------------------------------------
(* The order of what is owed                                                *)

\* Events in the channel are in order, and behind those that are taken.
LEMMA OwedInOrder ==
    ASSUME FeedInv, NEW s \in Streams
    PROVE  /\ \A i \in 1..Len(chan[s]) : chan[s][i] \in Nat /\ chan[s][i] <= seq
           /\ \A i, j \in 1..Len(chan[s]) : i < j => chan[s][i] < chan[s][j]
           /\ Len(got[s]) >= copied[s] =>
                \A i \in 1..Len(todo[s]) :
                    /\ todo[s][i] \in Nat /\ todo[s][i] <= seq
                    /\ \A j \in 1..Len(chan[s]) : todo[s][i] < chan[s][j]
<1> DEFINE L == Line(s)
           g == Len(got[s])
           t == Len(todo[s])
           c == Len(chan[s])
<1>1. /\ got[s] \in Seq(Nat) /\ todo[s] \in Seq(Nat) /\ chan[s] \in Seq(Nat)
      /\ copied[s] \in Nat
  BY DEF FeedInv, TypeOK
<1>2. g \in Nat /\ t \in Nat /\ c \in Nat
  BY <1>1
<1>3. /\ Len(L) = g + t + c
      /\ \A i \in 1..t : L[g + i] = todo[s][i]
      /\ \A i \in 1..c : L[g + t + i] = chan[s][i]
  BY <1>1, LineParts, Zenon DEF Line
<1>4. /\ \A i \in (copied[s] + 1)..Len(L) : L[i] <= seq
      /\ \A i, j \in (copied[s] + 1)..Len(L) : i < j => L[i] < L[j]
  BY Zenon DEF FeedInv, LineInv, OrderInv, Ordered
<1>5. IF g < copied[s] THEN t = copied[s] - g ELSE t <= 1
  BY Zenon DEF FeedInv, TakenInv
<1>6. /\ \A i \in 1..c : chan[s][i] \in Nat
      /\ \A i \in 1..t : todo[s][i] \in Nat
  <2>1. \A i \in 1..c : chan[s][i] \in Nat
    BY <1>1
  <2>2. \A i \in 1..t : todo[s][i] \in Nat
    BY <1>1
  <2> QED
    BY <2>1, <2>2
<1> HIDE DEF L, g, t, c
<1>7. \A i \in 1..c : g + t + i \in (copied[s] + 1)..Len(L)
  <2>1. copied[s] \in Nat
    BY <1>1
  <2> QED
    BY <2>1, <1>2, <1>3, <1>5
<1>8. \A i \in 1..c : chan[s][i] <= seq
  BY <1>3, <1>4, <1>7
<1>9. ASSUME NEW i \in 1..c, NEW j \in 1..c, i < j
      PROVE  chan[s][i] < chan[s][j]
  <2>1. g + t + i < g + t + j
    BY <1>2, <1>9
  <2>2. L[g + t + i] < L[g + t + j]
    BY <1>4, <1>7, <2>1
  <2> QED
    BY <1>3, <2>2
<1>10. ASSUME g >= copied[s], NEW i \in 1..t
       PROVE  todo[s][i] <= seq /\ \A j \in 1..c : todo[s][i] < chan[s][j]
  <2>1. g + i \in (copied[s] + 1)..Len(L)
    BY <1>1, <1>2, <1>3, <1>10
  <2>2. todo[s][i] <= seq
    BY <1>3, <1>4, <2>1
  <2>3. ASSUME NEW j \in 1..c
        PROVE  todo[s][i] < chan[s][j]
    <3>1. g + i < g + t + j
      BY <1>2
    <3>2. L[g + i] < L[g + t + j]
      BY <1>4, <1>7, <2>1, <3>1
    <3> QED
      BY <1>3, <3>2
  <2> QED
    BY <2>2, <2>3
<1> QED
  BY <1>6, <1>8, <1>9, <1>10 DEF g, t, c

\* Who has a full channel is owed as many events as it holds.
LEMMA FullIsOwed ==
    ASSUME FeedInv, NEW s \in Streams, ~HasRoom(s)
    PROVE  Cardinality(Owed(s)) >= ChanCap
<1> DEFINE n == Len(chan[s])
<1>1. chan[s] \in Seq(Nat) /\ n \in Nat /\ n >= ChanCap /\ ChanCap \in Nat /\ seq \in Nat
  BY BusAssumption DEF FeedInv, TypeOK, HasRoom
<1>2. Owed(s) \subseteq Nat /\ \A e \in Owed(s) : e <= seq
  BY OwedInOrder DEF Owed
<1>3. IsFiniteSet(Owed(s))
  BY <1>1, <1>2, FS_BoundedSetOfNaturals
<1>4. Cardinality(Owed(s)) \in Nat
  BY <1>3, FS_CardinalityType
<1>5. chan[s] \in [1..n -> Owed(s)]
  <2>1. chan[s] \in [1..n -> Nat]
    BY <1>1
  <2>2. \A i \in 1..n : chan[s][i] \in Owed(s)
    BY Zenon DEF Owed
  <2> QED
    BY <2>1, <2>2
<1>6. ASSUME NEW i \in 1..n, NEW j \in 1..n, chan[s][i] = chan[s][j]
      PROVE  i = j
  <2>1. chan[s][i] \in Nat /\ chan[s][j] \in Nat
    BY OwedInOrder
  <2>2. ~(i < j) /\ ~(j < i)
    BY <1>6, <2>1, OwedInOrder
  <2> QED
    BY <1>1, <2>2
<1>7. chan[s] \in Injection(1..n, Owed(s))
  BY <1>5, <1>6, Zenon DEF Injection, IsInjective
<1>8. Cardinality(1..n) <= Cardinality(Owed(s))
  BY <1>3, <1>7, FS_Injection
<1>9. Cardinality(1..n) = n
  BY <1>1, FS_Interval
<1> QED
  BY <1>1, <1>4, <1>8, <1>9

-----------------------------------------------------------------------------
(* What a handler holds                                                     *)

\* A step that leaves a stream's copy alone, and what it has taken and sent.
LEMMA OthersKeepTaken ==
    ASSUME NEW s, IF Len(got[s]) < copied[s]
                    THEN Len(todo[s]) = copied[s] - Len(got[s])
                    ELSE Len(todo[s]) <= 1,
           got'[s] = got[s], todo'[s] = todo[s], copied'[s] = copied[s]
    PROVE  IF Len(got'[s]) < copied'[s]
             THEN Len(todo'[s]) = copied'[s] - Len(got'[s])
             ELSE Len(todo'[s]) <= 1
  BY Zenon

LEMMA NextTaken ==
    ASSUME FeedInv, [Next]_vars
    PROVE  TakenInv'
<1> DEFINE Taken(s) == IF Len(got[s]) < copied[s]
                         THEN Len(todo[s]) = copied[s] - Len(got[s])
                         ELSE Len(todo[s]) <= 1
<1>1. /\ \A s \in Streams : Taken(s)
      /\ got \in [Streams -> Seq(Nat)] /\ todo \in [Streams -> Seq(Nat)]
      /\ copied \in [Streams -> Nat] /\ buffer \in Seq(Nat)
  BY Zenon DEF FeedInv, TypeOK, TakenInv
<1>2. (\A s \in Streams : Taken(s)') => TakenInv'
  BY Zenon DEF TakenInv
<1>3. \A s \in Streams : got'[s] = got[s] /\ todo'[s] = todo[s] /\ copied'[s] = copied[s]
                         => Taken(s)'
  BY <1>1, OthersKeepTaken, Zenon
<1> HIDE DEF Taken
<1>4. ASSUME NEW s \in Streams, Replay(s)
      PROVE  TakenInv'
  <2>1. /\ todo' = [todo EXCEPT ![s] = buffer] /\ got' = got
        /\ copied' = [copied EXCEPT ![s] = Len(buffer)]
        /\ pc[s] = "subscribed"
    BY <1>4 DEF Replay
  <2>2. got[s] = <<>>
    BY <2>1 DEF FeedInv, LineInv, PhaseInv
  <2>3. todo'[s] = buffer /\ copied'[s] = Len(buffer) /\ got'[s] = <<>>
    BY <1>1, <2>1, <2>2
  <2>4. Len(<<>>) = 0 /\ Len(buffer) \in Nat
    BY <1>1
  <2>5. Taken(s)'
    BY <2>3, <2>4 DEF Taken
  <2>6. \A q \in Streams : q # s =>
            got'[q] = got[q] /\ todo'[q] = todo[q] /\ copied'[q] = copied[q]
    BY <1>1, <2>1
  <2> QED
    BY <1>2, <1>3, <2>5, <2>6, Zenon
<1>5. ASSUME NEW s \in Streams, Send(s)
      PROVE  TakenInv'
  <2>1. /\ got' = [got EXCEPT ![s] = Append(got[s], Head(todo[s]))]
        /\ todo' = [todo EXCEPT ![s] = Tail(todo[s])]
        /\ todo[s] # <<>> /\ copied' = copied
    BY <1>5 DEF Send
  <2>2. /\ got'[s] = Append(got[s], Head(todo[s])) /\ todo'[s] = Tail(todo[s])
        /\ copied'[s] = copied[s]
    BY <1>1, <2>1
  <2>3. /\ Len(got[s]) \in Nat /\ Len(todo[s]) \in Nat /\ copied[s] \in Nat
    BY <1>1
  <2>4. Len(got'[s]) = Len(got[s]) + 1
    BY <1>1, <2>2, AppendProperties
  <2>5. Len(todo'[s]) = Len(todo[s]) - 1 /\ Len(todo[s]) # 0
    <3>1. todo[s] \in Seq(Nat)
      BY <1>1
    <3> QED
      BY <3>1, <2>1, <2>2, HeadTailProperties, EmptySeq
  <2>6. Taken(s)
    BY <1>1
  <2>7. Taken(s)'
    BY <2>2, <2>3, <2>4, <2>5, <2>6 DEF Taken
  <2>8. \A q \in Streams : q # s =>
            got'[q] = got[q] /\ todo'[q] = todo[q] /\ copied'[q] = copied[q]
    BY <1>1, <2>1
  <2> QED
    BY <1>2, <1>3, <2>7, <2>8, Zenon
<1>6. ASSUME NEW s \in Streams, Receive(s)
      PROVE  TakenInv'
  <2>1. /\ todo' = [todo EXCEPT ![s] = <<Head(chan[s])>>] /\ todo[s] = <<>>
        /\ got' = got /\ copied' = copied
    BY <1>6 DEF Receive, history
  <2>2. Len(<<Head(chan[s])>>) = 1 /\ Len(<<>>) = 0
    OBVIOUS
  <2>3. Len(todo'[s]) = 1 /\ Len(todo[s]) = 0
    BY <1>1, <2>1, <2>2, Zenon
  <2>4. Len(got[s]) \in Nat /\ copied[s] \in Nat
    BY <1>1
  <2>5. Taken(s)
    BY <1>1
  <2>6. Taken(s)'
    BY <2>1, <2>3, <2>4, <2>5 DEF Taken
  <2>7. \A q \in Streams : q # s =>
            got'[q] = got[q] /\ todo'[q] = todo[q] /\ copied'[q] = copied[q]
    BY <1>1, <2>1
  <2> QED
    BY <1>2, <1>3, <2>6, <2>7, Zenon
<1>7. ASSUME UNCHANGED <<got, todo, copied>>
      PROVE  TakenInv'
  BY <1>2, <1>3, <1>7
<1>8. CASE Publish
  BY <1>7, <1>8 DEF Publish, handler
<1>9. ASSUME NEW s \in Streams,
             \/ Subscribe(s) \/ NoReplay(s) \/ SeeDone(s) \/ SendFails(s)
             \/ Unsubscribe(s) \/ Disconnect(s)
      PROVE  TakenInv'
  BY <1>7, <1>9 DEF Subscribe, NoReplay, SeeDone, SendFails, Unsubscribe, Disconnect,
                    history
<1>10. CASE UNCHANGED vars
  BY <1>7, <1>10 DEF vars
<1> QED
  BY <1>4, <1>5, <1>6, <1>8, <1>9, <1>10 DEF Next, Handler

LEMMA InitTaken == Init => TakenInv
<1>1. ASSUME Init, NEW s \in Streams
      PROVE  ~(Len(got[s]) < copied[s]) /\ Len(todo[s]) <= 1
  <2>1. got[s] = <<>> /\ todo[s] = <<>> /\ copied[s] = 0
    BY <1>1 DEF Init
  <2>2. Len(got[s]) = 0 /\ Len(todo[s]) = 0
    BY <2>1
  <2> QED
    BY <2>1, <2>2
<1> QED
  BY <1>1, Zenon DEF TakenInv

LEMMA FeedInvariant == Spec => []FeedInv
<1>1. Init => TakenInv
  BY InitTaken
<1>2. TypeOK /\ LineInv /\ TakenInv /\ [Next]_vars => TakenInv'
  BY NextTaken DEF FeedInv
<1>3. FeedInv <=> TypeOK /\ LineInv /\ TakenInv
  BY DEF FeedInv
<1> QED
  BY <1>1, <1>2, <1>3, TypeCorrect, LineInvariant, PTL DEF Spec

-----------------------------------------------------------------------------
(* Steps of the feed                                                        *)

\* A step that moves no event of s as far as the feed can see.
LEMMA SameOwed ==
    ASSUME NEW s, chan'[s] = chan[s], todo'[s] = todo[s], got'[s] = got[s],
           copied'[s] = copied[s]
    PROVE  Owed(s)' = Owed(s)
  BY Zenon DEF Owed

LEMMA SameFeed ==
    ASSUME seq' = seq, subs' = subs, \A s \in Streams : Owed(s)' = Owed(s)
    PROVE  UNCHANGED Feed!vars
  BY DEF Feed!vars

\* The feed counts as FiniteSets does.
LEMMA SameCardinality == \A S : Feed!Cardinality(S) = Cardinality(S)
  BY DEF Feed!Cardinality, Cardinality

\* Publish emits, and passes over who has a full channel.
LEMMA PublishEmits ==
    ASSUME FeedInv, Publish
    PROVE  Feed!Emit
<1> DEFINE passed == {s \in subs : ~HasRoom(s)}
<1>1. /\ seq' = seq + 1 /\ UNCHANGED <<subs, todo, got, copied>>
      /\ chan' = [s \in Streams |-> IF s \in subs /\ HasRoom(s)
                                      THEN Append(chan[s], seq + 1)
                                      ELSE chan[s]]
  BY DEF Publish, handler
<1>2. subs \subseteq Streams /\ seq + 1 \in Nat /\ \A s \in Streams : chan[s] \in Seq(Nat)
  BY BusAssumption DEF FeedInv, TypeOK
<1>3. ASSUME NEW s \in Streams
      PROVE  Owed(s)' = IF s \in subs \ passed THEN Owed(s) \cup {seq + 1} ELSE Owed(s)
  <2>1. CASE s \in subs /\ HasRoom(s)
    <3>1. chan'[s] = Append(chan[s], seq + 1)
      BY <1>1, <2>1
    <3>2. Elements(chan'[s]) = Elements(chan[s]) \cup {seq + 1}
      BY <1>2, <3>1, ElementsAppend, Zenon
    <3>3. Owed(s)' = Elements(chan'[s]) \cup
                     (IF Len(got'[s]) >= copied'[s] THEN Elements(todo'[s]) ELSE {})
      BY Zenon DEF Owed, Elements
    <3>4. got'[s] = got[s] /\ todo'[s] = todo[s] /\ copied'[s] = copied[s]
      BY <1>1
    <3>5. Owed(s)' = Owed(s) \cup {seq + 1}
      BY <3>2, <3>3, <3>4, OwedIs, Zenon
    <3> QED
      BY <2>1, <3>5, Zenon
  <2>2. CASE ~(s \in subs /\ HasRoom(s))
    <3>1. chan'[s] = chan[s]
      BY <1>1, <2>2
    <3>2. Owed(s)' = Owed(s)
      BY <1>1, <3>1, SameOwed
    <3> QED
      BY <2>2, <3>2, Zenon
  <2> QED
    BY <2>1, <2>2
<1>4. passed \in SUBSET {s \in subs : Feed!Cardinality(OwedMap[s]) >= ChanCap}
  <2>1. ASSUME NEW s \in subs, ~HasRoom(s)
        PROVE  Feed!Cardinality(OwedMap[s]) >= ChanCap
    <3>1. s \in Streams
      BY <1>2
    <3>2. Cardinality(Owed(s)) >= ChanCap /\ OwedMap[s] = Owed(s)
      BY <2>1, <3>1, FullIsOwed DEF OwedMap
    <3> QED
      BY <3>2, SameCardinality, Zenon
  <2> QED
    BY <2>1, Zenon
<1> HIDE DEF passed
<1>5. OwedMap' = [s \in Streams |-> IF s \in subs \ passed
                                      THEN OwedMap[s] \cup {seq + 1} ELSE OwedMap[s]]
  BY <1>3, Zenon DEF OwedMap
<1>6. subs' = subs
  BY <1>1
<1> QED
  BY <1>1, <1>4, <1>5, <1>6, Zenon DEF Feed!Emit, OwedMap

\* A handler subscribes: nothing is owed yet.
LEMMA SubscribeOpens ==
    ASSUME FeedInv, NEW s \in Streams, Subscribe(s)
    PROVE  Feed!Open(s)
<1>1. /\ pc[s] = "idle" /\ subs' = subs \cup {s}
      /\ UNCHANGED <<seq, chan, todo, got, copied>>
  BY DEF Subscribe
<1>2. chan[s] = <<>> /\ todo[s] = <<>> /\ s \notin subs
  BY <1>1 DEF FeedInv, LineInv, PhaseInv, Open
<1>3. Owed(s) = {}
  BY <1>2, OwedIs, ElementsEmpty, Zenon
<1>4. \A q \in Streams : Owed(q)' = Owed(q)
  BY <1>1, SameOwed
<1>5. OwedMap' = OwedMap /\ OwedMap[s] = {}
  BY <1>3, <1>4, Zenon DEF OwedMap
<1> QED
  BY <1>1, <1>2, <1>5, Zenon DEF Feed!Open, OwedMap

\* A handler unsubscribes, whatever it still holds.
LEMMA UnsubscribeCloses ==
    ASSUME FeedInv, NEW s \in Streams, Unsubscribe(s)
    PROVE  Feed!Close(s)
<1>1. /\ pc[s] = "leaving" /\ subs' = subs \ {s}
      /\ UNCHANGED <<seq, chan, todo, got, copied>>
  BY DEF Unsubscribe, history
<1>2. s \in subs
  BY <1>1 DEF FeedInv, LineInv, PhaseInv, Open
<1>3. \A q \in Streams : Owed(q)' = Owed(q)
  BY <1>1, SameOwed
<1>4. OwedMap' = OwedMap
  BY <1>3, Zenon DEF OwedMap
<1> QED
  BY <1>1, <1>2, <1>4, Zenon DEF Feed!Close, OwedMap

\* The copy of the buffer is not part of the feed.
LEMMA ReplayIsUnseen ==
    ASSUME FeedInv, NEW s \in Streams, Replay(s)
    PROVE  UNCHANGED Feed!vars
<1>1. /\ pc[s] = "subscribed"
      /\ todo' = [todo EXCEPT ![s] = buffer] /\ copied' = [copied EXCEPT ![s] = Len(buffer)]
      /\ seq' = seq /\ subs' = subs /\ chan' = chan /\ got' = got
  BY DEF Replay, bus
<1>2. got[s] = <<>> /\ todo[s] = <<>>
  BY <1>1 DEF FeedInv, LineInv, PhaseInv
<1>3. /\ buffer \in Seq(Nat) /\ todo \in [Streams -> Seq(Nat)]
      /\ copied \in [Streams -> Nat]
  BY DEF FeedInv, TypeOK
<1>4. todo'[s] = buffer /\ copied'[s] = Len(buffer)
  BY <1>1, <1>3
<1>5. Owed(s) = Elements(chan[s])
  BY <1>2, OwedIs, ElementsEmpty, Zenon
<1>6. Owed(s)' = Elements(chan[s])
  <2>1. Owed(s)' = Elements(chan'[s]) \cup
                   (IF Len(got'[s]) >= copied'[s] THEN Elements(todo'[s]) ELSE {})
    BY Zenon DEF Owed, Elements
  <2>2. Len(got'[s]) = 0
    BY <1>1, <1>2
  <2>3. CASE buffer = <<>>
    BY <1>1, <1>4, <2>1, <2>3, ElementsEmpty, Zenon
  <2>4. CASE buffer # <<>>
    <3>1. Len(buffer) \in Nat /\ Len(buffer) # 0
      BY <1>3, <2>4
    <3>2. ~(Len(got'[s]) >= copied'[s])
      BY <1>4, <2>2, <3>1
    <3> QED
      BY <1>1, <2>1, <3>2, Zenon
  <2> QED
    BY <2>3, <2>4
<1>7. ASSUME NEW q \in Streams
      PROVE  Owed(q)' = Owed(q)
  <2>1. CASE q = s
    BY <1>5, <1>6, <2>1
  <2>2. CASE q # s
    <3>1. todo'[q] = todo[q] /\ copied'[q] = copied[q]
      BY <1>1, <1>3, <2>2
    <3> QED
      BY <1>1, <3>1, SameOwed
  <2> QED
    BY <2>1, <2>2
<1> QED
  BY <1>1, <1>7, SameFeed

\* An event goes from the channel to the handler: it is owed as before.
LEMMA ReceiveIsUnseen ==
    ASSUME FeedInv, NEW s \in Streams, Receive(s)
    PROVE  UNCHANGED Feed!vars
<1>1. /\ todo[s] = <<>> /\ chan[s] # <<>>
      /\ todo' = [todo EXCEPT ![s] = <<Head(chan[s])>>]
      /\ chan' = [chan EXCEPT ![s] = Tail(chan[s])]
      /\ seq' = seq /\ subs' = subs /\ got' = got /\ copied' = copied
  BY DEF Receive, history
<1>2. /\ todo \in [Streams -> Seq(Nat)] /\ chan \in [Streams -> Seq(Nat)]
  BY DEF FeedInv, TypeOK
<1>3. todo'[s] = <<Head(chan[s])>> /\ chan'[s] = Tail(chan[s])
  BY <1>1, <1>2
<1>4. Len(got[s]) >= copied[s]
  <2>1. Len(got[s]) \in Nat /\ copied[s] \in Nat
    BY DEF FeedInv, TypeOK
  <2>2. Len(todo[s]) = 0
    BY <1>1
  <2>3. IF Len(got[s]) < copied[s]
          THEN Len(todo[s]) = copied[s] - Len(got[s]) ELSE Len(todo[s]) <= 1
    BY Zenon DEF FeedInv, TakenInv
  <2> QED
    BY <2>1, <2>2, <2>3
<1>5. Owed(s) = Elements(chan[s])
  BY <1>1, OwedIs, ElementsEmpty, Zenon
<1>6. Owed(s)' = Elements(Tail(chan[s])) \cup {Head(chan[s])}
  <2>1. Owed(s)' = Elements(chan'[s]) \cup
                   (IF Len(got'[s]) >= copied'[s] THEN Elements(todo'[s]) ELSE {})
    BY Zenon DEF Owed, Elements
  <2> QED
    BY <1>1, <1>3, <1>4, <2>1, ElementsOne, Zenon
<1>7. Elements(chan[s]) = {Head(chan[s])} \cup Elements(Tail(chan[s]))
  BY <1>1, <1>2, ElementsHeadTail, Zenon
<1>8. ASSUME NEW q \in Streams
      PROVE  Owed(q)' = Owed(q)
  <2>1. CASE q = s
    BY <1>5, <1>6, <1>7, <2>1, Zenon
  <2>2. CASE q # s
    <3>1. todo'[q] = todo[q] /\ chan'[q] = chan[q]
      BY <1>1, <1>2, <2>2
    <3> QED
      BY <1>1, <3>1, SameOwed
  <2> QED
    BY <2>1, <2>2
<1> QED
  BY <1>1, <1>8, SameFeed

\* Of k events in the copy, g are sent and t taken: once one more is sent and
\* the copy is through, nothing is left of what was taken.
LEMMA LastOfCopy ==
    ASSUME NEW k \in Nat, NEW g \in Nat, NEW t \in Nat, NEW g1, NEW t1,
           IF g < k THEN t = k - g ELSE t <= 1,
           g1 = g + 1, t1 = t - 1, t >= 1, g1 >= k
    PROVE  t1 = 0
  OBVIOUS

\* A send delivers the oldest event that is owed, or one of the copy, which the
\* feed does not see.
LEMMA SendDelivers ==
    ASSUME FeedInv, NEW s \in Streams, Send(s)
    PROVE  Feed!Deliver(s) \/ UNCHANGED Feed!vars
<1>1. /\ pc[s] = "streaming" /\ todo[s] # <<>>
      /\ got' = [got EXCEPT ![s] = Append(got[s], Head(todo[s]))]
      /\ todo' = [todo EXCEPT ![s] = Tail(todo[s])]
      /\ seq' = seq /\ subs' = subs /\ chan' = chan /\ copied' = copied
  BY DEF Send, bus
<1>2. /\ todo \in [Streams -> Seq(Nat)] /\ got \in [Streams -> Seq(Nat)]
      /\ copied[s] \in Nat /\ todo[s] \in Seq(Nat) /\ got[s] \in Seq(Nat)
  BY DEF FeedInv, TypeOK
<1>3. got'[s] = Append(got[s], Head(todo[s])) /\ todo'[s] = Tail(todo[s])
  BY <1>1, <1>2
<1>4. Len(got'[s]) = Len(got[s]) + 1 /\ Len(got[s]) \in Nat
  BY <1>2, <1>3, AppendProperties
<1>5. /\ Len(todo'[s]) = Len(todo[s]) - 1 /\ Len(todo[s]) \in Nat /\ Len(todo[s]) >= 1
      /\ Tail(todo[s]) \in Seq(Nat) /\ Head(todo[s]) = todo[s][1] /\ Head(todo[s]) \in Nat
  BY <1>1, <1>2, <1>3, HeadTailProperties
<1>6. IF Len(got[s]) < copied[s]
        THEN Len(todo[s]) = copied[s] - Len(got[s]) ELSE Len(todo[s]) <= 1
  BY Zenon DEF FeedInv, TakenInv
<1>7. Owed(s)' = Elements(chan[s]) \cup
                 (IF Len(got'[s]) >= copied[s] THEN Elements(Tail(todo[s])) ELSE {})
  <2>1. Owed(s)' = Elements(chan'[s]) \cup
                   (IF Len(got'[s]) >= copied'[s] THEN Elements(todo'[s]) ELSE {})
    BY Zenon DEF Owed, Elements
  <2> QED
    BY <1>1, <1>3, <2>1, Zenon
<1>8. Len(got'[s]) >= copied[s] => Elements(Tail(todo[s])) = {}
  <2>1. Len(got'[s]) >= copied[s] => Len(todo'[s]) = 0
    <3>1. copied[s] \in Nat /\ Len(got[s]) \in Nat /\ Len(todo[s]) \in Nat
      BY <1>2, <1>4, <1>5
    <3>2. Len(todo'[s]) = Len(todo[s]) - 1 /\ Len(todo[s]) >= 1
      BY <1>5
    <3> QED
      BY <3>1, <3>2, <1>4, <1>6, LastOfCopy, Zenon
  <2>2. ASSUME Len(Tail(todo[s])) = 0
        PROVE  Tail(todo[s]) = <<>>
    BY <1>5, <2>2, EmptySeq
  <2> QED
    BY <1>3, <2>1, <2>2, ElementsEmpty, Zenon
<1>9. Owed(s)' = Elements(chan[s])
  BY <1>7, <1>8, Zenon
<1>10. ASSUME NEW q \in Streams, q # s
       PROVE  Owed(q)' = Owed(q)
  <2>1. todo'[q] = todo[q] /\ got'[q] = got[q]
    BY <1>1, <1>2, <1>10
  <2> QED
    BY <1>1, <2>1, SameOwed
<1>11. CASE Len(got[s]) < copied[s]
  <2>1. ~(Len(got[s]) >= copied[s])
    BY <1>2, <1>4, <1>11
  <2>2. Owed(s) = Elements(chan[s])
    BY <2>1, OwedIs, Zenon
  <2>3. \A q \in Streams : Owed(q)' = Owed(q)
    BY <1>9, <1>10, <2>2, Zenon
  <2> QED
    BY <1>1, <2>3, SameFeed
<1>12. CASE ~(Len(got[s]) < copied[s])
  <2> DEFINE e == Head(todo[s])
  <2>1. Len(got[s]) >= copied[s] /\ Len(got'[s]) >= copied[s]
    BY <1>2, <1>4, <1>12
  <2>2. Elements(todo[s]) = {e}
    <3>1. Elements(todo[s]) = {Head(todo[s])} \cup Elements(Tail(todo[s]))
      BY <1>1, <1>2, ElementsHeadTail, Zenon
    <3> QED
      BY <1>8, <2>1, <3>1, Zenon
  <2>3. Owed(s) = Elements(chan[s]) \cup {e}
    BY <2>1, <2>2, OwedIs, Zenon
  <2>4. \A j \in 1..Len(chan[s]) : e < chan[s][j] /\ chan[s][j] \in Nat
    <3>1. 1 \in 1..Len(todo[s])
      BY <1>5
    <3> QED
      BY <1>5, <2>1, <3>1, OwedInOrder, Zenon
  <2>5. e \in Nat
    BY <1>5
  <2> HIDE DEF e
  <2>6. \A f \in Elements(chan[s]) : e <= f /\ f # e
    BY <2>4, <2>5 DEF Elements
  <2>7. e <= e
    BY <2>5
  <2>8. Elements(chan[s]) = Owed(s) \ {e}
    BY <2>3, <2>6, Zenon
  <2>9. e \in OwedMap[s] /\ \A f \in OwedMap[s] : e <= f
    BY <2>3, <2>6, <2>7, Zenon DEF OwedMap
  <2>10. OwedMap' = [OwedMap EXCEPT ![s] = OwedMap[s] \ {e}]
    <3>1. \A q \in Streams : Owed(q)' = IF q = s THEN Owed(s) \ {e} ELSE Owed(q)
      BY <1>9, <1>10, <2>8, Zenon
    <3> QED
      BY <3>1, Zenon DEF OwedMap
  <2>11. s \in subs
    BY <1>1 DEF FeedInv, LineInv, PhaseInv, Open
  <2>12. UNCHANGED <<seq, subs>>
    BY <1>1
  <2>13. Feed!Deliver(s)
    BY <2>9, <2>10, <2>11, <2>12, Zenon DEF Feed!Deliver, OwedMap
  <2> QED
    BY <2>13
<1> QED
  BY <1>11, <1>12

\* Every behaviour of the bus and its handlers is one of the feed: live events
\* arrive oldest first and once, and one is lost only to a reader ChanCap events
\* behind.  (events.go Bus, daemon.go StreamEvents)
THEOREM BusImplementsFeed == Spec => ImplementsFeed
<1>1. Init => Feed!Init
  <2> SUFFICES ASSUME Init PROVE Feed!Init
    OBVIOUS
  <2>1. seq = 0 /\ subs = {}
    BY DEF Init
  <2>2. ASSUME NEW s \in Streams
        PROVE  Owed(s) = {}
    <3>1. chan[s] = <<>> /\ todo[s] = <<>>
      BY DEF Init
    <3> QED
      BY <3>1, OwedIs, ElementsEmpty, Zenon
  <2> QED
    BY <2>1, <2>2, Zenon DEF Feed!Init
<1>2. FeedInv /\ [Next]_vars => [Feed!Next]_(Feed!vars)
  <2> SUFFICES ASSUME FeedInv, [Next]_vars PROVE Feed!Next \/ UNCHANGED Feed!vars
    OBVIOUS
  <2>1. CASE Publish
    BY <2>1, PublishEmits, Zenon DEF Feed!Next
  <2>2. ASSUME NEW s \in Streams, Subscribe(s)
        PROVE  Feed!Next
    BY <2>2, SubscribeOpens, Zenon DEF Feed!Next
  <2>3. ASSUME NEW s \in Streams, Unsubscribe(s)
        PROVE  Feed!Next
    BY <2>3, UnsubscribeCloses, Zenon DEF Feed!Next
  <2>4. ASSUME NEW s \in Streams, Send(s)
        PROVE  Feed!Next \/ UNCHANGED Feed!vars
    BY <2>4, SendDelivers, Zenon DEF Feed!Next
  <2>5. ASSUME NEW s \in Streams, Replay(s) \/ Receive(s)
        PROVE  UNCHANGED Feed!vars
    BY <2>5, ReplayIsUnseen, ReceiveIsUnseen
  <2>6. ASSUME UNCHANGED <<seq, subs, chan, todo, got, copied>>
        PROVE  UNCHANGED Feed!vars
    BY <2>6, SameOwed, SameFeed
  <2>7. ASSUME NEW s \in Streams,
               NoReplay(s) \/ SeeDone(s) \/ SendFails(s) \/ Disconnect(s)
        PROVE  UNCHANGED Feed!vars
    BY <2>6, <2>7 DEF NoReplay, SeeDone, SendFails, Disconnect, bus, history
  <2>8. CASE UNCHANGED vars
    BY <2>6, <2>8 DEF vars
  <2> QED
    BY <2>1, <2>2, <2>3, <2>4, <2>5, <2>7, <2>8 DEF Next, Handler
<1> QED
  BY <1>1, <1>2, FeedInvariant, PTL DEF Spec, ImplementsFeed, Feed!Spec
=============================================================================
