------------------------------ MODULE EventBus ------------------------------
(***************************************************************************)
(* The daemon's in-memory event bus (daemon/internal/events/events.go) and *)
(* the StreamEvents handlers that read it (daemon/internal/api/daemon.go). *)
(*                                                                         *)
(* An event is its sequence number: level, component, name and fields are  *)
(* carried through unchanged and nothing below depends on them.  Every     *)
(* method of the bus holds its mutex from the first to the last access, so *)
(* Publish, Subscribe, Snapshot and unsubscribe are single steps.  What a  *)
(* handler does between them is not: it subscribes, copies the replay      *)
(* buffer, sends the copy one event at a time and only then starts to      *)
(* receive from its channel, while other goroutines keep publishing.       *)
(***************************************************************************)
EXTENDS Naturals, Sequences

CONSTANTS
    Streams,    \* the StreamEvents calls
    BufMax,     \* capacity of the replay buffer (256 in main.go)
    ChanCap,    \* capacity of a subscriber's channel (64)
    MaxSeq      \* bound of the model: the daemon publishes MaxSeq events

ASSUME BusAssumption ==
    /\ BufMax \in Nat
    /\ ChanCap \in Nat \ {0}
    /\ MaxSeq \in Nat

VARIABLES
    \* Bus
    seq,        \* number of the last published event
    buffer,     \* the retained events, oldest first
    subs,       \* the registered channels, named by the call that owns them
    chan,       \* chan[s]: what call s's channel holds
    \* StreamEvents, one handler per call
    pc,         \* pc[s]: where the handler is
    replay,     \* replay[s]: the request asked for the retained events
    todo,       \* todo[s]: events the handler has taken and not yet sent
    gone,       \* gone[s]: the client has disconnected (the context is done)
    \* History: what a client can tell about its stream
    got,        \* got[s]: the events sent to the client, in order
    lost,       \* lost[s]: events published while s's channel was full
    joined,     \* joined[s]: seq when s subscribed
    copied,     \* copied[s]: how many events its replay copy had
    copiedAt    \* copiedAt[s]: seq when the copy was made

bus     == <<seq, buffer, subs, chan>>
handler == <<pc, replay, todo, gone>>
history == <<got, lost, joined, copied, copiedAt>>
vars    == <<seq, buffer, subs, chan, pc, replay, todo, gone,
             got, lost, joined, copied, copiedAt>>

Init ==
    /\ seq = 0
    /\ buffer = <<>>
    /\ subs = {}
    /\ chan = [s \in Streams |-> <<>>]
    /\ pc = [s \in Streams |-> "idle"]
    /\ replay = [s \in Streams |-> FALSE]
    /\ todo = [s \in Streams |-> <<>>]
    /\ gone = [s \in Streams |-> FALSE]
    /\ got = [s \in Streams |-> <<>>]
    /\ lost = [s \in Streams |-> {}]
    /\ joined = [s \in Streams |-> 0]
    /\ copied = [s \in Streams |-> 0]
    /\ copiedAt = [s \in Streams |-> 0]

-----------------------------------------------------------------------------
(* The bus                                                                  *)

\* Fault: the trim keeps the oldest events.
NewestKeepsOldest(b) == IF Len(b) > BufMax THEN SubSeq(b, 1, BufMax) ELSE b

\* The buffer b once its oldest events are cut off to fit the capacity.
Newest(b) ==
    IF Len(b) > BufMax THEN SubSeq(b, Len(b) - BufMax + 1, Len(b)) ELSE b

\* Fault: the capacity is exceeded by one.
HasRoomForOneMore(s) == Len(chan[s]) <= ChanCap

\* A send to a channel that has room succeeds, any other is skipped.
HasRoom(s) == Len(chan[s]) < ChanCap

\* Fault: a full channel loses its oldest event instead of the new one.
PublishDisplaces ==
    /\ seq < MaxSeq
    /\ seq' = seq + 1
    /\ buffer' = Newest(Append(buffer, seq + 1))
    /\ chan' = [s \in Streams |->
                  CASE s \notin subs -> chan[s]
                    [] s \in subs /\ HasRoom(s) -> Append(chan[s], seq + 1)
                    [] OTHER -> Append(Tail(chan[s]), seq + 1)]
    /\ lost' = [s \in Streams |-> IF s \in subs /\ ~HasRoom(s)
                                    THEN lost[s] \cup {Head(chan[s])}
                                    ELSE lost[s]]
    /\ UNCHANGED <<subs, handler, got, joined, copied, copiedAt>>

\* Fault: the subscription takes effect only once the copy has been sent.
PublishSkipsReplaying ==
    /\ seq < MaxSeq
    /\ seq' = seq + 1
    /\ buffer' = Newest(Append(buffer, seq + 1))
    /\ chan' = [s \in Streams |-> IF s \in subs /\ HasRoom(s) /\ todo[s] = <<>>
                                    THEN Append(chan[s], seq + 1)
                                    ELSE chan[s]]
    /\ UNCHANGED <<subs, handler, history>>

\* Fault: the send to a subscriber waits for room.
PublishWaits ==
    /\ seq < MaxSeq
    /\ \A s \in subs : HasRoom(s)
    /\ seq' = seq + 1
    /\ buffer' = Newest(Append(buffer, seq + 1))
    /\ chan' = [s \in Streams |-> IF s \in subs THEN Append(chan[s], seq + 1)
                                                ELSE chan[s]]
    /\ UNCHANGED <<subs, handler, history>>

\* Publish stamps the event, retains it and offers it to every subscriber
\* without waiting for any of them.
Publish ==
    /\ seq < MaxSeq
    /\ seq' = seq + 1
    /\ buffer' = Newest(Append(buffer, seq + 1))
    /\ chan' = [s \in Streams |-> IF s \in subs /\ HasRoom(s)
                                    THEN Append(chan[s], seq + 1)
                                    ELSE chan[s]]
    /\ lost' = [s \in Streams |-> IF s \in subs /\ ~HasRoom(s)
                                    THEN lost[s] \cup {seq + 1}
                                    ELSE lost[s]]
    /\ UNCHANGED <<subs, handler, got, joined, copied, copiedAt>>

-----------------------------------------------------------------------------
(* One StreamEvents call                                                    *)

\* The call arrives and registers a fresh channel.
Subscribe(s) ==
    /\ pc[s] = "idle"
    /\ pc' = [pc EXCEPT ![s] = "subscribed"]
    /\ \E r \in BOOLEAN : replay' = [replay EXCEPT ![s] = r]
    /\ subs' = subs \cup {s}
    /\ joined' = [joined EXCEPT ![s] = seq]
    /\ UNCHANGED <<seq, buffer, chan, todo, gone, got, lost, copied, copiedAt>>

\* Snapshot: the handler takes a copy of the whole buffer, to be sent first.
Replay(s) ==
    /\ pc[s] = "subscribed"
    /\ replay[s]
    /\ pc' = [pc EXCEPT ![s] = "streaming"]
    /\ todo' = [todo EXCEPT ![s] = buffer]
    /\ copied' = [copied EXCEPT ![s] = Len(buffer)]
    /\ copiedAt' = [copiedAt EXCEPT ![s] = seq]
    /\ UNCHANGED <<bus, replay, gone, got, lost, joined>>

\* Without replay the handler goes straight to its select loop.
NoReplay(s) ==
    /\ pc[s] = "subscribed"
    /\ ~replay[s]
    /\ pc' = [pc EXCEPT ![s] = "streaming"]
    /\ copiedAt' = [copiedAt EXCEPT ![s] = joined[s]]
    /\ UNCHANGED <<bus, replay, todo, gone, got, lost, joined, copied>>

\* stream.Send returns nil.  It also may when the client has just gone.
Send(s) ==
    /\ pc[s] = "streaming"
    /\ todo[s] # <<>>
    /\ got' = [got EXCEPT ![s] = Append(got[s], Head(todo[s]))]
    /\ todo' = [todo EXCEPT ![s] = Tail(todo[s])]
    /\ UNCHANGED <<bus, pc, replay, gone, lost, joined, copied, copiedAt>>

\* Fault: live events are taken before the copy has been sent.
ReceiveEarly(s) ==
    /\ pc[s] = "streaming"
    /\ chan[s] # <<>>
    /\ todo' = [todo EXCEPT ![s] = <<Head(chan[s])>> \o todo[s]]
    /\ chan' = [chan EXCEPT ![s] = Tail(chan[s])]
    /\ UNCHANGED <<seq, buffer, subs, pc, replay, gone, history>>

\* The select loop, reached when nothing is left to send: an event is there.
Receive(s) ==
    /\ pc[s] = "streaming"
    /\ todo[s] = <<>>
    /\ chan[s] # <<>>
    /\ todo' = [todo EXCEPT ![s] = <<Head(chan[s])>>]
    /\ chan' = [chan EXCEPT ![s] = Tail(chan[s])]
    /\ UNCHANGED <<seq, buffer, subs, pc, replay, gone, history>>

\* Fault: the handler gives up whenever there is nothing to send.
SeeDoneAnyway(s) ==
    /\ pc[s] = "streaming"
    /\ todo[s] = <<>>
    /\ pc' = [pc EXCEPT ![s] = "leaving"]
    /\ UNCHANGED <<bus, replay, todo, gone, history>>

\* The select loop: the context is done.
SeeDone(s) ==
    /\ pc[s] = "streaming"
    /\ todo[s] = <<>>
    /\ gone[s]
    /\ pc' = [pc EXCEPT ![s] = "leaving"]
    /\ UNCHANGED <<bus, replay, todo, gone, history>>

\* Fault: this return does not pass by the unsubscribe.
SendFailsAndReturns(s) ==
    /\ pc[s] = "streaming"
    /\ todo[s] # <<>>
    /\ gone[s]
    /\ pc' = [pc EXCEPT ![s] = "closed"]
    /\ UNCHANGED <<bus, replay, todo, gone, history>>

\* stream.Send returns an error: the client is gone.
SendFails(s) ==
    /\ pc[s] = "streaming"
    /\ todo[s] # <<>>
    /\ gone[s]
    /\ pc' = [pc EXCEPT ![s] = "leaving"]
    /\ UNCHANGED <<bus, replay, todo, gone, history>>

\* The deferred unsubscribe runs and the handler returns.
Unsubscribe(s) ==
    /\ pc[s] = "leaving"
    /\ pc' = [pc EXCEPT ![s] = "closed"]
    /\ subs' = subs \ {s}
    /\ UNCHANGED <<seq, buffer, chan, replay, todo, gone, history>>

\* The client hangs up at any moment of an open call.
Disconnect(s) ==
    /\ pc[s] \in {"subscribed", "streaming"}
    /\ ~gone[s]
    /\ gone' = [gone EXCEPT ![s] = TRUE]
    /\ UNCHANGED <<bus, pc, replay, todo, history>>

\* What the handler's own goroutine does.
Handler(s) ==
    \/ Replay(s)
    \/ NoReplay(s)
    \/ Send(s)
    \/ Receive(s)
    \/ SeeDone(s)
    \/ SendFails(s)
    \/ Unsubscribe(s)

Next ==
    \/ Publish
    \/ \E s \in Streams : Subscribe(s) \/ Handler(s) \/ Disconnect(s)

Spec == Init /\ [][Next]_vars

\* A runnable goroutine runs, and Go's select, which draws among its ready
\* cases, does not pass over a done context for ever.  A Send that the client
\* holds up may stay blocked until the context is done.
Scheduled(s) ==
    /\ WF_vars(Replay(s))
    /\ WF_vars(NoReplay(s))
    /\ WF_vars(Receive(s))
    /\ SF_vars(SeeDone(s))
    /\ WF_vars(SendFails(s))
    /\ WF_vars(Unsubscribe(s))

HandlerFairness == \A s \in Streams : Scheduled(s)

\* A client that stays connected reads what it is sent (the loop of the CLI's
\* events command).
Reads(s) == WF_vars(Send(s))

ReaderFairness == \A s \in Streams : Reads(s)

\* The daemon goroutines that have something to publish get to it.
PublisherFairness == WF_vars(Publish)

FairSpec == Spec /\ HandlerFairness

-----------------------------------------------------------------------------
(* Properties                                                               *)

Phases == {"idle", "subscribed", "streaming", "leaving", "closed"}

\* Every variable holds a value of its type and the two bounded queues keep
\* their bounds.  (events.go Bus, daemon.go StreamEvents)
TypeOK ==
    /\ seq \in 0..MaxSeq
    /\ buffer \in Seq(Nat) /\ Len(buffer) <= BufMax
    /\ subs \subseteq Streams
    /\ chan \in [Streams -> Seq(Nat)]
    /\ \A s \in Streams : Len(chan[s]) <= ChanCap
    /\ pc \in [Streams -> Phases]
    /\ replay \in [Streams -> BOOLEAN]
    /\ todo \in [Streams -> Seq(Nat)]
    /\ gone \in [Streams -> BOOLEAN]
    /\ got \in [Streams -> Seq(Nat)]
    /\ lost \in [Streams -> SUBSET Nat]
    /\ joined \in [Streams -> Nat]
    /\ copied \in [Streams -> Nat]
    /\ copiedAt \in [Streams -> Nat]

\* Everything call s has been handed so far, in the order in which it reaches
\* or will reach the client: sent, taken, still in the channel.
Line(s) == got[s] \o todo[s] \o chan[s]

\* The buffer always holds exactly the newest events, as many as have been
\* published up to its capacity, without a gap.  (Publish: the append and the
\* trim together)
ReplayWindow ==
    /\ Len(buffer) = IF seq < BufMax THEN seq ELSE BufMax
    /\ \A i \in 1..Len(buffer) : buffer[i] = seq - Len(buffer) + i

\* Past the replayed copy a client gets its events in strictly increasing
\* order, none from before it subscribed.  (Publish's fan-out against the
\* handler's receive loop)
LiveInOrder ==
    \A s \in Streams : \A i, j \in (copied[s] + 1)..Len(got[s]) :
        /\ got[s][i] > joined[s]
        /\ i < j => got[s][i] < got[s][j]

\* Nothing falls between the replay and the live events: from the first event
\* of the copy on (from the subscription on, without replay), an open stream
\* has been handed every event, except those that met a full channel.
\* (StreamEvents subscribes before it copies the buffer)
HandoffComplete ==
    \A s \in Streams : pc[s] = "streaming" =>
        \A e \in (copiedAt[s] - copied[s] + 1)..seq :
            \/ \E i \in 1..Len(Line(s)) : Line(s)[i] = e
            \/ e \in lost[s]

\* The only events a client may get twice or out of order are those published
\* between its subscription and the copy of the buffer: they are in both.
\* (StreamEvents: Subscribe and Snapshot are two critical sections)
DuplicatesOnlyAtHandoff ==
    \A s \in Streams : \A i, j \in 1..Len(got[s]) :
        (i < j /\ got[s][j] <= got[s][i]) =>
            /\ i <= copied[s]
            /\ j > copied[s]
            /\ joined[s] < got[s][j]
            /\ got[s][j] <= copiedAt[s]

\* A subscriber whose client is gone does not stay registered.  (StreamEvents:
\* the deferred unsubscribe is reached from every place the handler waits)
LeaversUnsubscribe ==
    \A s \in Streams : gone[s] ~> s \notin subs

\* What has been queued for a client that reads is sent to it unless it hangs
\* up.  (StreamEvents' receive loop never stops before the context is done)
QueuedIsSent ==
    ReaderFairness => \A s \in Streams : \A e \in 1..MaxSeq :
        (s \in subs /\ \E i \in 1..Len(chan[s]) : chan[s][i] = e)
            ~> (gone[s] \/ \E i \in 1..Len(got[s]) : got[s][i] = e)

\* Every event the daemon comes to publish is published, also when clients
\* stall for ever with their channels full.  (Publish's select with a default,
\* under the mutex that every Subscribe and Snapshot needs)
EveryEventIsPublished ==
    PublisherFairness => \A n \in 0..(MaxSeq - 1) : (seq = n ~> seq = n + 1)

\* The feed a client is promised, live part: what it is still owed is what its
\* channel holds and what its handler has received from it and not yet sent.
Owed(s) ==
    {chan[s][i] : i \in 1..Len(chan[s])} \cup
    (IF Len(got[s]) >= copied[s] THEN {todo[s][i] : i \in 1..Len(todo[s])} ELSE {})

Feed == INSTANCE EventFeed WITH
            Readers <- Streams,
            Slack <- ChanCap,
            published <- seq,
            open <- subs,
            owed <- [s \in Streams |-> Owed(s)]

\* The bus and its handlers implement the feed: live events arrive in order
\* and once, and one is lost only to a reader ChanCap events behind.
ImplementsFeed == Feed!Spec
=============================================================================
