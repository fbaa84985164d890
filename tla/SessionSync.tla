---------------------------- MODULE SessionSync ----------------------------
(* One session's event log, the handlers that append to it, the broadcast   *)
(* that fans committed events out to subscribed sockets, and the clients    *)
(* that follow the session across disconnections: subscribe, catch-up, and  *)
(* the store that applies events by watermark.                              *)
(*                                                                          *)
(* An event is its sequence number.  The server is one Node process: code   *)
(* between two awaits is one action here, and every await is a place where  *)
(* other handlers run.  Replies that come back over different pooled        *)
(* database connections are not ordered with each other.                    *)
EXTENDS Integers, Sequences

CONSTANTS
  Clients,        \* the connected applications (each follows the session)
  Handlers,       \* in-flight write requests, over WebSocket or HTTP
  Threshold,      \* WS_CATCHUP_MAX_EVENTS: the longest slice replayed
  Ceiling,        \* MAX_CATCH_UP_EVENTS_CEILING: the events a snapshot reads
  MaxHead,        \* bound: events appended to the session
  MaxConnections  \* bound: sockets each client opens; the last stays up

ASSUME ThresholdAssumption == Threshold \in Nat /\ Ceiling \in Nat
ASSUME BoundAssumption == MaxHead \in Nat /\ MaxConnections \in Nat

VARIABLES
  head,        \* MAX(sequence) of the committed log
  handler,     \* each write handler's progress
  open,        \* connections the server has not seen close
  subscribed,  \* connections the registry lists for the session
  serving,     \* each connection's subscribe or catch-up handler
  opened,      \* sockets each client has opened so far
  socket,      \* number of the socket each client holds, 0 for none
  queue,       \* frames sent on each client's socket and not yet processed
  resume,      \* each client's progress in resuming its subscription
  since,       \* the watermark each client captured on hello
  lastApplied, \* lastAppliedSequence of each client's store
  events,      \* the events each client's store holds, in arrival order
  joinedAt     \* history: the log's head when each client last connected

serverVars == <<head, handler, open, subscribed, serving>>
socketVars == <<opened, socket, joinedAt>>
storeVars == <<lastApplied, events>>
vars == <<serverVars, socketVars, queue, resume, since, storeVars>>

Connections == Clients \X (1..MaxConnections)

\* A session starts with session-created and the host's participant-joined.
InitialHead == 2

Idle == [phase |-> "idle"]

EventFrame(s) == [type |-> "event-applied", sequence |-> s]
SnapshotFrame(s) == [type |-> "snapshot-state", sequence |-> s]
SubscribedFrame == [type |-> "subscribed", sequence |-> 0]
CaughtUpFrame == [type |-> "caught-up", sequence |-> 0]
ErrorFrame == [type |-> "error", sequence |-> 0]

\* The event-applied frames of the events first..last, in order.
EventFrames(first, last) == [i \in 1..(last - first + 1) |-> EventFrame(first + i - 1)]

\* The client at the other end still holds this connection's socket.
Live(k) == socket[k[1]] = k[2]

\* What is sent on a socket the client no longer holds is lost.
Reply(k, frames) ==
  queue' = [queue EXCEPT ![k[1]] = IF Live(k) THEN @ \o frames ELSE @]

Init ==
  /\ head = InitialHead
  /\ handler = [h \in Handlers |-> Idle]
  /\ open = {}
  /\ subscribed = {}
  /\ serving = [k \in Connections |-> Idle]
  /\ opened = [c \in Clients |-> 0]
  /\ socket = [c \in Clients |-> 0]
  /\ queue = [c \in Clients |-> <<>>]
  /\ resume = [c \in Clients |-> "none"]
  /\ since = [c \in Clients |-> 0]
  /\ lastApplied = [c \in Clients |-> 0]
  /\ events = [c \in Clients |-> <<>>]
  /\ joinedAt = [c \in Clients |-> 0]

----------------------------------------------------------------------------
(* Write handlers *)

\* session?.lastAppliedSequence ?? 0: what the client says it has seen.
Watermark(c) == lastApplied[c]

\* A client sends a write built on its store's watermark.  The handler's first
\* gates (authenticated, subscribed, visible) run before the transaction.
Request(h, c) ==
  /\ handler[h].phase = "idle"
  /\ <<c, socket[c]>> \in subscribed
  /\ handler' = [handler EXCEPT ![h] =
                   [phase |-> "ready", expected |-> Watermark(c)]]
  /\ UNCHANGED <<head, open, subscribed, serving, socketVars, queue, resume,
                 since, storeVars>>

\* An HTTP route (participants, mode, end, restart) takes no expectedSequence:
\* it appends wherever the log ends once it holds the lock.
RouteRequest(h) ==
  /\ handler[h].phase = "idle"
  /\ handler' = [handler EXCEPT ![h] = [phase |-> "ready", expected |-> -1]]
  /\ UNCHANGED <<head, open, subscribed, serving, socketVars, queue, resume,
                 since, storeVars>>

\* SELECT ... FOR UPDATE to COMMIT: one transaction appends `count` events.
AppendEvents(h, count) ==
  /\ handler[h].phase = "ready"
  /\ handler[h].expected \in {-1, head}
  /\ head + count <= MaxHead
  /\ head' = head + count
  /\ handler' = [handler EXCEPT ![h] =
                   [phase |-> "committed", first |-> head + 1, last |-> head + count]]
  /\ UNCHANGED <<open, subscribed, serving, socketVars, queue, resume, since,
                 storeVars>>

\* Mutant: the events are emitted inside the transaction, which then fails.
EmitAndReject(h) ==
  /\ handler[h].phase = "ready"
  /\ handler' = [handler EXCEPT ![h] = Idle]
  /\ queue' = [c \in Clients |->
                 IF <<c, socket[c]>> \in subscribed
                   THEN queue[c] \o EventFrames(head + 1, head + 1) ELSE queue[c]]
  /\ UNCHANGED <<head, open, subscribed, serving, socketVars, resume, since,
                 storeVars>>

\* The transaction ends without appending: the client's view was stale, the
\* engine rejected the action, or a statement failed and it rolled back.
Reject(h) ==
  /\ handler[h].phase = "ready"
  /\ handler' = [handler EXCEPT ![h] = Idle]
  /\ UNCHANGED <<head, open, subscribed, serving, socketVars, queue, resume,
                 since, storeVars>>

\* After COMMIT has been awaited and the lock is gone: the handler's events go
\* to every subscribed socket, synchronously and in order.
Emit(h) ==
  /\ handler[h].phase = "committed"
  /\ queue' = [c \in Clients |->
                 IF <<c, socket[c]>> \in subscribed
                   THEN queue[c] \o EventFrames(handler[h].first, handler[h].last)
                   ELSE queue[c]]
  /\ handler' = [handler EXCEPT ![h] = Idle]
  /\ UNCHANGED <<head, open, subscribed, serving, socketVars, resume, since,
                 storeVars>>

----------------------------------------------------------------------------
(* Subscribe and catch-up handlers of one connection *)

\* The visibility check has been awaited: register, then acknowledge.  Nothing
\* here looks at whether the connection closed during the await.
ServeSubscribe(k) ==
  /\ serving[k].phase = "subscribe"
  /\ subscribed' = subscribed \cup {k}
  /\ Reply(k, <<SubscribedFrame>>)
  /\ serving' = [serving EXCEPT ![k] = Idle]
  /\ UNCHANGED <<head, handler, open, socketVars, resume, since, storeVars>>

\* catch-up reads MAX(sequence).  Nothing was missed: acknowledge.
ServeAtHead(k) ==
  /\ serving[k].phase = "catch-up"
  /\ serving[k].since >= head
  /\ Reply(k, <<CaughtUpFrame>>)
  /\ serving' = [serving EXCEPT ![k] = Idle]
  /\ UNCHANGED <<head, handler, open, subscribed, socketVars, resume, since,
                 storeVars>>

\* Something was: read a slice, or the log for a snapshot when the gap is
\* longer than the threshold.
ServeGap(k) ==
  /\ serving[k].phase = "catch-up"
  /\ LET from == serving[k].since IN
     /\ from < head
     /\ serving' = [serving EXCEPT ![k] =
          [phase |-> IF head - from > Threshold THEN "snapshot" ELSE "slice",
           since |-> from, max |-> head]]
  /\ UNCHANGED <<head, handler, open, subscribed, socketVars, queue, resume,
                 since, storeVars>>

\* Mutant: the upper bound of the slice is exclusive.
MissedBelow(from, to) == EventFrames(from + 1, to - 1)

\* The replayed frames of the half-open interval (from, to].
Missed(from, to) == EventFrames(from + 1, to)

\* The slice has been read: replay it and acknowledge.
ServeSlice(k) ==
  /\ serving[k].phase = "slice"
  /\ Reply(k, Missed(serving[k].since, serving[k].max) \o <<CaughtUpFrame>>)
  /\ serving' = [serving EXCEPT ![k] = Idle]
  /\ UNCHANGED <<head, handler, open, subscribed, socketVars, resume, since,
                 storeVars>>

\* Mutant: the snapshot's SELECT is limited to the threshold, like the slice's.
SnapshotAtThreshold == IF head <= Threshold THEN head ELSE Threshold

\* The log has been read, from its start and up to the ceiling: the snapshot
\* is as of the last event read.
SnapshotAt == IF head <= Ceiling THEN head ELSE Ceiling

ServeSnapshot(k) ==
  /\ serving[k].phase = "snapshot"
  /\ Reply(k, <<SnapshotFrame(SnapshotAt), CaughtUpFrame>>)
  /\ serving' = [serving EXCEPT ![k] = Idle]
  /\ UNCHANGED <<head, handler, open, subscribed, socketVars, resume, since,
                 storeVars>>

\* The handler throws: the session is not visible, the rate limit is reached,
\* a query fails.  The client gets an error envelope.
ServeError(k) ==
  /\ serving[k].phase # "idle"
  /\ Reply(k, <<ErrorFrame>>)
  /\ serving' = [serving EXCEPT ![k] = Idle]
  /\ UNCHANGED <<head, handler, open, subscribed, socketVars, resume, since,
                 storeVars>>

Serve(k) ==
  \/ ServeSubscribe(k)
  \/ ServeAtHead(k)
  \/ ServeGap(k)
  \/ ServeSlice(k)
  \/ ServeSnapshot(k)
  \/ ServeError(k)

----------------------------------------------------------------------------
(* Connections *)

\* The socket opens and the server greets it.  On hello the client captures
\* its watermark, then sends subscribe.
Connect(c) ==
  /\ socket[c] = 0
  /\ opened[c] < MaxConnections
  /\ LET n == opened[c] + 1 IN
     /\ opened' = [opened EXCEPT ![c] = n]
     /\ socket' = [socket EXCEPT ![c] = n]
     /\ open' = open \cup {<<c, n>>}
     /\ serving' = [serving EXCEPT ![<<c, n>>] = [phase |-> "subscribe"]]
  /\ since' = [since EXCEPT ![c] = Watermark(c)]
  /\ resume' = [resume EXCEPT ![c] = "subscribing"]
  /\ joinedAt' = [joinedAt EXCEPT ![c] = head]
  /\ UNCHANGED <<head, handler, subscribed, queue, storeVars>>

\* The socket closes: what was in flight on it is lost, its pending requests
\* are rejected, and the client will reconnect.  The server sees it later.
Drop(c) ==
  /\ socket[c] # 0
  /\ opened[c] < MaxConnections
  /\ socket' = [socket EXCEPT ![c] = 0]
  /\ queue' = [queue EXCEPT ![c] = <<>>]
  /\ resume' = [resume EXCEPT ![c] = "none"]
  /\ UNCHANGED <<serverVars, opened, joinedAt, since, storeVars>>

\* Mutant: the hook clears every registration of the client.
CloseAll(k) ==
  /\ k \in open
  /\ ~Live(k)
  /\ open' = open \ {k}
  /\ subscribed' = {j \in subscribed : j[1] # k[1]}
  /\ UNCHANGED <<head, handler, serving, socketVars, queue, resume, since,
                 storeVars>>

\* The server's close hook.  Handlers still awaiting something go on.
Close(k) ==
  /\ k \in open
  /\ ~Live(k)
  /\ open' = open \ {k}
  /\ subscribed' = subscribed \ {k}
  /\ UNCHANGED <<head, handler, serving, socketVars, queue, resume, since,
                 storeVars>>

\* The server process dies and starts again: only the log survives.
Crash ==
  /\ \A c \in Clients : opened[c] < MaxConnections
  /\ handler' = [h \in Handlers |-> Idle]
  /\ open' = {}
  /\ subscribed' = {}
  /\ serving' = [k \in Connections |-> Idle]
  /\ socket' = [c \in Clients |-> 0]
  /\ queue' = [c \in Clients |-> <<>>]
  /\ resume' = [c \in Clients |-> "none"]
  /\ UNCHANGED <<head, opened, joinedAt, since, storeVars>>

----------------------------------------------------------------------------
(* The client processes one frame *)

Receive(c, type) ==
  /\ queue[c] # <<>>
  /\ Head(queue[c]).type = type
  /\ queue' = [queue EXCEPT ![c] = Tail(@)]

\* Mutant: only an event below the watermark is a duplicate.
DuplicateBelow(c, s) == s < lastApplied[c]

\* applyEvent drops an event at or below the watermark.
Duplicate(c, s) == s <= lastApplied[c]

ReceiveEvent(c) ==
  /\ Receive(c, "event-applied")
  /\ LET s == Head(queue[c]).sequence IN
     IF Duplicate(c, s)
       THEN UNCHANGED storeVars
       ELSE /\ lastApplied' = [lastApplied EXCEPT ![c] = s]
            /\ events' = [events EXCEPT ![c] = Append(@, s)]
  /\ UNCHANGED <<serverVars, socketVars, resume, since>>

\* applySnapshot: the watermark moves, the store's events do not.
ReceiveSnapshot(c) ==
  /\ Receive(c, "snapshot-state")
  /\ LET s == Head(queue[c]).sequence IN
     lastApplied' = [lastApplied EXCEPT ![c] = IF s < @ THEN @ ELSE s]
  /\ UNCHANGED <<serverVars, socketVars, resume, since, events>>

\* The subscribe acknowledgement releases the catch-up request, which carries
\* the watermark captured before the subscribe; an acknowledgement of a request
\* that timed out is ignored.
ReceiveSubscribed(c) ==
  /\ Receive(c, "subscribed")
  /\ IF resume[c] = "subscribing"
       THEN /\ resume' = [resume EXCEPT ![c] = "catching-up"]
            /\ serving' = [serving EXCEPT ![<<c, socket[c]>>] =
                             [phase |-> "catch-up", since |-> since[c]]]
       ELSE UNCHANGED <<resume, serving>>
  /\ UNCHANGED <<head, handler, open, subscribed, socketVars, since, storeVars>>

ReceiveCaughtUp(c) ==
  /\ Receive(c, "caught-up")
  /\ resume' = [resume EXCEPT ![c] = IF @ = "catching-up" THEN "done" ELSE @]
  /\ UNCHANGED <<serverVars, socketVars, since, storeVars>>

\* A rejected subscribe or catch-up is not retried on this socket.
ReceiveError(c) ==
  /\ Receive(c, "error")
  /\ resume' = [resume EXCEPT ![c] = "failed"]
  /\ UNCHANGED <<serverVars, socketVars, since, storeVars>>

\* Neither is one whose answer did not come within the request timeout.
GiveUp(c) ==
  /\ resume[c] \in {"subscribing", "catching-up"}
  /\ resume' = [resume EXCEPT ![c] = "failed"]
  /\ UNCHANGED <<serverVars, socketVars, queue, since, storeVars>>

Process(c) ==
  \/ ReceiveEvent(c)
  \/ ReceiveSnapshot(c)
  \/ ReceiveSubscribed(c)
  \/ ReceiveCaughtUp(c)
  \/ ReceiveError(c)

----------------------------------------------------------------------------
Next ==
  \/ \E h \in Handlers, c \in Clients : Request(h, c)
  \/ \E h \in Handlers : RouteRequest(h)
  \/ \E h \in Handlers, count \in 1..2 : AppendEvents(h, count)
  \/ \E h \in Handlers : Reject(h)
  \/ \E h \in Handlers : Emit(h)
  \/ \E k \in Connections : Serve(k)
  \/ \E c \in Clients : Connect(c)
  \/ \E c \in Clients : Drop(c)
  \/ \E k \in open : Close(k)
  \/ Crash
  \/ \E c \in Clients : Process(c)
  \/ \E c \in Clients : GiveUp(c)

Settle(h) == (\E count \in 1..2 : AppendEvents(h, count)) \/ Reject(h)

\* Handlers run to completion, sockets deliver what was sent on them, and a
\* client whose socket closed reconnects after its backoff.  Nobody has to
\* write; nothing is assumed of drops, crashes and timeouts.
Fairness ==
  /\ \A h \in Handlers : WF_vars(Settle(h)) /\ WF_vars(Emit(h))
  /\ \A k \in Connections : WF_vars(Serve(k))
  /\ \A c \in Clients : WF_vars(Connect(c)) /\ WF_vars(Process(c))

Spec == Init /\ [][Next]_vars /\ Fairness

----------------------------------------------------------------------------
(* Properties *)

Frames == [type : {"event-applied", "snapshot-state", "subscribed",
                   "caught-up", "error"}, sequence : Nat]

Handling == {Idle} \cup [phase : {"ready"}, expected : Nat \cup {-1}]
                   \cup [phase : {"committed"}, first : Nat, last : Nat]

Service == {Idle} \cup [phase : {"subscribe"}]
                  \cup [phase : {"catch-up"}, since : Nat]
                  \cup [phase : {"slice", "snapshot"}, since : Nat, max : Nat]

\* Every variable stays in its type; only opened connections are registered.
TypeOK ==
  /\ head \in Nat
  /\ handler \in [Handlers -> Handling]
  /\ open \subseteq Connections
  /\ subscribed \subseteq Connections
  /\ serving \in [Connections -> Service]
  /\ opened \in [Clients -> 0..MaxConnections]
  /\ socket \in [Clients -> 0..MaxConnections]
  /\ queue \in [Clients -> Seq(Frames)]
  /\ resume \in [Clients -> {"none", "subscribing", "catching-up", "done", "failed"}]
  /\ since \in [Clients -> Nat]
  /\ lastApplied \in [Clients -> Nat]
  /\ events \in [Clients -> Seq(Nat)]
  /\ joinedAt \in [Clients -> Nat]

\* Nobody is shown what was not committed: no store, no frame in flight and no
\* handler's batch names an event beyond the log (emission follows COMMIT; a
\* rolled-back transaction emits nothing).
ViewsAreCommitted ==
  /\ \A c \in Clients :
       /\ lastApplied[c] <= head
       /\ \A i \in DOMAIN queue[c] : queue[c][i].sequence <= head
  /\ \A h \in Handlers : handler[h].phase = "committed" => handler[h].last <= head

\* A store applies every event at most once and in the order of the log,
\* whatever the order in which replayed and live frames arrive (the watermark
\* test of applyEvent).
AppliedInOrder ==
  \A c \in Clients :
    /\ \A i, j \in DOMAIN events[c] : i < j => events[c][i] < events[c][j]
    /\ \A i \in DOMAIN events[c] : events[c][i] <= lastApplied[c]

\* A client told that it has caught up has in fact moved its watermark past
\* everything that was committed before it connected.
CaughtUpMeansCurrent ==
  \A c \in Clients :
    resume[c] = "done" => lastApplied[c] >= joinedAt[c]

\* The frame carries event s to a store: as an event, or inside a snapshot.
Carries(frame, s) ==
  \/ frame = EventFrame(s)
  \/ frame.type = "snapshot-state" /\ frame.sequence >= s

\* Between registration, MAX(sequence) and live emission no event slips
\* through: once a client has caught up, every event above its watermark is on
\* its way to it, in flight on its socket or in a batch about to be emitted.
NothingSlipsThrough ==
  \A c \in Clients :
    resume[c] = "done" =>
      \A s \in (lastApplied[c] + 1)..head :
        \/ \E i \in DOMAIN queue[c] : Carries(queue[c][i], s)
        \/ /\ <<c, socket[c]>> \in subscribed
           /\ \E h \in Handlers : /\ handler[h].phase = "committed"
                                  /\ s \in handler[h].first..handler[h].last

\* Every client ends up at the head of the log, through drops and crashes,
\* unless its last resume was rejected or timed out.
EventuallyCurrent ==
  <>[](\A c \in Clients : resume[c] = "failed" \/ lastApplied[c] = head)
=============================================================================
