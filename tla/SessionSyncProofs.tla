-------------------------- MODULE SessionSyncProofs --------------------------
(* Proofs about SessionSync for any number of clients, handlers, events and *)
(* connections: the types, that nobody is shown an uncommitted event, that  *)
(* every store applies events in the order of the log, and that a client    *)
(* that has caught up has missed nothing.                                   *)
(*                                                                          *)
(* IInv is enough for the first three.  The last is about the await points  *)
(* of one connection: Tracked follows a client from its registration over   *)
(* the read of MAX(sequence) and the replay to the acknowledgement, and     *)
(* says at each of them which events are still on their way.                *)
EXTENDS SessionSync, TLAPS

\* Every frame of the sequence is about an event at or below n.
UpTo(frames, n) == \A i \in DOMAIN frames : frames[i].sequence <= n

\* The slice a catch-up handler is about to replay was committed.
SlicesAreCommitted ==
  \A k \in Connections : serving[k].phase = "slice" => serving[k].max <= head

IInv == TypeOK /\ ViewsAreCommitted /\ SlicesAreCommitted /\ AppliedInOrder

----------------------------------------------------------------------------
(* Sequences of frames *)

\* The frames of the events first..last are frames about events up to last,
\* also when the interval is empty.
LEMMA BatchType ==
  ASSUME NEW first \in Nat, NEW last \in Nat, NEW n \in Nat, last <= n
  PROVE  /\ EventFrames(first, last) \in Seq(Frames)
         /\ UpTo(EventFrames(first, last), n)
<1> DEFINE m == last - first + 1
<1>1. EventFrames(first, last) = [i \in 1..m |-> EventFrame(first + i - 1)]
  BY DEF EventFrames
<1>2. \A i \in 1..m : EventFrame(first + i - 1) \in Frames
  BY DEF EventFrame, Frames
<1>3. UpTo(EventFrames(first, last), n)
  BY <1>1 DEF UpTo, EventFrame
<1>4. CASE m \in Nat
  BY <1>1, <1>2, <1>3, <1>4
<1>5. CASE m \notin Nat
  <2>1. 1..m = 1..0
    BY <1>5
  <2>2. EventFrames(first, last) \in [1..0 -> Frames]
    BY <1>1, <1>2, <2>1
  <2>3. [1..0 -> Frames] \subseteq Seq(Frames)
    OBVIOUS
  <2> QED BY <2>2, <2>3, <1>3
<1> QED BY <1>4, <1>5

\* Sending committed frames after committed frames leaves committed frames.
LEMMA SendType ==
  ASSUME NEW q \in Seq(Frames), NEW f \in Seq(Frames), NEW n \in Nat,
         UpTo(q, n), UpTo(f, n)
  PROVE  q \o f \in Seq(Frames) /\ UpTo(q \o f, n)
<1>1. q \o f \in Seq(Frames)
  OBVIOUS
<1>2. ASSUME NEW i \in 1..(Len(q) + Len(f))
      PROVE  (q \o f)[i].sequence <= n
  <2>1. CASE i <= Len(q)
    BY <2>1 DEF UpTo
  <2>2. CASE i > Len(q)
    <3>1. (q \o f)[i] = f[i - Len(q)] /\ i - Len(q) \in 1..Len(f)
      BY <2>2
    <3> QED BY <3>1 DEF UpTo
  <2> QED BY <2>1, <2>2
<1> QED BY <1>1, <1>2 DEF UpTo

\* A longer log has still committed what was committed.
LEMMA UpToGrows ==
  ASSUME NEW q \in Seq(Frames), NEW n \in Nat, NEW m \in Nat, n <= m, UpTo(q, n)
  PROVE  UpTo(q, m)
<1>1. \A i \in DOMAIN q : q[i] \in Frames
  OBVIOUS
<1> QED BY <1>1 DEF UpTo, Frames

\* Taking the first frame off leaves committed frames, and was one itself.
LEMMA TakeType ==
  ASSUME NEW q \in Seq(Frames), NEW n \in Nat, UpTo(q, n), q # <<>>
  PROVE  /\ Tail(q) \in Seq(Frames) /\ UpTo(Tail(q), n)
         /\ Head(q) \in Frames /\ Head(q).sequence <= n
         /\ Head(q).sequence \in Nat
<1>1. Head(q) \in Frames /\ Head(q) = q[1] /\ 1 \in DOMAIN q
  OBVIOUS
<1>2. Tail(q) \in Seq(Frames) /\ Len(Tail(q)) = Len(q) - 1
  OBVIOUS
<1>3. \A i \in 1..Len(Tail(q)) : Tail(q)[i] = q[i + 1] /\ i + 1 \in DOMAIN q
  OBVIOUS
<1> QED BY <1>1, <1>2, <1>3 DEF UpTo, Frames

\* Replies without a sequence are about no event.
LEMMA PlainFrames ==
  /\ <<SubscribedFrame>> \in Seq(Frames) /\ \A n \in Nat : UpTo(<<SubscribedFrame>>, n)
  /\ <<CaughtUpFrame>> \in Seq(Frames) /\ \A n \in Nat : UpTo(<<CaughtUpFrame>>, n)
  /\ <<ErrorFrame>> \in Seq(Frames) /\ \A n \in Nat : UpTo(<<ErrorFrame>>, n)
BY DEF SubscribedFrame, CaughtUpFrame, ErrorFrame, Frames, UpTo

----------------------------------------------------------------------------
(* What the types say of a handler in a given phase *)

LEMMA HandlerFields ==
  ASSUME TypeOK, NEW h \in Handlers
  PROVE  /\ handler[h].phase = "ready" => handler[h].expected \in Nat \cup {-1}
         /\ handler[h].phase = "committed" =>
              handler[h].first \in Nat /\ handler[h].last \in Nat
BY DEF TypeOK, Handling, Idle

LEMMA ServiceFields ==
  ASSUME TypeOK, NEW k \in Connections
  PROVE  /\ serving[k].phase = "catch-up" => serving[k].since \in Nat
         /\ serving[k].phase = "slice" =>
              serving[k].since \in Nat /\ serving[k].max \in Nat
<1>1. serving[k] \in Service
  BY DEF TypeOK
<1>2. ASSUME NEW s \in Service
      PROVE  /\ s.phase = "catch-up" => s.since \in Nat
             /\ s.phase = "slice" => s.since \in Nat /\ s.max \in Nat
  BY DEF Service, Idle
<1> QED BY <1>1, <1>2

\* The queues as the lemmas on frames take them.
LEMMA QueueType ==
  ASSUME IInv, NEW c \in Clients
  PROVE  queue[c] \in Seq(Frames) /\ UpTo(queue[c], head)
BY DEF IInv, TypeOK, ViewsAreCommitted, UpTo

\* A reply made of committed frames keeps every queue committed.
LEMMA ReplyType ==
  ASSUME IInv, NEW k \in Connections, NEW f \in Seq(Frames), UpTo(f, head),
         Reply(k, f)
  PROVE  /\ queue' \in [Clients -> Seq(Frames)]
         /\ \A c \in Clients : UpTo(queue'[c], head)
<1>1. k[1] \in Clients /\ head \in Nat /\ queue \in [Clients -> Seq(Frames)]
  BY DEF IInv, TypeOK, Connections
<1>2. \A c \in Clients : UpTo(queue[c], head)
  BY QueueType
<1>3. \A c \in Clients : /\ queue[c] \o f \in Seq(Frames)
                         /\ UpTo(queue[c] \o f, head)
  BY <1>1, <1>2, SendType
<1>4. queue' = [queue EXCEPT ![k[1]] = IF Live(k) THEN queue[k[1]] \o f ELSE queue[k[1]]]
  BY DEF Reply
<1>5. queue' \in [Clients -> Seq(Frames)]
  BY <1>1, <1>3, <1>4
<1>6. ASSUME NEW c \in Clients
      PROVE  UpTo(queue'[c], head)
  <2>1. queue'[c] = queue[c] \/ queue'[c] = queue[c] \o f
    BY <1>1, <1>4
  <2> QED BY <2>1, <1>2, <1>3
<1> QED BY <1>5, <1>6

----------------------------------------------------------------------------
(* The inductive invariant *)

LEMMA InitIInv == Init => IInv
BY BoundAssumption
   DEF Init, IInv, TypeOK, ViewsAreCommitted, SlicesAreCommitted, AppliedInOrder,
       InitialHead, Idle, Handling, Service, Frames

\* The write handlers.
LEMMA HandlersPreserve ==
  ASSUME IInv, NEW h \in Handlers,
         \/ \E c \in Clients : Request(h, c)
         \/ RouteRequest(h)
         \/ \E count \in 1..2 : AppendEvents(h, count)
         \/ Reject(h)
         \/ Emit(h)
  PROVE  IInv'
<1> USE DEF IInv
<1>1. CASE (\E c \in Clients : Request(h, c)) \/ RouteRequest(h) \/ Reject(h)
  <2>1. /\ UNCHANGED <<head, open, subscribed, serving, socketVars, queue, resume,
                       since, storeVars>>
        /\ handler' \in [Handlers -> Handling]
        /\ \A g \in Handlers : handler'[g].phase = "committed" =>
                                handler'[g] = handler[g]
    <3>1. CASE \E c \in Clients : Request(h, c)
      <4>1. PICK c \in Clients : Request(h, c)
        BY <3>1
      <4>2. [phase |-> "ready", expected |-> Watermark(c)] \in Handling
        BY DEF Handling, TypeOK, Watermark
      <4> QED BY <4>1, <4>2 DEF Request, TypeOK
    <3>2. CASE RouteRequest(h)
      <4>1. [phase |-> "ready", expected |-> -1] \in Handling
        BY DEF Handling
      <4> QED BY <3>2, <4>1 DEF RouteRequest, TypeOK
    <3>3. CASE Reject(h)
      BY <3>3 DEF Reject, TypeOK, Handling, Idle
    <3> QED BY <1>1, <3>1, <3>2, <3>3
  <2>2. TypeOK'
    BY <2>1 DEF TypeOK, socketVars, storeVars
  <2> QED BY <2>1, <2>2 DEF ViewsAreCommitted, SlicesAreCommitted, AppliedInOrder,
                            socketVars, storeVars, TypeOK
<1>2. CASE \E count \in 1..2 : AppendEvents(h, count)
  <2>1. PICK count \in 1..2 : AppendEvents(h, count)
    BY <1>2
  <2>2. head' \in Nat /\ head' >= head /\ head \in Nat /\ head' = head + count
    BY <2>1 DEF AppendEvents, TypeOK
  <2>3. /\ handler' = [handler EXCEPT ![h] =
              [phase |-> "committed", first |-> head + 1, last |-> head']]
        /\ UNCHANGED <<open, subscribed, serving, socketVars, queue, resume, since,
                       storeVars>>
    BY <2>1 DEF AppendEvents
  <2>4. [phase |-> "committed", first |-> head + 1, last |-> head'] \in Handling
    BY <2>2 DEF Handling
  <2>5. TypeOK'
    BY <2>2, <2>3, <2>4 DEF TypeOK, socketVars, storeVars
  <2>6. ASSUME NEW g \in Handlers, handler'[g].phase = "committed"
        PROVE  handler'[g].last <= head'
    <3>1. CASE g = h
      BY <3>1, <2>2, <2>3 DEF TypeOK
    <3>2. CASE g # h
      BY <3>2, <2>6, <2>2, <2>3, HandlerFields DEF TypeOK, ViewsAreCommitted
    <3> QED BY <3>1, <3>2
  <2>7. ASSUME NEW c \in Clients
        PROVE  /\ lastApplied'[c] <= head'
               /\ UpTo(queue'[c], head')
    <3>1. queue'[c] = queue[c] /\ lastApplied'[c] = lastApplied[c]
      BY <2>3 DEF storeVars
    <3>2. UpTo(queue'[c], head')
      BY <3>1, <2>2, QueueType, UpToGrows
    <3>3. lastApplied[c] \in Nat /\ lastApplied[c] <= head
      BY DEF TypeOK, ViewsAreCommitted
    <3> QED BY <3>1, <3>2, <3>3, <2>2
  <2>8. SlicesAreCommitted'
    BY <2>2, <2>3, ServiceFields DEF SlicesAreCommitted
  <2> QED BY <2>3, <2>5, <2>6, <2>7, <2>8
          DEF ViewsAreCommitted, AppliedInOrder, UpTo, storeVars
<1>3. CASE Emit(h)
  <2> DEFINE batch == EventFrames(handler[h].first, handler[h].last)
  <2>1. batch \in Seq(Frames) /\ UpTo(batch, head)
    <3>1. handler[h].first \in Nat /\ handler[h].last \in Nat
          /\ handler[h].last <= head /\ head \in Nat
      BY <1>3, HandlerFields DEF Emit, TypeOK, ViewsAreCommitted
    <3> QED BY <3>1, BatchType
  <2>2. \A c \in Clients : UpTo(queue[c], head) /\ queue[c] \in Seq(Frames)
    BY QueueType
  <2>3. \A c \in Clients : UpTo(queue[c] \o batch, head) /\ queue[c] \o batch \in Seq(Frames)
    BY <2>1, <2>2, SendType DEF TypeOK
  <2>4. \A c \in Clients : queue'[c] = queue[c] \/ queue'[c] = queue[c] \o batch
    BY <1>3 DEF Emit
  <2>5. queue' \in [Clients -> Seq(Frames)]
    BY <1>3, <2>2, <2>3 DEF Emit
  <2>6. \A c \in Clients : UpTo(queue'[c], head)
    BY <2>2, <2>3, <2>4
  <2>7. /\ UNCHANGED <<head, open, subscribed, serving, socketVars, resume, since,
                       storeVars>>
        /\ handler' = [handler EXCEPT ![h] = Idle]
    BY <1>3 DEF Emit
  <2>8. TypeOK'
    BY <2>5, <2>7 DEF TypeOK, Handling, socketVars, storeVars
  <2>9. \A g \in Handlers : handler'[g].phase = "committed" => handler'[g] = handler[g]
    BY <2>7 DEF TypeOK, Idle
  <2> QED BY <2>6, <2>7, <2>8, <2>9
          DEF ViewsAreCommitted, SlicesAreCommitted, AppliedInOrder, UpTo, storeVars
<1> QED BY <1>1, <1>2, <1>3

\* A handler that answers with committed frames and is done.
LEMMA AnswerPreserves ==
  ASSUME IInv, NEW k \in Connections, NEW f \in Seq(Frames), UpTo(f, head),
         Reply(k, f), serving' = [serving EXCEPT ![k] = Idle],
         subscribed' \in SUBSET Connections,
         UNCHANGED <<head, handler, open, socketVars, resume, since, storeVars>>
  PROVE  IInv'
<1>1. /\ queue' \in [Clients -> Seq(Frames)]
      /\ \A c \in Clients : UpTo(queue'[c], head)
  BY ReplyType
<1>2. /\ serving' \in [Connections -> Service]
      /\ \A j \in Connections : serving'[j].phase = "slice" => serving'[j] = serving[j]
  BY DEF IInv, TypeOK, Service, Idle
<1>3. TypeOK'
  BY <1>1, <1>2 DEF IInv, TypeOK, socketVars, storeVars
<1> QED BY <1>1, <1>2, <1>3
        DEF IInv, ViewsAreCommitted, SlicesAreCommitted, AppliedInOrder, UpTo, storeVars

LEMMA ServePreserves ==
  ASSUME IInv, NEW k \in Connections, Serve(k)
  PROVE  IInv'
<1>1. CASE ServeSubscribe(k)
  BY <1>1, PlainFrames, AnswerPreserves DEF ServeSubscribe, IInv, TypeOK
<1>2. CASE ServeAtHead(k)
  BY <1>2, PlainFrames, AnswerPreserves DEF ServeAtHead, IInv, TypeOK
<1>3. CASE ServeGap(k)
  <2> DEFINE next == [phase |-> IF head - serving[k].since > Threshold
                                  THEN "snapshot" ELSE "slice",
                      since |-> serving[k].since, max |-> head]
  <2>1. serving' = [serving EXCEPT ![k] = next]
    BY <1>3 DEF ServeGap
  <2>2. UNCHANGED <<head, handler, open, subscribed, socketVars, queue, resume,
                    since, storeVars>>
    BY <1>3 DEF ServeGap
  <2>3. serving[k].since \in Nat /\ head \in Nat
    BY <1>3, ServiceFields DEF ServeGap, IInv, TypeOK
  <2>4. next \in Service
    BY <2>3 DEF Service
  <2>5. TypeOK'
    BY <2>1, <2>2, <2>4 DEF IInv, TypeOK, socketVars, storeVars
  <2>6. SlicesAreCommitted'
    <3> SUFFICES ASSUME NEW j \in Connections, serving'[j].phase = "slice"
                 PROVE  serving'[j].max <= head
      BY <2>2 DEF SlicesAreCommitted
    <3>1. CASE j = k
      BY <3>1, <2>1, <2>3 DEF IInv, TypeOK
    <3>2. CASE j # k
      BY <3>2, <2>1 DEF IInv, TypeOK, SlicesAreCommitted
    <3> QED BY <3>1, <3>2
  <2> QED BY <2>2, <2>5, <2>6
          DEF IInv, ViewsAreCommitted, AppliedInOrder, storeVars
<1>4. CASE ServeSlice(k)
  <2> DEFINE replay == Missed(serving[k].since, serving[k].max)
  <2>1. /\ serving[k].since \in Nat /\ serving[k].max \in Nat
        /\ serving[k].max <= head /\ head \in Nat
    BY <1>4, ServiceFields DEF ServeSlice, IInv, TypeOK, SlicesAreCommitted
  <2>2. replay \in Seq(Frames) /\ UpTo(replay, head)
    <3>1. replay = EventFrames(serving[k].since + 1, serving[k].max)
      BY DEF Missed
    <3>2. serving[k].since + 1 \in Nat
      BY <2>1
    <3> QED BY <3>1, <3>2, <2>1, BatchType
  <2>3. replay \o <<CaughtUpFrame>> \in Seq(Frames) /\ UpTo(replay \o <<CaughtUpFrame>>, head)
    BY <2>1, <2>2, PlainFrames, SendType
  <2> QED BY <1>4, <2>3, AnswerPreserves DEF ServeSlice, IInv, TypeOK
<1>5. CASE ServeSnapshot(k)
  <2>1. SnapshotAt \in Nat /\ SnapshotAt <= head /\ head \in Nat
    BY ThresholdAssumption DEF SnapshotAt, IInv, TypeOK
  <2>2. /\ <<SnapshotFrame(SnapshotAt), CaughtUpFrame>> \in Seq(Frames)
        /\ UpTo(<<SnapshotFrame(SnapshotAt), CaughtUpFrame>>, head)
    BY <2>1 DEF SnapshotFrame, CaughtUpFrame, Frames, UpTo
  <2> QED BY <1>5, <2>2, AnswerPreserves DEF ServeSnapshot, IInv, TypeOK
<1>6. CASE ServeError(k)
  BY <1>6, PlainFrames, AnswerPreserves DEF ServeError, IInv, TypeOK
<1> QED BY <1>1, <1>2, <1>3, <1>4, <1>5, <1>6 DEF Serve

\* Opening, losing and tearing down connections, the crash of the server, and
\* the client's timeouts.
LEMMA ConnectionsPreserve ==
  ASSUME IInv,
         \/ \E c \in Clients : Connect(c) \/ Drop(c) \/ GiveUp(c)
         \/ \E k \in open : Close(k)
         \/ Crash
  PROVE  IInv'
<1>1. CASE \E c \in Clients : Connect(c)
  <2>1. PICK c \in Clients : Connect(c)
    BY <1>1
  <2> DEFINE n == opened[c] + 1
  <2>2. n \in 1..MaxConnections /\ <<c, n>> \in Connections
    <3>1. opened[c] \in 0..MaxConnections /\ opened[c] < MaxConnections
      BY <2>1 DEF Connect, IInv, TypeOK
    <3>2. n \in 1..MaxConnections
      BY <3>1, BoundAssumption
    <3> QED BY <3>2 DEF Connections
  <2>3. /\ serving' = [serving EXCEPT ![<<c, n>>] = [phase |-> "subscribe"]]
        /\ UNCHANGED <<head, handler, subscribed, queue, storeVars>>
    BY <2>1 DEF Connect
  <2>4. /\ open' \subseteq Connections
        /\ opened' \in [Clients -> 0..MaxConnections]
        /\ socket' \in [Clients -> 0..MaxConnections]
    <3>1. /\ open' = open \cup {<<c, n>>}
          /\ opened' = [opened EXCEPT ![c] = n]
          /\ socket' = [socket EXCEPT ![c] = n]
      BY <2>1 DEF Connect
    <3>2. n \in 0..MaxConnections
      BY <2>2, BoundAssumption
    <3> QED BY <3>1, <3>2, <2>2 DEF IInv, TypeOK
  <2>5. /\ serving' \in [Connections -> Service]
        /\ \A j \in Connections : serving'[j].phase = "slice" => serving'[j] = serving[j]
    BY <2>3 DEF IInv, TypeOK, Service
  <2>6. /\ since' \in [Clients -> Nat]
        /\ resume' \in [Clients -> {"none", "subscribing", "catching-up", "done", "failed"}]
        /\ joinedAt' \in [Clients -> Nat]
    BY <2>1 DEF Connect, IInv, TypeOK, Watermark
  <2>7. TypeOK'
    BY <2>3, <2>4, <2>5, <2>6 DEF IInv, TypeOK, storeVars
  <2> QED BY <2>3, <2>5, <2>7
          DEF IInv, ViewsAreCommitted, SlicesAreCommitted, AppliedInOrder, storeVars
<1>2. CASE \E c \in Clients : Drop(c)
  <2>1. PICK c \in Clients : Drop(c)
    BY <1>2
  <2>2. /\ UNCHANGED <<serverVars, opened, joinedAt, since, storeVars>>
        /\ queue' = [queue EXCEPT ![c] = <<>>]
    BY <2>1 DEF Drop
  <2>3. \A d \in Clients : queue'[d] = <<>> \/ queue'[d] = queue[d]
    BY <2>2 DEF IInv, TypeOK
  <2>4. TypeOK'
    BY <2>1, <2>2, BoundAssumption DEF Drop, IInv, TypeOK, serverVars, storeVars
  <2> QED BY <2>2, <2>3, <2>4
          DEF IInv, ViewsAreCommitted, SlicesAreCommitted, AppliedInOrder, serverVars, storeVars
<1>3. CASE \E c \in Clients : GiveUp(c)
  BY <1>3 DEF GiveUp, IInv, TypeOK, ViewsAreCommitted, SlicesAreCommitted,
              AppliedInOrder, serverVars, socketVars, storeVars
<1>4. CASE \E k \in open : Close(k)
  BY <1>4 DEF Close, IInv, TypeOK, ViewsAreCommitted, SlicesAreCommitted,
              AppliedInOrder, socketVars, storeVars
<1>5. CASE Crash
  <2>1. TypeOK'
    BY <1>5, BoundAssumption DEF Crash, IInv, TypeOK, Handling, Service, storeVars
  <2> QED BY <1>5, <2>1
          DEF Crash, IInv, TypeOK, ViewsAreCommitted, SlicesAreCommitted, AppliedInOrder,
              Idle, storeVars
<1> QED BY <1>1, <1>2, <1>3, <1>4, <1>5

\* Consuming a frame leaves committed queues.
LEMMA ReceiveType ==
  ASSUME IInv, NEW c \in Clients, NEW type, Receive(c, type)
  PROVE  /\ queue' \in [Clients -> Seq(Frames)]
         /\ \A d \in Clients : UpTo(queue'[d], head)
         /\ Head(queue[c]).sequence \in Nat
         /\ Head(queue[c]).sequence <= head
<1>1. queue' = [queue EXCEPT ![c] = Tail(queue[c])] /\ queue[c] # <<>>
  BY DEF Receive
<1>2. head \in Nat /\ queue \in [Clients -> Seq(Frames)]
  BY DEF IInv, TypeOK
<1>3. \A d \in Clients : UpTo(queue[d], head)
  BY QueueType
<1>4. /\ Tail(queue[c]) \in Seq(Frames) /\ UpTo(Tail(queue[c]), head)
      /\ Head(queue[c]).sequence \in Nat /\ Head(queue[c]).sequence <= head
  BY <1>1, <1>2, <1>3, TakeType
<1> QED BY <1>1, <1>2, <1>3, <1>4

\* An event above the watermark keeps the store's events in order.
LEMMA AppendInOrder ==
  ASSUME NEW q \in Seq(Nat), NEW w \in Nat, NEW s \in Nat, w < s,
         \A i, j \in DOMAIN q : i < j => q[i] < q[j],
         \A i \in DOMAIN q : q[i] <= w
  PROVE  /\ Append(q, s) \in Seq(Nat)
         /\ \A i, j \in DOMAIN Append(q, s) : i < j => Append(q, s)[i] < Append(q, s)[j]
         /\ \A i \in DOMAIN Append(q, s) : Append(q, s)[i] <= s
<1>1. Append(q, s) \in Seq(Nat) /\ DOMAIN Append(q, s) = 1..(Len(q) + 1)
  OBVIOUS
<1>2. /\ \A i \in DOMAIN q : Append(q, s)[i] = q[i] /\ q[i] \in Nat
      /\ Append(q, s)[Len(q) + 1] = s
      /\ DOMAIN q = 1..Len(q) /\ Len(q) \in Nat
  OBVIOUS
<1> QED BY <1>1, <1>2

LEMMA ProcessPreserves ==
  ASSUME IInv, NEW c \in Clients, Process(c)
  PROVE  IInv'
<1> DEFINE s == Head(queue[c]).sequence
<1>1. /\ queue' \in [Clients -> Seq(Frames)]
      /\ \A d \in Clients : UpTo(queue'[d], head)
      /\ s \in Nat /\ s <= head
  BY ReceiveType DEF Process, ReceiveEvent, ReceiveSnapshot, ReceiveSubscribed,
                     ReceiveCaughtUp, ReceiveError
<1>2. ASSUME UNCHANGED storeVars,
             serving' \in [Connections -> Service],
             \A j \in Connections : serving'[j].phase = "slice" => serving'[j] = serving[j],
             UNCHANGED <<head, handler, open, subscribed, socketVars, since>>,
             resume' \in [Clients -> {"none", "subscribing", "catching-up", "done", "failed"}]
      PROVE  IInv'
  <2>1. TypeOK'
    BY <1>1, <1>2 DEF IInv, TypeOK, socketVars, storeVars
  <2> QED BY <1>1, <1>2, <2>1
          DEF IInv, ViewsAreCommitted, SlicesAreCommitted, AppliedInOrder, UpTo, storeVars
<1>3. ASSUME UNCHANGED <<serverVars, socketVars, resume, since>>,
             lastApplied' \in [Clients -> Nat], events' \in [Clients -> Seq(Nat)],
             \A d \in Clients : lastApplied'[d] <= head,
             AppliedInOrder'
      PROVE  IInv'
  <2>1. TypeOK'
    BY <1>1, <1>3 DEF IInv, TypeOK, socketVars, serverVars
  <2> QED BY <1>1, <1>3, <2>1
          DEF IInv, ViewsAreCommitted, SlicesAreCommitted, UpTo, serverVars
<1>4. CASE ReceiveEvent(c)
  <2>1. CASE Duplicate(c, s)
    BY <1>2, <1>4, <2>1 DEF ReceiveEvent, IInv, TypeOK, serverVars
  <2>2. CASE ~Duplicate(c, s)
    <3>1. /\ lastApplied' = [lastApplied EXCEPT ![c] = s]
          /\ events' = [events EXCEPT ![c] = Append(events[c], s)]
          /\ UNCHANGED <<serverVars, socketVars, resume, since>>
      BY <1>4, <2>2 DEF ReceiveEvent
    <3>2. /\ events[c] \in Seq(Nat) /\ lastApplied[c] \in Nat /\ lastApplied[c] < s
          /\ \A i, j \in DOMAIN events[c] : i < j => events[c][i] < events[c][j]
          /\ \A i \in DOMAIN events[c] : events[c][i] <= lastApplied[c]
      BY <1>1, <2>2 DEF Duplicate, IInv, TypeOK, AppliedInOrder
    <3>3. /\ Append(events[c], s) \in Seq(Nat)
          /\ \A i, j \in DOMAIN Append(events[c], s) :
                i < j => Append(events[c], s)[i] < Append(events[c], s)[j]
          /\ \A i \in DOMAIN Append(events[c], s) : Append(events[c], s)[i] <= s
      BY <1>1, <3>2, AppendInOrder
    <3>4. lastApplied' \in [Clients -> Nat] /\ events' \in [Clients -> Seq(Nat)]
      BY <1>1, <3>1, <3>3 DEF IInv, TypeOK
    <3>5. \A d \in Clients : lastApplied'[d] <= head
      BY <1>1, <3>1 DEF IInv, TypeOK, ViewsAreCommitted
    <3>6. AppliedInOrder'
      <4> SUFFICES ASSUME NEW d \in Clients
                   PROVE  /\ \A i, j \in DOMAIN events'[d] :
                               i < j => events'[d][i] < events'[d][j]
                          /\ \A i \in DOMAIN events'[d] : events'[d][i] <= lastApplied'[d]
        BY DEF AppliedInOrder
      <4>1. CASE d = c
        <5>1. events'[d] = Append(events[c], s) /\ lastApplied'[d] = s
          BY <4>1, <3>1 DEF IInv, TypeOK
        <5> QED BY <5>1, <3>3
      <4>2. CASE d # c
        <5>1. events'[d] = events[d] /\ lastApplied'[d] = lastApplied[d]
          BY <4>2, <3>1 DEF IInv, TypeOK
        <5> QED BY <5>1 DEF IInv, AppliedInOrder
      <4> QED BY <4>1, <4>2
    <3> QED BY <1>3, <3>1, <3>4, <3>5, <3>6
  <2> QED BY <2>1, <2>2
<1>5. CASE ReceiveSnapshot(c)
  <2>1. /\ lastApplied' = [lastApplied EXCEPT ![c] = IF s < lastApplied[c]
                                                     THEN lastApplied[c] ELSE s]
        /\ UNCHANGED <<serverVars, socketVars, resume, since, events>>
    BY <1>5 DEF ReceiveSnapshot
  <2>2. \A d \in Clients : /\ lastApplied[d] \in Nat /\ lastApplied[d] <= lastApplied'[d]
                           /\ lastApplied'[d] \in Nat /\ lastApplied'[d] <= head
    <3> SUFFICES ASSUME NEW d \in Clients
                 PROVE  /\ lastApplied[d] \in Nat /\ lastApplied[d] <= lastApplied'[d]
                        /\ lastApplied'[d] \in Nat /\ lastApplied'[d] <= head
      OBVIOUS
    <3>1. lastApplied[d] \in Nat /\ lastApplied[d] <= head /\ head \in Nat
      BY DEF IInv, TypeOK, ViewsAreCommitted
    <3>2. CASE d = c
      <4>1. lastApplied'[d] = IF s < lastApplied[d] THEN lastApplied[d] ELSE s
        BY <2>1, <3>2 DEF IInv, TypeOK
      <4> QED BY <1>1, <3>1, <4>1
    <3>3. CASE d # c
      <4>1. lastApplied'[d] = lastApplied[d]
        BY <2>1, <3>3 DEF IInv, TypeOK
      <4> QED BY <3>1, <4>1
    <3> QED BY <3>2, <3>3
  <2>3. lastApplied' \in [Clients -> Nat]
    BY <1>1, <2>1 DEF IInv, TypeOK
  <2>4. AppliedInOrder'
    <3>1. ASSUME NEW d \in Clients, NEW i \in DOMAIN events[d]
          PROVE  events[d][i] <= lastApplied'[d]
      <4>1. events[d][i] \in Nat /\ events[d][i] <= lastApplied[d]
        BY DEF IInv, TypeOK, AppliedInOrder
      <4> QED BY <4>1, <2>2
    <3> QED BY <2>1, <3>1 DEF IInv, AppliedInOrder
  <2> QED BY <1>3, <2>1, <2>2, <2>3, <2>4 DEF IInv, TypeOK
<1>6. CASE ReceiveSubscribed(c)
  <2>1. CASE resume[c] = "subscribing"
    <3> DEFINE asked == [phase |-> "catch-up", since |-> since[c]]
    <3>1. /\ serving' = [serving EXCEPT ![<<c, socket[c]>>] = asked]
          /\ resume' = [resume EXCEPT ![c] = "catching-up"]
          /\ UNCHANGED <<head, handler, open, subscribed, socketVars, since, storeVars>>
      BY <1>6, <2>1 DEF ReceiveSubscribed
    <3>2. asked \in Service
      BY DEF IInv, TypeOK, Service
    <3>3. /\ serving' \in [Connections -> Service]
          /\ \A j \in Connections : serving'[j].phase = "slice" => serving'[j] = serving[j]
      BY <3>1, <3>2 DEF IInv, TypeOK
    <3>4. resume' \in [Clients -> {"none", "subscribing", "catching-up", "done", "failed"}]
      BY <3>1 DEF IInv, TypeOK
    <3> QED BY <1>2, <3>1, <3>3, <3>4
  <2>2. CASE resume[c] # "subscribing"
    BY <1>2, <1>6, <2>2 DEF ReceiveSubscribed, IInv, TypeOK
  <2> QED BY <2>1, <2>2
<1>7. CASE ReceiveCaughtUp(c)
  BY <1>2, <1>7 DEF ReceiveCaughtUp, IInv, TypeOK, serverVars
<1>8. CASE ReceiveError(c)
  BY <1>2, <1>8 DEF ReceiveError, IInv, TypeOK, serverVars
<1> QED BY <1>4, <1>5, <1>6, <1>7, <1>8 DEF Process

LEMMA NextIInv == IInv /\ [Next]_vars => IInv'
<1> SUFFICES ASSUME IInv, [Next]_vars
             PROVE  IInv'
  OBVIOUS
<1>1. CASE \E h \in Handlers :
             \/ \E c \in Clients : Request(h, c)
             \/ RouteRequest(h)
             \/ \E count \in 1..2 : AppendEvents(h, count)
             \/ Reject(h)
             \/ Emit(h)
  BY <1>1, HandlersPreserve
<1>2. CASE \E k \in Connections : Serve(k)
  BY <1>2, ServePreserves
<1>3. CASE \/ \E c \in Clients : Connect(c) \/ Drop(c) \/ GiveUp(c)
           \/ \E k \in open : Close(k)
           \/ Crash
  BY <1>3, ConnectionsPreserve
<1>4. CASE \E c \in Clients : Process(c)
  BY <1>4, ProcessPreserves
<1>5. CASE UNCHANGED vars
  BY <1>5 DEF IInv, TypeOK, ViewsAreCommitted, SlicesAreCommitted, AppliedInOrder,
              vars, serverVars, socketVars, storeVars
<1> QED BY <1>1, <1>2, <1>3, <1>4, <1>5 DEF Next

----------------------------------------------------------------------------
(* What is on its way to a client *)

Has(q, type) == \E i \in DOMAIN q : q[i].type = type
Covers(q, s) == \E i \in DOMAIN q : Carries(q[i], s)

\* The connection of the socket the client holds.
Own(c) == <<c, socket[c]>>

\* Event s was committed and is about to be emitted.
Batched(s) ==
  \E h \in Handlers : handler[h].phase = "committed" /\ s \in handler[h].first..handler[h].last

Coming(c, s) == Covers(queue[c], s) \/ (Own(c) \in subscribed /\ Batched(s))

\* Every event above n and the watermark is on its way.
Awaited(c, n) == \A s \in 1..head : s > n /\ s > lastApplied[c] => Coming(c, s)

\* Before frame i the queue carries every event committed before the client
\* connected.
Before(c, i) ==
  \A s \in 1..joinedAt[c] : s > lastApplied[c] => \E j \in 1..(i - 1) : Carries(queue[c][j], s)

CatchUp == {"catch-up", "slice", "snapshot"}

\* A client's resume, await by await: registered before it catches up, its
\* slice joins on to what is emitted live, and the acknowledgement comes last.
Tracked(c) ==
  /\ socket[c] = 0 => queue[c] = <<>> /\ resume[c] = "none"
  /\ Has(queue[c], "subscribed") => Own(c) \in subscribed
  /\ socket[c] # 0 /\ serving[Own(c)].phase \in CatchUp =>
       Own(c) \in subscribed /\ serving[Own(c)].since <= lastApplied[c]
  /\ socket[c] # 0 /\ serving[Own(c)].phase = "slice" =>
       joinedAt[c] <= serving[Own(c)].max /\ Awaited(c, serving[Own(c)].max)
  /\ Has(queue[c], "caught-up") \/ resume[c] = "done" =>
       Own(c) \in subscribed /\ Awaited(c, 0)
  /\ \A i \in DOMAIN queue[c] : queue[c][i].type = "caught-up" => Before(c, i)
  /\ resume[c] = "done" => lastApplied[c] >= joinedAt[c]
  /\ since[c] <= lastApplied[c]
  /\ joinedAt[c] <= head

Sound == IInv /\ head <= Ceiling /\ \A c \in Clients : Tracked(c)

\* A log longer than the ceiling has outgrown what one snapshot reads, and
\* from then on nothing is promised.
SoundWhileItFits == IInv /\ (head <= Ceiling => Sound)

\* A queue with something appended.
LEMMA Joined ==
  ASSUME NEW q \in Seq(Frames), NEW f \in Seq(Frames)
  PROVE  /\ q \o f \in Seq(Frames)
         /\ \A i \in DOMAIN q : i \in DOMAIN (q \o f) /\ (q \o f)[i] = q[i]
         /\ \A i \in DOMAIN f : Len(q) + i \in DOMAIN (q \o f) /\ (q \o f)[Len(q) + i] = f[i]
         /\ \A i \in DOMAIN (q \o f) :
              i \in DOMAIN q \/ (i - Len(q) \in DOMAIN f /\ (q \o f)[i] = f[i - Len(q)])
OBVIOUS

LEMMA JoinedFrames ==
  ASSUME NEW q \in Seq(Frames), NEW f \in Seq(Frames)
  PROVE  /\ \A s : Covers(q, s) \/ Covers(f, s) => Covers(q \o f, s)
         /\ \A t : Has(q \o f, t) => Has(q, t) \/ Has(f, t)
<1>1. ASSUME NEW s, Covers(q, s) \/ Covers(f, s) PROVE Covers(q \o f, s)
  BY <1>1, Joined DEF Covers
<1>2. ASSUME NEW t, Has(q \o f, t) PROVE Has(q, t) \/ Has(f, t)
  BY <1>2, Joined DEF Has
<1> QED BY <1>1, <1>2

\* The frames of an interval carry each of its events and nothing else.
LEMMA BatchCovers ==
  ASSUME NEW first \in Nat, NEW last \in Nat
  PROVE  /\ \A s \in first..last : Covers(EventFrames(first, last), s)
         /\ ~Has(EventFrames(first, last), "subscribed")
         /\ ~Has(EventFrames(first, last), "caught-up")
<1>1. \A i \in DOMAIN EventFrames(first, last) :
        EventFrames(first, last)[i] = EventFrame(first + i - 1)
  BY DEF EventFrames
<1>2. ASSUME NEW s \in first..last PROVE Covers(EventFrames(first, last), s)
  <2>1. s - first + 1 \in DOMAIN EventFrames(first, last)
    BY DEF EventFrames
  <2>2. first + (s - first + 1) - 1 = s
    OBVIOUS
  <2> QED BY <1>1, <2>1, <2>2 DEF Covers, Carries
<1> QED BY <1>1, <1>2 DEF Has, EventFrame

\* The sequences of single replies, read by type.
LEMMA PlainHas ==
  /\ ~Has(<<SubscribedFrame>>, "caught-up")
  /\ ~Has(<<CaughtUpFrame>>, "subscribed")
  /\ ~Has(<<ErrorFrame>>, "subscribed") /\ ~Has(<<ErrorFrame>>, "caught-up")
  /\ ~Has(<<>>, "subscribed") /\ ~Has(<<>>, "caught-up")
BY DEF Has, SubscribedFrame, CaughtUpFrame, ErrorFrame

\* What other handlers and the client's own service do to a client that takes
\* nothing in: frames are appended to its queue, and every event that was
\* coming is coming still.
LEMMA Extends ==
  ASSUME IInv, NEW c \in Clients, Tracked(c), NEW f \in Seq(Frames),
         queue'[c] = queue[c] \o f,
         socket'[c] = socket[c], resume'[c] = resume[c], since'[c] = since[c],
         joinedAt'[c] = joinedAt[c], lastApplied'[c] = lastApplied[c], head' = head,
         socket[c] = 0 => f = <<>>,
         Own(c) \in subscribed => Own(c) \in subscribed',
         \A s \in 1..head :
           Own(c) \in subscribed /\ Batched(s) => Batched(s)' \/ Covers(f, s),
         socket[c] # 0 =>
           \/ serving'[Own(c)] \in {serving[Own(c)], Idle}
           \/ /\ serving[Own(c)].phase \in CatchUp
              /\ serving'[Own(c)].since = serving[Own(c)].since
              /\ serving'[Own(c)].max = head,
         Has(f, "subscribed") => Own(c) \in subscribed',
         Has(f, "caught-up") =>
           /\ Own(c) \in subscribed
           /\ \A s \in 1..head : s > lastApplied[c] => Coming(c, s) \/ Covers(f, s),
         \A i \in DOMAIN f : f[i].type = "caught-up" =>
           \A s \in 1..joinedAt[c] : s > lastApplied[c] => \E j \in 1..(i - 1) : Carries(f[j], s)
  PROVE  Tracked(c)'
<1>0. /\ queue[c] \in Seq(Frames) /\ head \in Nat /\ lastApplied[c] \in Nat /\ joinedAt[c] \in Nat
      /\ Own(c)' = Own(c)
  BY DEF IInv, TypeOK, Own
<1>1. ASSUME NEW s \in 1..head, Coming(c, s) \/ Covers(f, s) PROVE Coming(c, s)'
  <2>1. CASE Covers(queue[c], s) \/ Covers(f, s)
    BY <1>0, <2>1, JoinedFrames DEF Coming, Covers
  <2>2. CASE Own(c) \in subscribed /\ Batched(s)
    BY <1>0, <2>1, <2>2 DEF Coming
  <2> QED BY <1>1, <2>1, <2>2 DEF Coming
<1>2. ASSUME NEW n, Awaited(c, n) PROVE \A s \in 1..head' : s > n /\ s > lastApplied'[c] => Coming(c, s)'
  BY <1>1, <1>2 DEF Awaited
<1>3. ASSUME socket'[c] = 0 PROVE queue'[c] = <<>> /\ resume'[c] = "none"
  BY <1>0, <1>3 DEF Tracked
<1>4. ASSUME Has(queue'[c], "subscribed") PROVE Own(c)' \in subscribed'
  BY <1>0, <1>4, JoinedFrames DEF Tracked
<1>5. ASSUME socket'[c] # 0, serving'[Own(c)].phase \in CatchUp
      PROVE  Own(c) \in subscribed' /\ serving'[Own(c)].since <= lastApplied'[c]
  BY <1>5 DEF Tracked, Idle, CatchUp
<1>6. ASSUME socket'[c] # 0, serving'[Own(c)].phase = "slice"
      PROVE  /\ joinedAt'[c] <= serving'[Own(c)].max
             /\ \A s \in 1..head' : s > serving'[Own(c)].max /\ s > lastApplied'[c] => Coming(c, s)'
  <2>1. CASE serving'[Own(c)] = serving[Own(c)]
    BY <1>2, <1>6, <2>1 DEF Tracked
  <2>2. CASE serving'[Own(c)].max = head
    BY <1>0, <2>2 DEF Tracked
  <2> QED BY <1>6, <2>1, <2>2 DEF Idle
<1>7. ASSUME Has(queue'[c], "caught-up") \/ resume'[c] = "done"
      PROVE  Own(c) \in subscribed' /\ \A s \in 1..head' : s > 0 /\ s > lastApplied'[c] => Coming(c, s)'
  <2>1. CASE Has(queue[c], "caught-up") \/ resume[c] = "done"
    BY <1>2, <2>1 DEF Tracked
  <2>2. CASE Has(f, "caught-up")
    BY <1>1, <2>2
  <2> QED BY <1>0, <1>7, <2>1, <2>2, JoinedFrames
<1>8. ASSUME NEW i \in DOMAIN queue'[c], queue'[c][i].type = "caught-up",
             NEW s \in 1..joinedAt'[c], s > lastApplied'[c]
      PROVE  \E j \in 1..(i - 1) : Carries(queue'[c][j], s)
  <2>1. CASE i \in DOMAIN queue[c]
    <3>1. queue[c][i].type = "caught-up"
      BY <1>0, <1>8, <2>1, Joined
    <3>2. PICK j \in 1..(i - 1) : Carries(queue[c][j], s)
      BY <1>8, <2>1, <3>1 DEF Tracked, Before
    <3>3. j \in DOMAIN queue[c]
      BY <1>0, <2>1
    <3> QED BY <1>0, <3>2, <3>3, Joined
  <2>2. CASE i \notin DOMAIN queue[c]
    <3> DEFINE m == i - Len(queue[c])
    <3>1. m \in DOMAIN f /\ f[m].type = "caught-up" /\ m \in Nat /\ i = Len(queue[c]) + m
      BY <1>0, <1>8, <2>2, Joined
    <3>2. PICK j \in 1..(m - 1) : Carries(f[j], s)
      BY <1>8, <3>1
    <3> HIDE DEF m
    <3>3. DOMAIN f = 1..Len(f) /\ Len(f) \in Nat /\ Len(queue[c]) \in Nat
      BY <1>0
    <3>4. j \in Nat /\ j >= 1 /\ j <= m - 1 /\ m <= Len(f)
      BY <3>1, <3>3
    <3>5. j \in DOMAIN f /\ Len(queue[c]) + j \in 1..(i - 1)
      BY <3>1, <3>3, <3>4
    <3>6. (queue[c] \o f)[Len(queue[c]) + j] = f[j]
      BY <1>0, <3>5, Joined
    <3> QED BY <3>2, <3>5, <3>6
  <2> QED BY <2>1, <2>2
<1>9. /\ resume'[c] = "done" => lastApplied'[c] >= joinedAt'[c]
      /\ since'[c] <= lastApplied'[c] /\ joinedAt'[c] <= head'
  BY DEF Tracked
<1> QED BY <1>0, <1>3, <1>4, <1>5, <1>6, <1>7, <1>8, <1>9 DEF Tracked, Awaited, Before

\* A step that touches nothing of the client's and emits nothing of a batch.
LEMMA Bystander ==
  ASSUME IInv, NEW c \in Clients, Tracked(c),
         queue'[c] = queue[c], socket'[c] = socket[c], resume'[c] = resume[c],
         since'[c] = since[c], joinedAt'[c] = joinedAt[c], lastApplied'[c] = lastApplied[c],
         head' = head,
         Own(c) \in subscribed => Own(c) \in subscribed',
         \A h \in Handlers : handler[h].phase = "committed" => handler'[h] = handler[h],
         socket[c] # 0 => serving'[Own(c)] = serving[Own(c)]
  PROVE  Tracked(c)'
<1>1. <<>> \in Seq(Frames) /\ queue'[c] = queue[c] \o <<>>
  BY DEF IInv, TypeOK
<1>2. \A s : Batched(s) => \E h \in Handlers : handler'[h].phase = "committed"
                                              /\ s \in handler'[h].first..handler'[h].last
  BY DEF Batched
<1>3. \A i \in DOMAIN <<>> : FALSE
  OBVIOUS
<1> QED BY <1>1, <1>2, <1>3, Extends, PlainHas DEF Batched

LEMMA OwnIsOpen ==
  ASSUME TypeOK, NEW c \in Clients
  PROVE  /\ Own(c) \in Connections <=> socket[c] # 0
         /\ Own(c) \in subscribed => socket[c] # 0
BY BoundAssumption DEF TypeOK, Own, Connections

LEMMA WritesTrack ==
  ASSUME Sound, NEW h \in Handlers,
         \/ \E c \in Clients : Request(h, c)
         \/ RouteRequest(h)
         \/ \E count \in 1..2 : AppendEvents(h, count)
         \/ Reject(h)
         \/ Emit(h)
  PROVE  \A c \in Clients : Tracked(c)'
<1>0. IInv /\ TypeOK /\ head <= Ceiling /\ head \in Nat /\ \A c \in Clients : Tracked(c)
  BY DEF Sound, IInv, TypeOK
<1>1. CASE (\E c \in Clients : Request(h, c)) \/ RouteRequest(h) \/ Reject(h)
  <2>1. /\ UNCHANGED <<head, open, subscribed, serving, socketVars, queue, resume,
                       since, storeVars>>
        /\ \A g \in Handlers : handler[g].phase = "committed" => handler'[g] = handler[g]
    BY <1>0, <1>1 DEF Request, RouteRequest, Reject, TypeOK
  <2> QED BY <1>0, <2>1, Bystander DEF socketVars, storeVars
<1>2. CASE \E count \in 1..2 : AppendEvents(h, count)
  <2>1. PICK count \in 1..2 : AppendEvents(h, count)
    BY <1>2
  <2>2. /\ head' = head + count /\ head' <= MaxHead /\ handler[h].phase = "ready"
        /\ handler' = [handler EXCEPT ![h] =
             [phase |-> "committed", first |-> head + 1, last |-> head']]
        /\ UNCHANGED <<open, subscribed, serving, socketVars, queue, resume, since, storeVars>>
    BY <2>1 DEF AppendEvents
  <2>3. ASSUME NEW c \in Clients PROVE Tracked(c)'
    <3>1. /\ queue'[c] = queue[c] /\ socket'[c] = socket[c] /\ resume'[c] = resume[c]
          /\ since'[c] = since[c] /\ joinedAt'[c] = joinedAt[c] /\ subscribed' = subscribed
          /\ lastApplied'[c] = lastApplied[c] /\ serving' = serving /\ Own(c)' = Own(c)
          /\ joinedAt[c] \in Nat
      BY <1>0, <2>2 DEF socketVars, storeVars, Own, TypeOK
    <3>2. ASSUME NEW n, Own(c) \in subscribed, Awaited(c, n)
          PROVE  Awaited(c, n)'
      <4> SUFFICES ASSUME NEW s \in 1..head', s > n, s > lastApplied'[c]
                   PROVE  Coming(c, s)'
        BY DEF Awaited
      <4>1. CASE s <= head
        <5>1. Coming(c, s)
          BY <1>0, <3>1, <3>2, <4>1 DEF Awaited
        <5>2. ASSUME Batched(s) PROVE Batched(s)'
          <6>1. PICK g \in Handlers : handler[g].phase = "committed"
                                      /\ s \in handler[g].first..handler[g].last
            BY <5>2 DEF Batched
          <6>2. handler'[g] = handler[g]
            BY <1>0, <2>2, <6>1 DEF TypeOK
          <6> QED BY <6>1, <6>2 DEF Batched
        <5> QED BY <3>1, <5>1, <5>2 DEF Coming
      <4>2. CASE s > head
        <5>1. handler'[h].phase = "committed" /\ s \in handler'[h].first..handler'[h].last
          BY <1>0, <2>2, <4>2 DEF TypeOK
        <5> QED BY <3>1, <3>2, <5>1 DEF Coming, Batched
      <4> QED BY <1>0, <4>1, <4>2
    <3>3. joinedAt'[c] <= head'
      BY <1>0, <2>2, <3>1 DEF Tracked
    <3>4. \A i : Before(c, i)' <=> Before(c, i)
      BY <3>1 DEF Before
    <3>5. ASSUME socket[c] # 0, serving[Own(c)].phase = "slice"
          PROVE  Awaited(c, serving[Own(c)].max)'
      <4> DEFINE n == serving[Own(c)].max
      <4>1. Own(c) \in subscribed /\ Awaited(c, n)
        BY <1>0, <3>5 DEF Tracked, CatchUp
      <4>2. n' = n
        BY <3>1
      <4> HIDE DEF n
      <4>3. \A s \in 1..head' : s > n /\ s > lastApplied'[c] => Coming(c, s)'
        BY <3>2, <4>1, <4>2 DEF Awaited
      <4> QED BY <4>2, <4>3 DEF Awaited, n
    <3>6. ASSUME Has(queue[c], "caught-up") \/ resume[c] = "done" PROVE Awaited(c, 0)'
      BY <1>0, <3>2, <3>6 DEF Tracked
    <3> QED BY <1>0, <3>1, <3>3, <3>4, <3>5, <3>6 DEF Tracked
  <2> QED BY <2>3
<1>3. CASE Emit(h)
  <2> DEFINE batch == EventFrames(handler[h].first, handler[h].last)
  <2>1. /\ handler[h].phase = "committed" /\ handler[h].first \in Nat /\ handler[h].last \in Nat
        /\ handler' = [handler EXCEPT ![h] = Idle]
        /\ queue' = [c \in Clients |-> IF Own(c) \in subscribed THEN queue[c] \o batch ELSE queue[c]]
        /\ UNCHANGED <<head, open, subscribed, serving, socketVars, resume, since, storeVars>>
    BY <1>0, <1>3, HandlerFields DEF Emit, Own
  <2>2. batch \in Seq(Frames)
    <3>1. handler[h].last <= handler[h].last
      BY <2>1
    <3> QED BY <2>1, <3>1, BatchType
  <2>3. ASSUME NEW c \in Clients PROVE Tracked(c)'
    <3>1. CASE Own(c) \in subscribed
      <4>1. \A s \in 1..head : Batched(s) =>
              (\E g \in Handlers : handler'[g].phase = "committed" /\ s \in handler'[g].first..handler'[g].last)
              \/ Covers(batch, s)
        BY <1>0, <2>1, BatchCovers DEF Batched, TypeOK
      <4>2. \A s \in 1..head : Batched(s) => Batched(s)' \/ Covers(batch, s)
        BY <4>1 DEF Batched
      <4>3. ~Has(batch, "subscribed") /\ ~Has(batch, "caught-up")
        BY <2>1, BatchCovers
      <4>4. \A i \in DOMAIN batch : batch[i].type # "caught-up"
        BY <4>3 DEF Has
      <4>5. /\ queue'[c] = queue[c] \o batch /\ socket'[c] = socket[c] /\ resume'[c] = resume[c]
            /\ since'[c] = since[c] /\ joinedAt'[c] = joinedAt[c] /\ subscribed' = subscribed
            /\ lastApplied'[c] = lastApplied[c] /\ serving' = serving /\ head' = head
        BY <2>1, <3>1 DEF socketVars, storeVars
      <4> HIDE DEF batch
      <4> QED BY <1>0, <2>2, <3>1, <4>2, <4>3, <4>4, <4>5, OwnIsOpen, Extends
    <3>2. CASE Own(c) \notin subscribed
      <4>1. /\ queue'[c] = queue[c] \o <<>> /\ socket'[c] = socket[c] /\ resume'[c] = resume[c]
            /\ since'[c] = since[c] /\ joinedAt'[c] = joinedAt[c] /\ subscribed' = subscribed
            /\ lastApplied'[c] = lastApplied[c] /\ serving' = serving /\ head' = head
            /\ <<>> \in Seq(Frames)
        BY <1>0, <2>1, <3>2 DEF socketVars, storeVars, TypeOK
      <4>2. \A i \in DOMAIN <<>> : FALSE
        OBVIOUS
      <4> QED BY <1>0, <3>2, <4>1, <4>2, PlainHas, Extends
    <3> QED BY <3>1, <3>2
  <2> QED BY <1>0, <2>1, <2>3
<1> QED BY <1>1, <1>2, <1>3

\* The server's answers: a slice joins on to what is emitted live, a snapshot
\* holds the whole log, and at the head nothing is missing.
LEMMA ServeTracks ==
  ASSUME Sound, NEW k \in Connections, Serve(k), NEW c \in Clients
  PROVE  Tracked(c)'
<1>0. /\ IInv /\ TypeOK /\ head <= Ceiling /\ head \in Nat /\ Tracked(c)
      /\ queue \in [Clients -> Seq(Frames)] /\ serving \in [Connections -> Service]
      /\ lastApplied[c] \in Nat /\ joinedAt[c] \in Nat /\ queue[c] \in Seq(Frames)
  BY DEF Sound, IInv, TypeOK
<1>1. /\ UNCHANGED <<head, handler, socketVars, resume, since, storeVars>>
      /\ subscribed \subseteq subscribed'
      /\ \A j \in Connections : j # k => serving'[j] = serving[j]
      /\ \A d \in Clients : d # k[1] => queue'[d] = queue[d]
      /\ ~Live(k) => queue' = queue
  BY <1>0 DEF Serve, ServeSubscribe, ServeAtHead, ServeGap, ServeSlice, ServeSnapshot,
              ServeError, Reply, TypeOK
<1>2. CASE k # Own(c)
  <2>1. queue'[c] = queue[c]
    <3>1. k = <<k[1], k[2]>>
      BY DEF Connections
    <3>2. k[1] # c \/ ~Live(k)
      BY <1>2, <3>1 DEF Live, Own
    <3> QED BY <1>1, <3>2
  <2>2. socket[c] # 0 => serving'[Own(c)] = serving[Own(c)]
    BY <1>0, <1>1, <1>2, OwnIsOpen
  <2> QED BY <1>0, <1>1, <2>1, <2>2, Bystander DEF socketVars, storeVars
<1>3. CASE k = Own(c)
  <2>0. k[1] = c /\ Live(k) /\ socket[c] # 0
    BY <1>0, <1>3, OwnIsOpen DEF Own, Live
  <2>1. \A s : Batched(s) => \E h \in Handlers : handler'[h].phase = "committed"
                                                /\ s \in handler'[h].first..handler'[h].last
    BY <1>1 DEF Batched
  <2>2. ASSUME NEW f \in Seq(Frames), Reply(k, f), serving'[k] \in {serving[k], Idle},
               Has(f, "subscribed") => Own(c) \in subscribed',
               Has(f, "caught-up") =>
                 /\ Own(c) \in subscribed
                 /\ \A s \in 1..head : s > lastApplied[c] => Coming(c, s) \/ Covers(f, s),
               \A i \in DOMAIN f : f[i].type = "caught-up" =>
                 \A s \in 1..joinedAt[c] : s > lastApplied[c] =>
                   \E j \in 1..(i - 1) : Carries(f[j], s)
        PROVE  Tracked(c)'
    <3>1. queue'[c] = queue[c] \o f
      BY <1>0, <2>0, <2>2 DEF Reply
    <3>2. /\ socket'[c] = socket[c] /\ resume'[c] = resume[c] /\ since'[c] = since[c]
          /\ joinedAt'[c] = joinedAt[c] /\ lastApplied'[c] = lastApplied[c] /\ head' = head
          /\ Own(c) \in subscribed => Own(c) \in subscribed'
          /\ \A s \in 1..head : Own(c) \in subscribed /\ Batched(s) => Batched(s)' \/ Covers(f, s)
          /\ serving'[Own(c)] \in {serving[Own(c)], Idle}
      BY <1>1, <1>3, <2>1, <2>2 DEF socketVars, storeVars, Batched
    <3> QED BY <1>0, <2>0, <2>2, <3>1, <3>2, Extends
  <2>3. CASE ServeSubscribe(k)
    <3>1. Own(c) \in subscribed' /\ Reply(k, <<SubscribedFrame>>) /\ serving'[k] = Idle
      BY <1>0, <1>3, <2>3 DEF ServeSubscribe
    <3> QED BY <2>2, <3>1, PlainFrames, PlainHas DEF Has
  <2>4. CASE ServeAtHead(k)
    <3>1. Reply(k, <<CaughtUpFrame>>) /\ serving'[k] = Idle
      BY <1>0, <2>4 DEF ServeAtHead
    <3>2. Own(c) \in subscribed /\ head <= lastApplied[c] /\ joinedAt[c] <= head
      <4>1. serving[k].phase = "catch-up" /\ serving[k].since >= head /\ serving[k].since \in Nat
        BY <1>0, <2>4, ServiceFields DEF ServeAtHead
      <4> QED BY <1>0, <1>3, <2>0, <4>1 DEF Tracked, CatchUp
    <3>3. \A s \in 1..head : ~(s > lastApplied[c])
      BY <1>0, <3>2
    <3>4. \A s \in 1..joinedAt[c] : ~(s > lastApplied[c])
      BY <1>0, <3>2
    <3> QED BY <2>2, <3>1, <3>2, <3>3, <3>4, PlainFrames, PlainHas
  <2>5. CASE ServeGap(k)
    <3>1. /\ queue'[c] = queue[c] \o <<>> /\ <<>> \in Seq(Frames)
          /\ serving[k].phase \in CatchUp /\ serving'[k].since = serving[k].since
          /\ serving'[k].max = head
      BY <1>0, <2>5 DEF ServeGap, CatchUp
    <3>2. \A i \in DOMAIN <<>> : FALSE
      OBVIOUS
    <3>3. /\ socket'[c] = socket[c] /\ resume'[c] = resume[c] /\ since'[c] = since[c]
          /\ joinedAt'[c] = joinedAt[c] /\ lastApplied'[c] = lastApplied[c] /\ head' = head
          /\ Own(c) \in subscribed => Own(c) \in subscribed'
          /\ \A s \in 1..head : Batched(s) => Batched(s)'
      BY <1>1, <2>1 DEF socketVars, storeVars, Batched
    <3> QED BY <1>0, <1>3, <2>0, <3>1, <3>2, <3>3, PlainHas, Extends
  <2>6. CASE ServeSlice(k)
    <3> DEFINE from == serving[k].since
               max == serving[k].max
               replay == Missed(from, max)
    <3>1. /\ from \in Nat /\ max \in Nat /\ from <= lastApplied[c] /\ joinedAt[c] <= max
          /\ Own(c) \in subscribed /\ Awaited(c, max)
      <4>1. serving[k].phase = "slice"
        BY <2>6 DEF ServeSlice
      <4> QED BY <1>0, <1>3, <2>0, <4>1, ServiceFields DEF Tracked, CatchUp
    <3>2. Reply(k, replay \o <<CaughtUpFrame>>) /\ serving'[k] = Idle
      BY <1>0, <2>6 DEF ServeSlice
    <3>3. replay = EventFrames(from + 1, max) /\ from + 1 \in Nat
      BY <3>1 DEF Missed
    <3>4. replay \in Seq(Frames) /\ <<CaughtUpFrame>> \in Seq(Frames)
      <4>1. max <= max
        BY <3>1
      <4> QED BY <3>1, <3>3, <4>1, BatchType, PlainFrames
    <3>5. /\ \A s \in (from + 1)..max : Covers(replay, s)
          /\ ~Has(replay, "subscribed") /\ ~Has(replay, "caught-up")
      BY <3>1, <3>3, BatchCovers
    <3> HIDE DEF from, max, replay
    <3>6. ~Has(replay \o <<CaughtUpFrame>>, "subscribed")
      BY <3>4, <3>5, JoinedFrames, PlainHas
    <3>7. ASSUME NEW s \in 1..head, s > lastApplied[c]
          PROVE  Coming(c, s) \/ Covers(replay \o <<CaughtUpFrame>>, s)
      <4>1. CASE s <= max
        <5>1. s \in (from + 1)..max
          BY <1>0, <3>1, <3>7, <4>1
        <5> QED BY <3>4, <3>5, <5>1, JoinedFrames
      <4>2. CASE s > max
        BY <1>0, <3>1, <3>7, <4>2 DEF Awaited
      <4> QED BY <1>0, <3>1, <4>1, <4>2
    <3>8. ASSUME NEW i \in DOMAIN (replay \o <<CaughtUpFrame>>),
                 (replay \o <<CaughtUpFrame>>)[i].type = "caught-up",
                 NEW s \in 1..joinedAt[c], s > lastApplied[c]
          PROVE  \E j \in 1..(i - 1) : Carries((replay \o <<CaughtUpFrame>>)[j], s)
      <4>1. DOMAIN replay = 1..Len(replay) /\ Len(replay) \in Nat
        BY <3>4
      <4>2. i \notin DOMAIN replay
        BY <3>4, <3>5, <3>8, Joined DEF Has
      <4>3. i - Len(replay) \in DOMAIN <<CaughtUpFrame>>
        BY <3>4, <4>2, Joined
      <4>4. i - Len(replay) = 1
        BY <4>3
      <4>5. s \in (from + 1)..max
        BY <1>0, <3>1, <3>8
      <4>6. PICK j \in DOMAIN replay : Carries(replay[j], s)
        BY <3>5, <4>5 DEF Covers
      <4>7. j \in 1..(i - 1)
        BY <4>1, <4>4, <4>6
      <4>8. (replay \o <<CaughtUpFrame>>)[j] = replay[j]
        BY <3>4, <4>6, Joined
      <4> QED BY <4>6, <4>7, <4>8
    <3>9. replay \o <<CaughtUpFrame>> \in Seq(Frames)
      BY <3>4
    <3> QED BY <2>2, <3>1, <3>2, <3>6, <3>7, <3>8, <3>9
  <2>7. CASE ServeSnapshot(k)
    <3> DEFINE f == <<SnapshotFrame(head), CaughtUpFrame>>
    <3>1. Reply(k, f) /\ serving'[k] = Idle
      BY <1>0, <2>7 DEF ServeSnapshot, SnapshotAt
    <3>2. f \in Seq(Frames) /\ f[1] = SnapshotFrame(head) /\ f[2] = CaughtUpFrame /\ DOMAIN f = 1..2
      BY <1>0 DEF SnapshotFrame, CaughtUpFrame, Frames
    <3>3. Own(c) \in subscribed
      BY <1>3, <1>0, <2>0, <2>7 DEF Tracked, CatchUp, ServeSnapshot
    <3> HIDE DEF f
    <3>4. ~Has(f, "subscribed")
      BY <3>2 DEF Has, SnapshotFrame, CaughtUpFrame
    <3>5. \A s \in 1..head : Carries(f[1], s)
      BY <1>0, <3>2 DEF Carries, SnapshotFrame
    <3>6. \A s \in 1..head : Covers(f, s)
      BY <3>2, <3>5 DEF Covers
    <3>7. ASSUME NEW i \in DOMAIN f, f[i].type = "caught-up", NEW s \in 1..joinedAt[c]
          PROVE  \E j \in 1..(i - 1) : Carries(f[j], s)
      <4>1. i # 1
        BY <3>2, <3>7 DEF SnapshotFrame
      <4>2. i = 2
        BY <3>2, <4>1
      <4>3. s \in 1..head
        BY <1>0 DEF Tracked
      <4> QED BY <3>5, <4>2, <4>3
    <3> QED BY <2>2, <3>1, <3>2, <3>3, <3>4, <3>6, <3>7
  <2>8. CASE ServeError(k)
    <3>1. Reply(k, <<ErrorFrame>>) /\ serving'[k] = Idle
      BY <1>0, <2>8 DEF ServeError
    <3> QED BY <2>2, <3>1, PlainFrames, PlainHas DEF Has
  <2> QED BY <2>3, <2>4, <2>5, <2>6, <2>7, <2>8 DEF Serve
<1> QED BY <1>2, <1>3

\* Opening, losing and tearing down connections: a new connection has nothing
\* behind it, and a closed one is no client's own.
LEMMA ConnectionsTrack ==
  ASSUME Sound,
         \/ \E c \in Clients : Connect(c) \/ Drop(c) \/ GiveUp(c)
         \/ \E k \in open : Close(k)
         \/ Crash,
         NEW c \in Clients
  PROVE  Tracked(c)'
<1>0. /\ IInv /\ TypeOK /\ head \in Nat /\ Tracked(c)
      /\ lastApplied[c] \in Nat /\ joinedAt[c] \in Nat /\ queue[c] \in Seq(Frames)
      /\ queue \in [Clients -> Seq(Frames)] /\ serving \in [Connections -> Service]
  BY DEF Sound, IInv, TypeOK
<1>1. CASE \E d \in Clients : Connect(d)
  <2>1. PICK d \in Clients : Connect(d)
    BY <1>1
  <2>2. CASE d = c
    <3> DEFINE n == opened[c] + 1
    <3>1. /\ socket[c] = 0 /\ queue[c] = <<>> /\ resume'[c] = "subscribing" /\ queue'[c] = <<>>
          /\ socket'[c] = n /\ since'[c] = lastApplied[c] /\ joinedAt'[c] = head
          /\ lastApplied'[c] = lastApplied[c] /\ head' = head /\ n # 0
      BY <1>0, <2>1, <2>2 DEF Connect, Tracked, TypeOK, Watermark, storeVars
    <3>2. serving'[Own(c)'].phase = "subscribe"
      <4>1. <<c, n>> \in Connections
        <5>1. opened[c] \in 0..MaxConnections /\ opened[c] < MaxConnections
          BY <1>0, <2>1, <2>2 DEF Connect, TypeOK
        <5>2. n \in 1..MaxConnections
          BY <5>1, BoundAssumption
        <5> QED BY <5>2 DEF Connections
      <4>2. serving' = [serving EXCEPT ![<<c, n>>] = [phase |-> "subscribe"]]
        BY <2>1, <2>2 DEF Connect
      <4>3. Own(c)' = <<c, n>>
        BY <3>1 DEF Own
      <4> HIDE DEF n
      <4> QED BY <1>0, <4>1, <4>2, <4>3
    <3>3. \A i \in DOMAIN <<>> : FALSE
      OBVIOUS
    <3>4. lastApplied'[c] <= lastApplied'[c] /\ joinedAt'[c] <= head'
      BY <1>0, <3>1
    <3>5. ~Has(queue[c], "subscribed")' /\ ~Has(queue[c], "caught-up")'
      BY <3>1, <3>3 DEF Has
    <3> HIDE DEF n
    <3> QED BY <3>1, <3>2, <3>3, <3>4, <3>5 DEF Tracked, CatchUp
  <2>3. CASE d # c
    <3>1. /\ socket'[c] = socket[c] /\ since'[c] = since[c] /\ resume'[c] = resume[c]
          /\ joinedAt'[c] = joinedAt[c]
          /\ UNCHANGED <<head, handler, subscribed, queue, storeVars>>
      BY <1>0, <2>1, <2>3 DEF Connect, TypeOK
    <3>2. serving'[Own(c)] = serving[Own(c)] \/ socket[c] = 0
      <4>1. Own(c) # <<d, opened[d] + 1>>
        BY <2>3 DEF Own
      <4>2. socket[c] # 0 => Own(c) \in Connections
        BY <1>0, OwnIsOpen
      <4> QED BY <1>0, <2>1, <4>1, <4>2 DEF Connect
    <3> QED BY <1>0, <3>1, <3>2, Bystander DEF storeVars
  <2> QED BY <2>2, <2>3
<1>2. ASSUME queue'[c] = <<>>, socket'[c] = 0, resume'[c] = "none", since'[c] = since[c],
             joinedAt'[c] = joinedAt[c], lastApplied'[c] = lastApplied[c], head' = head
      PROVE  Tracked(c)'
  <2>1. \A i \in DOMAIN <<>> : FALSE
    OBVIOUS
  <2>2. ~Has(queue[c], "subscribed")' /\ ~Has(queue[c], "caught-up")'
    BY <1>2, <2>1 DEF Has
  <2>3. since'[c] <= lastApplied'[c] /\ joinedAt'[c] <= head'
    BY <1>0, <1>2 DEF Tracked
  <2> QED BY <1>2, <2>1, <2>2, <2>3 DEF Tracked
<1>3. CASE \E d \in Clients : Drop(d)
  <2>1. PICK d \in Clients : Drop(d)
    BY <1>3
  <2>2. CASE d = c
    BY <1>0, <1>2, <2>1, <2>2 DEF Drop, TypeOK, storeVars, serverVars
  <2>3. CASE d # c
    <3>1. /\ socket'[c] = socket[c] /\ queue'[c] = queue[c] /\ resume'[c] = resume[c]
          /\ UNCHANGED <<serverVars, joinedAt, since, storeVars>>
      BY <1>0, <2>1, <2>3 DEF Drop, TypeOK
    <3> QED BY <1>0, <3>1, Bystander DEF storeVars, serverVars
  <2> QED BY <2>2, <2>3
<1>4. CASE \E d \in Clients : GiveUp(d)
  <2>1. PICK d \in Clients : GiveUp(d)
    BY <1>4
  <2>2. CASE d # c
    <3>1. resume'[c] = resume[c] /\ UNCHANGED <<serverVars, socketVars, queue, since, storeVars>>
      BY <1>0, <2>1, <2>2 DEF GiveUp, TypeOK
    <3> QED BY <1>0, <3>1, Bystander DEF storeVars, serverVars, socketVars
  <2>3. CASE d = c
    <3>1. /\ resume[c] # "none" /\ resume'[c] = "failed"
          /\ UNCHANGED <<serverVars, socketVars, queue, since, storeVars>>
      BY <1>0, <2>1, <2>3 DEF GiveUp, TypeOK
    <3> QED BY <1>0, <3>1 DEF Tracked, Has, Own, Awaited, Before, Coming, Covers, Batched,
                              storeVars, serverVars, socketVars
  <2> QED BY <2>2, <2>3
<1>5. CASE \E k \in open : Close(k)
  <2>1. PICK k \in open : Close(k)
    BY <1>5
  <2>2. /\ Own(c) \in subscribed => Own(c) \in subscribed'
        /\ UNCHANGED <<head, handler, serving, socketVars, queue, resume, since, storeVars>>
    BY <2>1 DEF Close, Live, Own
  <2> QED BY <1>0, <2>2, Bystander DEF socketVars, storeVars
<1>6. CASE Crash
  BY <1>0, <1>2, <1>6 DEF Crash, storeVars
<1> QED BY <1>1, <1>3, <1>4, <1>5, <1>6

\* The first frame and the others.
LEMMA Taken ==
  ASSUME NEW q \in Seq(Frames), q # <<>>
  PROVE  /\ Head(q) \in Frames /\ Head(q) = q[1] /\ 1 \in DOMAIN q
         /\ Tail(q) \in Seq(Frames)
         /\ \A i \in DOMAIN Tail(q) : i + 1 \in DOMAIN q /\ Tail(q)[i] = q[i + 1]
         /\ \A i \in DOMAIN q : i = 1 \/ (i - 1 \in DOMAIN Tail(q) /\ Tail(q)[i - 1] = q[i])
OBVIOUS

\* The client takes a frame in: what the frame carried it has applied, and what
\* else was coming is coming still.
LEMMA Takes ==
  ASSUME IInv, NEW c \in Clients, Tracked(c), queue[c] # <<>>, queue'[c] = Tail(queue[c]),
         lastApplied'[c] \in Nat, lastApplied[c] <= lastApplied'[c],
         \A s \in Nat : Carries(Head(queue[c]), s) => s <= lastApplied'[c],
         UNCHANGED <<head, handler, subscribed, socketVars, since>>,
         resume'[c] # "done" \/ resume'[c] = resume[c] \/ Head(queue[c]).type = "caught-up",
         \/ serving'[Own(c)] = serving[Own(c)]
         \/ Head(queue[c]).type = "subscribed"
            /\ serving'[Own(c)] = [phase |-> "catch-up", since |-> since[c]]
  PROVE  Tracked(c)'
<1> DEFINE q == queue[c]
<1>0. /\ q \in Seq(Frames) /\ q # <<>> /\ queue'[c] = Tail(q)
      /\ head \in Nat /\ lastApplied[c] \in Nat /\ joinedAt[c] \in Nat /\ since[c] \in Nat
      /\ Own(c)' = Own(c) /\ socket[c] # 0
      /\ head' = head /\ subscribed' = subscribed /\ socket'[c] = socket[c]
      /\ since'[c] = since[c] /\ joinedAt'[c] = joinedAt[c]
      /\ \A s : Batched(s)' <=> Batched(s)
  BY DEF IInv, TypeOK, Own, Tracked, socketVars, Batched
<1>1. ASSUME NEW s \in 1..head, s > lastApplied'[c], Coming(c, s) PROVE Coming(c, s)'
  <2>1. CASE Covers(q, s)
    <3>1. PICK i \in DOMAIN q : Carries(q[i], s)
      BY <2>1 DEF Covers
    <3>2. i # 1
      BY <1>0, <1>1, <3>1, Taken
    <3>3. i - 1 \in DOMAIN Tail(q) /\ Carries(Tail(q)[i - 1], s)
      BY <1>0, <3>1, <3>2, Taken
    <3>4. \E j \in DOMAIN queue'[c] : Carries(queue'[c][j], s)
      BY <1>0, <3>3
    <3> QED BY <3>4 DEF Coming, Covers, Carries
  <2>2. CASE Own(c) \in subscribed /\ Batched(s)
    BY <1>0, <2>2 DEF Coming
  <2> QED BY <1>1, <2>1, <2>2 DEF Coming
<1>2. ASSUME NEW n, Awaited(c, n) PROVE \A s \in 1..head' : s > n /\ s > lastApplied'[c] => Coming(c, s)'
  BY <1>0, <1>1, <1>2 DEF Awaited
<1>3. ASSUME NEW t, Has(Tail(q), t) PROVE Has(q, t)
  BY <1>0, <1>3, Taken DEF Has
<1>4. Has(Tail(q), "subscribed") => Own(c) \in subscribed
  BY <1>3 DEF Tracked
<1>5. Head(q).type = "subscribed" => Own(c) \in subscribed
  BY <1>0, Taken DEF Tracked, Has
<1>6. serving'[Own(c)].phase \in CatchUp =>
        Own(c) \in subscribed /\ serving'[Own(c)].since <= lastApplied'[c]
  <2>1. CASE serving'[Own(c)] = serving[Own(c)]
    <3>1. ASSUME serving[Own(c)].phase \in CatchUp
          PROVE  Own(c) \in subscribed /\ serving[Own(c)].since <= lastApplied'[c]
      <4>1. serving[Own(c)].since \in Nat
        <5>1. Own(c) \in Connections
          BY <1>0, OwnIsOpen DEF IInv
        <5>2. \A r \in Service : r.phase \in CatchUp => r.since \in Nat
          BY DEF Service, Idle, CatchUp
        <5>3. serving[Own(c)] \in Service
          BY <5>1 DEF IInv, TypeOK
        <5> QED BY <3>1, <5>2, <5>3
      <4> QED BY <1>0, <3>1, <4>1 DEF Tracked
    <3> QED BY <2>1, <3>1
  <2>2. CASE Head(q).type = "subscribed" /\ serving'[Own(c)].since = since[c]
    BY <1>0, <1>5, <2>2 DEF Tracked
  <2> QED BY <2>1, <2>2
<1>7. serving'[Own(c)].phase = "slice" =>
        /\ joinedAt[c] <= serving'[Own(c)].max
        /\ \A s \in 1..head' : s > serving'[Own(c)].max /\ s > lastApplied'[c] => Coming(c, s)'
  <2>1. CASE serving'[Own(c)] = serving[Own(c)]
    BY <1>0, <1>2, <2>1 DEF Tracked
  <2>2. CASE serving'[Own(c)] = [phase |-> "catch-up", since |-> since[c]]
    BY <2>2
  <2> QED BY <2>1, <2>2
<1>8. ASSUME Has(Tail(q), "caught-up") \/ resume'[c] = "done"
      PROVE  Own(c) \in subscribed /\ \A s \in 1..head' : s > 0 /\ s > lastApplied'[c] => Coming(c, s)'
  <2>1. Has(q, "caught-up") \/ resume[c] = "done"
    BY <1>0, <1>3, <1>8, Taken DEF Has
  <2> QED BY <1>2, <2>1 DEF Tracked
<1>9. ASSUME NEW i \in DOMAIN Tail(q), Tail(q)[i].type = "caught-up",
             NEW s \in 1..joinedAt[c], s > lastApplied'[c]
      PROVE  \E j \in 1..(i - 1) : Carries(Tail(q)[j], s)
  <2>1. /\ i + 1 \in DOMAIN q /\ q[i + 1].type = "caught-up" /\ i \in Nat
        /\ DOMAIN Tail(q) = 1..Len(Tail(q)) /\ Len(Tail(q)) \in Nat
        /\ DOMAIN q = 1..Len(q) /\ Len(q) \in Nat
    BY <1>0, <1>9, Taken
  <2>2. Before(c, i + 1) /\ s > lastApplied[c]
    BY <1>0, <1>9, <2>1 DEF Tracked
  <2>3. PICK j \in 1..(i + 1 - 1) : Carries(q[j], s)
    BY <2>2 DEF Before
  <2>4. j \in DOMAIN q /\ j \in Nat
    BY <2>1, <2>3
  <2>5. j # 1
    BY <1>0, <1>9, <2>3, Taken
  <2>6. Tail(q)[j - 1] = q[j] /\ j - 1 \in 1..(i - 1)
    BY <1>0, <2>1, <2>3, <2>4, <2>5, Taken
  <2> QED BY <2>3, <2>6
<1>10. resume'[c] = "done" => lastApplied'[c] >= joinedAt[c]
  <2>1. CASE resume'[c] = resume[c]
    BY <1>0, <2>1 DEF Tracked
  <2>2. CASE Head(q).type = "caught-up"
    <3>1. Before(c, 1)
      BY <1>0, <2>2, Taken DEF Tracked
    <3>2. \A s \in 1..joinedAt[c] : ~(s > lastApplied[c])
      BY <3>1 DEF Before
    <3> QED BY <1>0, <3>2
  <2> QED BY <2>1, <2>2
<1>11. since[c] <= lastApplied'[c] /\ joinedAt[c] <= head
  BY <1>0 DEF Tracked
<1> HIDE DEF q
<1> QED BY <1>0, <1>4, <1>6, <1>7, <1>8, <1>9, <1>10, <1>11 DEF Tracked, Awaited, Before

LEMMA ProcessTracks ==
  ASSUME Sound, NEW d \in Clients, Process(d), NEW c \in Clients
  PROVE  Tracked(c)'
<1>0. /\ IInv /\ TypeOK /\ head \in Nat /\ Tracked(c) /\ Tracked(d)
      /\ lastApplied \in [Clients -> Nat] /\ queue \in [Clients -> Seq(Frames)]
      /\ serving \in [Connections -> Service]
  BY DEF Sound, IInv, TypeOK
<1> DEFINE f == Head(queue[d])
           s == f.sequence
<1>1. /\ queue[d] # <<>> /\ queue' = [queue EXCEPT ![d] = Tail(queue[d])]
      /\ UNCHANGED <<head, handler, open, subscribed, socketVars, since>>
  BY DEF Process, ReceiveEvent, ReceiveSnapshot, ReceiveSubscribed, ReceiveCaughtUp,
         ReceiveError, Receive, serverVars
<1>2. /\ \A e \in Clients : e # d => resume'[e] = resume[e] /\ lastApplied'[e] = lastApplied[e]
      /\ \A j \in Connections : j # Own(d) => serving'[j] = serving[j]
  BY <1>0 DEF Process, ReceiveEvent, ReceiveSnapshot, ReceiveSubscribed, ReceiveCaughtUp,
         ReceiveError, serverVars, storeVars, TypeOK, Own
<1>3. CASE c # d
  <2>1. socket[c] # 0 => serving'[Own(c)] = serving[Own(c)]
    BY <1>0, <1>2, <1>3, OwnIsOpen DEF Own
  <2>2. queue'[c] = queue[c]
    BY <1>0, <1>1, <1>3
  <2> QED BY <1>0, <1>1, <1>2, <1>3, <2>1, <2>2, Bystander DEF socketVars
<1>4. CASE c = d
  <2>1. queue'[c] = Tail(queue[c]) /\ queue[c] # <<>> /\ queue[c] \in Seq(Frames) /\ f \in Frames
    BY <1>0, <1>1, <1>4, Taken
  <2>2. lastApplied[c] \in Nat /\ s \in Nat /\ lastApplied[c] <= lastApplied[c]
    BY <1>0, <2>1 DEF Frames
  <2>3. CASE ReceiveEvent(d)
    <3>1. f.type = "event-applied" /\ resume'[c] = resume[c] /\ serving' = serving
      BY <1>4, <2>3 DEF ReceiveEvent, Receive, serverVars
    <3>2. lastApplied'[c] = IF s <= lastApplied[c] THEN lastApplied[c] ELSE s
      BY <1>0, <1>4, <2>3 DEF ReceiveEvent, Duplicate, storeVars
    <3>3. \A t \in Nat : Carries(f, t) => t = s
      BY <3>1 DEF Carries, EventFrame
    <3> HIDE DEF f, s
    <3>4. /\ lastApplied'[c] \in Nat /\ lastApplied[c] <= lastApplied'[c]
          /\ \A t \in Nat : Carries(f, t) => t <= lastApplied'[c]
      BY <2>2, <3>2, <3>3
    <3> USE DEF f
    <3> QED BY <1>0, <1>1, <1>4, <2>1, <3>1, <3>4, Takes
  <2>4. CASE ReceiveSnapshot(d)
    <3>1. f.type = "snapshot-state" /\ resume'[c] = resume[c] /\ serving' = serving
      BY <1>4, <2>4 DEF ReceiveSnapshot, Receive, serverVars
    <3>2. lastApplied'[c] = IF s < lastApplied[c] THEN lastApplied[c] ELSE s
      BY <1>0, <1>4, <2>4 DEF ReceiveSnapshot
    <3>3. \A t \in Nat : Carries(f, t) => s >= t
      BY <3>1 DEF Carries, EventFrame
    <3> HIDE DEF f, s
    <3>4. /\ lastApplied'[c] \in Nat /\ lastApplied[c] <= lastApplied'[c]
          /\ \A t \in Nat : Carries(f, t) => t <= lastApplied'[c]
      BY <2>2, <3>2, <3>3
    <3> USE DEF f
    <3> QED BY <1>0, <1>1, <1>4, <2>1, <3>1, <3>4, Takes
  <2>5. CASE ReceiveSubscribed(d)
    <3>1. f.type = "subscribed" /\ lastApplied' = lastApplied
      BY <2>5 DEF ReceiveSubscribed, Receive, storeVars
    <3>2. resume'[c] # "done" \/ resume'[c] = resume[c]
      BY <1>0, <1>4, <2>5 DEF ReceiveSubscribed, TypeOK
    <3>3. \/ serving'[Own(c)] = serving[Own(c)]
          \/ serving'[Own(c)] = [phase |-> "catch-up", since |-> since[c]]
      <4>1. Own(c) \in Connections
        BY <1>0, <1>4, <2>1, OwnIsOpen DEF Tracked
      <4> QED BY <1>0, <1>4, <2>5, <4>1 DEF ReceiveSubscribed, Own
    <3>4. \A t \in Nat : ~Carries(f, t)
      BY <3>1 DEF Carries, EventFrame
    <3> QED BY <1>0, <1>1, <1>4, <2>1, <2>2, <3>1, <3>2, <3>3, <3>4, Takes
  <2>6. CASE ReceiveCaughtUp(d)
    <3>1. f.type = "caught-up" /\ lastApplied' = lastApplied /\ serving' = serving
      BY <2>6 DEF ReceiveCaughtUp, Receive, storeVars, serverVars
    <3>2. \A t \in Nat : ~Carries(f, t)
      BY <3>1 DEF Carries, EventFrame
    <3> QED BY <1>0, <1>1, <1>4, <2>1, <2>2, <3>1, <3>2, Takes
  <2>7. CASE ReceiveError(d)
    <3>1. f.type = "error" /\ lastApplied' = lastApplied /\ serving' = serving
          /\ resume'[c] = "failed"
      BY <1>0, <1>4, <2>7 DEF ReceiveError, Receive, storeVars, serverVars, TypeOK
    <3>2. \A t \in Nat : ~Carries(f, t)
      BY <3>1 DEF Carries, EventFrame
    <3> QED BY <1>0, <1>1, <1>4, <2>1, <2>2, <3>1, <3>2, Takes
  <2> QED BY <2>3, <2>4, <2>5, <2>6, <2>7 DEF Process
<1> QED BY <1>3, <1>4

LEMMA InitSound == Init /\ head <= Ceiling => Sound
<1> SUFFICES ASSUME Init, head <= Ceiling PROVE Sound
  OBVIOUS
<1>1. IInv
  BY InitIInv
<1>2. ASSUME NEW c \in Clients PROVE Tracked(c)
  <2>1. /\ queue[c] = <<>> /\ resume[c] = "none" /\ socket[c] = 0 /\ since[c] <= lastApplied[c]
        /\ joinedAt[c] <= head
    BY DEF Init, InitialHead
  <2>2. \A i \in DOMAIN <<>> : FALSE
    OBVIOUS
  <2> QED BY <2>1, <2>2 DEF Tracked, Has
<1> QED BY <1>1, <1>2 DEF Sound

LEMMA NextSound == ASSUME SoundWhileItFits, [Next]_vars PROVE SoundWhileItFits'
<1>1. IInv /\ IInv' /\ head \in Nat /\ head' \in Nat
  BY NextIInv DEF SoundWhileItFits, IInv, TypeOK
<1>2. CASE \E h \in Handlers :
             \/ \E c \in Clients : Request(h, c)
             \/ RouteRequest(h)
             \/ \E count \in 1..2 : AppendEvents(h, count)
             \/ Reject(h)
             \/ Emit(h)
  <2>1. head <= head'
    <3>1. head' = head \/ \E count \in 1..2 : head' = head + count
      BY <1>2 DEF Request, RouteRequest, AppendEvents, Reject, Emit
    <3> QED BY <1>1, <3>1
  <2>2. head' <= Ceiling => head <= Ceiling
    BY <1>1, <2>1, ThresholdAssumption
  <2>3. ASSUME Sound PROVE \A c \in Clients : Tracked(c)'
    BY <1>2, <2>3, WritesTrack
  <2> QED BY <1>1, <2>2, <2>3 DEF Sound, SoundWhileItFits
<1>3. CASE \E k \in Connections : Serve(k)
  <2>1. head' = head
    BY <1>3 DEF Serve, ServeSubscribe, ServeAtHead, ServeGap, ServeSlice, ServeSnapshot, ServeError
  <2>2. ASSUME Sound PROVE \A c \in Clients : Tracked(c)'
    BY <1>3, <2>2, ServeTracks
  <2> QED BY <1>1, <2>1, <2>2 DEF Sound, SoundWhileItFits
<1>4. CASE \/ \E c \in Clients : Connect(c) \/ Drop(c) \/ GiveUp(c)
           \/ \E k \in open : Close(k)
           \/ Crash
  <2>1. head' = head
    BY <1>4 DEF Connect, Drop, GiveUp, Close, Crash, serverVars
  <2>2. ASSUME Sound PROVE \A c \in Clients : Tracked(c)'
    BY <1>4, <2>2, ConnectionsTrack
  <2> QED BY <1>1, <2>1, <2>2 DEF Sound, SoundWhileItFits
<1>5. CASE \E c \in Clients : Process(c)
  <2>1. head' = head
    BY <1>5 DEF Process, ReceiveEvent, ReceiveSnapshot, ReceiveSubscribed, ReceiveCaughtUp,
                ReceiveError, serverVars
  <2>2. ASSUME Sound PROVE \A c \in Clients : Tracked(c)'
    BY <1>5, <2>2, ProcessTracks
  <2> QED BY <1>1, <2>1, <2>2 DEF Sound, SoundWhileItFits
<1>6. CASE UNCHANGED vars
  <2>1. /\ UNCHANGED <<head, handler, subscribed, serving, socketVars, queue, resume, since, storeVars>>
    BY <1>6 DEF vars, serverVars
  <2>2. ASSUME Sound PROVE \A c \in Clients : Tracked(c)'
    BY <2>1, <2>2, Bystander DEF Sound, socketVars, storeVars
  <2> QED BY <1>1, <2>1, <2>2 DEF Sound, SoundWhileItFits
<1> QED BY <1>2, <1>3, <1>4, <1>5, <1>6 DEF Next

----------------------------------------------------------------------------
(* Theorems *)

LEMMA InvariantHolds == Spec => []IInv
BY InitIInv, NextIInv, PTL DEF Spec

\* Every variable of the session's log, handlers, sockets and stores keeps its
\* type, for any number of clients, handlers, events and connections.
THEOREM TypeCorrect == Spec => []TypeOK
BY InvariantHolds, PTL DEF IInv

\* Nobody is ever shown an event that was not committed: emission follows
\* COMMIT, and catch-up reads committed rows.
THEOREM OnlyCommittedEventsAreSeen == Spec => []ViewsAreCommitted
BY InvariantHolds, PTL DEF IInv

\* Every store applies each event at most once and in the order of the log,
\* whatever the interleaving of live and replayed frames.
THEOREM StoresApplyInOrder == Spec => []AppliedInOrder
BY InvariantHolds, PTL DEF IInv

LEMMA SoundHolds == Spec => []SoundWhileItFits
<1>1. Init => SoundWhileItFits
  BY InitIInv, InitSound DEF SoundWhileItFits
<1>2. SoundWhileItFits /\ [Next]_vars => SoundWhileItFits'
  BY NextSound
<1> QED BY <1>1, <1>2, PTL DEF Spec

\* As long as one snapshot holds the log (catch-up.ts reads 5000 events), a
\* client told that it has caught up has everything that was committed before
\* it connected, whatever drops, crashes, timeouts and live emissions came
\* between.
THEOREM CaughtUpIsCurrent == Spec => [](head <= Ceiling => CaughtUpMeansCurrent)
<1>1. SoundWhileItFits => (head <= Ceiling => CaughtUpMeansCurrent)
  BY DEF SoundWhileItFits, Sound, Tracked, CaughtUpMeansCurrent
<1> QED BY <1>1, SoundHolds, PTL

\* Up to the same length no event falls between registration, the read of
\* MAX(sequence), the replay and the live emission.
THEOREM NothingIsMissed == Spec => [](head <= Ceiling => NothingSlipsThrough)
<1>1. ASSUME Sound, NEW c \in Clients, resume[c] = "done",
             NEW s \in (lastApplied[c] + 1)..head
      PROVE  \/ \E i \in DOMAIN queue[c] : Carries(queue[c][i], s)
             \/ /\ <<c, socket[c]>> \in subscribed
                /\ \E h \in Handlers : /\ handler[h].phase = "committed"
                                       /\ s \in handler[h].first..handler[h].last
  <2>1. lastApplied[c] \in Nat /\ head \in Nat /\ Awaited(c, 0)
    BY <1>1 DEF Sound, IInv, TypeOK, Tracked
  <2>2. s \in 1..head /\ s > 0 /\ s > lastApplied[c]
    BY <2>1
  <2> QED BY <2>1, <2>2 DEF Awaited, Coming, Covers, Batched, Own
<1>2. SoundWhileItFits => (head <= Ceiling => NothingSlipsThrough)
  BY <1>1 DEF SoundWhileItFits, NothingSlipsThrough
<1> QED BY <1>2, SoundHolds, PTL
=============================================================================
