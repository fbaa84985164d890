--------------------------- MODULE WsClientProofs ---------------------------
(* Proofs about WsClient for any number of sockets and route changes: the   *)
(* types, and that handle, timer and pending requests stay in step.         *)
EXTENDS WsClient, FiniteSetTheorems, TLAPS

\* Sockets are numbered in the order they are opened.
OpenedInOrder == \A s \in Sockets : s > opened => readyState[s] = "unused"

\* Until connect() overtakes a close event: a mounted client was not closed and
\* waits for the close event of no socket but the one it still holds (after a
\* kill); a client that is not mounted is idle or closed, and once it has opened
\* a socket it will not reconnect.
MountedAsWanted ==
  ~raced =>
    /\ active => ~explicitlyClosed /\ Closing \subseteq {socket}
    /\ ~active => /\ status \in {"idle", "closed"}
                  /\ explicitlyClosed \/ opened = 0

\* The inductive invariant.
IInv == TypeOK /\ HoldsItsSocket /\ OpenedInOrder /\ MountedAsWanted

----------------------------------------------------------------------------
(* Lemmas *)

\* There is a socket left to open when the bound says so.
LEMMA RoomToOpen ==
  ASSUME TypeOK, SocketsLeft
  PROVE  opened + 1 \in Sockets
<1>1. IsFiniteSet(Sockets)
  BY FS_Interval, BoundAssumption DEF Sockets
<1>2. Closing \subseteq Sockets
  BY DEF Closing
<1>3. Cardinality(Closing) \in Nat
  BY <1>1, <1>2, FS_Subset, FS_CardinalityType
<1>4. Reserved \in Nat
  BY <1>3 DEF Reserved, TypeOK
<1> QED BY <1>4, BoundAssumption DEF SocketsLeft, Sockets, TypeOK

\* Sending keeps the types, and the new request is on the held socket.
LEMMA SendKeeps ==
  ASSUME TypeOK, NEW type \in RequestTypes, NEW waiting \in SUBSET pending,
         TrySend(type, waiting)
  PROVE  /\ pending' \subseteq [id : Nat, type : RequestTypes, on : Sockets]
         /\ nextId' \in Nat
         /\ up' \in [Sockets -> Seq(Requests)]
         /\ \A q \in pending' : q \in pending \/ q.on = socket
<1>1. CASE CanSend
  <2>1. Send(type, waiting)
    BY <1>1 DEF TrySend
  <2>2. socket \in Sockets
    BY <1>1, BoundAssumption DEF CanSend, TypeOK, Sockets
  <2>3. [type |-> type, id |-> nextId] \in Requests
    BY DEF Requests, TypeOK
  <2>4. up' \in [Sockets -> Seq(Requests)]
    BY <2>1, <2>2, <2>3 DEF Send, TypeOK
  <2> QED BY <2>1, <2>2, <2>4 DEF Send, TypeOK
<1>2. CASE ~CanSend
  BY <1>2 DEF TrySend, TypeOK
<1> QED BY <1>1, <1>2

\* Steps that leave sockets and timers alone keep what is said of them.
LEMMA QuietKeeps ==
  ASSUME IInv, UNCHANGED <<socketVars, active>>,
         \A q \in pending' : q \in pending \/ q.on = socket
  PROVE  HoldsItsSocket' /\ OpenedInOrder' /\ MountedAsWanted'
<1>1. OpenedInOrder' /\ MountedAsWanted'
  BY DEF IInv, OpenedInOrder, MountedAsWanted, Closing, socketVars
<1>2. HoldsItsSocket'
  BY DEF IInv, HoldsItsSocket, Live, socketVars
<1> QED BY <1>1, <1>2

\* The state before any socket was opened.
LEMMA InitIInv == Init => IInv
<1> SUFFICES ASSUME Init PROVE IInv
  OBVIOUS
<1>1. TypeOK
  <2>1. <<>> \in Seq(Requests) /\ <<>> \in Seq(Answers)
    OBVIOUS
  <2>2. up \in [Sockets -> Seq(Requests)] /\ down \in [Sockets -> Seq(Answers)]
    BY <2>1 DEF Init
  <2>3. opened \in 0..MaxSockets /\ socket \in 0..opened
    BY BoundAssumption DEF Init
  <2>4. readyState \in [Sockets -> ReadyStates] /\ status \in Statuses
    BY DEF Init, Statuses, ReadyStates
  <2> QED BY <2>2, <2>3, <2>4 DEF Init, TypeOK
<1>2. HoldsItsSocket
  BY DEF Init, HoldsItsSocket, Live
<1>3. OpenedInOrder /\ MountedAsWanted
  BY DEF Init, OpenedInOrder, MountedAsWanted, Closing
<1> QED BY <1>1, <1>2, <1>3 DEF IInv

----------------------------------------------------------------------------
(* Requests and routes *)

LEMMA RequestsKeep ==
  ASSUME IInv,
         \/ TrackSession \/ UntrackSession
         \/ \E q \in pending : Timeout(q)
  PROVE  IInv'
<1>1. CASE TrackSession
  <2>1. /\ pending' \subseteq [id : Nat, type : RequestTypes, on : Sockets]
        /\ nextId' \in Nat
        /\ up' \in [Sockets -> Seq(Requests)]
        /\ \A q \in pending' : q \in pending \/ q.on = socket
    <3>1. CASE ~tracked /\ status = "open"
      BY <1>1, <3>1, SendKeeps DEF TrackSession, IInv, RequestTypes
    <3>2. CASE ~(~tracked /\ status = "open")
      BY <1>1, <3>2 DEF TrackSession, IInv, TypeOK, requestVars
    <3> QED BY <3>1, <3>2
  <2>2. TypeOK'
    BY <1>1, <2>1 DEF TrackSession, IInv, TypeOK, socketVars
  <2> QED BY <1>1, <2>1, <2>2, QuietKeeps DEF TrackSession, IInv
<1>2. CASE UntrackSession
  <2>1. /\ pending' \subseteq [id : Nat, type : RequestTypes, on : Sockets]
        /\ nextId' \in Nat
        /\ up' \in [Sockets -> Seq(Requests)]
        /\ \A q \in pending' : q \in pending \/ q.on = socket
    <3>1. CASE status = "open"
      BY <1>2, <3>1, SendKeeps DEF UntrackSession, IInv, RequestTypes
    <3>2. CASE status # "open"
      BY <1>2, <3>2 DEF UntrackSession, IInv, TypeOK, requestVars
    <3> QED BY <3>1, <3>2
  <2>2. TypeOK'
    <3>1. wanted' = FALSE /\ tracked' = FALSE /\ toggles' \in Nat
      BY <1>2 DEF UntrackSession, IInv, TypeOK
    <3>2. UNCHANGED <<active, socketVars, down, awaiting, registered, caughtUp, failed>>
      BY <1>2 DEF UntrackSession
    <3> QED BY <2>1, <3>1, <3>2 DEF IInv, TypeOK, socketVars
  <2> QED BY <1>2, <2>1, <2>2, QuietKeeps DEF UntrackSession, IInv
<1>3. CASE \E q \in pending : Timeout(q)
  <2>1. PICK q \in pending : Timeout(q)
    BY <1>3
  <2>2. TypeOK'
    BY <2>1 DEF Timeout, IInv, TypeOK, userVars, socketVars, wireVars
  <2> QED BY <2>1, <2>2, QuietKeeps DEF Timeout, IInv, userVars
<1> QED BY <1>1, <1>2, <1>3

----------------------------------------------------------------------------
(* Frames *)

\* Handing over a frame keeps the types; its id is a number.
LEMMA DeliverKeeps ==
  ASSUME TypeOK, NEW s \in Sockets, NEW types, Deliver(s, types)
  PROVE  down' \in [Sockets -> Seq(Answers)] /\ Head(down[s]).id \in Nat
<1>1. down[s] \in Seq(Answers) /\ down[s] # <<>>
  BY DEF Deliver, TypeOK
<1>2. Tail(down[s]) \in Seq(Answers) /\ Head(down[s]) \in Answers
  BY <1>1
<1> QED BY <1>2 DEF Deliver, TypeOK, Answers

\* So does taking one at the server.
LEMMA TakeKeeps ==
  ASSUME TypeOK, NEW s \in Sockets, NEW type, Take(s, type)
  PROVE  up' \in [Sockets -> Seq(Requests)] /\ Head(up[s]).id \in Nat
<1>1. up[s] \in Seq(Requests) /\ up[s] # <<>>
  BY DEF Take, TypeOK
<1>2. Tail(up[s]) \in Seq(Requests) /\ Head(up[s]) \in Requests
  BY <1>1
<1> QED BY <1>2 DEF Take, TypeOK, Requests

\* And answering.
LEMMA ReplyKeeps ==
  ASSUME TypeOK, NEW s \in Sockets, NEW id \in Nat,
         NEW type \in {"hello", "subscribed", "unsubscribed", "caught-up", "error"},
         Reply(s, type, id)
  PROVE  down' \in [Sockets -> Seq(Answers)]
<1>1. [type |-> type, id |-> id] \in Answers
  BY DEF Answers
<1>2. Append(down[s], [type |-> type, id |-> id]) \in Seq(Answers)
  BY <1>1 DEF TypeOK
<1> QED BY <1>2 DEF Reply, TypeOK

\* The client handles a frame.
LEMMA ProcessKeeps ==
  ASSUME IInv, NEW s \in Sockets, Process(s)
  PROVE  IInv'
<1> DEFINE Requested ==
      /\ pending' \subseteq [id : Nat, type : RequestTypes, on : Sockets]
      /\ nextId' \in Nat
      /\ up' \in [Sockets -> Seq(Requests)]
      /\ \A q \in pending' : q \in pending \/ q.on = socket
<1>0. TypeOK
  BY DEF IInv
<1>1. CASE DeliverHello(s)
  <2>1. down' \in [Sockets -> Seq(Answers)]
    BY <1>0, <1>1, DeliverKeeps DEF DeliverHello
  <2>2. Requested
    <3>1. CASE tracked
      BY <1>0, <1>1, <3>1, SendKeeps DEF DeliverHello, RequestTypes
    <3>2. CASE ~tracked
      BY <1>0, <1>1, <3>2 DEF DeliverHello, TypeOK, requestVars
    <3> QED BY <3>1, <3>2
  <2>3. UNCHANGED <<userVars, socketVars, awaiting, registered, caughtUp, failed>>
    BY <1>1 DEF DeliverHello
  <2>4. TypeOK'
    BY <1>0, <2>1, <2>2, <2>3 DEF TypeOK, userVars, socketVars
  <2> QED BY <2>2, <2>3, <2>4, QuietKeeps DEF IInv, userVars
<1>2. CASE DeliverSubscribed(s)
  <2>1. down' \in [Sockets -> Seq(Answers)]
    BY <1>0, <1>2, DeliverKeeps DEF DeliverSubscribed
  <2>2. Requested
    <3> DEFINE id == Head(down[s]).id
    <3>1. CASE \E q \in pending : q.id = id
      <4>1. TrySend("catch-up", Answered(id)) /\ Answered(id) \in SUBSET pending
        BY <1>2, <3>1 DEF DeliverSubscribed, Answered
      <4> QED BY <1>0, <4>1, SendKeeps DEF RequestTypes
    <3>2. CASE ~\E q \in pending : q.id = id
      BY <1>0, <1>2, <3>2 DEF DeliverSubscribed, TypeOK, requestVars
    <3> QED BY <3>1, <3>2
  <2>3. UNCHANGED <<userVars, socketVars, awaiting, registered, caughtUp, failed>>
    BY <1>2 DEF DeliverSubscribed
  <2>4. TypeOK'
    BY <1>0, <2>1, <2>2, <2>3 DEF TypeOK, userVars, socketVars
  <2> QED BY <2>2, <2>3, <2>4, QuietKeeps DEF IInv, userVars
<1>3. CASE DeliverAnswer(s)
  <2>1. down' \in [Sockets -> Seq(Answers)]
    BY <1>0, <1>3, DeliverKeeps DEF DeliverAnswer
  <2>2. pending' \subseteq pending /\ caughtUp' \subseteq Sockets
    BY <1>0, <1>3 DEF DeliverAnswer, Answered, TypeOK
  <2>3. UNCHANGED <<userVars, socketVars, nextId, up, awaiting, registered, failed>>
    BY <1>3 DEF DeliverAnswer
  <2>4. TypeOK'
    BY <1>0, <2>1, <2>2, <2>3 DEF TypeOK, userVars, socketVars
  <2> QED BY <2>2, <2>3, <2>4, QuietKeeps DEF IInv, userVars
<1> QED BY <1>1, <1>2, <1>3 DEF Process

\* The server handles a frame, or one of its handlers goes on.
LEMMA ServeKeeps ==
  ASSUME IInv, NEW s \in Sockets, Serve(s)
  PROVE  IInv'
<1> DEFINE Wired ==
      /\ up' \in [Sockets -> Seq(Requests)]
      /\ down' \in [Sockets -> Seq(Answers)]
      /\ awaiting' \subseteq [on : Sockets, id : Nat]
      /\ registered' \subseteq Sockets
      /\ failed' \in BOOLEAN
<1>0. TypeOK
  BY DEF IInv
<1>1. ASSUME Wired, UNCHANGED <<userVars, socketVars, requestVars, caughtUp>>
      PROVE  IInv'
  <2>1. TypeOK'
    BY <1>0, <1>1 DEF TypeOK, userVars, socketVars, requestVars
  <2> QED BY <1>1, <2>1, QuietKeeps DEF IInv, userVars, requestVars
<1>2. CASE TakeSubscribe(s)
  <2>1. Take(s, "subscribe") /\ UNCHANGED <<down, registered, failed>>
    BY <1>2 DEF TakeSubscribe
  <2>2. up' \in [Sockets -> Seq(Requests)] /\ Head(up[s]).id \in Nat
    BY <1>0, <2>1, TakeKeeps
  <2>3. Wired
    BY <1>0, <1>2, <2>1, <2>2 DEF TakeSubscribe, TypeOK
  <2> QED BY <1>1, <2>1, <2>3 DEF Take
<1>3. CASE TakeUnsubscribe(s)
  <2>1. Take(s, "unsubscribe") /\ UNCHANGED <<awaiting, failed>>
    BY <1>3 DEF TakeUnsubscribe
  <2>2. up' \in [Sockets -> Seq(Requests)] /\ Head(up[s]).id \in Nat
    BY <1>0, <2>1, TakeKeeps
  <2>3. down' \in [Sockets -> Seq(Answers)]
    BY <1>0, <1>3, <2>2, ReplyKeeps DEF TakeUnsubscribe
  <2>4. Wired
    BY <1>0, <1>3, <2>1, <2>2, <2>3 DEF TakeUnsubscribe, TypeOK
  <2> QED BY <1>1, <2>1, <2>4 DEF Take
<1>4. CASE TakeCatchUp(s)
  <2>1. Take(s, "catch-up") /\ UNCHANGED <<awaiting, registered, failed>>
    BY <1>4 DEF TakeCatchUp
  <2>2. up' \in [Sockets -> Seq(Requests)] /\ Head(up[s]).id \in Nat
    BY <1>0, <2>1, TakeKeeps
  <2>3. down' \in [Sockets -> Seq(Answers)]
    <3>1. CASE s \in registered
      BY <1>0, <1>4, <2>2, <3>1, ReplyKeeps DEF TakeCatchUp
    <3>2. CASE s \notin registered
      BY <1>0, <1>4, <2>2, <3>2, ReplyKeeps DEF TakeCatchUp
    <3> QED BY <3>1, <3>2
  <2>4. Wired
    BY <1>0, <2>1, <2>2, <2>3 DEF TypeOK
  <2> QED BY <1>1, <2>1, <2>4 DEF Take
<1>5. CASE RefuseCatchUp(s)
  <2>1. Take(s, "catch-up") /\ failed' = TRUE /\ UNCHANGED <<awaiting, registered>>
    BY <1>5 DEF RefuseCatchUp
  <2>2. up' \in [Sockets -> Seq(Requests)] /\ Head(up[s]).id \in Nat
    BY <1>0, <2>1, TakeKeeps
  <2>3. down' \in [Sockets -> Seq(Answers)]
    BY <1>0, <1>5, <2>2, ReplyKeeps DEF RefuseCatchUp
  <2>4. Wired
    BY <1>0, <2>1, <2>2, <2>3 DEF TypeOK
  <2> QED BY <1>1, <2>1, <2>4 DEF Take
<1>6. ASSUME NEW a \in awaiting, Subscribe(a) \/ RefuseSubscribe(a)
      PROVE  IInv'
  <2>1. a.on \in Sockets /\ a.id \in Nat
    BY <1>0 DEF TypeOK
  <2>2. down' \in [Sockets -> Seq(Answers)]
    BY <1>0, <1>6, <2>1, ReplyKeeps DEF Subscribe, RefuseSubscribe
  <2>3. Wired
    BY <1>0, <1>6, <2>1, <2>2 DEF Subscribe, RefuseSubscribe, TypeOK
  <2>4. UNCHANGED <<userVars, socketVars, requestVars, caughtUp>>
    BY <1>6 DEF Subscribe, RefuseSubscribe
  <2> QED BY <1>1, <2>3, <2>4
<1> QED BY <1>2, <1>3, <1>4, <1>5, <1>6 DEF Serve

----------------------------------------------------------------------------
(* Sockets and timers *)

\* Shutting a socket keeps the types and touches no other socket's state.
LEMMA ShutKeeps ==
  ASSUME TypeOK, NEW s \in Sockets, NEW next \in {"closing", "closed"}, Shut(s, next)
  PROVE  /\ readyState' \in [Sockets -> ReadyStates]
         /\ up' \in [Sockets -> Seq(Requests)]
         /\ down' \in [Sockets -> Seq(Answers)]
         /\ awaiting' \subseteq [on : Sockets, id : Nat]
         /\ registered' \subseteq Sockets
         /\ readyState'[s] = next
         /\ \A t \in Sockets : t # s => readyState'[t] = readyState[t]
<1>1. <<>> \in Seq(Requests) /\ <<>> \in Seq(Answers)
  OBVIOUS
<1>2. next \in ReadyStates
  BY DEF ReadyStates
<1> QED BY <1>1, <1>2 DEF Shut, TypeOK

\* Opening a socket, when there is room.
LEMMA OpenKeeps ==
  ASSUME TypeOK, OpenedInOrder, opened + 1 \in Sockets, OpenSocket
  PROVE  /\ opened' \in 0..MaxSockets /\ socket' \in 0..opened'
         /\ readyState' \in [Sockets -> ReadyStates]
         /\ status' \in Statuses
         /\ socket' = opened + 1 /\ socket' # 0
         /\ readyState'[opened + 1] = "connecting"
         /\ \A t \in Sockets : t # opened + 1 => readyState'[t] = readyState[t]
         /\ OpenedInOrder'
<1>1. opened' \in 0..MaxSockets /\ socket' \in 0..opened' /\ socket' # 0
  BY BoundAssumption DEF OpenSocket, TypeOK, Sockets
<1>2. readyState' \in [Sockets -> ReadyStates] /\ status' \in Statuses
  BY DEF OpenSocket, TypeOK, ReadyStates, Statuses
<1>3. /\ readyState'[opened + 1] = "connecting"
      /\ \A t \in Sockets : t # opened + 1 => readyState'[t] = readyState[t]
  BY DEF OpenSocket, TypeOK
<1>4. \A t \in Sockets : t > opened' => t > opened /\ t # opened + 1
  BY BoundAssumption DEF OpenSocket, TypeOK, Sockets
<1>5. OpenedInOrder'
  BY <1>3, <1>4 DEF OpenedInOrder
<1> QED BY <1>1, <1>2, <1>3, <1>5 DEF OpenSocket

\* connect()
LEMMA MountKeeps == ASSUME IInv, Mount PROVE IInv'
<1>0. TypeOK /\ OpenedInOrder /\ HoldsItsSocket /\ MountedAsWanted
  BY DEF IInv
<1>1. CASE status \in {"open", "connecting"}
  <2>1. raced
    BY <1>0, <1>1 DEF Mount, MountedAsWanted
  <2>2. raced' = TRUE
    BY <2>1 DEF Mount
  <2>3. /\ active' = TRUE
        /\ UNCHANGED <<wanted, toggles, tracked, reconnectHandle, stray, requestVars,
                       wireVars, caughtUp, failed>>
        /\ UNCHANGED <<explicitlyClosed, opened, socket, readyState, status>>
    BY <1>1 DEF Mount
  <2>4. TypeOK'
    BY <1>0, <2>2, <2>3 DEF TypeOK, requestVars, wireVars
  <2>5. OpenedInOrder'
    BY <1>0, <2>3 DEF OpenedInOrder
  <2> QED BY <2>2, <2>4, <2>5 DEF IInv, HoldsItsSocket, MountedAsWanted
<1>2. CASE status \notin {"open", "connecting"}
  <2>1. /\ active' = TRUE /\ explicitlyClosed' = FALSE /\ OpenSocket /\ ~active
        /\ UNCHANGED <<wanted, toggles, tracked, reconnectHandle, stray, requestVars,
                       wireVars, caughtUp, failed>>
    BY <1>2 DEF Mount
  <2>2. opened + 1 \in Sockets
    BY <1>0, RoomToOpen DEF Mount
  <2>3. TypeOK' /\ OpenedInOrder'
    <3>1. raced' \in BOOLEAN
      BY DEF Mount
    <3> QED BY <1>0, <2>1, <2>2, <3>1, OpenKeeps DEF TypeOK, requestVars, wireVars
  <2>4. ASSUME ~raced'
        PROVE  ~raced /\ \A t \in Sockets : ~Live(t) /\ t \notin Closing
    BY <2>4 DEF Mount
  <2>5. ASSUME ~raced', NEW t \in Sockets, t # opened + 1
        PROVE  ~Live(t)' /\ readyState'[t] # "closing"
    BY <1>0, <2>1, <2>2, <2>4, <2>5, OpenKeeps DEF Live, Closing
  <2>6. ASSUME ~raced'
        PROVE  socket = 0 /\ ~reconnectHandle /\ stray = 0 /\ pending = {}
    <3>1. socket = 0 /\ ~reconnectHandle /\ stray = 0
      BY <1>0, <2>1, <2>4, <2>6 DEF HoldsItsSocket
    <3>2. \A q \in pending : q.on = socket /\ q.on \in Sockets
      BY <1>0, <2>4, <2>6 DEF HoldsItsSocket, TypeOK
    <3>3. 0 \notin Sockets
      BY BoundAssumption DEF Sockets
    <3> QED BY <3>1, <3>2, <3>3
  <2>7. HoldsItsSocket'
    <3> SUFFICES ASSUME ~raced'
                 PROVE  /\ \A t \in Sockets : Live(t)' => t = socket'
                        /\ stray' = 0
                        /\ (socket' # 0) = (active' /\ ~reconnectHandle')
                        /\ reconnectHandle' => active'
                        /\ \A q \in pending' : q.on = socket'
      BY DEF HoldsItsSocket
    <3>1. socket' = opened + 1 /\ socket' # 0
      BY <1>0, <2>1, <2>2, OpenKeeps
    <3>2. ~reconnectHandle' /\ stray' = 0 /\ pending' = {}
      BY <2>1, <2>6 DEF requestVars
    <3> QED BY <2>1, <2>5, <3>1, <3>2
  <2>8. MountedAsWanted'
    <3>1. socket' = opened + 1
      BY <1>0, <2>1, <2>2, OpenKeeps
    <3>2. ~raced' => Closing' \subseteq {socket'}
      BY <2>5, <3>1 DEF Closing
    <3> QED BY <2>1, <3>2 DEF MountedAsWanted
  <2> QED BY <2>3, <2>7, <2>8 DEF IInv
<1> QED BY <1>1, <1>2

\* close()
LEMMA TeardownKeeps == ASSUME IInv, Teardown PROVE IInv'
<1>0. TypeOK /\ OpenedInOrder /\ HoldsItsSocket /\ MountedAsWanted
  BY DEF IInv
<1>1. /\ active' = FALSE /\ tracked' = FALSE /\ explicitlyClosed' = TRUE
      /\ reconnectHandle' = FALSE /\ pending' = {} /\ socket' = 0
      /\ status' = "closed"
      /\ UNCHANGED <<wanted, toggles, opened, stray, raced, nextId, caughtUp, failed>>
  BY DEF Teardown
<1>2. /\ readyState' \in [Sockets -> ReadyStates]
      /\ up' \in [Sockets -> Seq(Requests)]
      /\ down' \in [Sockets -> Seq(Answers)]
      /\ awaiting' \subseteq [on : Sockets, id : Nat]
      /\ registered' \subseteq Sockets
      /\ \A t \in Sockets : readyState'[t] = readyState[t] \/ t = socket
      /\ \A t \in Sockets : t = socket => readyState'[t] \notin {"connecting", "open"}
      /\ \A t \in Sockets : t > opened => readyState'[t] = readyState[t]
  <2>1. CASE socket # 0 /\ Live(socket)
    <3>1. Shut(socket, "closing") /\ socket \in Sockets /\ ~(socket > opened)
      BY <1>0, <2>1, BoundAssumption DEF Teardown, TypeOK, Sockets
    <3> QED BY <1>0, <3>1, ShutKeeps
  <2>2. CASE ~(socket # 0 /\ Live(socket))
    <3>1. UNCHANGED <<readyState, wireVars>>
      BY <2>2 DEF Teardown
    <3>2. \A t \in Sockets : t # 0
      BY BoundAssumption DEF Sockets
    <3> QED BY <1>0, <2>2, <3>1, <3>2 DEF TypeOK, wireVars, Live
  <2> QED BY <2>1, <2>2
<1>3. TypeOK'
  <2>1. opened' \in 0..MaxSockets /\ socket' \in 0..opened'
    BY <1>0, <1>1 DEF TypeOK
  <2>2. status' \in Statuses
    BY <1>1 DEF Statuses
  <2> QED BY <1>0, <1>1, <1>2, <2>1, <2>2 DEF TypeOK
<1>4. OpenedInOrder'
  BY <1>0, <1>1, <1>2 DEF OpenedInOrder
<1>5. HoldsItsSocket'
  BY <1>0, <1>1, <1>2 DEF HoldsItsSocket, Live
<1>6. MountedAsWanted'
  BY <1>1 DEF MountedAsWanted
<1> QED BY <1>3, <1>4, <1>5, <1>6 DEF IInv

\* killWebSocket()
LEMMA KillKeeps == ASSUME IInv, KillWebSocket PROVE IInv'
<1>0. TypeOK /\ OpenedInOrder /\ HoldsItsSocket /\ MountedAsWanted
  BY DEF IInv
<1>1. Shut(socket, "closing") /\ socket \in Sockets /\ ~(socket > opened) /\ socket # 0
  BY <1>0, BoundAssumption DEF KillWebSocket, TypeOK, Sockets
<1>2. UNCHANGED <<userVars, status, explicitlyClosed, opened, socket,
                  reconnectHandle, stray, raced, requestVars, caughtUp, failed>>
  BY DEF KillWebSocket
<1>3. TypeOK'
  BY <1>0, <1>1, <1>2, ShutKeeps DEF TypeOK, userVars, requestVars
<1>4. OpenedInOrder'
  <2>1. \A t \in Sockets : t # socket => readyState'[t] = readyState[t]
    BY <1>0, <1>1, ShutKeeps
  <2>2. \A t \in Sockets : t > opened => t # socket
    BY <1>1
  <2> QED BY <1>0, <1>2, <2>1, <2>2 DEF OpenedInOrder
<1>5. HoldsItsSocket'
  BY <1>0, <1>1, <1>2, ShutKeeps DEF HoldsItsSocket, Live, userVars, requestVars
<1>6. MountedAsWanted'
  BY <1>0, <1>1, <1>2, ShutKeeps DEF MountedAsWanted, Closing, userVars
<1> QED BY <1>3, <1>4, <1>5, <1>6 DEF IInv

\* onopen
LEMMA OpenedKeeps == ASSUME IInv, NEW s \in Sockets, Opened(s) PROVE IInv'
<1>0. TypeOK /\ OpenedInOrder /\ HoldsItsSocket /\ MountedAsWanted
  BY DEF IInv
<1>1. UNCHANGED <<userVars, explicitlyClosed, opened, socket, reconnectHandle,
                  stray, raced, requestVars, up, awaiting, registered, caughtUp, failed>>
  BY DEF Opened
<1>2. /\ readyState[s] = "connecting" /\ status' = "open"
      /\ readyState' = [readyState EXCEPT ![s] = "open"]
  BY DEF Opened
<1>3. down' \in [Sockets -> Seq(Answers)]
  <2>1. <<[type |-> "hello", id |-> 0]>> \in Seq(Answers)
    BY DEF Answers
  <2> QED BY <1>0, <2>1 DEF Opened, TypeOK
<1>4. TypeOK'
  BY <1>0, <1>1, <1>2, <1>3
  DEF TypeOK, ReadyStates, Statuses, userVars, requestVars
<1>5. OpenedInOrder'
  BY <1>0, <1>1, <1>2 DEF OpenedInOrder, TypeOK
<1>6. \A t \in Sockets : /\ Live(t)' = Live(t)
                         /\ (readyState'[t] = "closing") = (readyState[t] = "closing")
  BY <1>0, <1>2 DEF Live, TypeOK
<1>7. HoldsItsSocket'
  BY <1>0, <1>1, <1>6 DEF HoldsItsSocket, userVars, requestVars
<1>8. MountedAsWanted'
  <2>1. ~raced => active
    <3>1. ~raced => s = socket /\ s # 0
      BY <1>0, <1>2, BoundAssumption DEF HoldsItsSocket, Live, Sockets
    <3> QED BY <1>0, <3>1 DEF HoldsItsSocket
  <2>2. Closing' = Closing
    BY <1>6 DEF Closing
  <2> QED BY <1>0, <1>1, <2>1, <2>2 DEF MountedAsWanted, userVars
<1> QED BY <1>4, <1>5, <1>7, <1>8 DEF IInv

\* onclose, after a close() or a kill, or because the connection broke.
LEMMA OnCloseKeeps ==
  ASSUME IInv, NEW s \in Sockets, Live(s) \/ s \in Closing, OnClose(s)
  PROVE  IInv'
<1>0. TypeOK /\ OpenedInOrder /\ HoldsItsSocket /\ MountedAsWanted
  BY DEF IInv
<1>1. /\ socket' = 0 /\ pending' = {} /\ Shut(s, "closed")
      /\ UNCHANGED <<userVars, explicitlyClosed, opened, raced, nextId, caughtUp, failed>>
  BY DEF OnClose
<1>2. /\ readyState' \in [Sockets -> ReadyStates]
      /\ up' \in [Sockets -> Seq(Requests)]
      /\ down' \in [Sockets -> Seq(Answers)]
      /\ awaiting' \subseteq [on : Sockets, id : Nat]
      /\ registered' \subseteq Sockets
      /\ readyState'[s] = "closed"
      /\ \A t \in Sockets : t # s => readyState'[t] = readyState[t]
  BY <1>0, <1>1, ShutKeeps
<1>3. /\ status' \in {"closed", "reconnecting"}
      /\ reconnectHandle' \in BOOLEAN /\ stray' \in Nat
  <2>1. CASE explicitlyClosed
    BY <1>0, <2>1 DEF OnClose, TypeOK
  <2>2. CASE ~explicitlyClosed
    <3>1. status' = "reconnecting" /\ reconnectHandle' = TRUE
      BY <2>2 DEF OnClose
    <3>2. stray' = stray + (IF reconnectHandle THEN 1 ELSE 0) /\ stray \in Nat
      BY <1>0, <2>2 DEF OnClose, TypeOK
    <3> QED BY <3>1, <3>2
  <2> QED BY <2>1, <2>2
<1>4. TypeOK'
  <2>1. opened' \in 0..MaxSockets /\ socket' \in 0..opened'
    BY <1>0, <1>1 DEF TypeOK
  <2>2. status' \in Statuses
    BY <1>3 DEF Statuses
  <2> QED BY <1>0, <1>1, <1>2, <1>3, <2>1, <2>2 DEF TypeOK, userVars
<1>5. ~(s > opened)
  BY <1>0 DEF OpenedInOrder, Live, Closing
<1>6. OpenedInOrder'
  BY <1>0, <1>1, <1>2, <1>5 DEF OpenedInOrder
<1>7. ~raced /\ active => s = socket /\ s # 0
  <2>1. s # 0
    BY BoundAssumption DEF Sockets
  <2>2. ~raced /\ active => s = socket
    BY <1>0 DEF HoldsItsSocket, MountedAsWanted
  <2> QED BY <2>1, <2>2
<1>8. ~raced /\ ~active => explicitlyClosed
  <2>1. opened # 0
    BY <1>0, <1>5, BoundAssumption DEF Sockets, TypeOK
  <2> QED BY <1>0, <2>1 DEF MountedAsWanted
<1>9. ASSUME ~raced, NEW t \in Sockets
      PROVE  ~Live(t)' /\ (active => readyState'[t] # "closing")
  <2>1. CASE t = s
    BY <1>2, <2>1 DEF Live
  <2>2. CASE t # s
    <3>1. Live(t) => t = socket /\ socket # 0 /\ active
      BY <1>0, <1>9, BoundAssumption DEF HoldsItsSocket, Sockets
    <3>2. active /\ readyState[t] = "closing" => t = socket
      BY <1>0, <1>9 DEF MountedAsWanted, Closing
    <3> QED BY <1>2, <1>7, <1>9, <2>2, <3>1, <3>2 DEF Live
  <2> QED BY <2>1, <2>2
<1>10. ASSUME ~raced
       PROVE  stray' = 0 /\ reconnectHandle' = active
  <2>1. CASE active
    <3>1. ~explicitlyClosed /\ ~reconnectHandle /\ stray = 0
      BY <1>0, <1>7, <1>10, <2>1 DEF HoldsItsSocket, MountedAsWanted
    <3> QED BY <2>1, <3>1 DEF OnClose
  <2>2. CASE ~active
    <3>1. explicitlyClosed /\ ~reconnectHandle /\ stray = 0
      BY <1>0, <1>8, <1>10, <2>2 DEF HoldsItsSocket
    <3> QED BY <1>0, <2>2, <3>1 DEF OnClose, TypeOK
  <2> QED BY <2>1, <2>2
<1>11. HoldsItsSocket'
  BY <1>0, <1>1, <1>9, <1>10 DEF HoldsItsSocket, TypeOK, userVars
<1>12. MountedAsWanted'
  <2>1. ~raced /\ ~active => status' = "closed"
    BY <1>8 DEF OnClose
  <2>2. ~raced /\ active => Closing' = {}
    BY <1>9 DEF Closing
  <2> QED BY <1>0, <1>1, <1>8, <2>1, <2>2 DEF MountedAsWanted, userVars
<1> QED BY <1>4, <1>6, <1>11, <1>12 DEF IInv

\* A reconnect timer fires.
LEMMA TimerKeeps == ASSUME IInv, TimerFires PROVE IInv'
<1>0. TypeOK /\ OpenedInOrder /\ HoldsItsSocket /\ MountedAsWanted
  BY DEF IInv
<1>1. /\ UNCHANGED <<userVars, explicitlyClosed, raced, requestVars, wireVars,
                     caughtUp, failed>>
      /\ reconnectHandle' = FALSE /\ stray' \in Nat
      /\ reconnectHandle \/ stray > 0
  BY <1>0 DEF TimerFires, CountTimers, TypeOK
<1>2. ~raced => /\ active /\ ~explicitlyClosed /\ stray' = 0
                /\ socket = 0 /\ pending = {}
  <2>1. ~raced => reconnectHandle /\ stray = 0
    BY <1>0, <1>1 DEF HoldsItsSocket
  <2>2. ~raced => active /\ socket = 0 /\ ~explicitlyClosed /\ stray' = 0
    BY <1>0, <2>1 DEF HoldsItsSocket, MountedAsWanted, TimerFires, CountTimers
  <2>3. 0 \notin Sockets
    BY BoundAssumption DEF Sockets
  <2>4. ~raced => \A q \in pending : q.on = 0 /\ q.on \in Sockets
    BY <1>0, <2>2 DEF HoldsItsSocket, TypeOK
  <2> QED BY <2>2, <2>3, <2>4
<1>3. CASE explicitlyClosed
  <2>1. UNCHANGED <<opened, socket, readyState, status>> /\ raced
    BY <1>2, <1>3 DEF TimerFires
  <2>2. TypeOK'
    BY <1>0, <1>1, <2>1 DEF TypeOK, userVars, requestVars, wireVars
  <2>3. OpenedInOrder'
    BY <1>0, <2>1 DEF OpenedInOrder
  <2> QED BY <1>1, <2>1, <2>2, <2>3 DEF IInv, HoldsItsSocket, MountedAsWanted
<1>4. CASE ~explicitlyClosed
  <2>1. OpenSocket /\ opened + 1 \in Sockets
    BY <1>0, <1>4, BoundAssumption DEF TimerFires, TypeOK, Sockets
  <2>2. TypeOK' /\ OpenedInOrder'
    BY <1>0, <1>1, <2>1, OpenKeeps DEF TypeOK, userVars, requestVars, wireVars
  <2>3. socket' = opened + 1 /\ socket' # 0
    BY <1>0, <2>1, OpenKeeps
  <2>4. ASSUME ~raced, NEW t \in Sockets, t # opened + 1
        PROVE  ~Live(t)' /\ readyState'[t] # "closing"
    <3>1. readyState'[t] = readyState[t]
      BY <1>0, <2>1, <2>4, OpenKeeps
    <3>2. t # socket
      BY <1>2, <2>4, BoundAssumption DEF Sockets
    <3>3. ~Live(t) /\ t \notin Closing
      BY <1>0, <1>2, <2>4, <3>2 DEF HoldsItsSocket, MountedAsWanted
    <3> QED BY <3>1, <3>3 DEF Live, Closing
  <2>5. HoldsItsSocket'
    BY <1>1, <1>2, <2>3, <2>4 DEF HoldsItsSocket, userVars, requestVars
  <2>6. MountedAsWanted'
    <3>1. ~raced => Closing' \subseteq {socket'}
      BY <2>3, <2>4 DEF Closing
    <3> QED BY <1>1, <1>2, <3>1 DEF MountedAsWanted, userVars
  <2> QED BY <2>2, <2>5, <2>6 DEF IInv
<1> QED BY <1>3, <1>4

----------------------------------------------------------------------------
(* Every step preserves the inductive invariant *)

LEMMA NextIInv == IInv /\ [Next]_vars => IInv'
<1> SUFFICES ASSUME IInv, [Next]_vars PROVE IInv'
  OBVIOUS
<1>1. CASE TrackSession \/ UntrackSession \/ \E q \in pending : Timeout(q)
  BY <1>1, RequestsKeep
<1>2. CASE Mount
  BY <1>2, MountKeeps
<1>3. CASE Teardown
  BY <1>3, TeardownKeeps
<1>4. CASE KillWebSocket
  BY <1>4, KillKeeps
<1>5. CASE TimerFires
  BY <1>5, TimerKeeps
<1>6. CASE \E s \in Sockets : Opened(s)
  BY <1>6, OpenedKeeps
<1>7. CASE \E s \in Sockets : Closed(s) \/ Drop(s)
  BY <1>7, OnCloseKeeps DEF Closed, Drop
<1>8. CASE \E s \in Sockets : Process(s)
  BY <1>8, ProcessKeeps
<1>9. CASE \E s \in Sockets : Serve(s)
  BY <1>9, ServeKeeps
<1>10. CASE UNCHANGED vars
  <2>1. TypeOK'
    BY <1>10 DEF IInv, TypeOK, vars, userVars, socketVars, requestVars, wireVars
  <2> QED BY <1>10, <2>1, QuietKeeps DEF IInv, vars, userVars, requestVars
<1> QED BY <1>1, <1>2, <1>3, <1>4, <1>5, <1>6, <1>7, <1>8, <1>9, <1>10 DEF Next

LEMMA InvariantHolds == Spec => []IInv
BY InitIInv, NextIInv, PTL DEF Spec

\* Every reachable state of a client is well typed, whatever the number of
\* sockets it opens, and it opens none beyond the bound.
THEOREM TypeCorrect == Spec => []TypeOK
<1>1. IInv => TypeOK
  BY DEF IInv
<1> QED BY <1>1, InvariantHolds, PTL

\* Until connect() overtakes a close event, the client holds the only live
\* socket, one when it is mounted and waits for no timer, with every pending
\* request on it (attachSocket, scheduleReconnect and close).
THEOREM HandleTimerAndRequestsInStep == Spec => []HoldsItsSocket
<1>1. IInv => HoldsItsSocket
  BY DEF IInv
<1> QED BY <1>1, InvariantHolds, PTL
=============================================================================
