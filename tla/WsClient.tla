------------------------------ MODULE WsClient ------------------------------
(* The shell's WebSocket client and the React provider that mounts it: the  *)
(* socket the client holds, the callbacks of every socket it ever opened,   *)
(* the reconnect timers, the requests waiting for an answer, and the one    *)
(* session a route follows.  Browser callbacks run one at a time; each is   *)
(* an action.  A socket's close event comes some time after close().        *)
(*                                                                          *)
(* The server is what its handlers do to a connection: subscribe awaits a   *)
(* visibility query before it registers, unsubscribe acts at once, and      *)
(* catch-up asks that the connection be registered (SessionSync says what   *)
(* catch-up sends).  Backoff delays are left out: a timer fires some time.  *)
EXTENDS Integers, Sequences, FiniteSets

CONSTANTS
  MaxSockets,  \* bound: sockets the client opens
  MaxToggles   \* bound: times the route mounts or unmounts

ASSUME BoundAssumption == MaxSockets \in Nat /\ MaxToggles \in Nat

Sockets == 1..MaxSockets

VARIABLES
  active,           \* the provider's effect is in force
  wanted,           \* a mounted route follows the session
  toggles,          \* times the route mounted or unmounted
  tracked,          \* the store's subscriptions contain the session
  status,           \* the client's outward status
  explicitlyClosed, \* close() was called and connect() not since
  opened,           \* sockets opened so far
  socket,           \* the socket the client holds, 0 for undefined
  readyState,       \* each socket's state in the browser
  reconnectHandle,  \* the timer the client can still cancel is armed
  stray,            \* armed timers whose handle was overwritten
  pending,          \* requests waiting for their answer
  nextId,           \* id of the next request
  up,               \* frames each socket has on its way to the server
  down,             \* frames each socket has on its way to the client
  awaiting,         \* subscribe handlers awaiting the visibility query
  registered,       \* connections registered for the session
  caughtUp,         \* history: sockets on which a catch-up was answered
  failed,           \* history: a request was refused or timed out
  raced             \* history: connect() ran before an old socket's close event

userVars == <<active, wanted, toggles, tracked>>
socketVars == <<status, explicitlyClosed, opened, socket, readyState,
                reconnectHandle, stray, raced>>
requestVars == <<pending, nextId>>
wireVars == <<up, down, awaiting, registered>>
vars == <<userVars, socketVars, requestVars, wireVars, caughtUp, failed>>

Live(s) == readyState[s] \in {"connecting", "open"}
Closing == {s \in Sockets : readyState[s] = "closing"}

Init ==
  /\ active = FALSE /\ wanted = FALSE /\ toggles = 0 /\ tracked = FALSE
  /\ status = "idle" /\ explicitlyClosed = FALSE /\ opened = 0 /\ socket = 0
  /\ readyState = [s \in Sockets |-> "unused"]
  /\ reconnectHandle = FALSE /\ stray = 0 /\ raced = FALSE
  /\ pending = {} /\ nextId = 1
  /\ up = [s \in Sockets |-> <<>>]
  /\ down = [s \in Sockets |-> <<>>]
  /\ awaiting = {} /\ registered = {}
  /\ caughtUp = {} /\ failed = FALSE

\* Sockets that armed timers and close events still to come may yet open.  The
\* network and the users leave that many within the bound.
Reserved == Cardinality(Closing) + stray + (IF reconnectHandle THEN 1 ELSE 0)
SocketsLeft == opened + Reserved < MaxSockets

----------------------------------------------------------------------------
(* Requests *)

CanSend == socket # 0 /\ readyState[socket] = "open"

\* send(): the request joins those still waiting and leaves on the held socket.
Send(type, waiting) ==
  /\ pending' = waiting \cup {[id |-> nextId, type |-> type, on |-> socket]}
  /\ up' = [up EXCEPT ![socket] = Append(@, [type |-> type, id |-> nextId])]
  /\ nextId' = nextId + 1

\* send() on a socket that is not open rejects and leaves nothing behind.
TrySend(type, waiting) ==
  IF CanSend THEN Send(type, waiting)
  ELSE pending' = waiting /\ UNCHANGED <<up, nextId>>

Answered(id) == {q \in pending : q.id # id}

Timeout(q) ==
  /\ q \in pending
  /\ pending' = pending \ {q}
  /\ failed' = TRUE
  /\ UNCHANGED <<userVars, socketVars, nextId, wireVars, caughtUp>>

----------------------------------------------------------------------------
(* The route: trackSession on mount, untrackSession on unmount *)

TrackSession ==
  /\ ~wanted
  /\ toggles < MaxToggles
  /\ wanted' = TRUE
  /\ toggles' = toggles + 1
  /\ tracked' = TRUE
  /\ IF ~tracked /\ status = "open"
       THEN TrySend("subscribe", pending)
       ELSE UNCHANGED <<requestVars, up>>
  /\ UNCHANGED <<active, socketVars, down, awaiting, registered, caughtUp, failed>>

UntrackSession ==
  /\ wanted
  /\ toggles < MaxToggles
  /\ wanted' = FALSE
  /\ toggles' = toggles + 1
  /\ tracked' = FALSE
  /\ IF status = "open"
       THEN TrySend("unsubscribe", pending)
       ELSE UNCHANGED <<requestVars, up>>
  /\ UNCHANGED <<active, socketVars, down, awaiting, registered, caughtUp, failed>>

----------------------------------------------------------------------------
(* Sockets and timers *)

OpenSocket ==
  /\ opened' = opened + 1
  /\ socket' = opened + 1
  /\ readyState' = [readyState EXCEPT ![opened + 1] = "connecting"]
  /\ status' = IF status = "reconnecting" THEN status ELSE "connecting"

\* Mutant: connect() does not take back an earlier close().
MountKeepingClosed ==
  /\ ~active
  /\ SocketsLeft
  /\ active' = TRUE
  /\ raced' = (raced \/ \E s \in Sockets : Live(s) \/ s \in Closing)
  /\ IF status \in {"open", "connecting"} \/ explicitlyClosed
       THEN UNCHANGED <<opened, socket, readyState, status>>
       ELSE OpenSocket
  /\ UNCHANGED <<wanted, toggles, tracked, explicitlyClosed, reconnectHandle,
                 stray, requestVars, wireVars, caughtUp, failed>>

\* The provider's effect runs: connect().
Mount ==
  /\ ~active
  /\ SocketsLeft
  /\ active' = TRUE
  /\ raced' = (raced \/ \E s \in Sockets : Live(s) \/ s \in Closing)
  /\ IF status \in {"open", "connecting"}
       THEN UNCHANGED <<explicitlyClosed, opened, socket, readyState, status>>
       ELSE explicitlyClosed' = FALSE /\ OpenSocket
  /\ UNCHANGED <<wanted, toggles, tracked, reconnectHandle, stray,
                 requestVars, wireVars, caughtUp, failed>>

\* What is in flight on socket s no longer reaches the client.
Shut(s, next) ==
  /\ readyState' = [readyState EXCEPT ![s] = next]
  /\ up' = [up EXCEPT ![s] = <<>>]
  /\ down' = [down EXCEPT ![s] = <<>>]
  /\ awaiting' = {a \in awaiting : a.on # s}
  /\ registered' = registered \ {s}

\* Mutant: close() leaves the reconnect timer armed.
TeardownKeepingTimer ==
  /\ active
  /\ SocketsLeft
  /\ active' = FALSE
  /\ tracked' = FALSE
  /\ explicitlyClosed' = TRUE
  /\ pending' = {}
  /\ IF socket # 0 /\ Live(socket)
       THEN Shut(socket, "closing")
       ELSE UNCHANGED <<readyState, wireVars>>
  /\ socket' = 0
  /\ status' = "closed"
  /\ UNCHANGED <<wanted, toggles, opened, reconnectHandle, stray, raced, nextId,
                 caughtUp, failed>>

\* The effect is cleaned up: close(), then reset() of the store, which forgets
\* the tracked session whether or not its route is still there.
Teardown ==
  /\ active
  /\ SocketsLeft
  /\ active' = FALSE
  /\ tracked' = FALSE
  /\ explicitlyClosed' = TRUE
  /\ reconnectHandle' = FALSE
  /\ pending' = {}
  /\ IF socket # 0 /\ Live(socket)
       THEN Shut(socket, "closing")
       ELSE UNCHANGED <<readyState, wireVars>>
  /\ socket' = 0
  /\ status' = "closed"
  /\ UNCHANGED <<wanted, toggles, opened, stray, raced, nextId, caughtUp, failed>>

\* killWebSocket(): the held socket is closed from outside.
KillWebSocket ==
  /\ socket # 0
  /\ Live(socket)
  /\ SocketsLeft
  /\ Shut(socket, "closing")
  /\ UNCHANGED <<userVars, status, explicitlyClosed, opened, socket,
                 reconnectHandle, stray, raced, requestVars, caughtUp, failed>>

\* The server accepts the upgrade and greets the client.
Opened(s) ==
  /\ readyState[s] = "connecting"
  /\ readyState' = [readyState EXCEPT ![s] = "open"]
  /\ down' = [down EXCEPT ![s] = <<[type |-> "hello", id |-> 0]>>]
  /\ status' = "open"
  /\ UNCHANGED <<userVars, explicitlyClosed, opened, socket, reconnectHandle,
                 stray, raced, requestVars, up, awaiting, registered, caughtUp, failed>>

\* onclose, whichever socket it is about: let go of the held socket, reject
\* every pending request, and reconnect later unless close() was called.
OnClose(s) ==
  /\ Shut(s, "closed")
  /\ socket' = 0
  /\ pending' = {}
  /\ IF explicitlyClosed
       THEN status' = "closed" /\ UNCHANGED <<reconnectHandle, stray>>
       ELSE /\ status' = "reconnecting"
            /\ reconnectHandle' = TRUE
            /\ stray' = stray + (IF reconnectHandle THEN 1 ELSE 0)
  /\ UNCHANGED <<userVars, explicitlyClosed, opened, raced, nextId, caughtUp, failed>>

Closed(s) == s \in Closing /\ OnClose(s)

\* The connection fails or breaks.
Drop(s) == Live(s) /\ SocketsLeft /\ OnClose(s)

\* A timer clears the handle, its own or another's, and opens a socket.
CountTimers ==
  \/ reconnectHandle /\ reconnectHandle' = FALSE /\ UNCHANGED stray
  \/ /\ stray > 0
     /\ reconnectHandle' = FALSE
     /\ stray' = IF reconnectHandle THEN stray ELSE stray - 1

TimerFires ==
  /\ CountTimers
  /\ IF explicitlyClosed
       THEN UNCHANGED <<opened, socket, readyState, status>>
       ELSE opened < MaxSockets /\ OpenSocket
  /\ UNCHANGED <<userVars, explicitlyClosed, raced, requestVars, wireVars,
                 caughtUp, failed>>

----------------------------------------------------------------------------
(* Frames: a socket hands its frames over in order and only while open *)

Deliver(s, types) ==
  /\ readyState[s] = "open"
  /\ down[s] # <<>>
  /\ Head(down[s]).type \in types
  /\ down' = [down EXCEPT ![s] = Tail(@)]

\* hello: resume the tracked session, on the socket the client holds.
DeliverHello(s) ==
  /\ Deliver(s, {"hello"})
  /\ IF tracked THEN TrySend("subscribe", pending) ELSE UNCHANGED <<requestVars, up>>
  /\ UNCHANGED <<userVars, socketVars, awaiting, registered, caughtUp, failed>>

\* The subscribe acknowledgement releases the catch-up request.
DeliverSubscribed(s) ==
  /\ Deliver(s, {"subscribed"})
  /\ LET id == Head(down[s]).id IN
     IF \E q \in pending : q.id = id
       THEN TrySend("catch-up", Answered(id))
       ELSE UNCHANGED <<requestVars, up>>
  /\ UNCHANGED <<userVars, socketVars, awaiting, registered, caughtUp, failed>>

\* Any other answer settles its request.
DeliverAnswer(s) ==
  /\ Deliver(s, {"unsubscribed", "caught-up", "error"})
  /\ pending' = Answered(Head(down[s]).id)
  /\ caughtUp' = IF Head(down[s]).type = "caught-up" THEN caughtUp \cup {s} ELSE caughtUp
  /\ UNCHANGED <<userVars, socketVars, nextId, up, awaiting, registered, failed>>

----------------------------------------------------------------------------
(* The server's handlers.  Dispatch is not awaited: a frame is handled while *)
(* the handlers of earlier frames of the same socket are still waiting.      *)

Reply(s, type, id) ==
  down' = [down EXCEPT ![s] = Append(@, [type |-> type, id |-> id])]

Take(s, type) ==
  /\ readyState[s] = "open"
  /\ up[s] # <<>>
  /\ Head(up[s]).type = type
  /\ up' = [up EXCEPT ![s] = Tail(@)]
  /\ UNCHANGED <<userVars, socketVars, requestVars, caughtUp>>

TakeSubscribe(s) ==
  /\ Take(s, "subscribe")
  /\ awaiting' = awaiting \cup {[on |-> s, id |-> Head(up[s]).id]}
  /\ UNCHANGED <<down, registered, failed>>

TakeUnsubscribe(s) ==
  /\ Take(s, "unsubscribe")
  /\ registered' = registered \ {s}
  /\ Reply(s, "unsubscribed", Head(up[s]).id)
  /\ UNCHANGED <<awaiting, failed>>

TakeCatchUp(s) ==
  /\ Take(s, "catch-up")
  /\ Reply(s, IF s \in registered THEN "caught-up" ELSE "error", Head(up[s]).id)
  /\ UNCHANGED <<awaiting, registered, failed>>

\* The catch-up rate limit, or a failing query.
RefuseCatchUp(s) ==
  /\ Take(s, "catch-up")
  /\ Reply(s, "error", Head(up[s]).id)
  /\ failed' = TRUE
  /\ UNCHANGED <<awaiting, registered>>

Subscribe(a) ==
  /\ a \in awaiting
  /\ awaiting' = awaiting \ {a}
  /\ registered' = registered \cup {a.on}
  /\ Reply(a.on, "subscribed", a.id)
  /\ UNCHANGED <<userVars, socketVars, requestVars, up, caughtUp, failed>>

\* The session is not visible, or the connection holds too many.
RefuseSubscribe(a) ==
  /\ a \in awaiting
  /\ awaiting' = awaiting \ {a}
  /\ Reply(a.on, "error", a.id)
  /\ failed' = TRUE
  /\ UNCHANGED <<userVars, socketVars, requestVars, up, registered, caughtUp>>

----------------------------------------------------------------------------
Process(s) == DeliverHello(s) \/ DeliverSubscribed(s) \/ DeliverAnswer(s)

Serve(s) ==
  \/ TakeSubscribe(s) \/ TakeUnsubscribe(s) \/ TakeCatchUp(s) \/ RefuseCatchUp(s)
  \/ \E a \in awaiting : a.on = s /\ (Subscribe(a) \/ RefuseSubscribe(a))

Next ==
  \/ TrackSession
  \/ UntrackSession
  \/ Mount
  \/ Teardown
  \/ KillWebSocket
  \/ TimerFires
  \/ \E s \in Sockets : Opened(s)
  \/ \E s \in Sockets : Closed(s)
  \/ \E s \in Sockets : Drop(s)
  \/ \E s \in Sockets : Process(s)
  \/ \E s \in Sockets : Serve(s)
  \/ \E q \in pending : Timeout(q)

\* The browser fires its events and timers and delivers its frames; the server
\* answers.  Nothing is assumed of users, of drops and of request timeouts.
Fairness ==
  /\ WF_vars(TimerFires)
  /\ \A s \in Sockets :
       /\ WF_vars(Opened(s)) /\ WF_vars(Closed(s))
       /\ WF_vars(Process(s)) /\ WF_vars(Serve(s))

Spec == Init /\ [][Next]_vars /\ Fairness

----------------------------------------------------------------------------
(* Properties *)

Statuses == {"idle", "connecting", "open", "reconnecting", "closed"}
ReadyStates == {"unused", "connecting", "open", "closing", "closed"}
RequestTypes == {"subscribe", "unsubscribe", "catch-up"}
Requests == [type : RequestTypes, id : Nat]
Answers == [type : {"hello", "subscribed", "unsubscribed", "caught-up", "error"},
            id : Nat]

\* Every variable stays in its type; no socket is opened beyond the bound.
TypeOK ==
  /\ active \in BOOLEAN /\ wanted \in BOOLEAN /\ tracked \in BOOLEAN
  /\ toggles \in Nat
  /\ status \in Statuses
  /\ explicitlyClosed \in BOOLEAN
  /\ opened \in 0..MaxSockets
  /\ socket \in 0..opened
  /\ readyState \in [Sockets -> ReadyStates]
  /\ reconnectHandle \in BOOLEAN
  /\ stray \in Nat
  /\ pending \subseteq [id : Nat, type : RequestTypes, on : Sockets]
  /\ nextId \in Nat
  /\ up \in [Sockets -> Seq(Requests)]
  /\ down \in [Sockets -> Seq(Answers)]
  /\ awaiting \subseteq [on : Sockets, id : Nat]
  /\ registered \subseteq Sockets
  /\ caughtUp \subseteq Sockets
  /\ failed \in BOOLEAN /\ raced \in BOOLEAN

\* As long as connect() never overtakes a close event: the only live socket is
\* the one the client holds, it holds one exactly when it is mounted and no
\* timer is armed, every pending request was sent on it, and after close() no
\* timer is left that could open another (attachSocket, scheduleReconnect and
\* close keep the handle, the timer and the pending map in step).
HoldsItsSocket ==
  ~raced =>
    /\ \A s \in Sockets : Live(s) => s = socket
    /\ stray = 0
    /\ (socket # 0) = (active /\ ~reconnectHandle)
    /\ reconnectHandle => active
    /\ \A q \in pending : q.on = socket

\* A mounted client that keeps tracking the session ends up registered and
\* caught up on the socket it holds, through drops, kills, failed attempts and
\* remounts, unless a request failed or connect() overtook a close event.
EventuallyFollowing ==
  <>[](active /\ tracked) =>
    <>[](\/ raced \/ failed
         \/ socket \in registered \cap caughtUp)
=============================================================================
