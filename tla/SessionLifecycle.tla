-------------------------- MODULE SessionLifecycle --------------------------
(***************************************************************************)
(* One session from its creation on: the row of `sessions`, the rows of    *)
(* `session_participants`, the part of the log the HTTP routes write, the  *)
(* two-step privacy route, and the subscriptions that a change of privacy  *)
(* has to prune (apps/server/src/sessions/routes.ts, visibility.ts and     *)
(* ws/subscriptions.ts, ws/handlers/subscribe.ts).                         *)
(*                                                                         *)
(* Every route but the privacy one holds the session's row lock from its   *)
(* checks to COMMIT, so an accepted request is one step.  Privacy reads,   *)
(* updates and prunes in separate awaited queries, and subscribe awaits    *)
(* its visibility query before it registers: those are separate steps.     *)
(***************************************************************************)
EXTENDS Integers, Sequences

CONSTANTS
    Host,       \* the user who created the session, its moderator
    Users,      \* everybody else with an account
    Roles,      \* the seats a debater may take
    Anonymous,  \* a viewer with no account
    Watchers,   \* who opens a WebSocket connection
    Requests,   \* privacy requests the server may be serving at once
    MaxLog      \* bound on the length of the log

People == Users \cup {Host}
Moderator == "moderator"
None == "none"

ASSUME HostAssumption == Host \notin Users /\ Anonymous \notin People
ASSUME RolesAssumption == Moderator \notin Roles /\ None \notin Roles
ASSUME WatchersAssumption == Watchers \subseteq People \cup {Anonymous}
ASSUME MaxLogAssumption == MaxLog \in Nat

VARIABLES
    privacy,    \* the session row: "public" or "private",
    ended,      \*   whether ended_at is set,
    started,    \*   whether started_at is set
    seat,       \* the role of each user's active participant row, or None
    known,      \* users with a participant row, left or not
    log,        \* the session's events, the debate's own writes as one kind
    request,    \* the privacy requests in flight
    awaiting,   \* subscribes whose visibility query has said yes
    subscribed, \* the registry's connections for this session
    overtaken   \* history: entries no prune is going to examine

row == <<privacy, ended, started>>
seats == <<seat, known>>
registry == <<awaiting, subscribed, overtaken>>
vars == <<row, seats, log, request, registry>>

Event(kind, u, role) == [kind |-> kind, user |-> u, role |-> role]
Created == Event("created", Host, None)
Ended == Event("ended", Host, None)
Restarted == Event("restarted", Host, None)
Operate == Event("operate", Host, None)
Joined(u, role) == Event("joined", u, role)
Left(u) == Event("left", u, None)
Written(u) == Event("write", u, None)

Idle == [phase |-> "idle", to |-> "public", todo |-> {}, evict |-> {}]

(***************************************************************************)
(* visibility.ts: visibilityWhereFragment and canSeeSessionAnonymously.    *)
(***************************************************************************)
MaySee(v) == privacy = "public" \/ v = Host \/ v \in known

CanSee(v) == IF v = Anonymous THEN privacy = "public" /\ ~ended ELSE MaySee(v)

Init ==
    /\ privacy \in {"public", "private"}
    /\ ended = FALSE
    /\ started = FALSE
    /\ seat = [u \in People |-> IF u = Host THEN Moderator ELSE None]
    /\ known = {Host}
    /\ log = <<Created, Joined(Host, Moderator)>>
    /\ request = [r \in Requests |-> Idle]
    /\ awaiting = {}
    /\ subscribed = {}
    /\ overtaken = {}

Append1(e) == Len(log) < MaxLog /\ log' = Append(log, e)

-----------------------------------------------------------------------------
(***************************************************************************)
(* The locked routes.                                                      *)
(***************************************************************************)

\* The host ends the session: once, a second end is refused.
End ==
    /\ ~ended
    /\ ended' = TRUE
    /\ Append1(Ended)
    /\ UNCHANGED <<privacy, started, seats, request, registry>>

\* The host reopens an ended session; started_at is left alone.
Restart ==
    /\ ended
    /\ ended' = FALSE
    /\ Append1(Restarted)
    /\ UNCHANGED <<privacy, started, seats, request, registry>>

\* The host starts the debate.  The log is searched for the latest change of
\* mode: a second start is accepted and does nothing.
InOperate == \E i \in DOMAIN log : log[i] = Operate

Start ==
    /\ ~ended
    /\ ~InOperate
    /\ started' = TRUE
    /\ Append1(Operate)
    /\ UNCHANGED <<privacy, ended, seats, request, registry>>

MayTakeSeated(u, role) ==
    /\ ~ended
    /\ \A p \in People : seat[p] # role

\* Both ways to a seat ask for a free role and for a user without a seat.
MayTake(u, role) ==
    /\ ~ended
    /\ \A p \in People : seat[p] # role
    /\ seat[u] = None

Take(u, role) ==
    /\ seat' = [seat EXCEPT ![u] = role]
    /\ known' = known \cup {u}
    /\ Append1(Joined(u, role))
    /\ UNCHANGED <<row, request, registry>>

\* The host assigns a seat to any user with an account but himself: he holds
\* the moderator's.
Assign(u, role) ==
    /\ MayTake(u, role)
    /\ Take(u, role)

ClaimTakenRole(u, role) ==
    /\ u # Host
    /\ CanSee(u)
    /\ ~ended
    /\ seat[u] = None
    /\ Take(u, role)

\* A user who can see the session takes a seat through the invite link.
Claim(u, role) ==
    /\ u # Host
    /\ CanSee(u)
    /\ MayTake(u, role)
    /\ Take(u, role)

\* The host, or the user himself, gives up a seat; never the moderator's.
Remove(u) ==
    /\ ~ended
    /\ seat[u] \notin {None, Moderator}
    /\ seat' = [seat EXCEPT ![u] = None]
    /\ Append1(Left(u))
    /\ UNCHANGED <<row, known, request, registry>>

\* A debate write over a WebSocket connection: the sender is subscribed and
\* holds a seat.  The handlers read ended_at under the lock and never look
\* at it.
Write(u) ==
    /\ u \in subscribed
    /\ seat[u] # None
    /\ Append1(Written(u))
    /\ UNCHANGED <<row, seats, request, registry>>

-----------------------------------------------------------------------------
(***************************************************************************)
(* PATCH /sessions/:id/privacy.                                            *)
(***************************************************************************)
Phase(r, p) == request[r].phase = p

\* The first query: a live session.
CheckPrivacy(r, to) ==
    /\ Phase(r, "idle")
    /\ ~ended
    /\ request' = [request EXCEPT ![r] =
                     [phase |-> "checked", to |-> to, todo |-> {}, evict |-> {}]]
    /\ UNCHANGED <<row, seats, log, registry>>

\* The second query, which no longer looks at ended_at.
UpdatePrivacy(r) ==
    /\ Phase(r, "checked")
    /\ privacy' = request[r].to
    /\ request' = [request EXCEPT ![r] =
                     IF @.to = "private" THEN [@ EXCEPT !.phase = "updated"] ELSE Idle]
    /\ UNCHANGED <<ended, started, seats, log, registry>>

Pruning(r, todo, evict) ==
    request' = [request EXCEPT ![r] =
                  [phase |-> "pruning", to |-> "private", todo |-> todo, evict |-> evict]]

\* The continuation takes a snapshot of the subscribers.
BeginPrune(r) ==
    /\ Phase(r, "updated")
    /\ Pruning(r, subscribed, {})
    /\ UNCHANGED <<row, seats, log, registry>>

EvictAnonymousLive(r) ==
    /\ Anonymous \in request[r].todo
    /\ ~ended
    /\ Pruning(r, request[r].todo \ {Anonymous}, request[r].evict)
    /\ subscribed' = subscribed \ {Anonymous}
    /\ overtaken' = overtaken \ {Anonymous}
    /\ UNCHANGED <<row, seats, log, awaiting>>

\* The anonymous viewer is evicted without a query.
EvictAnonymous(r) ==
    /\ Anonymous \in request[r].todo
    /\ Pruning(r, request[r].todo \ {Anonymous}, request[r].evict)
    /\ subscribed' = subscribed \ {Anonymous}
    /\ overtaken' = overtaken \ {Anonymous}
    /\ UNCHANGED <<row, seats, log, awaiting>>

\* One subscriber after the other is looked up; the answer is acted on after
\* the await.
Ask(r, v) ==
    /\ v \in request[r].todo \ {Anonymous}
    /\ request[r].evict = {}
    /\ Pruning(r, request[r].todo \ {v}, IF CanSee(v) THEN {} ELSE {v})
    /\ UNCHANGED <<row, seats, log, registry>>

\* The lookup fails: the subscription is left in place.
AskFails(r, v) ==
    /\ v \in request[r].todo \ {Anonymous}
    /\ request[r].evict = {}
    /\ Pruning(r, request[r].todo \ {v}, {})
    /\ overtaken' = overtaken \cup {v}
    /\ UNCHANGED <<row, seats, log, awaiting, subscribed>>

EvictNotify(r) == \E v \in request[r].evict :
    /\ Pruning(r, request[r].todo, {})
    /\ UNCHANGED <<row, seats, log, registry>>

Evict(r) == \E v \in request[r].evict :
    /\ Pruning(r, request[r].todo, {})
    /\ subscribed' = subscribed \ {v}
    /\ overtaken' = overtaken \ {v}
    /\ UNCHANGED <<row, seats, log, awaiting>>

EndPrune(r) ==
    /\ Phase(r, "pruning")
    /\ request[r].todo = {}
    /\ request[r].evict = {}
    /\ request' = [request EXCEPT ![r] = Idle]
    /\ UNCHANGED <<row, seats, log, registry>>

-----------------------------------------------------------------------------
(***************************************************************************)
(* subscribe, unsubscribe and the close of a connection.                   *)
(***************************************************************************)
CheckVisible(v) ==
    /\ v \notin awaiting
    /\ CanSee(v)
    /\ awaiting' = awaiting \cup {v}
    /\ UNCHANGED <<row, seats, log, request, subscribed, overtaken>>

\* A prune that has yet to take its snapshot will find the new entry; one
\* that has taken it will not.
Foreseen(v) == MaySee(v) \/ \E r \in Requests : Phase(r, "updated")

Register(v) ==
    /\ v \in awaiting
    /\ awaiting' = awaiting \ {v}
    /\ subscribed' = subscribed \cup {v}
    /\ overtaken' = IF Foreseen(v) THEN overtaken ELSE overtaken \cup {v}
    /\ UNCHANGED <<row, seats, log, request>>

Unsubscribe(v) ==
    /\ v \in subscribed
    /\ subscribed' = subscribed \ {v}
    /\ overtaken' = overtaken \ {v}
    /\ UNCHANGED <<row, seats, log, request, awaiting>>

-----------------------------------------------------------------------------
Prune(r) ==
    \/ BeginPrune(r)
    \/ EvictAnonymous(r)
    \/ \E v \in Watchers : Ask(r, v) \/ AskFails(r, v)
    \/ Evict(r)
    \/ EndPrune(r)

Next ==
    \/ End \/ Restart \/ Start
    \/ \E u \in Users, role \in Roles : Assign(u, role) \/ Claim(u, role)
    \/ \E u \in People : Remove(u) \/ Write(u)
    \/ \E r \in Requests :
          \/ \E to \in {"public", "private"} : CheckPrivacy(r, to)
          \/ UpdatePrivacy(r)
          \/ Prune(r)
    \/ \E v \in Watchers : CheckVisible(v) \/ Register(v) \/ Unsubscribe(v)

\* A prune is one asynchronous function over settled promises: it goes on.
Spec == Init /\ [][Next]_vars /\ \A r \in Requests : WF_vars(Prune(r))

-----------------------------------------------------------------------------
(***************************************************************************)
(* Properties.                                                             *)
(***************************************************************************)
Kinds == {"created", "ended", "restarted", "operate", "joined", "left", "write"}
Request == [phase : {"idle", "checked", "updated", "pruning"},
            to : {"public", "private"},
            todo : SUBSET Watchers, evict : SUBSET Watchers]

\* Every variable stays in its type, only a pruning request has subscribers
\* to examine, and whoever holds a seat has a participant row.
TypeOK ==
    /\ privacy \in {"public", "private"}
    /\ ended \in BOOLEAN /\ started \in BOOLEAN
    /\ seat \in [People -> Roles \cup {Moderator, None}]
    /\ known \subseteq People
    /\ \A u \in People : seat[u] # None => u \in known
    /\ log \in Seq([kind : Kinds, user : People, role : Roles \cup {Moderator, None}])
    /\ request \in [Requests -> Request]
    /\ \A r \in Requests : ~Phase(r, "pruning") =>
          request[r].todo = {} /\ request[r].evict = {}
    /\ awaiting \subseteq Watchers
    /\ subscribed \subseteq Watchers
    /\ overtaken \subseteq Watchers

\* No role is held twice, and the host is the moderator for good: whatever
\* order the invite link, the host's assignments and the departures come in.
SeatsAreExclusive ==
    /\ \A u, w \in People : seat[u] = seat[w] /\ seat[u] # None => u = w
    /\ seat[Host] = Moderator

Seatings(u) == {Joined(u, role) : role \in Roles \cup {Moderator}} \cup {Left(u)}

\* x is the latest event of the class C before position n.
Latest(x, C, n) == \E i \in DOMAIN log :
    /\ i < n
    /\ log[i] = x /\ x \in C
    /\ \A j \in i + 1 .. n - 1 : log[j] \notin C

SeatedAt(u, n) == \E role \in Roles \cup {Moderator} : Latest(Joined(u, role), Seatings(u), n)
EndedAt(n) == Latest(Ended, {Ended, Restarted}, n)

\* The log can be replayed: nobody joins twice or leaves without having
\* joined (the projection throws on either, and then no write is possible
\* any more), ends and restarts alternate, the debate starts once, and
\* between an end and a restart only the debate's own writes appear.
LogReplays == \A n \in DOMAIN log :
    /\ \A u \in People :
          log[n] \in Seatings(u) => (log[n] = Left(u) <=> SeatedAt(u, n))
    /\ log[n] = Restarted <=> (EndedAt(n) /\ log[n].kind # "write")
    /\ log[n] = Operate => \A m \in 1 .. n - 1 : log[m] # Operate

\* The rows say what the log says: who is seated and in which role, whether
\* the session is ended, whether it was started.
RowsFollowTheLog ==
    LET now == Len(log) + 1 IN
    /\ ended <=> EndedAt(now)
    /\ started <=> InOperate
    /\ \A u \in People, role \in Roles \cup {Moderator} :
          seat[u] = role <=> Latest(Joined(u, role), Seatings(u), now)

\* The log every route appends to can be replayed, and the rows written in the
\* same transactions agree with it.
LogAndRowsAgree == LogReplays /\ RowsFollowTheLog

\* Whoever is in the registry may see the session, or a prune is about to
\* examine the entry, or it was registered behind the prune's back (or its
\* lookup failed).
RegistryFollowsVisibility == \A v \in subscribed :
    \/ MaySee(v)
    \/ v \in overtaken
    \/ \E r \in Requests : Phase(r, "updated") \/ v \in request[r].todo \cup request[r].evict

\* Whoever loses sight of the session leaves the registry in the end, unless
\* the entry was overtaken.
PruneReachesEverybody == \A v \in Watchers :
    (v \in subscribed /\ ~MaySee(v)) ~>
        (v \notin subscribed \/ MaySee(v) \/ v \in overtaken)
=============================================================================
