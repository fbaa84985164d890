--------------------------- MODULE Authentication ---------------------------
(***************************************************************************)
(* Signing in, being recognised and signing out (apps/server/src/auth and  *)
(* the upgrade gate of ws/connection.ts).  A login stores a flow row, goes *)
(* to the issuer and comes back through the callback; a new account then   *)
(* chooses its screen name; both ways end in a session token.  A request   *)
(* or a WebSocket upgrade carrying a token is checked in three awaited     *)
(* steps; logout puts the token on the denylist and closes the user's      *)
(* sockets; two timers sweep expired rows; the server may restart.         *)
(*                                                                         *)
(* Every statement of the database is a step of its own, because every     *)
(* handler awaits it.  The clock of Node and of the database are one.  A   *)
(* browser may send any cookie it was ever given.                          *)
(***************************************************************************)
EXTENDS Integers, FiniteSets

CONSTANTS
    Logins,      \* login attempts, each with its own `state` value
    Accounts,    \* accounts the issuer knows
    Names,       \* screen names that pass validateScreenName
    Placeholder, \* PLACEHOLDER_SCREEN_NAME, itself a name that passes
    Jtis,        \* identifiers of the tokens the server may sign
    Arrivals,    \* requests and upgrades the server may be serving at once
    MaxEntries,  \* the capacity of the flow store
    FlowLife, PendingLife, TokenLife, \* lifetimes of a flow, a pending cookie
                                      \* and a session token
    MaxTime      \* bound on the clock

NoRow == "no row"
NoUser == "no user"
NoJti == "no jti"

ASSUME NamesAssumption == Placeholder \in Names /\ NoRow \notin Names
ASSUME SetsAssumption == NoUser \notin Accounts /\ NoJti \notin Jtis
ASSUME TimesAssumption ==
    /\ FlowLife \in Nat \ {0} /\ PendingLife \in Nat \ {0}
    /\ TokenLife \in Nat \ {0} /\ MaxTime \in Nat /\ MaxEntries \in Nat

VARIABLES
    now,        \* the clock
    login,      \* each login: how far it is, the expiry of its flow row, the
                \* snapshot of its insert, who the issuer said it was
    flows,      \* the rows of auth_flow_state
    screenName, \* the users row of an account: its name, or no row
    deleted,    \* users rows with deleted_at set
    pending,    \* pending cookies handed out
    token,      \* the claims of each signed token
    denied,     \* the rows of auth_token_denylist
    arrival,    \* each request: upgrade or logout, how far it is, its token,
                \* and two history flags (barred, overtaken)
    chosen,     \* history: accounts that completed the screen-name form
    loggedOut   \* history: tokens whose logout was answered

accountVars == <<screenName, deleted, pending, chosen>>
tokenVars == <<token, denied, loggedOut>>
authVars == <<now, login, flows, accountVars, tokenVars, arrival>>

Instants == 0..MaxTime

NoLogin == [at |-> "idle", exp |-> 0, seen |-> {}, user |-> NoUser]
Over == [NoLogin EXCEPT !.at = "over"]
Unsigned == [user |-> NoUser, exp |-> 0]
NoArrival == [kind |-> "upgrade", at |-> "idle", jti |-> NoJti,
              barred |-> FALSE, overtaken |-> FALSE]

AuthTypeOK ==
    /\ now \in Instants
    /\ login \in [Logins ->
         [at : {"idle", "putting", "away", "exchanging", "identified", "over"},
          exp : Instants, seen : SUBSET Logins, user : Accounts \cup {NoUser}]]
    /\ flows \in SUBSET Logins
    /\ screenName \in [Accounts -> Names \cup {NoRow}]
    /\ deleted \in SUBSET Accounts
    /\ pending \in SUBSET [user : Accounts, exp : Instants]
    /\ token \in [Jtis -> [user : Accounts \cup {NoUser}, exp : Instants]]
    /\ denied \in SUBSET Jtis
    /\ arrival \in [Arrivals ->
         [kind : {"upgrade", "logout"},
          at : {"idle", "verified", "cleared", "accepted", "revoked"},
          jti : Jtis \cup {NoJti}, barred : BOOLEAN, overtaken : BOOLEAN]]
    /\ chosen \in SUBSET Accounts
    /\ loggedOut \in SUBSET Jtis

AuthInit ==
    /\ now = 0
    /\ login = [l \in Logins |-> NoLogin]
    /\ flows = {}
    /\ screenName = [u \in Accounts |-> NoRow]
    /\ deleted = {} /\ pending = {} /\ chosen = {}
    /\ token = [j \in Jtis |-> Unsigned]
    /\ denied = {} /\ loggedOut = {}
    /\ arrival = [r \in Arrivals |-> NoArrival]

Tick ==
    /\ now < MaxTime
    /\ now' = now + 1
    /\ UNCHANGED <<login, flows, accountVars, tokenVars, arrival>>

-----------------------------------------------------------------------------
\* Logging in

Becomes(l, state) == login' = [login EXCEPT ![l] = state]

\* The insert statement starts: its snapshot is fixed before its first
\* expression waits for the advisory lock.
BeginLogin(l) ==
    /\ login[l].at = "idle"
    /\ now + FlowLife <= MaxTime
    /\ Becomes(l, [at |-> "putting", exp |-> now + FlowLife, seen |-> flows,
                   user |-> NoUser])
    /\ UNCHANGED <<now, flows, accountVars, tokenVars, arrival>>

\* Rows of the snapshot that had expired when the statement began.
Swept(l) ==
    {k \in login[l].seen : login[k].exp <= login[l].exp - FlowLife}

\* The statement holds the lock.  It counts the rows of its snapshot, the ones
\* it deletes itself included, and inserts when they are below the capacity.
Put(l) ==
    /\ login[l].at = "putting"
    /\ IF Cardinality(login[l].seen) < MaxEntries
       THEN /\ flows' = (flows \ Swept(l)) \cup {l}
            /\ Becomes(l, [at |-> "away", exp |-> login[l].exp, seen |-> {},
                           user |-> NoUser])
       ELSE flows' = flows \ Swept(l) /\ Becomes(l, Over)
    /\ UNCHANGED <<now, accountVars, tokenVars, arrival>>

\* Mutant: the callback reads the row and leaves it.
TakeReads(l) ==
    /\ login[l].at = "away"
    /\ Becomes(l, IF l \in flows /\ now < login[l].exp
                  THEN [NoLogin EXCEPT !.at = "exchanging"] ELSE Over)
    /\ UNCHANGED <<now, flows, accountVars, tokenVars, arrival>>

\* The browser is back with the state: DELETE ... RETURNING consumes the row,
\* an expired one too.
TakeFlow(l) ==
    /\ login[l].at = "away"
    /\ flows' = flows \ {l}
    /\ Becomes(l, IF l \in flows /\ now < login[l].exp
                  THEN [NoLogin EXCEPT !.at = "exchanging"] ELSE Over)
    /\ UNCHANGED <<now, accountVars, tokenVars, arrival>>

\* The code is exchanged with the issuer, who names the account.
Exchange(l, u) ==
    /\ login[l].at = "exchanging"
    /\ Becomes(l, [at |-> "identified", exp |-> 0, seen |-> {}, user |-> u])
    /\ UNCHANGED <<now, flows, accountVars, tokenVars, arrival>>

ExchangeFails(l) ==
    /\ login[l].at = "exchanging"
    /\ Becomes(l, Over)
    /\ UNCHANGED <<now, flows, accountVars, tokenVars, arrival>>

\* signSessionToken: a fresh jti, a lifetime from now.
Sign(u) ==
    /\ now + TokenLife <= MaxTime
    /\ \E j \in Jtis :
         /\ token[j] = Unsigned
         /\ token' = [token EXCEPT ![j] = [user |-> u, exp |-> now + TokenLife]]

\* A pending cookie is handed to an account that still has to name itself.
HandPending(u) ==
    /\ now + PendingLife <= MaxTime
    /\ pending' = pending \cup {[user |-> u, exp |-> now + PendingLife]}

\* INSERT ... ON CONFLICT DO NOTHING found no row: a new account.
Enrol(l) ==
    LET u == login[l].user IN
    /\ login[l].at = "identified"
    /\ screenName[u] = NoRow
    /\ screenName' = [screenName EXCEPT ![u] = Placeholder]
    /\ HandPending(u)
    /\ Becomes(l, Over)
    /\ UNCHANGED <<now, flows, deleted, chosen, tokenVars, arrival>>

\* The row exists: a named account is signed in, an unnamed one is sent to the
\* form again, a deleted one ends in an error.
Recognise(l) ==
    LET u == login[l].user IN
    /\ login[l].at = "identified"
    /\ screenName[u] # NoRow
    /\ \/ u \in deleted /\ UNCHANGED <<pending, token>>
       \/ u \notin deleted /\ screenName[u] = Placeholder
          /\ HandPending(u) /\ UNCHANGED token
       \/ u \notin deleted /\ screenName[u] # Placeholder
          /\ Sign(u) /\ UNCHANGED pending
    /\ Becomes(l, Over)
    /\ UNCHANGED <<now, flows, screenName, deleted, chosen, denied, loggedOut,
                   arrival>>

\* The UPDATE of the screen-name form finds the row only while it carries the
\* placeholder and is not deleted.
Nameable(u) == screenName[u] = Placeholder /\ u \notin deleted

\* verifyPendingCookie, of a cookie the server signed.
PendingHolds(c) == now < c.exp

\* The form is posted with a pending cookie; a second post is refused.
ChooseName(c, n) ==
    /\ PendingHolds(c)
    /\ Nameable(c.user)
    /\ screenName' = [screenName EXCEPT ![c.user] = n]
    /\ chosen' = chosen \cup {c.user}
    /\ Sign(c.user)
    /\ UNCHANGED <<now, login, flows, deleted, pending, denied, loggedOut,
                   arrival>>

\* deleted_at is set by hand: no code of the server writes it.
DeleteUser(u) ==
    /\ screenName[u] # NoRow
    /\ deleted' = deleted \cup {u}
    /\ UNCHANGED <<now, login, flows, screenName, pending, chosen, tokenVars,
                   arrival>>

-----------------------------------------------------------------------------
\* Being recognised and signing out

Moves(r, state) == arrival' = [arrival EXCEPT ![r] = state]

\* verifySessionToken: signed by this server and not expired.
Verifies(j) == token[j] # Unsigned /\ now < token[j].exp

\* A request arrives with the cookie of a token that verifies; without one it
\* is refused or, an upgrade, goes on as a connection of no user.
Begin(r, k, j) ==
    /\ arrival[r] = NoArrival
    /\ Verifies(j)
    /\ Moves(r, [kind |-> k, at |-> "verified", jti |-> j,
                 barred |-> j \in loggedOut, overtaken |-> FALSE])
    /\ UNCHANGED <<now, login, flows, accountVars, tokenVars>>

\* isJtiRevoked
ConsultDenylist(r) ==
    /\ arrival[r].at = "verified" /\ arrival[r].kind # "logout"
    /\ Moves(r, IF arrival[r].jti \in denied
                THEN NoArrival ELSE [arrival[r] EXCEPT !.at = "cleared"])
    /\ UNCHANGED <<now, login, flows, accountVars, tokenVars>>

\* The users row is read; an upgrade opens its socket in the same turn and the
\* connection is never checked again.  An HTTP request passes the same steps:
\* here it is an upgrade whose socket closes at once.
FindUser(r) ==
    /\ arrival[r].at = "cleared"
    /\ Moves(r, IF token[arrival[r].jti].user \in deleted
                THEN NoArrival ELSE [arrival[r] EXCEPT !.at = "accepted"])
    /\ UNCHANGED <<now, login, flows, accountVars, tokenVars>>

\* The socket is closed by its client; an HTTP request is answered (/auth/me).
Finish(r) ==
    /\ arrival[r].at = "accepted"
    /\ Moves(r, NoArrival)
    /\ UNCHANGED <<now, login, flows, accountVars, tokenVars>>

\* Logout inserts the denylist row, or fails to and answers 500.
Revoke(r) ==
    /\ arrival[r].at = "verified" /\ arrival[r].kind = "logout"
    /\ \/ /\ denied' = denied \cup {arrival[r].jti}
          /\ Moves(r, [arrival[r] EXCEPT !.at = "revoked"])
       \/ UNCHANGED denied /\ Moves(r, NoArrival)
    /\ UNCHANGED <<now, login, flows, accountVars, token, loggedOut>>

Socket(r) == arrival[r].kind = "upgrade" /\ arrival[r].at = "accepted"
Checking(r) ==
    arrival[r].kind = "upgrade" /\ arrival[r].at \in {"verified", "cleared"}

\* Mutant: the registry is asked for the token instead of its user.
ClosedForToken(j) == {q \in Arrivals : Socket(q) /\ token[arrival[q].jti].user = j}

\* closeUserConnections: the registry lists the open sockets of a user,
\* whatever token each of them came with.
ClosedFor(j) ==
    {q \in Arrivals : Socket(q) /\ token[arrival[q].jti].user = token[j].user}

\* Logout closes the user's sockets and answers 204.
Answer(r) ==
    LET j == arrival[r].jti IN
    /\ arrival[r].at = "revoked"
    /\ arrival' = [q \in Arrivals |->
         IF q = r \/ q \in ClosedFor(j) THEN NoArrival
         ELSE [arrival[q] EXCEPT
                 !.overtaken = @ \/ (Checking(q) /\ arrival[q].jti = j)]]
    /\ loggedOut' = loggedOut \cup {j}
    /\ UNCHANGED <<now, login, flows, accountVars, token, denied>>

-----------------------------------------------------------------------------
\* Timers and restarts

SweepFlows ==
    /\ flows' = {l \in flows : now < login[l].exp}
    /\ UNCHANGED <<now, login, accountVars, tokenVars, arrival>>

\* Mutant: the sweep deletes a row one instant before its token expires.
SweepDenylistEarly ==
    /\ denied' = {j \in denied : now + 1 < token[j].exp}
    /\ UNCHANGED <<now, login, flows, accountVars, token, loggedOut, arrival>>

SweepDenylist ==
    /\ denied' = {j \in denied : now < token[j].exp}
    /\ UNCHANGED <<now, login, flows, accountVars, token, loggedOut, arrival>>

\* Handlers and sockets die with the process, the database stays, and so do
\* the logins whose browser is at the issuer.
RestartServer ==
    /\ login' = [l \in Logins |-> IF login[l].at \in {"idle", "away"}
                                  THEN login[l] ELSE Over]
    /\ arrival' = [r \in Arrivals |-> NoArrival]
    /\ UNCHANGED <<now, flows, accountVars, tokenVars>>

AuthNext ==
    \/ Tick
    \/ \E l \in Logins : \/ BeginLogin(l) \/ Put(l) \/ TakeFlow(l)
                         \/ ExchangeFails(l) \/ Enrol(l) \/ Recognise(l)
                         \/ \E u \in Accounts : Exchange(l, u)
    \/ \E c \in pending, n \in Names : ChooseName(c, n)
    \/ \E u \in Accounts : DeleteUser(u)
    \/ \E r \in Arrivals : \/ ConsultDenylist(r) \/ FindUser(r) \/ Finish(r)
                           \/ Revoke(r) \/ Answer(r)
                           \/ \E k \in {"upgrade", "logout"}, j \in Jtis :
                                Begin(r, k, j)
    \/ SweepFlows \/ SweepDenylist
    \/ RestartServer

AuthSpec == AuthInit /\ [][AuthNext]_authVars

-----------------------------------------------------------------------------
\* Properties

\* A request begun after the logout of its token was answered is accepted only
\* if the token expired while it was being checked and the sweep of the
\* denylist ran first (authenticateRequest, sweepExpiredDenylistRows): the
\* denylist, a restart and the sweeper together forget no revocation early.
RevokedIsRefused ==
    \A r \in Arrivals :
        arrival[r].barred /\ arrival[r].at = "accepted" =>
            token[arrival[r].jti].exp <= now

\* After the answer to a logout, the only sockets that carry its token are
\* those whose upgrade was being checked at that moment, or outlived the token
\* in the check (closeUserConnections, the upgrade gate).
LogoutReachesSockets ==
    \A r \in Arrivals :
        Socket(r) /\ arrival[r].jti \in loggedOut =>
            arrival[r].overtaken \/ token[arrival[r].jti].exp <= now

\* A session token is only signed for an account that completed the
\* screen-name form at some time, through whichever of several logins and
\* pending cookies it came (the callback's branch, updatePendingScreenName).
SessionsFollowAChoice ==
    \A j \in Jtis : token[j] # Unsigned => token[j].user \in chosen

\* While a callback exchanges its code, no second callback with the same state
\* can find the row (take, put).
StateIsSpent ==
    \A l \in flows : login[l].at \notin {"exchanging", "identified"}

\* A login is used once, and only a finished one ends in a session.
LoginsAreFinished == SessionsFollowAChoice /\ StateIsSpent

\* A name once chosen stays, whatever cookies and tokens of the account are
\* still about; the exception is an account that chose the placeholder.
NamesAreFinal ==
    [][\A u \in Accounts : screenName[u] \notin {NoRow, Placeholder} =>
                          screenName'[u] = screenName[u]]_authVars

=============================================================================
