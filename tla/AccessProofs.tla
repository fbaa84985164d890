---------------------------- MODULE AccessProofs ----------------------------
(***************************************************************************)
(* Who may come in: proofs about signing in and out (Authentication), for  *)
(* every number of logins, accounts, tokens and requests and for every     *)
(* lifetime, and about the membership and privacy of a session             *)
(* (SessionLifecycle), for any users, roles, watchers, number of privacy   *)
(* requests and length of the log.                                         *)
(*                                                                         *)
(* The inductive invariant of the first says where a revocation is         *)
(* remembered at each moment of a check: on the denylist until the token   *)
(* expires, afterwards in the clock.                                       *)
(***************************************************************************)
EXTENDS Authentication, SessionLifecycle, TLAPS

-----------------------------------------------------------------------------
(* Signing in and out *)

\* A request being served carries a signed token, a token someone revoked is
\* signed, and an identified login names an account.
Referenced ==
    /\ \A r \in Arrivals : arrival[r].at # "idle" =>
         arrival[r].jti \in Jtis /\ token[arrival[r].jti] # Unsigned
    /\ \A j \in denied \cup loggedOut : token[j] # Unsigned
    /\ \A l \in Logins : login[l].at = "identified" => login[l].user \in Accounts

Expired(j) == token[j].exp <= now

ArrivalState ==
    [kind : {"upgrade", "logout"},
     at : {"idle", "verified", "cleared", "accepted", "revoked"},
     jti : Jtis \cup {NoJti}, barred : BOOLEAN, overtaken : BOOLEAN]

\* A revocation is on the denylist or its token has expired.
Remembered ==
    /\ \A j \in loggedOut : j \in denied \/ Expired(j)
    /\ \A r \in Arrivals : arrival[r].at = "revoked" =>
         arrival[r].jti \in denied \/ Expired(arrival[r].jti)

\* Only a logout inserts a denylist row.
OnlyLogouts ==
    \A r \in Arrivals : arrival[r].at = "revoked" => arrival[r].kind = "logout"

\* How far a request whose token is logged out can have come.
Caught ==
    \A r \in Arrivals :
        /\ arrival[r].barred => arrival[r].jti \in loggedOut
        /\ arrival[r].barred /\ arrival[r].at \in {"cleared", "accepted"} =>
             Expired(arrival[r].jti)
        /\ arrival[r].kind = "upgrade" /\ arrival[r].at # "idle"
             /\ arrival[r].jti \in loggedOut =>
             \/ arrival[r].overtaken
             \/ arrival[r].barred

\* A name comes from the form, and so does, in the end, every session.
Named ==
    /\ \A u \in Accounts : screenName[u] \notin {NoRow, Placeholder} => u \in chosen
    /\ SessionsFollowAChoice

\* A row is in the store only while its browser is away.
Waiting == \A l \in flows : login[l].at = "away"

TokenInv == Referenced /\ Remembered /\ OnlyLogouts /\ Caught

AuthInv == AuthTypeOK /\ TokenInv /\ Named /\ Waiting

LEMMA AuthInitInv == AuthInit => AuthInv
BY NamesAssumption, SetsAssumption, TimesAssumption
   DEF AuthInit, AuthInv, AuthTypeOK, TokenInv, Referenced, Remembered, OnlyLogouts, Caught, Named,
       SessionsFollowAChoice, Waiting, NoLogin, NoArrival, Unsigned, Instants

-----------------------------------------------------------------------------
\* Types

LEMMA TypeStep == AuthTypeOK /\ Referenced /\ [AuthNext]_authVars => AuthTypeOK'
<1> SUFFICES ASSUME AuthTypeOK, Referenced, [AuthNext]_authVars PROVE AuthTypeOK'
    OBVIOUS
<1> USE TimesAssumption, NamesAssumption DEF AuthTypeOK, Instants
<1>1. CASE UNCHANGED authVars
    BY <1>1 DEF authVars, accountVars, tokenVars
<1>2. CASE Tick
    BY <1>2 DEF Tick, accountVars, tokenVars
<1>3. ASSUME NEW l \in Logins, BeginLogin(l) PROVE AuthTypeOK'
    BY <1>3 DEF BeginLogin, Becomes, accountVars, tokenVars
<1>4. ASSUME NEW l \in Logins, Put(l) PROVE AuthTypeOK'
    <2>1. flows' \in SUBSET Logins
        BY <1>4 DEF Put, Swept
    <2>2. login' \in [Logins -> [
            at : {"idle", "putting", "away", "exchanging", "identified", "over"},
            exp : Instants, seen : SUBSET Logins, user : Accounts \cup {NoUser}]]
        BY <1>4 DEF Put, Becomes, Over, NoLogin
    <2> QED
        BY <1>4, <2>1, <2>2 DEF Put, accountVars, tokenVars
<1>5. ASSUME NEW l \in Logins, TakeFlow(l) PROVE AuthTypeOK'
    BY <1>5 DEF TakeFlow, Becomes, Over, NoLogin, accountVars, tokenVars
<1>6. ASSUME NEW l \in Logins, NEW u \in Accounts, Exchange(l, u) PROVE AuthTypeOK'
    BY <1>6 DEF Exchange, Becomes, NoLogin, accountVars, tokenVars
<1>7. ASSUME NEW l \in Logins, ExchangeFails(l) PROVE AuthTypeOK'
    BY <1>7 DEF ExchangeFails, Becomes, Over, NoLogin, accountVars, tokenVars
<1>8. ASSUME NEW l \in Logins, Enrol(l) PROVE AuthTypeOK'
    BY <1>8 DEF Enrol, HandPending, Referenced, Becomes, Over, NoLogin, tokenVars
<1>9. ASSUME NEW l \in Logins, Recognise(l) PROVE AuthTypeOK'
    <2>1. login[l].user \in Accounts
        BY <1>9 DEF Recognise, Referenced
    <2>2. pending' \in SUBSET [user : Accounts, exp : Instants]
        BY <1>9, <2>1 DEF Recognise, HandPending
    <2>3. token' \in [Jtis -> [user : Accounts \cup {NoUser}, exp : Instants]]
        BY <1>9, <2>1 DEF Recognise, Sign
    <2>4. login' \in [Logins -> [
            at : {"idle", "putting", "away", "exchanging", "identified", "over"},
            exp : Instants, seen : SUBSET Logins, user : Accounts \cup {NoUser}]]
        BY <1>9 DEF Recognise, Becomes, Over, NoLogin
    <2> QED
        BY <1>9, <2>2, <2>3, <2>4 DEF Recognise
<1>10. ASSUME NEW c \in pending, NEW n \in Names, ChooseName(c, n) PROVE AuthTypeOK'
    BY <1>10 DEF ChooseName, PendingHolds, Sign
<1>11. ASSUME NEW u \in Accounts, DeleteUser(u) PROVE AuthTypeOK'
    BY <1>11 DEF DeleteUser, tokenVars
<1>12. ASSUME NEW r \in Arrivals, NEW k \in {"upgrade", "logout"}, NEW j \in Jtis,
              Begin(r, k, j)
       PROVE AuthTypeOK'
    BY <1>12 DEF Begin, Moves, accountVars, tokenVars
<1>13. ASSUME NEW r \in Arrivals, ConsultDenylist(r) PROVE AuthTypeOK'
    BY <1>13 DEF ConsultDenylist, Moves, NoArrival, accountVars, tokenVars
<1>14. ASSUME NEW r \in Arrivals, FindUser(r) PROVE AuthTypeOK'
    BY <1>14 DEF FindUser, Moves, NoArrival, accountVars, tokenVars
<1>15. ASSUME NEW r \in Arrivals, Finish(r) PROVE AuthTypeOK'
    BY <1>15 DEF Finish, Moves, NoArrival, accountVars, tokenVars
<1>16. ASSUME NEW r \in Arrivals, Revoke(r) PROVE AuthTypeOK'
    <2>1. arrival[r].jti \in Jtis
        BY <1>16 DEF Revoke, Referenced
    <2>2. denied' \in SUBSET Jtis
        BY <1>16, <2>1 DEF Revoke
    <2>3. \/ arrival' = [arrival EXCEPT ![r] = [arrival[r] EXCEPT !.at = "revoked"]]
          \/ arrival' = [arrival EXCEPT ![r] = NoArrival]
        BY <1>16 DEF Revoke, Moves
    <2>4. arrival' \in [Arrivals -> ArrivalState]
        <3>1. PICK s : s = [arrival[r] EXCEPT !.at = "revoked"]
            OBVIOUS
        <3>2. s \in ArrivalState /\ NoArrival \in ArrivalState
            BY <3>1 DEF ArrivalState, NoArrival
        <3>3. arrival' = [arrival EXCEPT ![r] = s] \/ arrival' = [arrival EXCEPT ![r] = NoArrival]
            BY <2>3, <3>1
        <3> QED
            BY <3>2, <3>3 DEF ArrivalState
    <2> QED
        BY <1>16, <2>2, <2>4 DEF ArrivalState, Revoke, accountVars
<1>17. ASSUME NEW r \in Arrivals, Answer(r) PROVE AuthTypeOK'
    <2>1. arrival[r].jti \in Jtis
        BY <1>17 DEF Answer, Referenced
    <2>2. arrival' \in [Arrivals -> ArrivalState]
        <3> DEFINE hit(q) == Checking(q) /\ arrival[q].jti = arrival[r].jti
                   f(q) == [arrival[q] EXCEPT !.overtaken = @ \/ hit(q)]
        <3>1. \A q \in Arrivals : hit(q) \in BOOLEAN
            BY DEF Checking
        <3> HIDE DEF hit
        <3>2. \A q \in Arrivals : f(q) \in ArrivalState
            BY <3>1 DEF ArrivalState
        <3>3. arrival' = [q \in Arrivals |->
                IF q = r \/ q \in ClosedFor(arrival[r].jti) THEN NoArrival ELSE f(q)]
            BY <1>17 DEF Answer, hit
        <3> HIDE DEF f
        <3> QED
            BY <3>2, <3>3 DEF NoArrival, ArrivalState
    <2> QED
        BY <1>17, <2>1, <2>2 DEF ArrivalState, Answer, accountVars
<1>18. CASE SweepFlows
    BY <1>18 DEF SweepFlows, accountVars, tokenVars
<1>19. CASE SweepDenylist
    BY <1>19 DEF SweepDenylist, accountVars
<1>20. CASE RestartServer
    BY <1>20 DEF RestartServer, Over, NoLogin, NoArrival, accountVars, tokenVars
<1> QED
    BY <1>1, <1>2, <1>3, <1>4, <1>5, <1>6, <1>7, <1>8, <1>9, <1>10, <1>11,
       <1>12, <1>13, <1>14, <1>15, <1>16, <1>17, <1>18, <1>19, <1>20 DEF AuthNext

-----------------------------------------------------------------------------
\* Accounts and flow rows

LEMMA AccountStep ==
    AuthInv /\ [AuthNext]_authVars => Named' /\ Waiting'
<1> SUFFICES ASSUME AuthInv, [AuthNext]_authVars PROVE Named' /\ Waiting'
    OBVIOUS
<1> USE DEF AuthInv, Named, Waiting, SessionsFollowAChoice, AuthTypeOK
<1>1. CASE UNCHANGED <<login, flows, accountVars, token>>
    BY <1>1 DEF accountVars
<1>2. ASSUME NEW l \in Logins, \/ BeginLogin(l) \/ Put(l) \/ TakeFlow(l)
                               \/ ExchangeFails(l) \/ \E u \in Accounts : Exchange(l, u)
      PROVE Named' /\ Waiting'
    BY <1>2 DEF BeginLogin, Put, TakeFlow, ExchangeFails, Exchange, Swept, Becomes,
                Over, NoLogin, accountVars, tokenVars
<1>3. ASSUME NEW l \in Logins, Enrol(l) PROVE Named' /\ Waiting'
    BY <1>3 DEF Enrol, HandPending, TokenInv, Referenced, Becomes, tokenVars
<1>4. ASSUME NEW l \in Logins, Recognise(l) PROVE Named' /\ Waiting'
    <2>1. Waiting'
        BY <1>4 DEF Recognise, Becomes
    <2>2. Named'
        BY <1>4 DEF Recognise, HandPending, Sign, TokenInv, Referenced, Unsigned
    <2> QED
        BY <2>1, <2>2
<1>5. ASSUME NEW c \in pending, NEW n \in Names, ChooseName(c, n)
      PROVE Named' /\ Waiting'
    BY <1>5 DEF ChooseName, PendingHolds, Sign
<1>6. ASSUME NEW u \in Accounts, DeleteUser(u) PROVE Named' /\ Waiting'
    BY <1>6 DEF DeleteUser, tokenVars
<1>7. CASE SweepFlows
    BY <1>7 DEF SweepFlows, accountVars, tokenVars
<1>8. CASE RestartServer
    BY <1>8 DEF RestartServer, accountVars, tokenVars
<1>9. CASE \/ Tick \/ SweepDenylist
           \/ \E r \in Arrivals :
                \/ ConsultDenylist(r) \/ FindUser(r) \/ Finish(r) \/ Revoke(r)
                \/ Answer(r)
                \/ \E k \in {"upgrade", "logout"}, j \in Jtis : Begin(r, k, j)
    <2> UNCHANGED <<login, flows, accountVars, token>>
        BY <1>9 DEF Tick, SweepDenylist, ConsultDenylist, FindUser, Finish,
                    Revoke, Answer, Begin, tokenVars
    <2> QED
        BY <1>1
<1>10. CASE UNCHANGED authVars
    BY <1>1, <1>10 DEF authVars, tokenVars
<1> QED
    BY <1>2, <1>3, <1>4, <1>5, <1>6, <1>7, <1>8, <1>9, <1>10 DEF AuthNext

-----------------------------------------------------------------------------
\* Revocations

\* Signing a token takes one nobody carries or revoked, and leaves the rest of
\* the check alone.
LEMMA SigningIsFresh ==
    ASSUME AuthInv, NEW u \in Accounts, Sign(u),
           UNCHANGED <<now, denied, loggedOut, arrival>>,
           Referenced'
    PROVE  Remembered' /\ OnlyLogouts' /\ Caught'
<1>1. PICK j \in Jtis :
         /\ token[j] = Unsigned
         /\ token' = [token EXCEPT ![j] = [user |-> u, exp |-> now + TokenLife]]
    BY DEF Sign
<1>2. \A i \in Jtis : token[i] # Unsigned => token'[i] = token[i]
    BY <1>1 DEF AuthInv, AuthTypeOK
<1>3. \A r \in Arrivals : arrival[r].at # "idle" =>
        token'[arrival[r].jti] = token[arrival[r].jti]
    BY <1>2 DEF AuthInv, TokenInv, Referenced
<1>4. \A i \in loggedOut : token'[i] = token[i]
    BY <1>2 DEF AuthInv, TokenInv, Referenced, AuthTypeOK
<1> QED
    BY <1>3, <1>4 DEF AuthInv, TokenInv, Remembered, OnlyLogouts, Caught, Expired

\* What moving one request on leaves of the rest.
LEMMA OneMoves ==
    ASSUME AuthTypeOK, NEW r \in Arrivals,
           NEW p \in {"idle", "verified", "cleared", "accepted", "revoked"},
           Moves(r, [arrival[r] EXCEPT !.at = p])
    PROVE  /\ \A q \in Arrivals \ {r} : arrival'[q] = arrival[q]
           /\ arrival'[r].at = p
           /\ arrival'[r].kind = arrival[r].kind
           /\ arrival'[r].jti = arrival[r].jti
           /\ arrival'[r].barred = arrival[r].barred
           /\ arrival'[r].overtaken = arrival[r].overtaken
<1>1. PICK s : s = [arrival[r] EXCEPT !.at = p]
    OBVIOUS
<1>2. arrival' = [arrival EXCEPT ![r] = s]
    BY <1>1 DEF Moves
<1>3. s.at = p /\ s.kind = arrival[r].kind /\ s.jti = arrival[r].jti
        /\ s.barred = arrival[r].barred /\ s.overtaken = arrival[r].overtaken
    BY <1>1 DEF AuthTypeOK
<1> QED
    BY <1>2, <1>3 DEF AuthTypeOK

\* A request that ends frees its record.
LEMMA OneEnds ==
    ASSUME AuthInv, AuthTypeOK, NEW r \in Arrivals, Moves(r, NoArrival),
           UNCHANGED <<now, login, tokenVars>>
    PROVE  TokenInv'
<1>1. arrival'[r] = NoArrival /\ \A q \in Arrivals \ {r} : arrival'[q] = arrival[q]
    BY DEF Moves, AuthTypeOK
<1>2. NoArrival.at = "idle" /\ NoArrival.barred = FALSE
    BY DEF NoArrival
<1> HIDE DEF NoArrival
<1> QED
    BY <1>1, <1>2 DEF AuthInv, TokenInv, Referenced, Remembered, OnlyLogouts, Caught, Expired,
                      tokenVars

LEMMA TokenStep == AuthInv /\ AuthTypeOK' /\ [AuthNext]_authVars => TokenInv'
<1> SUFFICES ASSUME AuthInv, AuthTypeOK', [AuthNext]_authVars PROVE TokenInv'
    OBVIOUS
<1> USE SetsAssumption DEF AuthInv, AuthTypeOK, TokenInv, Instants
<1>1. CASE UNCHANGED <<now, tokenVars, arrival>>
           /\ \A l \in Logins : login'[l].at = "identified" => login'[l].user \in Accounts
    BY <1>1 DEF Referenced, Remembered, OnlyLogouts, Caught, Expired, tokenVars
<1>2. CASE Tick
    BY <1>2 DEF Tick, Referenced, Remembered, OnlyLogouts, Caught, Expired, tokenVars
<1>3. ASSUME NEW l \in Logins, \/ BeginLogin(l) \/ Put(l) \/ TakeFlow(l)
                               \/ ExchangeFails(l) \/ Enrol(l)
                               \/ \E u \in Accounts : Exchange(l, u)
      PROVE TokenInv'
    <2>1. UNCHANGED <<now, tokenVars, arrival>>
        BY <1>3 DEF BeginLogin, Put, TakeFlow, ExchangeFails, Enrol, Exchange
    <2>2. \A k \in Logins : login'[k].at = "identified" => login'[k].user \in Accounts
        BY <1>3 DEF BeginLogin, Put, TakeFlow, ExchangeFails, Enrol, Exchange,
                    Becomes, Over, NoLogin, Referenced
    <2> QED
        BY <1>1, <2>1, <2>2
<1>4. ASSUME NEW l \in Logins, Recognise(l) PROVE TokenInv'
    <2>1. \A k \in Logins : login'[k].at = "identified" => login'[k].user \in Accounts
        BY <1>4 DEF Recognise, Becomes, Over, NoLogin, Referenced
    <2>2. CASE UNCHANGED token
        BY <1>1, <1>4, <2>1, <2>2 DEF Recognise, tokenVars
    <2>3. CASE Sign(login[l].user)
        <3>1. login[l].user \in Accounts
            BY <1>4 DEF Recognise, Referenced
        <3>2. UNCHANGED <<now, denied, loggedOut, arrival>>
            BY <1>4 DEF Recognise
        <3>3. Referenced'
            BY <2>1, <2>3, <3>1, <3>2 DEF Sign, Referenced, Unsigned
        <3> QED
            BY <2>3, <3>1, <3>2, <3>3, SigningIsFresh
    <2> QED
        BY <1>4, <2>2, <2>3 DEF Recognise
<1>5. ASSUME NEW c \in pending, NEW n \in Names, ChooseName(c, n)
      PROVE TokenInv'
    <2>1. c.user \in Accounts /\ UNCHANGED <<now, denied, loggedOut, arrival, login>>
        BY <1>5 DEF ChooseName, PendingHolds
    <2>2. Sign(c.user)
        BY <1>5 DEF ChooseName, PendingHolds
    <2>3. Referenced'
        BY <2>1, <2>2 DEF Sign, Referenced, Unsigned
    <2> QED
        BY <2>1, <2>2, <2>3, SigningIsFresh
<1>6. ASSUME NEW u \in Accounts, DeleteUser(u) PROVE TokenInv'
    BY <1>1, <1>6 DEF DeleteUser, Referenced
<1>7. ASSUME NEW r \in Arrivals, NEW k \in {"upgrade", "logout"}, NEW j \in Jtis,
             Begin(r, k, j)
      PROVE TokenInv'
    <2>1. /\ \A q \in Arrivals \ {r} : arrival'[q] = arrival[q]
          /\ arrival'[r].at = "verified" /\ arrival'[r].kind = k
          /\ arrival'[r].jti = j /\ arrival'[r].overtaken = FALSE
          /\ arrival'[r].barred = (j \in loggedOut)
        BY <1>7 DEF Begin, Moves
    <2>2. UNCHANGED <<now, login, tokenVars>> /\ token[j] # Unsigned
        BY <1>7 DEF Begin, Verifies
    <2>referenced. Referenced'
        BY <2>1, <2>2 DEF Referenced, tokenVars
    <2>remembered. Remembered'
        BY <2>1, <2>2 DEF Remembered, Expired, tokenVars
    <2>logouts. OnlyLogouts'
        BY <2>1, <2>2 DEF OnlyLogouts, tokenVars
    <2>caught. Caught'
        BY <2>1, <2>2 DEF Caught, Expired, Remembered, OnlyLogouts, tokenVars
    <2> QED
        BY <2>referenced, <2>remembered, <2>logouts, <2>caught
<1>8. ASSUME NEW r \in Arrivals, ConsultDenylist(r) PROVE TokenInv'
    <2>1. UNCHANGED <<now, login, tokenVars>>
        BY <1>8 DEF ConsultDenylist
    <2>2. CASE Moves(r, NoArrival)
        BY <2>1, <2>2, OneEnds
    <2>3. CASE arrival[r].jti \notin denied /\ Moves(r, [arrival[r] EXCEPT !.at = "cleared"])
        <3>1. arrival[r].at # "idle"
            BY <1>8 DEF ConsultDenylist
        <3>2. /\ \A q \in Arrivals \ {r} : arrival'[q] = arrival[q]
              /\ arrival'[r].at = "cleared"
              /\ arrival'[r].kind = arrival[r].kind
              /\ arrival'[r].jti = arrival[r].jti
              /\ arrival'[r].barred = arrival[r].barred
              /\ arrival'[r].overtaken = arrival[r].overtaken
            BY <2>3, OneMoves
        <3>referenced. Referenced'
            BY <1>8, <2>1, <2>3, <3>1, <3>2 DEF Referenced, tokenVars
        <3>remembered. Remembered'
            BY <1>8, <2>1, <2>3, <3>1, <3>2 DEF Remembered, Expired, tokenVars
        <3>logouts. OnlyLogouts'
            BY <1>8, <2>1, <2>3, <3>1, <3>2 DEF OnlyLogouts, tokenVars
        <3>caught. Caught'
            BY <1>8, <2>1, <2>3, <3>1, <3>2 DEF Caught, Expired, Remembered, OnlyLogouts, tokenVars
        <3> QED
            BY <3>referenced, <3>remembered, <3>logouts, <3>caught
    <2> QED
        BY <1>8, <2>2, <2>3 DEF ConsultDenylist
<1>9. ASSUME NEW r \in Arrivals, FindUser(r) \/ Finish(r) PROVE TokenInv'
    <2>1. UNCHANGED <<now, login, tokenVars>>
        BY <1>9 DEF FindUser, Finish
    <2>2. CASE Moves(r, NoArrival)
        BY <2>1, <2>2, OneEnds
    <2>3. CASE arrival[r].at = "cleared" /\ Moves(r, [arrival[r] EXCEPT !.at = "accepted"])
        <3>1. /\ \A q \in Arrivals \ {r} : arrival'[q] = arrival[q]
              /\ arrival'[r].at = "accepted"
              /\ arrival'[r].kind = arrival[r].kind
              /\ arrival'[r].jti = arrival[r].jti
              /\ arrival'[r].barred = arrival[r].barred
              /\ arrival'[r].overtaken = arrival[r].overtaken
            BY <2>3, OneMoves
        <3>referenced. Referenced'
            BY <2>1, <2>3, <3>1 DEF Referenced, tokenVars
        <3>remembered. Remembered'
            BY <2>1, <2>3, <3>1 DEF Remembered, Expired, tokenVars
        <3>logouts. OnlyLogouts'
            BY <2>1, <2>3, <3>1 DEF OnlyLogouts, tokenVars
        <3>caught. Caught'
            BY <2>1, <2>3, <3>1 DEF Caught, Expired, Remembered, OnlyLogouts, tokenVars
        <3> QED
            BY <3>referenced, <3>remembered, <3>logouts, <3>caught
    <2> QED
        BY <1>9, <2>2, <2>3 DEF FindUser, Finish
<1>10. ASSUME NEW r \in Arrivals, Revoke(r) PROVE TokenInv'
    <2>1. UNCHANGED <<now, login, token, loggedOut>>
          /\ arrival[r].at = "verified" /\ arrival[r].kind = "logout"
        BY <1>10 DEF Revoke
    <2>2. CASE denied' = denied /\ Moves(r, NoArrival)
        BY <2>1, <2>2, OneEnds DEF tokenVars
    <2>3. CASE denied' = denied \cup {arrival[r].jti}
               /\ Moves(r, [arrival[r] EXCEPT !.at = "revoked"])
        <3>1. /\ \A q \in Arrivals \ {r} : arrival'[q] = arrival[q]
              /\ arrival'[r].at = "revoked"
              /\ arrival'[r].kind = arrival[r].kind
              /\ arrival'[r].jti = arrival[r].jti
              /\ arrival'[r].barred = arrival[r].barred
              /\ arrival'[r].overtaken = arrival[r].overtaken
            BY <2>3, OneMoves
        <3>signed. arrival[r].jti \in Jtis /\ token[arrival[r].jti] # Unsigned
            BY <2>1 DEF Referenced
        <3>referenced. Referenced'
            <4>1. \A j \in denied' \cup loggedOut' : token'[j] # Unsigned
                BY <2>1, <2>3, <3>signed DEF Referenced
            <4>2. \A q \in Arrivals : arrival'[q].at # "idle" =>
                    arrival'[q].jti \in Jtis /\ token'[arrival'[q].jti] # Unsigned
                BY <2>1, <3>1, <3>signed DEF Referenced
            <4> QED
                BY <2>1, <4>1, <4>2 DEF Referenced
        <3>remembered. Remembered'
            BY <2>1, <2>3, <3>1 DEF Remembered, Expired
        <3>logouts. OnlyLogouts'
            BY <2>1, <2>3, <3>1 DEF OnlyLogouts
        <3>caught. Caught'
            BY <2>1, <2>3, <3>1 DEF Caught, Expired, Remembered, OnlyLogouts
        <3> QED
            BY <3>referenced, <3>remembered, <3>logouts, <3>caught
    <2> QED
        BY <1>10, <2>2, <2>3 DEF Revoke
<1>11. ASSUME NEW r \in Arrivals, Answer(r) PROVE TokenInv'
    <2> DEFINE j == arrival[r].jti
    <2>1. \A q \in Arrivals :
            arrival'[q] = IF q = r \/ q \in ClosedFor(j) THEN NoArrival
                          ELSE [arrival[q] EXCEPT
                                  !.overtaken = @ \/ (Checking(q) /\ arrival[q].jti = j)]
        BY <1>11 DEF Answer
    <2>2. UNCHANGED <<now, login, token, denied>> /\ loggedOut' = loggedOut \cup {j}
        BY <1>11 DEF Answer
    <2>3. j \in Jtis /\ token[j] # Unsigned /\ (j \in denied \/ Expired(j))
        BY <1>11 DEF Answer, Referenced, Remembered
    <2> DEFINE ends(q) == q = r \/ q \in ClosedFor(j)
               hit(q) == Checking(q) /\ arrival[q].jti = j
    <2>ended. \A q \in Arrivals : ends(q) => arrival'[q].at = "idle"
                                         /\ arrival'[q].barred = FALSE
        BY <2>1 DEF NoArrival
    <2>kept. \A q \in Arrivals : ~ends(q) =>
            /\ arrival'[q].at = arrival[q].at
            /\ arrival'[q].kind = arrival[q].kind
            /\ arrival'[q].jti = arrival[q].jti
            /\ arrival'[q].barred = arrival[q].barred
            /\ arrival'[q].overtaken = (arrival[q].overtaken \/ hit(q))
        <3> SUFFICES ASSUME NEW q \in Arrivals, ~ends(q)
                     PROVE  /\ arrival'[q].at = arrival[q].at
                            /\ arrival'[q].kind = arrival[q].kind
                            /\ arrival'[q].jti = arrival[q].jti
                            /\ arrival'[q].barred = arrival[q].barred
                            /\ arrival'[q].overtaken = (arrival[q].overtaken \/ hit(q))
            OBVIOUS
        <3> HIDE DEF hit, ends
        <3>1. PICK b : b = (arrival[q].overtaken \/ hit(q))
            OBVIOUS
        <3>2. arrival'[q] = [arrival[q] EXCEPT !.overtaken = b]
            BY <2>1, <3>1 DEF hit, ends
        <3> QED
            BY <3>1, <3>2
    <2>closed. \A q \in Arrivals : Socket(q) /\ arrival[q].jti = j => ends(q)
        BY DEF ClosedFor
    <2>late. \A q \in Arrivals : arrival[q].kind = "upgrade" /\ arrival[q].at # "idle"
                               /\ arrival[q].jti = j /\ ~ends(q) =>
                                 hit(q)
        <3> SUFFICES ASSUME NEW q \in Arrivals, arrival[q].kind = "upgrade",
                            arrival[q].at = "revoked"
                     PROVE FALSE
            BY <2>closed DEF Checking, Socket
        <3> QED
            BY DEF OnlyLogouts
    <2> HIDE DEF ends, hit
    <2>4. Referenced'
        BY <2>2, <2>3, <2>ended, <2>kept DEF Referenced
    <2>5. Remembered'
        BY <2>2, <2>3, <2>ended, <2>kept DEF Remembered, Expired
    <2>7. Caught'
        BY <2>2, <2>ended, <2>kept, <2>late DEF Caught, Expired
    <2>8. OnlyLogouts'
        BY <2>ended, <2>kept DEF OnlyLogouts
    <2> QED
        BY <2>4, <2>5, <2>7, <2>8
<1>12. CASE SweepFlows
    BY <1>1, <1>12 DEF SweepFlows, Referenced
<1>13. CASE SweepDenylist
    BY <1>13 DEF SweepDenylist, Referenced, Remembered, OnlyLogouts, Caught, Expired
<1>14. CASE RestartServer
    BY <1>14 DEF RestartServer, Over, NoLogin, NoArrival, Referenced, Remembered, OnlyLogouts, Caught,
                 Expired, tokenVars
<1>15. CASE UNCHANGED authVars
    BY <1>1, <1>15 DEF authVars, Referenced
<1> QED
    BY <1>2, <1>3, <1>4, <1>5, <1>6, <1>7, <1>8, <1>9, <1>10, <1>11, <1>12,
       <1>13, <1>14, <1>15 DEF AuthNext

LEMMA AuthInvStep == AuthInv /\ [AuthNext]_authVars => AuthInv'
BY TypeStep, AccountStep, TokenStep DEF AuthInv, TokenInv

LEMMA Invariance == AuthSpec => []AuthInv
<1>1. AuthInit => AuthInv
    BY AuthInitInv
<1>2. AuthInv /\ [AuthNext]_authVars => AuthInv'
    BY AuthInvStep
<1> QED
    BY <1>1, <1>2, PTL DEF AuthSpec

-----------------------------------------------------------------------------
\* Results

\* The rows, cookies, claims and handler states stay in their sets.
THEOREM AuthenticationTypeCorrect == AuthSpec => []AuthTypeOK
<1>1. AuthInv => AuthTypeOK
    BY DEF AuthInv
<1> QED
    BY <1>1, Invariance, PTL

\* However requests, logouts, the sweeper and restarts interleave, a request
\* begun after its token's logout was answered is not accepted before the
\* token expires (authenticateRequest, addToDenylist).
THEOREM RevocationHolds == AuthSpec => []RevokedIsRefused
<1>1. AuthInv => RevokedIsRefused
    BY DEF AuthInv, TokenInv, Caught, RevokedIsRefused, Expired
<1> QED
    BY <1>1, Invariance, PTL

\* The sockets an answered logout leaves open were being upgraded when it was
\* answered (closeUserConnections), or their token had expired.
THEOREM LogoutReachesTheSockets == AuthSpec => []LogoutReachesSockets
<1>1. AuthInv => LogoutReachesSockets
    BY DEF AuthInv, TokenInv, Caught, LogoutReachesSockets, Socket, Expired
<1> QED
    BY <1>1, Invariance, PTL

\* Every session goes back to a completed screen-name form.
THEOREM SessionsComeFromTheForm == AuthSpec => []SessionsFollowAChoice
<1>1. AuthInv => SessionsFollowAChoice
    BY DEF AuthInv, Named
<1> QED
    BY <1>1, Invariance, PTL

\* A state is exchanged by one callback at a time, and never again after.
THEOREM StatesAreSpent == AuthSpec => []StateIsSpent
<1>1. AuthInv => StateIsSpent
    BY DEF AuthInv, Waiting, StateIsSpent
<1> QED
    BY <1>1, Invariance, PTL

\* No step renames an account that has a name of its own.
THEOREM NamesStay == AuthSpec => NamesAreFinal
<1> DEFINE Kept == \A u \in Accounts : screenName[u] \notin {NoRow, Placeholder} =>
                                      screenName'[u] = screenName[u]
<1>1. ASSUME AuthInv, [AuthNext]_authVars PROVE [Kept]_authVars
    <2> SUFFICES ASSUME AuthNext, NEW u \in Accounts,
                        screenName[u] \notin {NoRow, Placeholder}
                 PROVE  screenName'[u] = screenName[u]
        BY <1>1
    <2> USE <1>1 DEF AuthInv, AuthTypeOK
    <2>1. CASE UNCHANGED screenName
        BY <2>1
    <2>2. ASSUME NEW l \in Logins, Enrol(l) PROVE screenName'[u] = screenName[u]
        BY <2>2 DEF Enrol
    <2>3. ASSUME NEW c \in pending, NEW n \in Names, ChooseName(c, n)
          PROVE screenName'[u] = screenName[u]
        BY <2>3 DEF ChooseName, PendingHolds, Nameable
    <2> QED
        BY <2>1, <2>2, <2>3
           DEF AuthNext, accountVars, Tick, BeginLogin, Put, TakeFlow, Exchange,
               ExchangeFails, Recognise, DeleteUser, Begin, ConsultDenylist,
               FindUser, Finish, Revoke, Answer, SweepFlows, SweepDenylist,
               RestartServer
<1>2. AuthInv /\ [AuthNext]_authVars => [Kept]_authVars
    BY <1>1
<1> QED
    BY <1>2, Invariance, PTL DEF AuthSpec, NamesAreFinal

\* Logins are used once and end in sessions of named accounts only.
THEOREM LoginsFinish == AuthSpec => []LoginsAreFinished
    BY SessionsComeFromTheForm, StatesAreSpent, PTL DEF LoginsAreFinished

-----------------------------------------------------------------------------
(* The session: its inductive invariant *)

IInv ==
  TypeOK /\ SeatsAreExclusive /\ LogReplays /\ RowsFollowTheLog

Events == [kind : Kinds, user : People, role : Roles \cup {Moderator, None}]

----------------------------------------------------------------------------
(* Appending one event *)

\* What was the latest event of a class before an old position still is.
LEMMA LatestBefore ==
  ASSUME NEW e, log \in Seq(Events), log' = Append(log, e),
         NEW x, NEW C, NEW n \in 1 .. Len(log) + 1
  PROVE  Latest(x, C, n)' <=> Latest(x, C, n)
<1>1. DOMAIN log = 1 .. Len(log) /\ DOMAIN log' = 1 .. Len(log) + 1 /\ Len(log) \in Nat
  OBVIOUS
<1>2. \A i \in 1 .. Len(log) : log'[i] = log[i]
  OBVIOUS
<1>3. n \in Nat /\ \A i \in DOMAIN log' : i < n => i \in DOMAIN log
  BY <1>1
<1>4. \A i \in DOMAIN log : \A j \in i + 1 .. n - 1 : j \in 1 .. Len(log)
  BY <1>1
<1>. QED
  BY <1>1, <1>2, <1>3, <1>4 DEF Latest

\* After the last position it is the new event, or what it was.
LEMMA LatestNow ==
  ASSUME NEW e, log \in Seq(Events), log' = Append(log, e), NEW x, NEW C,
         NEW n, n = Len(log)
  PROVE  Latest(x, C, n + 2)' <=>
           \/ e \in C /\ x = e
           \/ e \notin C /\ Latest(x, C, n + 1)
<1>1. n \in Nat /\ DOMAIN log = 1 .. n /\ DOMAIN log' = 1 .. n + 1
  OBVIOUS
<1>2. log'[n + 1] = e /\ \A i \in 1 .. n : log'[i] = log[i]
  OBVIOUS
<1>3. CASE e \in C
  <2>1. \A i \in 1 .. n : ~(\A j \in i + 1 .. n + 1 : log'[j] \notin C)
    BY <1>1, <1>2, <1>3
  <2>2. x = e => Latest(x, C, n + 2)'
    BY <1>1, <1>2, <1>3 DEF Latest
  <2>3. Latest(x, C, n + 2)' => x = e
    BY <1>1, <1>2, <2>1 DEF Latest
  <2>. QED
    BY <1>3, <2>2, <2>3
<1>4. CASE e \notin C
  <2>1. ASSUME NEW i \in 1 .. n
        PROVE  (\A j \in i + 1 .. n + 1 : log'[j] \notin C) <=>
               (\A j \in i + 1 .. n : log[j] \notin C)
    BY <1>1, <1>2, <1>4
  <2>2. Latest(x, C, n + 2)' <=>
          \E i \in 1 .. n : log'[i] = x /\ x \in C /\ \A j \in i + 1 .. n + 1 : log'[j] \notin C
    BY <1>1, <1>2, <1>4 DEF Latest
  <2>3. Latest(x, C, n + 1) <=>
          \E i \in 1 .. n : log[i] = x /\ x \in C /\ \A j \in i + 1 .. n : log[j] \notin C
    BY <1>1 DEF Latest
  <2>. QED
    BY <1>2, <1>4, <2>1, <2>2, <2>3
<1>. QED
  BY <1>3, <1>4

\* Who is seated and whether the session is ended, read off the log, is what
\* the rows say.
LEMMA RowsRead ==
  ASSUME IInv
  PROVE  LET head == Len(log) + 1 IN
         /\ \A u \in People : SeatedAt(u, head) <=> seat[u] # None
         /\ EndedAt(head) <=> ended
         /\ InOperate <=> started
<1>1. ASSUME NEW u \in People
      PROVE  SeatedAt(u, Len(log) + 1) <=> seat[u] # None
  <2>1. seat[u] \in Roles \cup {Moderator} <=> seat[u] # None
    BY RolesAssumption DEF IInv, TypeOK, None, Moderator
  <2>2. \A role \in Roles \cup {Moderator} :
           seat[u] = role <=> Latest(Joined(u, role), Seatings(u), Len(log) + 1)
    BY DEF IInv, RowsFollowTheLog
  <2>. QED
    BY <2>1, <2>2 DEF SeatedAt
<1>. QED
  BY <1>1 DEF IInv, RowsFollowTheLog

\* An event that fits the rows leaves a log that can be replayed.
LEMMA AppendReplays ==
  ASSUME IInv, NEW e \in Events, log' = Append(log, e),
         \A u \in People : e \in Seatings(u) => (e = Left(u) <=> seat[u] # None),
         e = Restarted <=> (ended /\ e.kind # "write"),
         e = Operate => ~started
  PROVE  LogReplays'
<1>0. PICK n : n = Len(log)
  OBVIOUS
<1>1. /\ log \in Seq(Events) /\ n \in Nat /\ DOMAIN log = 1 .. n
      /\ DOMAIN log' = 1 .. n + 1
      /\ log'[n + 1] = e
      /\ \A i \in 1 .. n : log'[i] = log[i]
  BY <1>0 DEF IInv, TypeOK, Events
<1>2. ASSUME NEW m \in 1 .. n + 1, NEW u \in People
      PROVE  SeatedAt(u, m)' <=> SeatedAt(u, m)
  <2>1. \A role : Latest(Joined(u, role), Seatings(u), m)' <=> Latest(Joined(u, role), Seatings(u), m)
    BY <1>1, LatestBefore
  <2>. QED
    BY <2>1 DEF SeatedAt
<1>3. ASSUME NEW m \in 1 .. n + 1
      PROVE  EndedAt(m)' <=> EndedAt(m)
  BY <1>1, LatestBefore DEF EndedAt
<1>4. ASSUME NEW m \in 1 .. n
      PROVE  /\ \A u \in People :
                  log'[m] \in Seatings(u) => (log'[m] = Left(u) <=> SeatedAt(u, m)')
             /\ log'[m] = Restarted <=> (EndedAt(m)' /\ log'[m].kind # "write")
             /\ log'[m] = Operate => \A k \in 1 .. m - 1 : log'[k] # Operate
  BY <1>1, <1>2, <1>3 DEF IInv, LogReplays
<1>5. /\ \A u \in People : e \in Seatings(u) => (e = Left(u) <=> SeatedAt(u, n + 1)')
      /\ e = Restarted <=> (EndedAt(n + 1)' /\ e.kind # "write")
  BY <1>0, <1>1, <1>2, <1>3, RowsRead
<1>6. e = Operate => \A k \in 1 .. n : log'[k] # Operate
  BY <1>0, <1>1, RowsRead DEF InOperate
<1>7. \A m \in 1 .. n + 1 : m \in 1 .. n \/ m = n + 1
  BY <1>1
<1>. QED
  BY <1>1, <1>4, <1>5, <1>6, <1>7 DEF LogReplays

\* What the rows must say after an event.
LEMMA AppendRows ==
  ASSUME IInv, NEW e \in Events, log' = Append(log, e),
         ended' <=> IF e \in {Ended, Restarted} THEN e = Ended ELSE ended,
         started' <=> started \/ e = Operate,
         \A u \in People, role \in Roles \cup {Moderator} :
            seat'[u] = role <=> IF e \in Seatings(u) THEN e = Joined(u, role) ELSE seat[u] = role
  PROVE  RowsFollowTheLog'
<1>0. PICK n : n = Len(log)
  OBVIOUS
<1>1. /\ log \in Seq(Events) /\ n \in Nat /\ DOMAIN log = 1 .. n
      /\ DOMAIN log' = 1 .. n + 1 /\ Len(log') = n + 1
      /\ log'[n + 1] = e
      /\ \A i \in 1 .. n : log'[i] = log[i]
  BY <1>0 DEF IInv, TypeOK, Events
<1>2. EndedAt(n + 2)' <=> IF e \in {Ended, Restarted} THEN e = Ended ELSE EndedAt(n + 1)
  BY <1>0, <1>1, LatestNow DEF EndedAt
<1>3. InOperate' <=> InOperate \/ e = Operate
  BY <1>1 DEF InOperate
<1>4. ASSUME NEW u \in People, NEW role \in Roles \cup {Moderator}
      PROVE  Latest(Joined(u, role), Seatings(u), n + 2)' <=>
               IF e \in Seatings(u) THEN e = Joined(u, role)
               ELSE Latest(Joined(u, role), Seatings(u), n + 1)
  <2>1. \A x, C : Latest(x, C, n + 2)' <=>
                    (e \in C /\ x = e) \/ (e \notin C /\ Latest(x, C, n + 1))
    BY <1>0, <1>1, LatestNow
  <2>. QED
    BY <2>1
<1>5. Len(log') + 1 = n + 2
  BY <1>1
<1>. QED
  BY <1>0, <1>1, <1>2, <1>3, <1>4, <1>5 DEF IInv, RowsFollowTheLog

----------------------------------------------------------------------------
(* The events *)

\* Which events are about whose seat, and which close or open the session.
LEMMA EventFacts ==
  ASSUME NEW u \in People, NEW role \in Roles \cup {Moderator}
  PROVE  /\ {Created, Ended, Restarted, Operate, Joined(u, role), Left(u), Written(u)} \subseteq Events
         /\ \A w \in People :
              /\ Joined(u, role) \in Seatings(w) <=> u = w
              /\ Left(u) \in Seatings(w) <=> u = w
              /\ \A e \in {Created, Ended, Restarted, Operate, Written(u)} : e \notin Seatings(w)
         /\ \A r \in Roles \cup {Moderator} : Joined(u, role) = Joined(u, r) <=> role = r
         /\ \A w \in People, r \in Roles \cup {Moderator} : Joined(u, role) # Left(w) /\ Left(u) # Joined(w, r)
         /\ \A e \in {Ended, Restarted, Operate} : e # Joined(u, role) /\ e # Left(u) /\ e # Written(u)
         /\ Ended # Restarted /\ Ended # Operate /\ Restarted # Operate
         /\ Created \notin {Ended, Restarted, Operate}
         /\ Joined(u, role).kind # "write" /\ Left(u).kind # "write" /\ Written(u).kind = "write"
         /\ Ended.kind # "write" /\ Restarted.kind # "write" /\ Operate.kind # "write"
<1>1. Host \in People
  BY DEF People
<1>2. {Created, Ended, Restarted, Operate, Joined(u, role), Left(u), Written(u)} \subseteq Events
  BY <1>1 DEF Events, Kinds, Event, Created, Ended, Restarted, Operate, Joined, Left, Written
<1>3. ASSUME NEW w \in People
      PROVE  /\ Joined(u, role) \in Seatings(w) <=> u = w
             /\ Left(u) \in Seatings(w) <=> u = w
             /\ \A e \in {Created, Ended, Restarted, Operate, Written(u)} : e \notin Seatings(w)
  <2>1. \A x \in Seatings(w) : x.user = w /\ x.kind \in {"joined", "left"}
    BY DEF Seatings, Event, Joined, Left
  <2>2. Joined(u, role).user = u /\ Left(u).user = u
    BY DEF Event, Joined, Left
  <2>3. \A e \in {Created, Ended, Restarted, Operate, Written(u)} : e.kind \notin {"joined", "left"}
    BY DEF Event, Created, Ended, Restarted, Operate, Written
  <2>4. u = w => Joined(u, role) \in Seatings(w) /\ Left(u) \in Seatings(w)
    BY DEF Seatings
  <2>. QED
    BY <2>1, <2>2, <2>3, <2>4
<1>4. \A r \in Roles \cup {Moderator} : Joined(u, role) = Joined(u, r) <=> role = r
  BY DEF Event, Joined
<1>5. \A w \in People, r \in Roles \cup {Moderator} : Joined(u, role) # Left(w) /\ Left(u) # Joined(w, r)
  BY DEF Event, Joined, Left
<1>6. \A e \in {Ended, Restarted, Operate} : e # Joined(u, role) /\ e # Left(u) /\ e # Written(u)
  BY DEF Event, Ended, Restarted, Operate, Joined, Left, Written
<1>7. /\ Ended # Restarted /\ Ended # Operate /\ Restarted # Operate
      /\ Created \notin {Ended, Restarted, Operate}
      /\ Joined(u, role).kind # "write" /\ Left(u).kind # "write" /\ Written(u).kind = "write"
      /\ Ended.kind # "write" /\ Restarted.kind # "write" /\ Operate.kind # "write"
  BY DEF Event, Created, Ended, Restarted, Operate, Joined, Left, Written
<1>. QED
  BY <1>2, <1>3, <1>4, <1>5, <1>6, <1>7

----------------------------------------------------------------------------
(* Types *)

LEMMA InitType == ASSUME Init PROVE TypeOK
<1>1. Host \in People
  BY DEF People
<1>2. log \in Seq(Events)
  <2>1. Created \in Events /\ Joined(Host, Moderator) \in Events
    BY <1>1, EventFacts
  <2>. QED
    BY <2>1 DEF Init
<1>3. request \in [Requests -> Request]
  BY DEF Init, Request, Idle
<1>4. \A r \in Requests : request[r].todo = {} /\ request[r].evict = {}
  BY DEF Init, Idle
<1>. QED
  BY <1>1, <1>2, <1>3, <1>4, HostAssumption, RolesAssumption DEF Init, TypeOK, Events, None, Moderator

\* An appended event keeps the log a sequence of events.
LEMMA AppendType ==
  ASSUME TypeOK, NEW e \in Events, Append1(e)
  PROVE  log' \in Seq(Events) /\ log' = Append(log, e)
BY DEF TypeOK, Append1, Events

\* The steps that write the rows and the log.
Routes ==
  \/ End \/ Restart \/ Start
  \/ \E u \in Users, role \in Roles : Assign(u, role) \/ Claim(u, role)
  \/ \E u \in People : Remove(u) \/ Write(u)

\* The steps of the privacy requests and of the registry leave seats and log alone.
Others ==
  \/ \E r \in Requests :
        \/ \E to \in {"public", "private"} : CheckPrivacy(r, to)
        \/ UpdatePrivacy(r)
        \/ Prune(r)
  \/ \E v \in Watchers : CheckVisible(v) \/ Register(v) \/ Unsubscribe(v)

LEMMA NextSplit == Next <=> Routes \/ Others
BY DEF Next, Routes, Others

LEMMA OthersFrame == Others => UNCHANGED <<ended, started, seats, log>>
BY DEF Others, Prune, Pruning, CheckPrivacy, UpdatePrivacy, BeginPrune, EvictAnonymous, Ask, AskFails,
   Evict, EndPrune, CheckVisible, Register, Unsubscribe, row

LEMMA RoutesFrame == Routes => UNCHANGED <<privacy, request, registry>>
BY DEF Routes, End, Restart, Start, Assign, Claim, Take, Remove, Write, row

LEMMA RoutesType == ASSUME TypeOK, Routes PROVE TypeOK'
<1>1. Host \in People /\ Users \subseteq People
  BY DEF People
<1>2. /\ ended' \in BOOLEAN /\ started' \in BOOLEAN
      /\ seat' \in [People -> Roles \cup {Moderator, None}]
      /\ known' \subseteq People
      /\ \A u \in People : seat'[u] # None => u \in known'
  <2>1. CASE End \/ Restart \/ Start
    BY <2>1 DEF TypeOK, End, Restart, Start, seats
  <2>2. ASSUME NEW u \in Users, NEW role \in Roles, Take(u, role), ~ended PROVE <1>2
    BY <2>2, <1>1 DEF TypeOK, Take, row
  <2>3. ASSUME NEW u \in People, Remove(u) PROVE <1>2
    BY <2>3 DEF TypeOK, Remove, row
  <2>4. ASSUME NEW u \in People, Write(u) PROVE <1>2
    BY <2>4 DEF TypeOK, Write, row, seats
  <2>. QED
    BY <2>1, <2>2, <2>3, <2>4 DEF Routes, Assign, Claim, MayTake
<1>3. \E e \in Events : Append1(e)
  <2>1. ASSUME NEW u \in Users, NEW role \in Roles, Take(u, role) PROVE <1>3
    BY <2>1, <1>1, EventFacts DEF Take
  <2>2. ASSUME NEW u \in People, Remove(u) \/ Write(u) PROVE <1>3
    BY <2>2, EventFacts DEF Remove, Write
  <2>3. CASE End \/ Restart \/ Start
    BY <2>3, <1>1, EventFacts DEF End, Restart, Start
  <2>. QED
    BY <2>1, <2>2, <2>3 DEF Routes, Assign, Claim
<1>4. log' \in Seq(Events)
  BY <1>3, AppendType
<1>. QED
  BY <1>2, <1>4, RoutesFrame DEF TypeOK, Events, registry, Phase

LEMMA OthersType == ASSUME TypeOK, Others PROVE TypeOK'
<1>1. /\ privacy' \in {"public", "private"}
      /\ request' \in [Requests -> Request]
      /\ \A r \in Requests : request'[r].phase # "pruning" =>
            request'[r].todo = {} /\ request'[r].evict = {}
      /\ awaiting' \subseteq Watchers /\ subscribed' \subseteq Watchers
      /\ overtaken' \subseteq Watchers
  <2>1. ASSUME NEW r \in Requests, NEW to \in {"public", "private"}, CheckPrivacy(r, to) PROVE <1>1
    BY <2>1 DEF TypeOK, CheckPrivacy, Phase, Request, Idle, row, registry
  <2>2. ASSUME NEW r \in Requests, UpdatePrivacy(r) PROVE <1>1
    BY <2>2 DEF TypeOK, UpdatePrivacy, Phase, Request, Idle, registry
  <2>3. ASSUME NEW r \in Requests, BeginPrune(r) PROVE <1>1
    BY <2>3 DEF TypeOK, BeginPrune, Pruning, Phase, Request, row, registry
  <2>4. ASSUME NEW r \in Requests, EvictAnonymous(r) PROVE <1>1
    BY <2>4 DEF TypeOK, EvictAnonymous, Pruning, Phase, Request, row
  <2>5. ASSUME NEW r \in Requests, NEW v \in Watchers, Ask(r, v) PROVE <1>1
    <3>1. PICK S \in SUBSET Watchers : Pruning(r, request[r].todo \ {v}, S)
      BY <2>5 DEF Ask
    <3>. QED
      BY <2>5, <3>1 DEF TypeOK, Ask, Phase, Request, Pruning, row, registry
  <2>6. ASSUME NEW r \in Requests, NEW v \in Watchers, AskFails(r, v) PROVE <1>1
    BY <2>6 DEF TypeOK, AskFails, Pruning, Phase, Request, row
  <2>7. ASSUME NEW r \in Requests, Evict(r) PROVE <1>1
    BY <2>7 DEF TypeOK, Evict, Pruning, Phase, Request, row
  <2>8. ASSUME NEW r \in Requests, EndPrune(r) PROVE <1>1
    BY <2>8 DEF TypeOK, EndPrune, Phase, Request, Idle, row, registry
  <2>9. ASSUME NEW v \in Watchers, CheckVisible(v) \/ Register(v) \/ Unsubscribe(v) PROVE <1>1
    BY <2>9 DEF TypeOK, CheckVisible, Register, Unsubscribe, Phase, row
  <2>. QED
    BY <2>1, <2>2, <2>3, <2>4, <2>5, <2>6, <2>7, <2>8, <2>9 DEF Others, Prune
<1>. QED
  BY <1>1, OthersFrame DEF TypeOK, Phase, seats

LEMMA StutterType == ASSUME TypeOK, UNCHANGED vars PROVE TypeOK'
BY DEF TypeOK, vars, row, seats, registry, Phase

\* The types of every variable, with the link between a seat and its row.
THEOREM TypeCorrect == Spec => []TypeOK
<1>1. TypeOK /\ [Next]_vars => TypeOK'
  BY NextSplit, RoutesType, OthersType, StutterType
<1>. QED
  BY InitType, <1>1, PTL DEF Spec

----------------------------------------------------------------------------
(* The log and the rows *)

LEMMA InitInvariant == ASSUME Init PROVE IInv
<1>1. Host \in People /\ None # Moderator
  BY DEF People, None, Moderator
<1>2. SeatsAreExclusive
  BY <1>1 DEF Init, SeatsAreExclusive
<1>3. /\ log = <<Created, Joined(Host, Moderator)>> /\ DOMAIN log = 1 .. 2 /\ Len(log) = 2
      /\ log[1] = Created /\ log[2] = Joined(Host, Moderator)
  BY DEF Init
<1>4. \A n \in 1 .. 3 : ~EndedAt(n)
  BY <1>1, <1>3, EventFacts DEF EndedAt, Latest
<1>5. \A u \in People : Created \notin Seatings(u)
  BY <1>1, EventFacts
<1>6. ASSUME NEW u \in People
      PROVE  ~SeatedAt(u, 1) /\ ~SeatedAt(u, 2)
  BY <1>3, <1>5 DEF SeatedAt, Latest
<1>7. LogReplays
  BY <1>1, <1>3, <1>4, <1>5, <1>6, EventFacts DEF LogReplays
<1>8. ASSUME NEW u \in People, NEW role \in Roles \cup {Moderator}
      PROVE  seat[u] = role <=> Latest(Joined(u, role), Seatings(u), 3)
  <2>1. Latest(Joined(u, role), Seatings(u), 3) <=> u = Host /\ role = Moderator
    BY <1>1, <1>3, <1>5, EventFacts DEF Latest
  <2>2. seat[u] = role <=> u = Host /\ role = Moderator
    BY <1>1, RolesAssumption DEF Init
  <2>. QED
    BY <2>1, <2>2
<1>9. ~InOperate
  BY <1>1, <1>3, EventFacts DEF InOperate
<1>10. RowsFollowTheLog
  BY <1>3, <1>4, <1>8, <1>9 DEF Init, RowsFollowTheLog
<1>. QED
  BY InitType, <1>2, <1>7, <1>10 DEF IInv

\* An end, a restart or a start.
LEMMA StatusStep ==
  ASSUME IInv, End \/ Restart \/ Start
  PROVE  LogReplays' /\ RowsFollowTheLog' /\ SeatsAreExclusive'
<1>1. Host \in People /\ TypeOK
  BY DEF People, IInv
<1>2. PICK e \in {Ended, Restarted, Operate} :
        /\ Append1(e)
        /\ ended' = IF e \in {Ended, Restarted} THEN e = Ended ELSE ended
        /\ started' <=> started \/ e = Operate
        /\ e = Restarted <=> ended
        /\ e = Operate => ~started
        /\ UNCHANGED seats
  <2>1. CASE End
    BY <2>1, <1>1, EventFacts DEF End, TypeOK
  <2>2. CASE Restart
    BY <2>2, <1>1, EventFacts DEF Restart, TypeOK
  <2>3. CASE Start
    BY <2>3, <1>1, EventFacts, RowsRead DEF Start, TypeOK
  <2>. QED
    BY <2>1, <2>2, <2>3
<1>3. e \in Events /\ e.kind # "write" /\ \A u \in People : e \notin Seatings(u)
  BY <1>1, EventFacts
<1>4. log' = Append(log, e)
  BY <1>2 DEF Append1
<1>5. LogReplays'
  BY <1>2, <1>3, <1>4, AppendReplays
<1>6. RowsFollowTheLog'
  BY <1>2, <1>3, <1>4, AppendRows DEF seats
<1>. QED
  BY <1>2, <1>5, <1>6 DEF IInv, SeatsAreExclusive, seats

\* A seat is taken by a user who has none, and nobody holds the role.
LEMMA TakeStep ==
  ASSUME IInv, NEW u \in Users, NEW role \in Roles, MayTake(u, role), Take(u, role)
  PROVE  LogReplays' /\ RowsFollowTheLog' /\ SeatsAreExclusive'
<1>1. u \in People /\ u # Host /\ Host \in People /\ role \in Roles \cup {Moderator} /\ role # None
  BY HostAssumption, RolesAssumption DEF People
<1>. DEFINE e == Joined(u, role)
<1>2. /\ e \in Events /\ e.kind # "write" /\ e \notin {Ended, Restarted, Operate}
      /\ \A w \in People : e \in Seatings(w) <=> w = u
      /\ e # Left(u)
      /\ \A r \in Roles \cup {Moderator} : e = Joined(u, r) <=> role = r
  BY <1>1, EventFacts
<1>3. log' = Append(log, e) /\ UNCHANGED <<ended, started>> /\ ~ended
  BY DEF Take, Append1, row, MayTake
<1>4. seat[u] = None /\ \A p \in People : seat[p] # role
  BY DEF MayTake
<1>5. /\ seat \in [People -> Roles \cup {Moderator, None}]
      /\ seat' = [seat EXCEPT ![u] = role]
  BY DEF IInv, TypeOK, Take
<1>6. SeatsAreExclusive'
  BY <1>1, <1>4, <1>5 DEF IInv, SeatsAreExclusive
<1>7. LogReplays'
  BY <1>2, <1>3, <1>4, AppendReplays
<1>8. \A w \in People, r \in Roles \cup {Moderator} :
         seat'[w] = r <=> IF e \in Seatings(w) THEN e = Joined(w, r) ELSE seat[w] = r
  BY <1>2, <1>5
<1>9. RowsFollowTheLog'
  BY <1>2, <1>3, <1>8, AppendRows
<1>. QED
  BY <1>6, <1>7, <1>9

LEMMA RemoveStep ==
  ASSUME IInv, NEW u \in People, Remove(u)
  PROVE  LogReplays' /\ RowsFollowTheLog' /\ SeatsAreExclusive'
<1>1. Host \in People /\ Moderator \in Roles \cup {Moderator} /\ None # Moderator
  BY DEF People, None, Moderator
<1>. DEFINE e == Left(u)
<1>2. /\ e \in Events /\ e.kind # "write" /\ e \notin {Ended, Restarted, Operate}
      /\ \A w \in People : e \in Seatings(w) <=> w = u
      /\ \A r \in Roles \cup {Moderator} : e # Joined(u, r)
  BY <1>1, EventFacts
<1>3. log' = Append(log, e) /\ UNCHANGED <<ended, started>> /\ ~ended
  BY DEF Remove, Append1, row
<1>4. seat[u] # None /\ u # Host
  BY DEF Remove, IInv, SeatsAreExclusive
<1>5. /\ seat \in [People -> Roles \cup {Moderator, None}]
      /\ seat' = [seat EXCEPT ![u] = None]
  BY DEF IInv, TypeOK, Remove
<1>6. SeatsAreExclusive'
  BY <1>1, <1>4, <1>5 DEF IInv, SeatsAreExclusive
<1>7. LogReplays'
  BY <1>2, <1>3, <1>4, AppendReplays
<1>8. \A w \in People, r \in Roles \cup {Moderator} :
         seat'[w] = r <=> IF e \in Seatings(w) THEN e = Joined(w, r) ELSE seat[w] = r
  BY <1>1, <1>2, <1>5, RolesAssumption
<1>9. RowsFollowTheLog'
  BY <1>2, <1>3, <1>8, AppendRows
<1>. QED
  BY <1>6, <1>7, <1>9

LEMMA WriteStep ==
  ASSUME IInv, NEW u \in People, Write(u)
  PROVE  LogReplays' /\ RowsFollowTheLog' /\ SeatsAreExclusive'
<1>1. Moderator \in Roles \cup {Moderator}
  OBVIOUS
<1>. DEFINE e == Written(u)
<1>2. /\ e \in Events /\ e.kind = "write" /\ e \notin {Ended, Restarted, Operate}
      /\ \A w \in People : e \notin Seatings(w)
  BY <1>1, EventFacts
<1>3. log' = Append(log, e) /\ UNCHANGED <<ended, started, seat>>
  BY DEF Write, Append1, row, seats
<1>4. LogReplays'
  BY <1>2, <1>3, AppendReplays
<1>5. RowsFollowTheLog'
  BY <1>2, <1>3, AppendRows
<1>. QED
  BY <1>3, <1>4, <1>5 DEF IInv, SeatsAreExclusive

LEMMA Preserved == ASSUME IInv, [Next]_vars PROVE IInv'
<1>1. TypeOK'
  BY NextSplit, RoutesType, OthersType, StutterType DEF IInv
<1>2. CASE Routes
  BY <1>1, <1>2, StatusStep, TakeStep, RemoveStep, WriteStep DEF Routes, Assign, Claim, IInv
<1>3. CASE UNCHANGED <<ended, started, seats, log>>
  <2>1. SeatsAreExclusive'
    BY <1>3 DEF IInv, SeatsAreExclusive, seats
  <2>2. \A x, C, n : Latest(x, C, n)' <=> Latest(x, C, n)
    BY <1>3 DEF Latest
  <2>3. LogReplays'
    BY <1>3, <2>2 DEF IInv, LogReplays, SeatedAt, EndedAt
  <2>4. RowsFollowTheLog'
    BY <1>3, <2>2 DEF IInv, RowsFollowTheLog, EndedAt, InOperate, seats
  <2>. QED
    BY <1>1, <2>1, <2>3, <2>4 DEF IInv
<1>4. UNCHANGED vars => UNCHANGED <<ended, started, seats, log>>
  BY DEF vars, row
<1>. QED
  BY <1>2, <1>3, <1>4, NextSplit, OthersFrame

LEMMA Invariant == Spec => []IInv
BY InitInvariant, Preserved, PTL DEF Spec

\* No role is held twice and the host stays the moderator.
THEOREM SeatsStayExclusive == Spec => []SeatsAreExclusive
BY Invariant, PTL DEF IInv

\* The log the routes and the handlers write can always be replayed.
THEOREM LogCanBeReplayed == Spec => []LogReplays
BY Invariant, PTL DEF IInv

\* The tables and the log agree on who is seated, ended and started.
THEOREM TablesFollowTheLog == Spec => []RowsFollowTheLog
BY Invariant, PTL DEF IInv

----------------------------------------------------------------------------
(* The registry *)

\* A prune looks up one subscriber at a time.
OneAtATime == \A r \in Requests : \A v, w \in request[r].evict : v = w

LEMMA OneAtATimePreserved ==
  ASSUME TypeOK, OneAtATime, [Next]_vars PROVE OneAtATime'
<1>1. CASE UNCHANGED request
  BY <1>1 DEF OneAtATime
<1>2. ASSUME NEW r \in Requests,
             \E S \in SUBSET Watchers : \E x :
                request' = [request EXCEPT ![r] = x] /\ x.evict = S /\ \A v, w \in S : v = w
      PROVE  OneAtATime'
  BY <1>2 DEF OneAtATime, TypeOK
<1>3. ASSUME NEW r \in Requests, NEW to \in {"public", "private"}, CheckPrivacy(r, to)
      PROVE  OneAtATime'
  BY <1>3 DEF OneAtATime, TypeOK, Request, CheckPrivacy, Idle
<1>4. ASSUME NEW r \in Requests, UpdatePrivacy(r) \/ BeginPrune(r) \/ EndPrune(r) \/ Evict(r) \/ EvictAnonymous(r)
      PROVE  OneAtATime'
  BY <1>4 DEF OneAtATime, TypeOK, Request, UpdatePrivacy, BeginPrune, EndPrune, Evict,
     EvictAnonymous, Pruning, Idle, Phase
<1>5. ASSUME NEW r \in Requests, NEW v \in Watchers, Ask(r, v) \/ AskFails(r, v)
      PROVE  OneAtATime'
  <2>1. PICK S \in SUBSET {v} : Pruning(r, request[r].todo \ {v}, S)
    BY <1>5 DEF Ask, AskFails
  <2>. QED
    BY <2>1 DEF OneAtATime, TypeOK, Pruning
<1>6. Routes => UNCHANGED request
  BY RoutesFrame
<1>7. ASSUME NEW v \in Watchers, CheckVisible(v) \/ Register(v) \/ Unsubscribe(v)
      PROVE  UNCHANGED request
  BY <1>7 DEF CheckVisible, Register, Unsubscribe
<1>8. UNCHANGED vars => UNCHANGED request
  BY DEF vars
<1>. QED
  BY <1>1, <1>3, <1>4, <1>5, <1>6, <1>7, <1>8, NextSplit DEF Others, Prune

LEMMA RegistryPreserved ==
  ASSUME TypeOK, OneAtATime, RegistryFollowsVisibility, [Next]_vars
  PROVE  RegistryFollowsVisibility'
<1>. SUFFICES ASSUME NEW v \in subscribed'
              PROVE  \/ MaySee(v)'
                     \/ v \in overtaken'
                     \/ \E r \in Requests :
                          Phase(r, "updated")' \/ v \in request'[r].todo \cup request'[r].evict
  BY DEF RegistryFollowsVisibility
<1>. DEFINE Examined(f, w) == \E r \in Requests :
                                f[r].phase = "updated" \/ w \in f[r].todo \cup f[r].evict
            Covered == MaySee(v)' \/ v \in overtaken' \/ Examined(request', v)
<1>0. SUFFICES Covered
  BY DEF Phase
<1>1. v \in subscribed => MaySee(v) \/ v \in overtaken \/ Examined(request, v)
  BY DEF RegistryFollowsVisibility, Phase
<1>2. known \subseteq known'
  <2>1. Routes => known \subseteq known'
    BY DEF Routes, End, Restart, Start, Assign, Claim, Take, Remove, Write, seats
  <2>. QED
    BY <2>1, NextSplit, OthersFrame DEF vars, seats
<1>3. CASE UNCHANGED <<privacy, request, registry>>
  BY <1>1, <1>2, <1>3 DEF MaySee, registry
<1>. HIDE DEF Covered
<1>4. ASSUME NEW r \in Requests, NEW to \in {"public", "private"}, CheckPrivacy(r, to)
      PROVE  Covered
  <2>1. request[r].phase = "idle" /\ request[r].todo = {} /\ request[r].evict = {}
    BY <1>4 DEF CheckPrivacy, Phase, TypeOK
  <2>2. Examined(request, v) => Examined(request', v)
    BY <1>4, <2>1 DEF CheckPrivacy, TypeOK, Request
  <2>. QED
    BY <1>1, <1>2, <1>4, <2>2 DEF Covered, CheckPrivacy, MaySee, registry, row
<1>5. ASSUME NEW r \in Requests, UpdatePrivacy(r)
      PROVE  Covered
  <2>1. request[r].to = "private" => Examined(request', v)
    BY <1>5 DEF UpdatePrivacy, TypeOK
  <2>2. request[r].to # "private" => privacy' = "public"
    BY <1>5 DEF UpdatePrivacy, TypeOK, Request
  <2>. QED
    BY <2>1, <2>2 DEF Covered, MaySee
<1>6. ASSUME NEW r \in Requests, BeginPrune(r)
      PROVE  Covered
  BY <1>6 DEF Covered, BeginPrune, Pruning, TypeOK, Request, registry
<1>7. ASSUME NEW r \in Requests, NEW w \in Watchers,
             request[r].phase # "updated",
             Pruning(r, request[r].todo \ {w}, request[r].evict),
             v # w, v \in subscribed, UNCHANGED privacy, v \in overtaken => v \in overtaken'
      PROVE  Covered
  <2>1. Examined(request, v) => Examined(request', v)
    BY <1>7 DEF TypeOK, Request, Pruning
  <2>. QED
    BY <1>1, <1>2, <1>7, <2>1 DEF Covered, MaySee
<1>8. ASSUME NEW r \in Requests, EvictAnonymous(r)
      PROVE  Covered
  <2>1. request[r].phase = "pruning" /\ Anonymous \in Watchers
    BY <1>8 DEF EvictAnonymous, TypeOK, Phase, Request
  <2>. QED
    BY <1>7, <1>8, <2>1 DEF EvictAnonymous, row
<1>9. ASSUME NEW r \in Requests, NEW w \in Watchers, AskFails(r, w)
      PROVE  Covered
  <2>1. request[r].phase = "pruning"
    BY <1>9 DEF AskFails, TypeOK, Phase
  <2>2. CASE v = w
    BY <1>9, <2>2 DEF AskFails, Covered
  <2>. QED
    BY <1>7, <1>9, <2>1, <2>2 DEF AskFails, row
<1>10. ASSUME NEW r \in Requests, NEW w \in Watchers, Ask(r, w)
       PROVE  Covered
  <2>1. request[r].phase = "pruning" /\ request[r].evict = {} /\ w # Anonymous
    BY <1>10 DEF Ask, TypeOK, Phase
  <2>2. CASE v = w /\ CanSee(w)
    BY <1>2, <1>10, <2>1, <2>2 DEF Ask, CanSee, Covered, MaySee, row
  <2>3. CASE v = w /\ ~CanSee(w)
    BY <1>10, <2>1, <2>3 DEF Ask, Pruning, Covered, TypeOK, Request
  <2>4. CASE v # w
    <3>1. PICK S : Pruning(r, request[r].todo \ {w}, S)
      BY <1>10 DEF Ask
    <3>2. Examined(request, v) => Examined(request', v)
      BY <2>1, <2>4, <3>1 DEF TypeOK, Request, Pruning
    <3>. QED
      BY <1>1, <1>2, <1>10, <3>2 DEF Covered, Ask, MaySee, row, registry
  <2>. QED
    BY <2>2, <2>3, <2>4
<1>11. ASSUME NEW r \in Requests, Evict(r)
       PROVE  Covered
  <2>1. PICK w \in request[r].evict :
           /\ Pruning(r, request[r].todo, {})
           /\ subscribed' = subscribed \ {w}
           /\ overtaken' = overtaken \ {w}
           /\ UNCHANGED <<row, seats, log, awaiting>>
    BY <1>11 DEF Evict
  <2>2. v # w /\ v \in subscribed /\ v \notin request[r].evict
    BY <2>1 DEF OneAtATime
  <2>3. request[r].phase = "pruning"
    BY DEF TypeOK, Phase
  <2>4. Examined(request, v) => Examined(request', v)
    BY <2>1, <2>2, <2>3 DEF TypeOK, Request, Pruning
  <2>. QED
    BY <1>1, <1>2, <2>1, <2>2, <2>4 DEF Covered, MaySee, row
<1>12. ASSUME NEW r \in Requests, EndPrune(r)
       PROVE  Covered
  <2>1. Examined(request, v) => Examined(request', v)
    BY <1>12 DEF EndPrune, TypeOK, Request, Phase
  <2>. QED
    BY <1>1, <1>2, <1>12, <2>1 DEF Covered, EndPrune, MaySee, row, registry
<1>13. ASSUME NEW w \in Watchers, CheckVisible(w) \/ Register(w) \/ Unsubscribe(w)
       PROVE  Covered
  <2>1. UNCHANGED <<privacy, known, request>>
    BY <1>13 DEF CheckVisible, Register, Unsubscribe, row, seats
  <2>2. Examined(request', v) <=> Examined(request, v)
    BY <2>1
  <2>3. MaySee(v)' <=> MaySee(v)
    BY <2>1 DEF MaySee
  <2>4. CASE CheckVisible(w) \/ Unsubscribe(w)
    BY <1>1, <2>2, <2>3, <2>4 DEF Covered, CheckVisible, Unsubscribe
  <2>5. CASE Register(w) /\ v # w
    BY <1>1, <2>2, <2>3, <2>5 DEF Covered, Register
  <2>6. CASE Register(w) /\ v = w
    BY <2>2, <2>3, <2>6 DEF Covered, Register, Foreseen, Phase
  <2>. QED
    BY <1>13, <2>4, <2>5, <2>6
<1>14. UNCHANGED vars => UNCHANGED <<privacy, request, registry>>
  BY DEF vars, row
<1>. QED
  BY <1>3, <1>4, <1>5, <1>6, <1>8, <1>9, <1>10, <1>11, <1>12, <1>13, <1>14, NextSplit,
     RoutesFrame DEF Others, Prune

\* A registered viewer may see the session, or a prune will examine it, or
\* it registered behind the prune.
THEOREM RegistryIsPruned == Spec => []RegistryFollowsVisibility
<1>1. Init => TypeOK /\ OneAtATime /\ RegistryFollowsVisibility
  <2>1. ASSUME Init PROVE OneAtATime
    BY <2>1 DEF Init, OneAtATime, Idle
  <2>2. ASSUME Init PROVE RegistryFollowsVisibility
    BY <2>2 DEF Init, RegistryFollowsVisibility
  <2>. QED
    BY <2>1, <2>2, InitType
<1>2. TypeOK /\ OneAtATime /\ RegistryFollowsVisibility /\ [Next]_vars
        => TypeOK' /\ OneAtATime' /\ RegistryFollowsVisibility'
  BY NextSplit, RoutesType, OthersType, StutterType, OneAtATimePreserved, RegistryPreserved
<1>. QED
  BY <1>1, <1>2, PTL DEF Spec

\* What the log says can be replayed and is what the rows say.
THEOREM LogAndRowsStayTogether == Spec => []LogAndRowsAgree
BY LogCanBeReplayed, TablesFollowTheLog, PTL DEF LogAndRowsAgree

=============================================================================
