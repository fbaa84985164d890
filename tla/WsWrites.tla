------------------------------ MODULE WsWrites ------------------------------
(* The WebSocket write handlers and the snapshot request as the clients     *)
(* meet them: the gates before the first await, the visibility query, the   *)
(* transaction under the session row's lock, the broadcast after COMMIT and *)
(* the answer on the requester's own socket.  Two clients' requests, the    *)
(* membership routes, the privacy route and the sockets' ends interleave at *)
(* every await.                                                             *)
(*                                                                          *)
(* The log is kept event by event from the position, here 0, at which the   *)
(* session already holds its host and one node whose wording is committed.  *)
(* Entity 0 is that node's classification; a node captured later is named   *)
(* by the position of its capture-node proposal, and its facet is its       *)
(* wording.  A vote event is called by its choice.  Votes and commits are   *)
(* those of the facet arm (FacetAgreement has both arms).  Of the frames a  *)
(* socket carries, those that requests cause are kept.                      *)
EXTENDS Integers, Sequences, FiniteSetsExt

CONSTANTS
  Clients,      \* the users' connections, one each
  Host,         \* the session's host and moderator
  Debater,      \* the user that sits down to debate
  Requests,     \* envelopes the clients send
  NoRequest,    \* the cause of what no envelope caused
  MaxAppended   \* bound: events appended after the initial log

ASSUME ClientAssumption == {Host, Debater} \subseteq Clients
ASSUME RequestAssumption == NoRequest \notin Requests
ASSUME BoundAssumption == MaxAppended \in Nat

VARIABLES
  log,         \* session_events of the session
  room,        \* bound: events that may still be appended
  privacy,     \* the session row's privacy
  subscribed,  \* clients whose connection the registry lists
  request,     \* each envelope's progress through its handler
  sent         \* frames sent on the socket each client holds

vars == <<log, room, privacy, subscribed, request, sent>>

Event(kind, by, on, req) == [kind |-> kind, by |-> by, on |-> on, req |-> req]
Frame(type, req, seq) == [type |-> type, req |-> req, seq |-> seq]

----------------------------------------------------------------------------
(* The projection: what a handler reads off the log it has locked *)

\* currentParticipants: the host never leaves.
Current(l) ==
  {Host} \cup {p \in Clients : \E i \in DOMAIN l :
     /\ l[i].kind = "participant-joined" /\ l[i].by = p
     /\ \A j \in i..Len(l) : ~(l[j].kind = "participant-left" /\ l[j].by = p)}

Present(l) == Current(l) \ {Host}

Happened(l, kind, on) == {i \in DOMAIN l : l[i].kind = kind /\ l[i].on = on}

\* The proposal whose value is the candidate of entity e, 0 for none.
Candidate(l, e) == Max({0} \cup Happened(l, "proposal", e))

\* The vote p has standing on the candidate.
Choice(l, e, p) ==
  LET votes == {i \in Happened(l, "agree", e) \cup Happened(l, "dispute", e) :
                  i > Candidate(l, e) /\ l[i].by = p}
  IN IF votes = {} THEN "none" ELSE l[Max(votes)].kind

CommittedNow(l, e) == \E i \in Happened(l, "commit", e) : i > Candidate(l, e)

Status(l, e) ==
  IF Happened(l, "meta-disagreement-marked", e) # {} THEN "meta-disagreement"
  ELSE IF Candidate(l, e) = 0 THEN "awaiting-proposal"
  ELSE IF /\ CommittedNow(l, e)
          /\ \E i \in Happened(l, "withdraw-agreement", e) : l[i].by \in Present(l)
    THEN "withdrawn"
  ELSE IF \E p \in Present(l) : Choice(l, e, p) = "dispute" THEN "disputed"
  ELSE IF CommittedNow(l, e) THEN "committed"
  ELSE IF /\ Present(l) # {}
          /\ \A p \in Present(l) : Choice(l, e, p) = "agree"
    THEN "agreed"
  ELSE "proposed"

\* The events that end proposal q: a commit or a mark of its facet, or its own
\* withdrawal.  Retracting the node a capture minted leaves it pending.
Endings(l, q) ==
  Happened(l, "proposal-withdrawn", q) \cup
  {i \in Happened(l, "commit", l[q].on) \cup
         Happened(l, "meta-disagreement-marked", l[q].on) : i > q}

Proposals(l) == {i \in DOMAIN l : l[i].kind = "proposal"}
Pending(l) == {q \in Proposals(l) : Endings(l, q) = {}}
Entities(l) == {0} \cup {l[q].on : q \in Proposals(l)}

----------------------------------------------------------------------------
(* Initial states: a debater has joined and voted on a classification, or  *)
(* the host has captured a node                                             *)

Prelude ==
  LET joined == Event("participant-joined", Debater, 0, NoRequest)
      classified == Event("proposal", Debater, 0, NoRequest)
  IN {<<joined, classified, Event("agree", Debater, 0, NoRequest)>>,
      <<joined, classified, Event("dispute", Debater, 0, NoRequest)>>,
      <<joined, Event("node-created", Host, 4, NoRequest),
        Event("entity-included", Host, 4, NoRequest),
        Event("proposal", Host, 4, NoRequest)>>}

Init ==
  /\ log \in Prelude
  /\ room = MaxAppended
  /\ privacy = "public"
  /\ subscribed = {Host, Debater}
  /\ request = [r \in Requests |-> [phase |-> "unsent"]]
  /\ sent = [c \in Clients |-> <<>>]

----------------------------------------------------------------------------
(* Answers *)

\* A frame on the requester's socket, lost when that socket is gone.
Answer(r, frame) ==
  sent' = IF request[r].alive
            THEN [sent EXCEPT ![request[r].by] = Append(@, frame)] ELSE sent

Finished(c, expected) == [phase |-> "done", by |-> c, expected |-> expected]

\* The envelope has been dealt with; what it expected matters if it wrote.
Done(r, expected) ==
  request' = [request EXCEPT ![r] = Finished(@.by, expected)]

\* The dispatcher's catch: an ApiError keeps its code; what else was thrown
\* says nothing about the log.
Refuse(r) ==
  /\ Answer(r, Frame("refused", r, 0))
  /\ Done(r, 0)
  /\ UNCHANGED <<log, room, privacy, subscribed>>

Fail(r) ==
  /\ request[r].phase \in {"checking", "ready"}
  /\ Answer(r, Frame("failed", r, 0))
  /\ Done(r, 0)
  /\ UNCHANGED <<log, room, privacy, subscribed>>

----------------------------------------------------------------------------
(* Arrival: parsed, dispatched, and the gates before the first await *)

\* An envelope that parses, of a registered type: which one, and about what,
\* matters first in the transaction.  A client's view of the log is its head or
\* an event behind.  A connection that is not subscribed is refused at once (so
\* is one without a user).
Send(r, c) ==
  /\ request[r].phase = "unsent"
  /\ IF c \notin subscribed
       THEN /\ request' = [request EXCEPT ![r] = Finished(c, 0)]
            /\ sent' = [sent EXCEPT ![c] = Append(@, Frame("refused", r, 0))]
       ELSE /\ \E behind \in {0, 1} :
                 request' = [request EXCEPT ![r] =
                   [phase |-> "checking", by |-> c, expected |-> Len(log) - behind,
                    alive |-> TRUE]]
            /\ UNCHANGED sent
  /\ UNCHANGED <<log, room, privacy, subscribed>>

\* An envelope that does not parse is answered without naming it, one of no
\* registered type by its id.
SendNonsense(r, c) ==
  /\ request[r].phase = "unsent"
  /\ \E answered \in {r, NoRequest} :
       sent' = [sent EXCEPT ![c] = Append(@, Frame("refused", answered, 0))]
  /\ request' = [request EXCEPT ![r] = Finished(c, 0)]
  /\ UNCHANGED <<log, room, privacy, subscribed>>

\* canSeeSession: a public session, one's own, or one ever joined.
Visible(c) == privacy = "public" \/ c \in {Host, Debater}

SeeSession(r) ==
  /\ request[r].phase = "checking"
  /\ IF Visible(request[r].by)
       THEN /\ request' = [request EXCEPT ![r].phase = "ready"]
            /\ UNCHANGED <<log, room, privacy, subscribed, sent>>
       ELSE Refuse(r)

----------------------------------------------------------------------------
(* The transaction: SELECT ... FOR UPDATE, MAX(sequence), replay, append *)

UpToDate(r) == request[r].expected = Len(log)

\* The events are appended and COMMIT is sent.  Its answer may be lost: the
\* handler then throws although the events are there.
AppendEvents(r, batch) ==
  /\ UpToDate(r)
  /\ Len(batch) <= room
  /\ log' = log \o batch
  /\ room' = room - Len(batch)
  /\ \/ /\ request' = [request EXCEPT ![r] =
             [phase |-> "committed", by |-> @.by, expected |-> @.expected,
              alive |-> @.alive, first |-> Len(log) + 1,
              last |-> Len(log) + Len(batch)]]
        /\ UNCHANGED sent
     \/ /\ Answer(r, Frame("failed", r, 0))
        /\ Done(r, request[r].expected)
  /\ UNCHANGED <<privacy, subscribed>>

Own(r, kind, on) == <<Event(kind, request[r].by, on, r)>>

\* requireParticipant is the first thing the engine asks.
ByParticipant(r) == request[r].by \in Current(log)

\* requireModerator, of a participant.
ByModerator(r) == ByParticipant(r) /\ request[r].by = Host

ProposeValue(r) ==
  /\ ByParticipant(r)
  /\ AppendEvents(r, Own(r, "proposal", 0))

\* A capture puts its node into the session first; the proposal comes last.
ProposeCapture(r) ==
  /\ ByParticipant(r)
  /\ LET id == Len(log) + 3
     IN AppendEvents(r, Own(r, "node-created", id) \o
                        Own(r, "entity-included", id) \o Own(r, "proposal", id))

Vote(r, e, choice) ==
  /\ ByParticipant(r)
  /\ Status(log, e) \in {"proposed", "disputed"}
  /\ Choice(log, e, request[r].by) # choice
  /\ AppendEvents(r, Own(r, choice, e))

Commit(r, e) ==
  /\ ByModerator(r)
  /\ Candidate(log, e) # 0
  /\ Status(log, e) \notin {"committed", "meta-disagreement", "withdrawn"}
  /\ Present(log) # {}
  /\ \A p \in Present(log) : Choice(log, e, p) = "agree"
  /\ AppendEvents(r, Own(r, "commit", e))

\* Somebody's standing vote disputes the proposal.
MarkMetaDisagreement(r, q) ==
  /\ ByModerator(r)
  /\ q \in Pending(log)
  /\ LET e == log[q].on IN
     /\ q = Candidate(log, e)
     /\ \E p \in Clients : Choice(log, e, p) = "dispute"
     /\ Status(log, e) \notin {"meta-disagreement", "committed", "withdrawn"}
     /\ AppendEvents(r, Own(r, "meta-disagreement-marked", e))

\* Mutant: anybody may withdraw a proposal.
Anybodys(r, q) == TRUE

\* The one write the engine does not see: the proposer's, joined or not.
ByProposer(r, q) == request[r].by = log[q].by

\* A capture's node is retracted; any other proposal is withdrawn.
WithdrawProposal(r, q) ==
  /\ q \in Pending(log)
  /\ ByProposer(r, q)
  /\ AppendEvents(r, Own(r, IF log[q].on = 0 THEN "proposal-withdrawn"
                                             ELSE "entity-removed", q))

\* The facet carries a commit mark, of this candidate or an earlier one.
WithdrawAgreement(r, e) ==
  /\ ByParticipant(r)
  /\ Happened(log, "commit", e) # {}
  /\ Choice(log, e, request[r].by) = "agree"
  /\ AppendEvents(r, Own(r, "withdraw-agreement", e))

\* The host is the session row's, and looked at before the sequence.
LabelSnapshot(r) ==
  /\ request[r].by = Host
  /\ AppendEvents(r, Own(r, "snapshot-created", 0))

Writes(r) ==
  /\ request[r].phase = "ready"
  /\ \/ ProposeValue(r) \/ ProposeCapture(r) \/ LabelSnapshot(r)
     \/ \E e \in Entities(log) :
          \/ Vote(r, e, "agree") \/ Vote(r, e, "dispute")
          \/ Commit(r, e) \/ WithdrawAgreement(r, e)
     \/ \E q \in Proposals(log) :
          MarkMetaDisagreement(r, q) \/ WithdrawProposal(r, q)

\* The log moved on, or the handler or the engine found the action unlawful:
\* the transaction rolls back.  Any write may meet that.
Reject(r) ==
  /\ request[r].phase = "ready"
  /\ Refuse(r)

\* No lock: the log as the pool's connection reads it, then the answer.
TakeSnapshot(r) ==
  /\ request[r].phase = "ready"
  /\ Answer(r, Frame("snapshot-state", r, Len(log)))
  /\ Done(r, 0)
  /\ UNCHANGED <<log, room, privacy, subscribed>>

----------------------------------------------------------------------------
(* After COMMIT: the bus, then the acknowledgement *)

EventFrames(r) ==
  [i \in 1..(request[r].last - request[r].first + 1) |->
     Frame("event-applied", r, request[r].first + i - 1)]

Ack(r) == IF request[r].alive THEN <<Frame("ack", r, request[r].last)>> ELSE <<>>

\* Mutant: the requester hears the acknowledgement first.
AckFirst(r, c) ==
  (IF c = request[r].by THEN Ack(r) ELSE <<>>) \o
  (IF c \in subscribed THEN EventFrames(r) ELSE <<>>)

\* What one client's socket is sent.
Outcome(r, c) ==
  (IF c \in subscribed THEN EventFrames(r) ELSE <<>>) \o
  (IF c = request[r].by THEN Ack(r) ELSE <<>>)

Settle(r) ==
  /\ request[r].phase = "committed"
  /\ sent' = [c \in Clients |-> sent[c] \o Outcome(r, c)]
  /\ Done(r, request[r].expected)
  /\ UNCHANGED <<log, room, privacy, subscribed>>

----------------------------------------------------------------------------
(* What else happens to the session and to the sockets *)

\* An HTTP route's membership event, under the same lock.
Member(kind) ==
  /\ room > 0
  /\ (kind = "participant-joined") = (Debater \notin Current(log))
  /\ log' = Append(log, Event(kind, Debater, 0, NoRequest))
  /\ room' = room - 1
  /\ UNCHANGED <<privacy, subscribed, request, sent>>

\* The subscribe handler, without its await.
Subscribe(c) ==
  /\ c \notin subscribed
  /\ Visible(c)
  /\ subscribed' = subscribed \cup {c}
  /\ UNCHANGED <<log, room, privacy, request, sent>>

\* The privacy route, and the prune that follows it.
SetPrivacy ==
  /\ privacy' \in {"public", "private"} \ {privacy}
  /\ subscribed' = {c \in subscribed : privacy' = "public" \/ Visible(c)}
  /\ UNCHANGED <<log, room, request, sent>>

\* The socket closes: its registration and what it carried are gone, its
\* handlers run on.  The client opens another.
Drop(c) ==
  /\ subscribed' = subscribed \ {c}
  /\ sent' = [sent EXCEPT ![c] = <<>>]
  /\ request' = [r \in Requests |->
       IF request[r].phase \in {"checking", "ready", "committed"} /\ request[r].by = c
         THEN [request[r] EXCEPT !.alive = FALSE] ELSE request[r]]
  /\ UNCHANGED <<log, room, privacy>>

\* The process dies with its handlers; only what was committed remains.
Restart ==
  /\ subscribed' = {}
  /\ sent' = [c \in Clients |-> <<>>]
  /\ request' = [r \in Requests |->
       IF request[r].phase = "committed" THEN Finished(request[r].by, request[r].expected)
       ELSE IF request[r].phase \in {"checking", "ready"} THEN Finished(request[r].by, 0)
       ELSE request[r]]
  /\ UNCHANGED <<log, room, privacy>>

----------------------------------------------------------------------------
Next ==
  \/ \E r \in Requests, c \in Clients : Send(r, c)
  \/ \E r \in Requests, c \in Clients : SendNonsense(r, c)
  \/ \E r \in Requests : SeeSession(r)
  \/ \E r \in Requests : Writes(r)
  \/ \E r \in Requests : Reject(r)
  \/ \E r \in Requests : TakeSnapshot(r)
  \/ \E r \in Requests : Fail(r)
  \/ \E r \in Requests : Settle(r)
  \/ Member("participant-joined")
  \/ Member("participant-left")
  \/ \E c \in Clients : Subscribe(c)
  \/ SetPrivacy
  \/ \E c \in Clients : Drop(c)
  \/ Restart

Spec == Init /\ [][Next]_vars

----------------------------------------------------------------------------
(* Properties *)

Before(i) == SubSeq(log, 1, i - 1)

\* The writer of event i was entitled to it by the log that preceded it.
Entitled(i) ==
  LET e == log[i] IN
  IF e.kind \in {"commit", "meta-disagreement-marked", "snapshot-created"} THEN e.by = Host
  ELSE IF e.kind \in {"proposal-withdrawn", "entity-removed"} THEN e.by = log[e.on].by
  ELSE \/ e.kind \in {"participant-joined", "participant-left"}
       \/ e.by \in Current(Before(i))

Batch(r) == {i \in DOMAIN log : log[i].req = r}

\* However requests, seat changes, lost sockets and restarts interleave: each
\* event was written by a user entitled to it by the log just before it; the
\* events of one envelope are adjacent and start right after the log its
\* sender had seen; only a pending proposal is withdrawn or marked, and no
\* candidate is committed twice.
WritesAreSound ==
  /\ \A i \in DOMAIN log : Entitled(i)
  /\ \A r \in Requests : Batch(r) # {} =>
       Batch(r) = (request[r].expected + 1)..Max(Batch(r))
  /\ \A i \in DOMAIN log :
       /\ log[i].kind = "proposal-withdrawn" => log[i].on \in Pending(Before(i))
       /\ log[i].kind = "meta-disagreement-marked" =>
            Candidate(Before(i), log[i].on) \in Pending(Before(i))
       /\ log[i].kind = "commit" => ~CommittedNow(Before(i), log[i].on)

Answers(c, r) ==
  {i \in DOMAIN sent[c] : sent[c][i].req = r /\ sent[c][i].type # "event-applied"}

\* What a client may conclude from an answer: there is one at most, and only to
\* the one who asked; an acknowledgement names the last event of the envelope's
\* batch and no event of that batch follows it on the socket; a refused
\* envelope appended nothing, then or later; a snapshot holds at least what the
\* socket had delivered before it.
AnswersAreTrue ==
  \A c \in Clients, r \in Requests :
    /\ Cardinality(Answers(c, r)) <= 1
    /\ \A i \in Answers(c, r) :
         /\ request[r].by = c
         /\ sent[c][i].type = "ack" =>
              /\ sent[c][i].seq = Max(Batch(r))
              /\ \A j \in i..Len(sent[c]) :
                   ~(sent[c][j].type = "event-applied" /\ sent[c][j].req = r)
         /\ sent[c][i].type = "refused" => Batch(r) = {}
         /\ sent[c][i].type = "snapshot-state" =>
              \A j \in 1..(i - 1) :
                sent[c][j].type = "event-applied" => sent[c][j].seq <= sent[c][i].seq

=============================================================================
