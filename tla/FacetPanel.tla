------------------------------ MODULE FacetPanel ------------------------------
(* The controls a person is given over the facets of FacetAgreement, and    *)
(* the folds of the event log they are derived from: the vote buttons of a  *)
(* debater's tablet (projectOwnFacetVotes), the "my agreements" list        *)
(* (derivePersonalAgreements), and the moderator's list of pending          *)
(* proposals with its commit gate (derivePendingProposals,                  *)
(* projectVotesByFacet, deriveAllAgree).                                    *)
(*                                                                          *)
(* A control is a state predicate here.  Using it sends a request that      *)
(* carries the client's position in the log; one that is behind is refused  *)
(* (SessionSync), so an accepted request was made on the log as it stands.  *)
EXTENDS FacetDisplay

VARIABLES
  own,       \* projectOwnFacetVotes of each participant, by facet
  ballots,   \* projectVotesByFacet
  agreedTo,  \* derivePersonalAgreements: candidateValue of each agreement
  made,      \* the proposals of the log
  latest,    \* currentProposalByFacet, 0 when the map has no entry
  ended      \* terminatedProposalIds

folds == <<own, ballots, agreedTo, made, latest, ended>>
panelVars == <<displayVars, folds>>

Unvoted == [f \in Facets |-> Nobody]

Made(q, v) == [id |-> q.id, facet |-> q.facet, kind |-> q.kind, value |-> v]

PanelInit ==
  /\ DisplayInit
  /\ own = Unvoted
  /\ ballots = Unvoted
  /\ agreedTo = [f \in Facets |-> [p \in Participants |-> NoValue]]
  /\ made = {Made(q, candidate[q.facet]) : q \in pending}
  /\ latest = source
  /\ ended = {}

----------------------------------------------------------------------------
(* The folds *)

\* A proposal about a facet clears the person's own vote on it.  The votes
\* everybody else's dots and the commit gate are drawn from stay.
PanelProposal(f, v) ==
  /\ \E q \in pending' \ pending : made' = made \cup {Made(q, v)}
  /\ latest' = [latest EXCEPT ![f] = nextId]
  /\ own' = [own EXCEPT ![f] = Nobody]
  /\ UNCHANGED <<ballots, agreedTo, ended>>

\* Mutant: the list shows the first value ever proposed for the facet.
AgreeToTheFirst(p, f, c, i) ==
  agreedTo' =
    IF i = 0 THEN agreedTo
    ELSE [agreedTo EXCEPT ![f][p] =
            IF c = "agree"
              THEN (CHOOSE m \in made :
                      m.facet = f /\ \A n \in made : n.facet = f => m.id <= n.id).value
              ELSE NoValue]

\* "My agreements" resolves the value through proposal i; a vote that no
\* proposal explains is passed over, a dispute takes the row away.
AgreeTo(p, f, c, i) ==
  agreedTo' =
    IF i = 0 THEN agreedTo
    ELSE [agreedTo EXCEPT ![f][p] =
            IF c = "agree" THEN (CHOOSE m \in made : m.id = i).value ELSE NoValue]

PanelVote(p, f, c, i) ==
  /\ own' = [own EXCEPT ![f][p] = c]
  /\ ballots' = [ballots EXCEPT ![f][p] = c]
  /\ AgreeTo(p, f, c, i)
  /\ UNCHANGED <<made, latest, ended>>

\* A vote on a capture is not about a facet for the buttons and the gate.
PanelVoteCapture(p, q, c) ==
  /\ AgreeTo(p, q.facet, c, q.id)
  /\ UNCHANGED <<own, ballots, made, latest, ended>>

\* Mutant: the newest proposal of all is ended.
PanelSettleNewest(f) ==
  /\ ended' = ended \cup {m.id : m \in {n \in made : \A o \in made : o.id <= n.id}}
  /\ UNCHANGED <<own, ballots, agreedTo, made, latest>>

\* A commit or a mark keyed by facet ends the facet's latest proposal only.
PanelSettleFacet(f) ==
  /\ ended' = ended \cup ({latest[f]} \ {0})
  /\ UNCHANGED <<own, ballots, agreedTo, made, latest>>

\* proposal-withdrawn names its proposal; entity-removed ends the last
\* proposal that created the entity.
PanelWithdrawProposal(q) ==
  /\ ended' = ended \cup
       IF q.kind \in {"capture", "minting"}
         THEN {m.id : m \in {n \in made :
                 /\ n.kind \in {"capture", "minting"}
                 /\ \A o \in made : o.kind \in {"capture", "minting"} => o.id <= n.id}}
         ELSE {q.id}
  /\ UNCHANGED <<own, ballots, agreedTo, made, latest>>

PanelCommitCapture(q) ==
  /\ ended' = ended \cup {q.id}
  /\ UNCHANGED <<own, ballots, agreedTo, made, latest>>

----------------------------------------------------------------------------
(* The controls *)

\* The rows of the pending-proposals panes.
Rows == {m \in made : m.id \notin ended}

\* deriveAllAgree on a row of the facet: the commit button is enabled.
AllAgree(f) ==
  /\ Display(f) # "meta-disagreement"
  /\ present # {}
  /\ \A p \in present : ballots[f][p] = "agree"

\* The commit button of a row of the moderator's list.
CommitOffered(m) == m \in Rows /\ AllAgree(m.facet)

\* VOTABLE_STATUSES
Votable == {"agreed", "proposed", "disputed", "withdrawn"}

\* Mutant: the buttons leave out the vote drawn in the other panes.
OfferedByBallot(p, f) ==
  IF Display(f) \in Votable THEN {"agree", "dispute"} \ {ballots[f][p]}
  ELSE IF Display(f) = "committed" THEN {"withdraw"}
  ELSE {}

\* Both choices but the one already made, while a vote is possible.
VoteButtons(p, f) ==
  IF Display(f) \in Votable THEN {"agree", "dispute"} \ {own[f][p]} ELSE {}

\* The buttons of a facet's row beside the graph: once it is committed, the
\* withdrawal of an agreement.
Offered(p, f) == IF Display(f) = "committed" THEN {"withdraw"} ELSE VoteButtons(p, f)

\* The buttons of a row of the tablet's list of proposals, on a facet: never
\* the withdrawal.
OfferedInPane(p, f) == VoteButtons(p, f)

\* rollUp: of several facets' votes one colour, a dispute first.
RollUp(cast) ==
  IF "dispute" \in cast THEN "dispute"
  ELSE IF "agree" \in cast THEN "agree" ELSE "none"

\* projectOwnVotes and projectOtherVotes: the entity's colour for p.
Chip(p) == RollUp({ballots[f][p] : f \in Facets})

----------------------------------------------------------------------------
PanelNext ==
  \/ \E p \in Participants, f \in Facets, v \in Values :
       SeePropose(p, f, v) /\ PanelProposal(f, v)
  \/ \E p \in Voters, f \in Facets \cap Discussed, c \in {"agree", "dispute"} :
       SeeVoteFacet(p, f, c) /\ PanelVote(p, f, c, latest[f])
  \/ \E p \in Voters, q \in pending, c \in {"agree", "dispute"} :
       \/ SeeVoteValueProposal(p, q, c) /\ PanelVote(p, q.facet, c, q.id)
       \/ SeeVoteCapture(p, q, c) /\ PanelVoteCapture(p, q, c)
  \/ \E f \in Facets : SeeCommitFacet(f) /\ PanelSettleFacet(f)
  \/ \E q \in pending :
       \/ SeeCommitCapture(q) /\ PanelCommitCapture(q)
       \/ SeeMark(q) /\ PanelSettleFacet(q.facet)
       \/ SeeWithdrawProposal(q) /\ PanelWithdrawProposal(q)
  \/ \E p \in Participants, f \in Facets :
       SeeWithdrawAgreement(p, f) /\ UNCHANGED folds
  \/ \E p \in Debaters : (SeeJoin(p) \/ SeeLeave(p)) /\ UNCHANGED folds
  \/ \E f \in Facets : \E i \in DOMAIN frames[f] :
       (Deliver(f, i) \/ Lose(f, i)) /\ UNCHANGED folds
  \/ Reload /\ UNCHANGED folds

PanelSpec == PanelInit /\ [][PanelNext]_panelVars

----------------------------------------------------------------------------
(* Properties of the design that hold *)

\* The vote a tablet shows as the person's own is the one the server counts,
\* none when the candidate was replaced since (projectOwnFacetVotes against
\* the projection's perParticipant).
OwnVotesAreCounted ==
  \A f \in Facets, p \in Participants : own[f][p] = votes[f][p].choice

\* A dispute the server counts, on whichever facet, shows in the colour of
\* the entity.
DisputesShow ==
  \A f \in Facets, p \in Participants :
    votes[f][p].choice = "dispute" => Chip(p) = "dispute"

\* The value listed under "my agreements" is the one on the table whenever
\* the person's agreement to the present candidate is what the server counts.
\* A vote on a capture goes to the same row and to another count.
AgreementsAreToTheCandidate ==
  \A f \in Facets, p \in Participants :
    /\ captureVotes[p] = "none"
    /\ votes[f][p] = [choice |-> "agree", on |-> source[f]]
    /\ source[f] # 0
    => agreedTo[f][p] = candidate[f]

\* Three folds of one log, each with rules of its own about a vote on a
\* capture, on a proposal and on a replaced candidate, show a person the votes
\* that count.
VotesAreShown ==
  DisplayTypeOK /\ OwnVotesAreCounted /\ DisputesShow /\ AgreementsAreToTheCandidate

\* Nothing that still waits for a decision is missing from the lists: every
\* pending proposal of an entity that was not withdrawn has its row, whichever
\* proposals were committed, marked or withdrawn around it.
PendingHasItsRow ==
  visible => \A q \in pending : \E m \in Rows : m.id = q.id

\* A row the server no longer knows as pending is one that a later proposal on
\* the same facet has overtaken, unless somebody voted on the capture itself.
DeadRowsAreOvertaken ==
  (\A p \in Participants : captureVotes[p] = "none") =>
    \A m \in Rows : (\E q \in pending : q.id = m.id) \/ m.id < latest[m.facet]

\* The moderator's list, which closes rows by rules of its own, is the
\* server's set of pending proposals up to rows that were overtaken.
RowsFollowTheServer == PendingHasItsRow /\ DeadRowsAreOvertaken

\* What all debaters agreed on can be committed from the list: the gate that
\* mirrors the engine's rule of unanimity never shuts it out.
AgreedCanBeCommitted ==
  \A q \in pending :
    visible /\ q.id = source[q.facet] /\ Status(q.facet) = "agreed" =>
      \E m \in Rows : m.id = q.id /\ CommitOffered(m)

\* A vote the server would take from a debater is offered on the tablet of
\* that debater, beside the graph and in the list of proposals, once the
\* status shown is the server's.
TakenVotesAreOffered ==
  \A p \in Voters, f \in Facets, c \in {"agree", "dispute"} :
    CanVoteFacet(p, f, c) /\ Display(f) = Status(f) =>
      c \in Offered(p, f) \cap OfferedInPane(p, f)

\* No control is missing: the screens never shut out a commit or a vote that
\* the engine, whose rules they repeat in code of their own, would take.
WhatIsTakenIsOffered == AgreedCanBeCommitted /\ TakenVotesAreOffered
=============================================================================
