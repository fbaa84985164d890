--------------------------- MODULE FacetAgreement ---------------------------
(* The agreement life of the facets of ONE entity (a node or an edge) of a  *)
(* debate session: the methodology handlers (propose, vote, commit,         *)
(* mark-meta-disagreement), the two WebSocket-only handlers (withdraw-      *)
(* agreement, withdraw-proposal) and the replay of their events into the    *)
(* projection.                                                              *)
(*                                                                          *)
(* Every handler locks the session row, replays the whole log, validates,   *)
(* appends and commits before it releases the lock, so one accepted request *)
(* is one atomic action here: the validator's conditions are its guard and  *)
(* the replay of the events it appends is its effect.  Requests the         *)
(* validator rejects change nothing and are not actions.                    *)
(*                                                                          *)
(* A proposal is named by the position it was made at (the code uses the    *)
(* proposal event's UUID); 0 stands for the code's empty string, "no        *)
(* proposal supplied this candidate".                                       *)
EXTENDS Integers, FiniteSets

CONSTANTS
  Debaters,      \* the users that may sit as debater-A or debater-B
  Moderator,     \* the session's host, who moderates and never leaves
  Values,        \* the candidate values (a kind, a substance, a wording)
  NoValue,       \* the code's null
  EntityKind,    \* "node" or "edge"
  MaxProposals,  \* bound: proposals made about the entity
  Discussed,     \* bound: facets that proposals and votes are about
  Voters         \* bound: participants that vote

ASSUME ModeratorAssumption == Moderator \notin Debaters
ASSUME ValueAssumption == NoValue \notin Values
ASSUME KindAssumption == EntityKind \in {"node", "edge"}
ASSUME BoundAssumption == MaxProposals \in Nat
ASSUME VoterAssumption == Voters \subseteq Debaters \cup {Moderator}

Facets == IF EntityKind = "node"
            THEN {"wording", "classification", "substance"}
            ELSE {"shape", "substance"}

\* The facet whose candidate rides on the entity's creation event.
InlineFacet == IF EntityKind = "node" THEN "wording" ELSE "shape"

\* No proposal kind targets an edge's shape.
Proposable == Facets \ {"shape"}

Participants == Debaters \cup {Moderator}

\* A session has two debater seats.
Seats == 2

Choices == {"none", "agree", "dispute"}

\* "capture": capture-node.  "value": classify-node, set-node-substance,
\* edit-wording, or a set-edge-substance that names only the edge.
\* "minting": a set-edge-substance that carries the edge's endpoints.
ProposalKinds == {"capture", "value", "minting"}

VARIABLES
  present,      \* debaters currently joined
  candidate,    \* candidateValue of each facet
  source,       \* candidateProposalEventId of each facet
  votes,        \* perParticipant of each facet: choice and proposalEventId
  withdrawals,  \* participants that withdrew agreement from each facet
  committedAt,  \* whether each facet carries a commit mark
  committed,    \* committedCandidateValue of each facet
  meta,         \* metaDisagreement of each facet
  pending,      \* the projection's pending proposals
  captureVotes, \* perParticipantVotes of the pending capture proposal
  visible,      \* whether the entity is still visible
  nextId,       \* position the next proposal takes
  witnessed     \* history: the candidate's source when each vote was cast

facetVars == <<candidate, source, votes, withdrawals, committedAt, committed,
               meta, witnessed>>
vars == <<present, facetVars, pending, captureVotes, visible, nextId>>

----------------------------------------------------------------------------
(* Derived facet status *)

NoVote == [choice |-> "none", on |-> 0]

\* Whether the commit mark is about the candidate now on the facet.
CommittedNow(f) ==
  /\ committedAt[f]
  /\ committed[f] # NoValue
  /\ committed[f] = candidate[f]

\* Mutant: a debater who has not voted is taken to agree.
NobodyObjects(f) ==
  /\ present # {}
  /\ \A p \in present : votes[f][p].choice # "dispute"

\* Every debater now present has an agreeing vote on record.
Unanimous(f) ==
  /\ present # {}
  /\ \A p \in present : votes[f][p].choice = "agree"

\* deriveFacetStatusFromState: the first rule that applies decides.
Status(f) ==
  IF meta[f] THEN "meta-disagreement"
  ELSE IF candidate[f] = NoValue THEN "awaiting-proposal"
  ELSE IF CommittedNow(f) /\ withdrawals[f] \cap present # {} THEN "withdrawn"
  ELSE IF \E p \in present : votes[f][p].choice = "dispute" THEN "disputed"
  ELSE IF CommittedNow(f) THEN "committed"
  ELSE IF Unanimous(f) THEN "agreed"
  ELSE "proposed"

\* currentParticipants: the moderator and the debaters who have not left.
Current == present \cup {Moderator}

----------------------------------------------------------------------------
(* Initial states: the entity has just been created.                        *)
(*  - A node comes from capture-node: its wording is the inline candidate   *)
(*    and the capture proposal is pending.                                  *)
(*  - An edge comes from capture-node with an edge block (shape only), or   *)
(*    from a set-edge-substance that carries its endpoints, whose proposal  *)
(*    also names the substance candidate.                                   *)

Minted(f, v, p) ==
  /\ candidate = [g \in Facets |-> IF g \in {f, InlineFacet} THEN v ELSE NoValue]
  /\ source = [g \in Facets |-> IF g = f THEN 1 ELSE 0]
  /\ pending = {[id |-> 1, facet |-> f, proposer |-> p,
                 kind |-> IF EntityKind = "node" THEN "capture" ELSE "minting"]}

CapturedEdge(v) ==
  /\ EntityKind = "edge"
  /\ candidate = [g \in Facets |-> IF g = InlineFacet THEN v ELSE NoValue]
  /\ source = [g \in Facets |-> 0]
  /\ pending = {}

Init ==
  /\ present \in {s \in SUBSET Debaters : Cardinality(s) <= Seats}
  /\ \E v \in Values :
       \/ \E p \in Current :
            Minted(IF EntityKind = "node" THEN "wording" ELSE "substance", v, p)
       \/ CapturedEdge(v)
  /\ votes = [f \in Facets |-> [p \in Participants |-> NoVote]]
  /\ witnessed = [f \in Facets |-> [p \in Participants |-> 0]]
  /\ withdrawals = [f \in Facets |-> {}]
  /\ committedAt = [f \in Facets |-> FALSE]
  /\ committed = [f \in Facets |-> NoValue]
  /\ meta = [f \in Facets |-> FALSE]
  /\ captureVotes = [p \in Participants |-> "none"]
  /\ visible = TRUE
  /\ nextId = 2

----------------------------------------------------------------------------
(* propose *)

\* The facet that must be agreed before f may be proposed.
Gate(f) ==
  CASE f = "classification" -> Status("wording") \in {"agreed", "committed"}
    [] f = "substance" ->
         Status(IF EntityKind = "node" THEN "classification" ELSE "shape")
           \in {"agreed", "committed"}
    [] OTHER -> TRUE

\* An edit-wording needs a visible node with no other edit pending.
EditAllowed(f) ==
  f = "wording" =>
    /\ visible
    /\ ~\E q \in pending : q.facet = "wording" /\ q.kind = "value"

\* Mutant: the votes on the old candidate are left standing.
KeepVotes(f) == UNCHANGED <<votes, witnessed>>

\* perParticipant is emptied: no vote survives a change of candidate.
ClearVotes(f) ==
  /\ votes' = [votes EXCEPT ![f] = [r \in Participants |-> NoVote]]
  /\ witnessed' = [witnessed EXCEPT ![f] = [r \in Participants |-> 0]]

\* A facet-valued proposal puts a new candidate on the facet and clears its
\* votes.  Withdrawals, the commit mark and the meta-disagreement flag stay.
Propose(p, f, v) ==
  /\ nextId <= MaxProposals
  /\ p \in Current
  /\ f \in Proposable \cap Discussed
  /\ Gate(f)
  /\ EditAllowed(f)
  /\ \E k \in {"value", "minting"} :
       /\ k = "minting" => EntityKind = "edge"
       /\ pending' = pending \cup
            {[id |-> nextId, facet |-> f, proposer |-> p, kind |-> k]}
  /\ candidate' = [candidate EXCEPT ![f] = v]
  /\ source' = [source EXCEPT ![f] = nextId]
  /\ ClearVotes(f)
  /\ nextId' = nextId + 1
  /\ UNCHANGED <<present, withdrawals, committedAt, committed, meta,
                 captureVotes, visible>>

----------------------------------------------------------------------------
(* vote *)

\* Mutant: a committed facet still takes votes.
CanVoteCommitted(p, f, c) ==
  /\ p \in Current
  /\ Status(f) \in {"proposed", "disputed", "committed"}
  /\ votes[f][p].choice # c

\* Whether the facet arm of the vote handler accepts choice c from p on f.
CanVoteFacet(p, f, c) ==
  /\ p \in Current
  /\ Status(f) \in {"proposed", "disputed"}
  /\ votes[f][p].choice # c

\* Replay of a vote into the facet, recorded against proposal `id`.
RecordVote(p, f, c, id) ==
  /\ votes' = [votes EXCEPT ![f][p] = [choice |-> c, on |-> id]]
  /\ witnessed' = [witnessed EXCEPT ![f][p] = source[f]]
  /\ UNCHANGED <<present, candidate, source, withdrawals, committedAt,
                 committed, meta, pending, captureVotes, visible, nextId>>

VoteFacet(p, f, c) ==
  /\ CanVoteFacet(p, f, c)
  /\ RecordVote(p, f, c, source[f])

\* The proposal arm names a pending proposal and looks at nothing else.  On a
\* facet-valued proposal the vote lands on the facet, whatever candidate the
\* facet carries by then.
VoteValueProposal(p, q, c) ==
  /\ p \in Current
  /\ q.kind # "capture"
  /\ RecordVote(p, q.facet, c, q.id)

\* On a capture proposal the vote lands on the proposal itself.
VoteCapture(p, q, c) ==
  /\ p \in Current
  /\ q.kind = "capture"
  /\ captureVotes[p] # c
  /\ captureVotes' = [captureVotes EXCEPT ![p] = c]
  /\ UNCHANGED <<present, facetVars, pending, visible, nextId>>

----------------------------------------------------------------------------
(* commit *)

\* clearPendingProposalsForFacet: every proposal on the facet is resolved.
Sweep(f) == pending' = {q \in pending : q.facet # f}

Commit(f) ==
  /\ committedAt' = [committedAt EXCEPT ![f] = TRUE]
  /\ committed' = [committed EXCEPT ![f] = candidate[f]]
  /\ Sweep(f)
  /\ UNCHANGED <<present, candidate, source, votes, withdrawals, meta,
                 captureVotes, visible, nextId, witnessed>>

\* Mutant: the guard forgets the facets that ended in meta-disagreement.
CommitAnyFacet(f) ==
  /\ Status(f) \notin {"committed", "withdrawn"}
  /\ Unanimous(f)
  /\ Commit(f)

\* The facet arm.
CommitFacet(f) ==
  /\ Status(f) \notin {"committed", "meta-disagreement", "withdrawn"}
  /\ Unanimous(f)
  /\ Commit(f)

\* The proposal arm counts the votes kept on the proposal itself.  Those of a
\* facet-valued proposal are always empty, so only a capture can pass.
CommitCapture(q) ==
  /\ q.kind = "capture"
  /\ present # {}
  /\ \A p \in present : captureVotes[p] = "agree"
  /\ Commit(q.facet)

----------------------------------------------------------------------------
(* mark-meta-disagreement, withdraw-agreement, withdraw-proposal *)

\* Someone, the moderator or a debater who left included, disputed proposal q.
Disputed(q) ==
  \E p \in Participants : votes[q.facet][p] = [choice |-> "dispute", on |-> q.id]

\* The moderator may give a dispute up on a facet that is still undecided.
CanMark(q) ==
  /\ Disputed(q)
  /\ Status(q.facet) \notin {"meta-disagreement", "committed", "withdrawn"}

\* The mark sticks to the facet and ends every proposal on it.
MarkMetaDisagreement(q) ==
  /\ CanMark(q)
  /\ meta' = [meta EXCEPT ![q.facet] = TRUE]
  /\ Sweep(q.facet)
  /\ UNCHANGED <<present, candidate, source, votes, withdrawals, committedAt,
                 committed, captureVotes, visible, nextId, witnessed>>

\* The handler asks for a commit mark and an agreeing vote on record, not for
\* a committed candidate.
WithdrawAgreement(p, f) ==
  /\ p \in Current
  /\ committedAt[f]
  /\ votes[f][p].choice = "agree"
  /\ withdrawals' = [withdrawals EXCEPT ![f] = @ \cup {p}]
  /\ UNCHANGED <<present, candidate, source, votes, committedAt, committed,
                 meta, pending, captureVotes, visible, nextId, witnessed>>

\* Only the proposer may withdraw, joined or not.  A proposal that minted an
\* entity retracts the entity and stays pending; any other is removed, and its
\* candidate stays on the facet.
WithdrawProposal(q) ==
  /\ IF q.kind \in {"capture", "minting"}
       THEN visible' = FALSE /\ UNCHANGED pending
       ELSE pending' = pending \ {q} /\ UNCHANGED visible
  /\ UNCHANGED <<present, facetVars, captureVotes, nextId>>

----------------------------------------------------------------------------
(* participant-joined, participant-left *)

Join(p) ==
  /\ p \notin present
  /\ Cardinality(present) < Seats
  /\ present' = present \cup {p}
  /\ UNCHANGED <<facetVars, pending, captureVotes, visible, nextId>>

Leave(p) ==
  /\ p \in present
  /\ present' = present \ {p}
  /\ UNCHANGED <<facetVars, pending, captureVotes, visible, nextId>>

----------------------------------------------------------------------------
Next ==
  \/ \E p \in Participants, f \in Facets, v \in Values : Propose(p, f, v)
  \/ \E p \in Voters, f \in Facets \cap Discussed, c \in {"agree", "dispute"} :
       VoteFacet(p, f, c)
  \/ \E p \in Voters, q \in pending, c \in {"agree", "dispute"} :
       VoteValueProposal(p, q, c)
  \/ \E p \in Voters, q \in pending, c \in {"agree", "dispute"} :
       VoteCapture(p, q, c)
  \/ \E f \in Facets : CommitFacet(f)
  \/ \E q \in pending : CommitCapture(q)
  \/ \E q \in pending : MarkMetaDisagreement(q)
  \/ \E p \in Participants, f \in Facets : WithdrawAgreement(p, f)
  \/ \E q \in pending : WithdrawProposal(q)
  \/ \E p \in Debaters : Join(p)
  \/ \E p \in Debaters : Leave(p)

Spec == Init /\ [][Next]_vars

----------------------------------------------------------------------------
(* Properties of the design that hold *)

Proposals == [id : Nat, facet : Proposable, proposer : Participants,
              kind : ProposalKinds]

\* Every variable stays in its type; proposals are numbered below nextId.
TypeOK ==
  /\ present \subseteq Debaters
  /\ candidate \in [Facets -> Values \cup {NoValue}]
  /\ source \in [Facets -> Nat]
  /\ votes \in [Facets -> [Participants -> [choice : Choices, on : Nat]]]
  /\ witnessed \in [Facets -> [Participants -> Nat]]
  /\ withdrawals \in [Facets -> SUBSET Participants]
  /\ committedAt \in [Facets -> BOOLEAN]
  /\ committed \in [Facets -> Values \cup {NoValue}]
  /\ meta \in [Facets -> BOOLEAN]
  /\ pending \subseteq Proposals
  /\ captureVotes \in [Participants -> Choices]
  /\ visible \in BOOLEAN
  /\ nextId \in Nat

\* A vote never outlives the candidate it was cast on: every vote standing on
\* a facet was cast while the facet's present candidate was already there, so
\* no agreement is carried from one candidate to the next (replay clears
\* perParticipant when a proposal replaces the candidate).
VotesFollowCandidate ==
  \A f \in Facets, p \in Participants :
    votes[f][p].choice # "none" =>
      /\ witnessed[f][p] = source[f]
      /\ candidate[f] # NoValue

\* A commit or a meta-disagreement mark resolves everything pending on the
\* facet, superseded proposals included: as long as a node's capture is
\* pending its wording was never settled, and no pending proposal is newer
\* than the candidate on its facet (clearPendingProposalsForFacet).
PendingIsUnsettled ==
  \A q \in pending :
    /\ q.id <= source[q.facet]
    /\ q.kind = "capture" => ~committedAt[q.facet] /\ ~meta[q.facet]

\* Neither a vote nor a pending proposal is left over from something that was
\* replaced or decided.
NothingIsLeftOver == VotesFollowCandidate /\ PendingIsUnsettled

\* Whatever the arm, a facet gets its commit mark only when every debater
\* present agreed, on the facet or on the capture that created it.  No
\* debater who is present can be committed over in silence or in dispute.
EveryCommitHasEveryVoice ==
  [][\A f \in Facets :
       committedAt'[f] /\ (committedAt[f] => committed'[f] # committed[f]) =>
         /\ present # {}
         /\ \/ \A p \in present : votes[f][p].choice = "agree"
            \/ /\ f = InlineFacet
               /\ \A p \in present : captureVotes[p] = "agree"]_vars

\* A committed facet is reopened by nothing but a new candidate, a withdrawal,
\* a debater joining or leaving, or a vote cast on a proposal pending against
\* it: plain votes on the facet cannot reopen it.
NoSilentReopening ==
  [][\A f \in Facets :
       Status(f) = "committed" /\ Status(f)' # "committed" =>
         \/ candidate'[f] # candidate[f]
         \/ withdrawals'[f] # withdrawals[f]
         \/ present' # present
         \/ \E q \in pending : q.facet = f]_vars

\* Meta-disagreement is final: the facet keeps the flag whatever is proposed,
\* and its commit mark never moves again, through either commit arm.
MetaDisagreementIsFinal ==
  [][\A f \in Facets :
       meta[f] => /\ meta'[f]
                  /\ committedAt'[f] = committedAt[f]
                  /\ committed'[f] = committed[f]]_vars

\* The facets with their votes and proposals implement the decision ledger of
\* FacetDecision: only the value on the table is decided, once per value, and
\* never after the facet is closed.
Decision == INSTANCE FacetDecision WITH
              onTable <- candidate, decided <- committed, closed <- meta
ImplementsFacetDecision == Decision!Spec
=============================================================================
