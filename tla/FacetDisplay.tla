---------------------------- MODULE FacetDisplay ----------------------------
(* What a client shows of the facets of FacetAgreement.  It folds the       *)
(* events it receives with rules of its own (computeFacetStatuses), and     *)
(* lays over the result the statuses the server derives after each event    *)
(* and sends in proposal-status frames (deriveFacetStatusIndex).  The       *)
(* server derives them in tasks nobody awaits, one per event, and the store *)
(* keeps whatever frame comes last.                                         *)
(*                                                                          *)
(* SessionSync shows that events arrive in order; frames of either kind     *)
(* leave by the same socket and are handled in the order they were sent, so *)
(* the client is taken at the point of its socket it has read up to.        *)
EXTENDS FacetAgreement, Sequences

CONSTANT MaxFrames  \* bound: status frames under way at once

ASSUME FrameAssumption == MaxFrames \in Nat

VARIABLES
  tally,      \* the fold: perParticipant of each facet
  recanted,   \*   withdrawals
  marked,     \*   committed
  closed,     \*   metaDisagreement
  offered,    \*   hasCandidate
  supplier,   \*   candidateProposalEventId, 0 for null
  prior,      \*   priorHasCandidate of each proposal
  frames,     \* statuses of each facet derived and not yet applied, by event
  cell,       \* pendingProposalFacetStatus
  upset       \* history: facets whose cell no frame on its way will put right

fold == <<tally, recanted, marked, closed, offered, supplier, prior>>
overlay == <<frames, cell, upset>>
displayVars == <<vars, fold, overlay>>

Statuses == {"meta-disagreement", "awaiting-proposal", "withdrawn", "disputed",
             "committed", "agreed", "proposed"}

\* No cell for this facet.
NoCell == "none"

Proposed == 1..MaxProposals
Nobody == [p \in Participants |-> "none"]

DisplayInit ==
  /\ Init
  /\ tally = [f \in Facets |-> Nobody]
  /\ recanted = [f \in Facets |-> {}]
  /\ marked = [f \in Facets |-> FALSE]
  /\ closed = [f \in Facets |-> FALSE]
  /\ offered = [f \in Facets |-> candidate[f] # NoValue]
  /\ supplier = source
  /\ prior = [i \in Proposed |-> EntityKind = "node"]
  /\ frames = [f \in Facets |-> <<>>]
  /\ cell = [f \in Facets |-> NoCell]
  /\ upset = {}

----------------------------------------------------------------------------
(* The screen *)

\* derive: the same rules as Status, except that `committed` is not about a
\* particular candidate.
FoldedStatus(f) ==
  IF closed[f] THEN "meta-disagreement"
  ELSE IF ~offered[f] THEN "awaiting-proposal"
  ELSE IF marked[f] /\ recanted[f] \cap present # {} THEN "withdrawn"
  ELSE IF \E p \in present : tally[f][p] = "dispute" THEN "disputed"
  ELSE IF marked[f] THEN "committed"
  ELSE IF present # {} /\ \A p \in present : tally[f][p] = "agree" THEN "agreed"
  ELSE "proposed"

\* deriveFacetStatusIndex: the cell wins where there is one.
Display(f) == IF cell[f] = NoCell THEN FoldedStatus(f) ELSE cell[f]

----------------------------------------------------------------------------
(* The frames *)

UnderWay == UNION {{f} \X DOMAIN frames[f] : f \in Facets}

\* Mutant: the projection is loaded up to the event and without it.
AnnounceBefore(f) ==
  /\ Cardinality(UnderWay) < MaxFrames
  /\ frames' = [frames EXCEPT ![f] = Append(@, Status(f))]
  /\ upset' = upset \ {f}
  /\ UNCHANGED cell

\* A proposal, vote, commit or mark: the status of its facet is derived from
\* the log up to and including the event.
Announce(f) ==
  /\ Cardinality(UnderWay) < MaxFrames
  /\ frames' = [frames EXCEPT ![f] = Append(@, Status(f)')]
  /\ upset' = upset \ {f}
  /\ UNCHANGED cell

\* A facet-keyed event is announced under the proposal that supplied the
\* candidate; a facet no proposal supplied, an edge's shape, is skipped.
AnnounceKeyed(f) ==
  IF source[f] # 0 THEN Announce(f)
  ELSE /\ upset' = upset \cup {g \in Facets : Status(g)' # Status(g)}
       /\ UNCHANGED <<frames, cell>>

\* No frame follows any other kind of event.
Unannounced ==
  /\ upset' = upset \cup {g \in Facets : Status(g)' # Status(g)}
  /\ UNCHANGED <<frames, cell>>

Without(s, i) == SubSeq(s, 1, i - 1) \o SubSeq(s, i + 1, Len(s))

\* A derivation ends and its frame is applied, last one wins.
Deliver(f, i) ==
  /\ frames' = [frames EXCEPT ![f] = Without(@, i)]
  /\ cell' = [cell EXCEPT ![f] = frames[f][i]]
  /\ upset' = IF i > 1 THEN upset \cup {f} ELSE upset
  /\ UNCHANGED <<vars, fold>>

\* A derivation fails, or the client was not connected when the event was
\* emitted: the event itself reaches it by catch-up, the frame never does.
Lose(f, i) ==
  /\ frames' = [frames EXCEPT ![f] = Without(@, i)]
  /\ upset' = upset \cup {f}
  /\ UNCHANGED <<vars, fold, cell>>

\* A reloaded page has an empty store and reads the log from its beginning;
\* what was under way goes to the connection it closed.
Reload ==
  /\ cell' = [f \in Facets |-> NoCell]
  /\ frames' = [f \in Facets |-> <<>>]
  /\ upset' = {}
  /\ UNCHANGED <<vars, fold>>

----------------------------------------------------------------------------
(* One event of the log, and what the fold makes of it *)

\* Mutant: the votes on the old candidate stay in the tally.
FoldProposalKeepingVotes(f) ==
  /\ prior' = [prior EXCEPT ![nextId] = offered[f]]
  /\ offered' = [offered EXCEPT ![f] = TRUE]
  /\ supplier' = [supplier EXCEPT ![f] = nextId]
  /\ UNCHANGED <<tally, recanted, marked, closed>>

FoldProposal(f) ==
  /\ prior' = [prior EXCEPT ![nextId] = offered[f]]
  /\ offered' = [offered EXCEPT ![f] = TRUE]
  /\ supplier' = [supplier EXCEPT ![f] = nextId]
  /\ tally' = [tally EXCEPT ![f] = Nobody]
  /\ UNCHANGED <<recanted, marked, closed>>

FoldVote(p, f, c) ==
  /\ tally' = [tally EXCEPT ![f][p] = c]
  /\ UNCHANGED <<recanted, marked, closed, offered, supplier, prior>>

FoldCommit(f) ==
  /\ marked' = [marked EXCEPT ![f] = TRUE]
  /\ UNCHANGED <<tally, recanted, closed, offered, supplier, prior>>

FoldMark(f) ==
  /\ closed' = [closed EXCEPT ![f] = TRUE]
  /\ UNCHANGED <<tally, recanted, marked, offered, supplier, prior>>

FoldWithdrawAgreement(p, f) ==
  /\ recanted' = [recanted EXCEPT ![f] = @ \cup {p}]
  /\ UNCHANGED <<tally, marked, closed, offered, supplier, prior>>

\* proposal-withdrawn: the facet goes back to what it was before the proposal,
\* if the proposal is still the one that supplies its candidate.
FoldProposalWithdrawn(q) ==
  /\ IF supplier[q.facet] = q.id
       THEN /\ tally' = [tally EXCEPT ![q.facet] = Nobody]
            /\ offered' = [offered EXCEPT ![q.facet] = prior[q.id]]
            /\ supplier' = [supplier EXCEPT ![q.facet] = 0]
       ELSE UNCHANGED <<tally, offered, supplier>>
  /\ UNCHANGED <<recanted, marked, closed, prior>>

----------------------------------------------------------------------------
SeePropose(p, f, v) == Propose(p, f, v) /\ FoldProposal(f) /\ Announce(f)

SeeVoteFacet(p, f, c) == VoteFacet(p, f, c) /\ FoldVote(p, f, c) /\ AnnounceKeyed(f)

SeeVoteValueProposal(p, q, c) ==
  VoteValueProposal(p, q, c) /\ FoldVote(p, q.facet, c) /\ Announce(q.facet)

\* The fold counts a vote on a capture for the wording it captured; the server
\* keeps it on the proposal.
SeeVoteCapture(p, q, c) ==
  VoteCapture(p, q, c) /\ FoldVote(p, q.facet, c) /\ Announce(q.facet)

SeeCommitFacet(f) == CommitFacet(f) /\ FoldCommit(f) /\ AnnounceKeyed(f)

SeeCommitCapture(q) == CommitCapture(q) /\ FoldCommit(q.facet) /\ Announce(q.facet)

SeeMark(q) == MarkMetaDisagreement(q) /\ FoldMark(q.facet) /\ AnnounceKeyed(q.facet)

SeeWithdrawAgreement(p, f) ==
  WithdrawAgreement(p, f) /\ FoldWithdrawAgreement(p, f) /\ Unannounced

\* The event of a withdrawn proposal is proposal-withdrawn, or entity-removed
\* when it had minted the entity: then the entity's cells are dropped.
SeeWithdrawProposal(q) ==
  /\ WithdrawProposal(q)
  /\ IF q.kind \in {"capture", "minting"}
       THEN /\ cell' = [f \in Facets |-> NoCell]
            /\ UNCHANGED <<fold, frames, upset>>
       ELSE FoldProposalWithdrawn(q) /\ Unannounced

SeeJoin(p) == Join(p) /\ UNCHANGED fold /\ Unannounced
SeeLeave(p) == Leave(p) /\ UNCHANGED fold /\ Unannounced

DisplayNext ==
  \/ \E p \in Participants, f \in Facets, v \in Values : SeePropose(p, f, v)
  \/ \E p \in Voters, f \in Facets \cap Discussed, c \in {"agree", "dispute"} :
       SeeVoteFacet(p, f, c)
  \/ \E p \in Voters, q \in pending, c \in {"agree", "dispute"} :
       SeeVoteValueProposal(p, q, c) \/ SeeVoteCapture(p, q, c)
  \/ \E f \in Facets : SeeCommitFacet(f)
  \/ \E q \in pending : SeeCommitCapture(q) \/ SeeMark(q) \/ SeeWithdrawProposal(q)
  \/ \E p \in Participants, f \in Facets : SeeWithdrawAgreement(p, f)
  \/ \E p \in Debaters : SeeJoin(p) \/ SeeLeave(p)
  \/ \E f \in Facets : \E i \in DOMAIN frames[f] : Deliver(f, i) \/ Lose(f, i)
  \/ Reload

DisplaySpec == DisplayInit /\ [][DisplayNext]_displayVars

----------------------------------------------------------------------------
(* Properties of the design that hold *)

\* Every variable stays in its type, and the fold attributes the candidate to
\* the proposal that supplied it or to none.
DisplayTypeOK ==
  /\ tally \in [Facets -> [Participants -> Choices]]
  /\ recanted \in [Facets -> SUBSET Participants]
  /\ marked \in [Facets -> BOOLEAN]
  /\ closed \in [Facets -> BOOLEAN]
  /\ offered \in [Facets -> BOOLEAN]
  /\ supplier \in [Facets -> Nat]
  /\ \A f \in Facets : supplier[f] \in {0, source[f]}
  /\ prior \in [Proposed -> BOOLEAN]
  /\ frames \in [Facets -> Seq(Statuses)]
  /\ cell \in [Facets -> Statuses \cup {NoCell}]
  /\ upset \subseteq Facets

\* Where the two rule sets are about the same thing: the commit mark, if any,
\* is about the candidate on the facet, whose proposal was not withdrawn, and
\* nobody voted on the capture.
Comparable(f) ==
  /\ committedAt[f] => committed[f] = candidate[f]
  /\ supplier[f] = source[f]
  /\ \A p \in Participants : captureVotes[p] = "none"

\* The client's fold of the log and the server's projection of it give the
\* same status (facet-status.ts of the shell mirrors facet-status.ts of the
\* server, but keeps one commit flag per facet, restores the facet when a
\* proposal is withdrawn and counts votes on a capture for the wording).
FoldsAgree == \A f \in Facets : Comparable(f) => FoldedStatus(f) = Status(f)

\* Once the frames of a facet have all arrived in the order of their events,
\* and nothing has changed its status that no frame follows, the cell shows
\* the status the server holds.
CellsSettle ==
  \A f \in Facets \ upset :
    frames[f] = <<>> /\ cell[f] # NoCell => cell[f] = Status(f)
=============================================================================
