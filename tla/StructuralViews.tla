-------------------------- MODULE StructuralViews --------------------------
(* What the moderator's, the participants' and the audience's screens make  *)
(* of the log of StructuralProposals.  Each client folds the events it has received into  *)
(* a list of pending proposals (derivePendingProposals), a canvas           *)
(* (projectNodes, selectEdgesForSession, projectGraph), and the marks and   *)
(* badges on it, with rules of its own; the projection on the server is not *)
(* sent.  The moderator's and the participants' applications carry the same *)
(* rules twice; the audience's canvas has fewer.  SessionSync shows that a  *)
(* client receives the log in order; here it has received all of it.        *)
EXTENDS StructuralProposals

VARIABLES
  terminated,  \* terminatedProposalIds
  removed,     \* ids named by an entity-removed event
  superseded,  \* computeSupersededNodeIds
  marks,       \* projectAxiomMarks: the node and whose bedrock it is
  awaited      \* projectPendingAxiomMarks: proposals drawn as dashed dots

views == <<terminated, removed, superseded, marks, awaited>>
viewVars == <<vars, views>>

ViewInit ==
  /\ Init
  /\ terminated = {} /\ removed = {} /\ superseded = {}
  /\ marks = {} /\ awaited = {}

----------------------------------------------------------------------------
(* One step of the log, and what the clients' folds do with its events *)

\* currentProposalByFacet: the newest proposal on a node's wording.
Newest(n) ==
  CHOOSE p \in Made :
    /\ WordingOf(p) = n
    /\ \A q \in Made : WordingOf(q) = n => q <= p

\* An axiom-mark is drawn on its node from the moment it is proposed.
Dotted(k, p) == IF k = "axiom-mark" THEN {p} ELSE {}

SeePropose(k, by, on) ==
  /\ Propose(k, by, on)
  /\ awaited' = awaited \cup Dotted(k, Len(proposals) + 1)
  /\ UNCHANGED <<terminated, removed, superseded, marks>>

SeeVote(d, p) == Vote(d, p) /\ UNCHANGED views

\* The mark a commit turns from a dashed dot into a badge, if it does.
MarkOf(p) ==
  IF Kind(p) = "axiom-mark" THEN {<<On(p), proposals[p].by>>} ELSE {}

\* A proposal-keyed commit ends the row and takes a replaced parent away.
SeeCommit(p) ==
  /\ Commit(p)
  /\ terminated' = terminated \cup {p}
  /\ superseded' = IF Kind(p) \in Replacing
                     THEN superseded \cup {On(p)} ELSE superseded
  /\ marks' = marks \cup MarkOf(p)
  /\ awaited' = awaited \ {p}
  /\ UNCHANGED removed

\* Mutant: whatever the facet, the row of the proposal goes.
SeeSettleAny(p) ==
  /\ SettleFacet(p)
  /\ terminated' = terminated \cup {q \in Made : On(q) = On(p)}
  /\ UNCHANGED <<removed, superseded, marks, awaited>>

\* A facet-keyed event ends the row of the facet's newest proposal only, and
\* none for a component's classification, which registers no proposal.
SeeSettleFacet(p) ==
  /\ SettleFacet(p)
  /\ terminated' = IF WordingOf(p) = NoEntity THEN terminated
                   ELSE terminated \cup {Newest(WordingOf(p))}
  /\ UNCHANGED <<removed, superseded, marks, awaited>>

\* entity-removed ends the row of the proposal that created the entity
\* (proposalByCreatedEntity), proposal-withdrawn that of the one it names.
\* The dot of an axiom-mark has no rule for it and stays.
SeeWithdraw(p) ==
  /\ Withdraw(p)
  /\ terminated' = terminated \cup {p}
  /\ removed' = removed \cup Retracted(p)
  /\ UNCHANGED <<superseded, marks, awaited>>

SeeRest ==
  /\ \/ \E e \in entities : SettleSubstance(e) \/ ReopenSubstance(e)
     \/ \E e \in entities, d \in Debaters : RecantSubstance(e, d)
     \/ \E d \in Debaters : Join(d) \/ Leave(d)
  /\ UNCHANGED views

ViewNext ==
  \/ \E k \in Kinds, by \in Participants, on \in entities \cup {NoEntity} :
       SeePropose(k, by, on)
  \/ \E d \in Debaters, p \in Made : SeeVote(d, p)
  \/ \E p \in Made : SeeCommit(p) \/ SeeSettleFacet(p) \/ SeeWithdraw(p)
  \/ SeeRest

ViewSpec == ViewInit /\ [][ViewNext]_viewVars

----------------------------------------------------------------------------
(* The screens *)

\* The rows of the pending-proposals pane.
Pane == Made \ terminated

\* The node cards.
CanvasNodes == {e \in entities : IsNode(e)} \ (removed \cup superseded)

\* The edges drawn: not retracted, and with both ends on the canvas.
CanvasEdges ==
  {e \in entities : /\ IsEdge(e)
                    /\ e \notin removed
                    /\ e[3] \in CanvasNodes
                    /\ LinkTarget(e[2]) \in CanvasNodes}

Broken == {On(p) : p \in {q \in committed : Kind(q) = "break"}}

\* The annotation badges: each is drawn on the card or the edge it is about.
Badges ==
  {e \in entities : IsAnnotation(e) /\ On(e[2]) \in CanvasNodes \cup CanvasEdges}

\* The audience's cards: its fold honours what a commit takes away and has no
\* rule for entity-removed.
AudienceNodes == {e \in entities : IsNode(e)} \ superseded

\* The audience's edges: those with both ends on its canvas.
AudienceEdges ==
  {e \in entities : /\ IsEdge(e)
                    /\ e[3] \in AudienceNodes
                    /\ LinkTarget(e[2]) \in AudienceNodes}

\* What proposals that were taken back had put on the graph.
LeftBehind == UNION {Minted(Kind(p), p, On(p)) : p \in withdrawn}

\* The structural row that a node's or an edge's detail panel offers d: nobody
\* is asked about his own bedrock, and capture, wording, break-edge and
\* meta-move proposals have no such row.
OffersRow(p, d) ==
  /\ Kind(p) \in Replacing \cup {"axiom-mark", "annotate"}
  /\ Kind(p) = "axiom-mark" => proposals[p].by # d

\* The proposals d finds under the entities they are on: the newest on each
\* takes its row, and keeps it until a commit names it.
DetailRows(d) ==
  {p \in Made \ committed :
     /\ OffersRow(p, d)
     /\ \A q \in Made : OffersRow(q, d) /\ On(q) = On(p) => q <= p}

----------------------------------------------------------------------------
(* Properties of the design that hold *)

\* The canvas of a client that has received the log shows exactly the nodes
\* that the server's projection holds visible, and of the edges exactly those
\* the projection holds visible between two visible nodes, except that the
\* clients have no rule for a broken edge.
CanvasShowsTheGraph ==
  /\ CanvasNodes = VisibleNodes
  /\ CanvasEdges \ Broken =
       {e \in VisibleEdges : {e[3], LinkTarget(e[2])} \subseteq VisibleNodes}

\* Whatever the server still lets people vote on is in the pane, unless its
\* proposer withdrew it, and the pane offers nothing that was committed by its
\* proposal or withdrawn.
PaneFollowsTheServer ==
  /\ pending \ withdrawn \subseteq Pane
  /\ Pane \cap (committed \cup withdrawn) = {}

\* The audience sees every node the server holds visible and every edge that
\* the other screens draw, and beyond those only what a withdrawn proposal
\* left behind and the edges that touch it.
AudienceShowsTheGraph ==
  /\ VisibleNodes \subseteq AudienceNodes
  /\ AudienceNodes \ VisibleNodes \subseteq LeftBehind
  /\ CanvasEdges \subseteq AudienceEdges
  /\ \A e \in AudienceEdges \ CanvasEdges :
       LeftBehind \cap {e, e[3], LinkTarget(e[2])} # {}

\* The axiom badges are the server's axiom marks; the dashed dots are the
\* axiom-marks still to be decided, and the dots of withdrawn ones.  An
\* annotation on a visible node has its badge, and no badge is left on what is
\* hidden, broken edges apart.
MarksFollowTheServer ==
  /\ marks = axioms
  /\ awaited \ withdrawn = {p \in pending : Kind(p) = "axiom-mark"}
  /\ \A e \in entities :
       IsAnnotation(e) /\ On(e[2]) \in VisibleNodes => e \in Badges
  /\ \A e \in Badges : On(e[2]) \in hidden => On(e[2]) \in Broken

\* A structural proposal that can still be decided is offered to each debater
\* under its entity, unless a newer one took its row; the one that took the row
\* of a decompose or a split is an annotation or an axiom-mark.  A row is left
\* behind only by a withdrawn proposal, or by a decompose or a split that a
\* component's classification settled.
RowsLeadToVotes ==
  \A d \in Debaters :
    /\ \A p \in pending : OffersRow(p, d) =>
         \/ p \in DetailRows(d)
         \/ \E q \in Made :
              /\ q > p /\ OffersRow(q, d) /\ On(q) = On(p)
              /\ Kind(p) \in Replacing => Kind(q) \notin Replacing
    /\ DetailRows(d) \subseteq
         pending \cup withdrawn \cup {p \in Made : Kind(p) \in Replacing}

\* The screens, each folding the log apart from the server and from one
\* another, show the graph it holds, the marks on it and what it still lets
\* people vote on.
ScreensFollowTheServer ==
  /\ CanvasShowsTheGraph
  /\ PaneFollowsTheServer
  /\ AudienceShowsTheGraph
  /\ MarksFollowTheServer
  /\ RowsLeadToVotes
=============================================================================
