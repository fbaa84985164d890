------------------------ MODULE StructuralProposals ------------------------
(* The proposals that change the SHAPE of the argument graph: capture-node, *)
(* decompose, interpretive-split, amend-node, edit-wording, break-edge,     *)
(* axiom-mark, annotate and meta-move, from the propose handler through the *)
(* votes kept on the proposal to the commit handler, the withdrawal of a    *)
(* proposal, and the replay of the resulting events.                        *)
(*                                                                          *)
(* One accepted request is one atomic action (the handler holds the session *)
(* lock from validation to append).  FacetAgreement models how one facet is *)
(* voted on; here the settlement of a facet is a single step whose votes    *)
(* are left out, because only what it sweeps and settles matters.           *)
(*                                                                          *)
(* Entities are named by what created them, since the program draws fresh   *)
(* UUIDs: node i of proposal p, the edge of link l that leaves node n, the  *)
(* annotation of proposal p.  Proposal 0 is the graph the session starts    *)
(* with: two statements and one edge between them.                          *)
EXTENDS Integers, Sequences, FiniteSets

CONSTANTS
  Debaters,       \* the users that may sit as debater-A or debater-B
  Moderator,      \* the session's host
  Parts,          \* component (reading) numbers of a decomposition (split)
  Contradicting,  \* the links whose role is `contradicts`
  Discussed,      \* bound: the links whose drawn edge has its substance discussed
  MaxProposals    \* bound: proposals made in the session

ASSUME ModeratorAssumption == Moderator \notin Debaters
ASSUME PartsAssumption == Parts \subseteq Nat \ {0} /\ 1 \in Parts
ASSUME BoundAssumption == MaxProposals \in Nat

Participants == Debaters \cup {Moderator}

Node(p, i) == <<"node", p, i>>
Edge(l, n) == <<"edge", l, n>>
Annotation(p) == <<"annotation", p>>
NoEntity == <<"none">>

Captures == {"capture", "capture-from", "capture-to"}

\* The kinds whose withdrawal retracts the nodes they minted.
Minting == Captures \cup {"decompose", "split"}

\* CONFLICTING_PARENT_KINDS: one of these at a time against a node.
Reshaping == {"decompose", "split", "edit", "amend"}

\* The kinds whose commit takes the node away.
Replacing == {"decompose", "split"}

Kinds == Captures \cup Reshaping
           \cup {"break", "axiom-mark", "annotate", "meta-move"}

VARIABLES
  present,    \* debaters currently joined
  proposals,  \* every proposal made, in order
  pending,    \* the projection's pending proposals
  votes,      \* perParticipantVotes of each proposal: who agrees to it
  committed,  \* committedProposals
  withdrawn,  \* history: proposals their proposer has withdrawn
  entities,   \* nodes, edges and annotations created so far
  hidden,     \* those whose `visible` is false
  settled,    \* edges whose substance facet is committed as agreed
  recanted,   \* withdrawals on the substance facet of edges
  axioms      \* axiomMarks: the node and whose bedrock it is

vars == <<present, proposals, pending, votes, committed, withdrawn, entities,
          hidden, settled, recanted, axioms>>
graph == <<entities, hidden, settled, recanted, axioms>>

----------------------------------------------------------------------------
(* What the graph is made of *)

Made == 1..Len(proposals)
Kind(p) == proposals[p].kind
On(p) == proposals[p].on

\* The end of link l that is not named by the edge, and the one that is.
LinkTarget(l) ==
  IF l = 0 THEN Node(0, 2)
  ELSE IF Kind(l) = "capture-from" THEN On(l) ELSE Node(l, 1)
LinkSource(l) ==
  IF l = 0 THEN Node(0, 1)
  ELSE IF Kind(l) = "capture-from" THEN Node(l, 1) ELSE On(l)

IsNode(e) == e[1] = "node"
IsEdge(e) == e[1] = "edge"
IsAnnotation(e) == e[1] = "annotation"
Visible == entities \ hidden
VisibleNodes == {e \in Visible : IsNode(e)}
VisibleEdges == {e \in Visible : IsEdge(e)}

\* What proposing p put on the graph, and what withdrawing it retracts.
MintedNodes(k, p) ==
  {Node(p, i) : i \in IF k \in Captures THEN {1}
                      ELSE IF k \in Replacing THEN Parts ELSE {}}
MintedEdges(k, p, on) ==
  IF k = "capture-from" THEN {Edge(p, Node(p, 1))}
  ELSE IF k = "capture-to" THEN {Edge(p, on)} ELSE {}
Minted(k, p, on) == MintedNodes(k, p) \cup MintedEdges(k, p, on)

\* currentParticipants
Current == present \cup {Moderator}

----------------------------------------------------------------------------
Init ==
  /\ present = {}
  /\ proposals = <<>>
  /\ pending = {}
  /\ votes = [p \in 1..MaxProposals |-> {}]
  /\ committed = {}
  /\ withdrawn = {}
  /\ entities = {Node(0, 1), Node(0, 2), Edge(0, Node(0, 1))}
  /\ hidden = {}
  /\ settled \in SUBSET {Edge(0, Node(0, 1))}
  /\ recanted = {}
  /\ axioms = {}

----------------------------------------------------------------------------
(* propose *)

\* findConflictingProposalAgainst
Conflict(n) == \E q \in pending : Kind(q) \in Reshaping /\ On(q) = n

\* nodeIsPartyToAgreedContradicts: reads the raw status and value, which a
\* withdrawal of agreement leaves alone.
PartyToContradiction(n) ==
  \E e \in VisibleEdges \cap settled :
    e[2] \in Contradicting /\ n \in {e[3], LinkTarget(e[2])}

\* The validators, one guard for each kind of proposal: a decompose, a split
\* and a rewording ask for the same.
MayReshape(n) == n \in VisibleNodes /\ ~Conflict(n)
MayAmend(n) == MayReshape(n) /\ PartyToContradiction(n)
MayMark(n, by) == n \in VisibleNodes /\ <<n, by>> \notin axioms
MayBreak(e) ==
  /\ e \in VisibleEdges
  /\ ~\E q \in pending : Kind(q) = "break" /\ On(q) = e
MayMetaMove(e) == e \in VisibleNodes \cup VisibleEdges
MayAnnotate(e) == e \in Visible
MayLink(n) == n \in VisibleNodes

\* proposeHandler
Allowed(k, by, on) ==
  /\ k = "capture" => on = NoEntity
  /\ k \in {"capture-from", "capture-to"} => MayLink(on)
  /\ k \in Reshaping => MayReshape(on)
  /\ k = "amend" => MayAmend(on)
  /\ k = "axiom-mark" => MayMark(on, by)
  /\ k = "break" => MayBreak(on)
  /\ k = "meta-move" => MayMetaMove(on)
  /\ k = "annotate" => MayAnnotate(on)

\* The minted entities and the proposal are appended together.
Propose(k, by, on) ==
  /\ Len(proposals) < MaxProposals
  /\ by \in Current
  /\ Allowed(k, by, on)
  /\ LET p == Len(proposals) + 1 IN
       /\ proposals' = Append(proposals, [kind |-> k, by |-> by, on |-> on])
       /\ pending' = pending \cup {p}
       /\ entities' = entities \cup Minted(k, p, on)
  /\ UNCHANGED <<present, votes, committed, withdrawn, hidden, settled,
                 recanted, axioms>>

----------------------------------------------------------------------------
(* vote, proposal arm: the votes of a structural proposal stay with it *)

\* A vote the debater already has on record is refused; a dispute only counts
\* as the absence of an agreement.  The moderator's vote is kept and not read.
\* An edit-wording's votes go to the wording facet, as FacetAgreement says.
Vote(d, p) ==
  /\ d \in present
  /\ p \in pending
  /\ Kind(p) # "edit"
  /\ votes' = [votes EXCEPT ![p] = IF d \in @ THEN @ \ {d} ELSE @ \cup {d}]
  /\ UNCHANGED <<present, proposals, pending, committed, withdrawn, graph>>

----------------------------------------------------------------------------
(* commit *)

\* checkUnanimousAgreeStructural: an axiom-mark does not wait for the debater
\* whose bedrock it declares.
Unanimous(p) ==
  /\ present # {}
  /\ \A d \in present :
       d \in votes[p] \/ (Kind(p) = "axiom-mark" /\ proposals[p].by = d)

\* Mutant: the edges that reach the parent are handed down as well.
InheritsBothWays(p) ==
  {Edge(e[2], Node(p, i)) :
     i \in Parts,
     e \in {f \in VisibleEdges \cap settled : On(p) \in {f[3], LinkTarget(f[2])}}}

\* Edges a split's readings take over from the parent: the visible ones
\* leaving it whose substance is committed and not withdrawn by anyone present.
Inherited(p) ==
  {Edge(e[2], Node(p, i)) :
     i \in Parts,
     e \in {f \in VisibleEdges \cap settled :
              f[3] = On(p) /\ ~\E d \in present : <<f, d>> \in recanted}}

\* The wording facet a proposal is about, if any.
WordingOf(p) ==
  IF Kind(p) \in Captures THEN Node(p, 1)
  ELSE IF Kind(p) = "edit" THEN On(p) ELSE NoEntity

\* clearPendingProposalsForFacet for the facets p is about.
Swept(p) ==
  {p} \cup {q \in pending : WordingOf(q) = WordingOf(p) /\ WordingOf(p) # NoEntity}

\* The entity a commit takes off the graph.
Takes(p) == IF Kind(p) \in Replacing \cup {"break"} THEN {On(p)} ELSE {}

\* The entities the commit handler puts on the graph.
Created(p) ==
  IF Kind(p) = "split" THEN Inherited(p)
  ELSE IF Kind(p) \in {"annotate", "meta-move"} THEN {Annotation(p)} ELSE {}

\* applyCommittedProposal and the events the commit handler adds.  Nothing
\* looks again at whether the target is still visible.  A capture, an amend
\* and the sweep apart, the kinds differ only in the entities they touch.
Commit(p) ==
  /\ p \in pending
  /\ Kind(p) # "edit"
  /\ Unanimous(p)
  /\ committed' = committed \cup {p}
  /\ pending' = pending \ Swept(p)
  /\ entities' = entities \cup Created(p)
  /\ settled' = settled \cup {e \in Created(p) : IsEdge(e)}
  /\ hidden' = hidden \cup Takes(p)
  /\ axioms' = IF Kind(p) = "axiom-mark"
                 THEN axioms \cup {<<On(p), proposals[p].by>>} ELSE axioms
  /\ UNCHANGED <<present, proposals, votes, withdrawn, recanted>>

\* A facet-keyed commit or meta-disagreement mark on a facet that p is about:
\* the wording of a captured or edited node, the classification of a component.
SettleFacet(p) ==
  /\ p \in pending
  /\ Kind(p) \in Minting \cup {"edit"}
  /\ pending' = pending \ Swept(p)
  /\ UNCHANGED <<present, proposals, votes, committed, withdrawn, graph>>

----------------------------------------------------------------------------
(* withdraw-proposal *)

\* Mutant: the retraction of a decomposition takes its parent along.
RetractsParentToo(p) ==
  Minted(Kind(p), p, On(p)) \cup (IF Kind(p) \in Replacing THEN {On(p)} ELSE {})

\* entitiesToRetractForWithdraw
Retracted(p) == Minted(Kind(p), p, On(p))

\* Whoever proposed p takes it back.  What it minted is hidden and p stays
\* pending; a proposal that minted nothing is removed.
Withdraw(p) ==
  /\ p \in pending
  /\ withdrawn' = withdrawn \cup {p}
  /\ hidden' = hidden \cup Retracted(p)
  /\ pending' = IF Kind(p) \in Minting THEN pending ELSE pending \ {p}
  /\ UNCHANGED <<present, proposals, votes, committed, entities, settled,
                 recanted, axioms>>

----------------------------------------------------------------------------
(* The substance of an edge, and who is at the table *)

\* Bound: an edge handed down by a split is not discussed again.
Open(e) == IsEdge(e) /\ e[2] \in Discussed /\ e[3] = LinkSource(e[2])

\* A facet-keyed commit of the value `agreed`.
SettleSubstance(e) ==
  /\ e \in entities \ settled
  /\ Open(e)
  /\ settled' = settled \cup {e}
  /\ UNCHANGED <<present, proposals, pending, votes, committed, withdrawn,
                 entities, hidden, recanted, axioms>>

\* A new set-edge-substance replaces the candidate; withdrawals stay.
ReopenSubstance(e) ==
  /\ e \in settled
  /\ Open(e)
  /\ settled' = settled \ {e}
  /\ UNCHANGED <<present, proposals, pending, votes, committed, withdrawn,
                 entities, hidden, recanted, axioms>>

RecantSubstance(e, d) ==
  /\ e \in settled
  /\ Open(e)
  /\ d \in present
  /\ recanted' = recanted \cup {<<e, d>>}
  /\ UNCHANGED <<present, proposals, pending, votes, committed, withdrawn,
                 entities, hidden, settled, axioms>>

Join(d) ==
  /\ d \in Debaters \ present
  /\ present' = present \cup {d}
  /\ UNCHANGED <<proposals, pending, votes, committed, withdrawn, graph>>

Leave(d) ==
  /\ d \in present
  /\ present' = present \ {d}
  /\ UNCHANGED <<proposals, pending, votes, committed, withdrawn, graph>>

----------------------------------------------------------------------------
Next ==
  \/ \E k \in Kinds, by \in Participants, on \in entities \cup {NoEntity} :
       Propose(k, by, on)
  \/ \E d \in Debaters, p \in Made : Vote(d, p)
  \/ \E p \in Made : Commit(p) \/ SettleFacet(p) \/ Withdraw(p)
  \/ \E e \in entities : SettleSubstance(e) \/ ReopenSubstance(e)
  \/ \E e \in entities, d \in Debaters : RecantSubstance(e, d)
  \/ \E d \in Debaters : Join(d) \/ Leave(d)

Spec == Init /\ [][Next]_vars

----------------------------------------------------------------------------
(* Properties of the design that hold *)

NodeIds == {Node(p, i) : p \in 0..MaxProposals, i \in Parts \cup {1, 2}}
EdgeIds == {Edge(l, n) : l \in 0..MaxProposals, n \in NodeIds}
EntityIds == NodeIds \cup EdgeIds \cup {Annotation(p) : p \in 1..MaxProposals}

\* Every variable stays in its type, and everything shown or settled exists.
TypeOK ==
  /\ present \subseteq Debaters
  /\ proposals \in Seq([kind : Kinds, by : Participants,
                        on : EntityIds \cup {NoEntity}])
  /\ Len(proposals) <= MaxProposals
  /\ pending \subseteq Made
  /\ votes \in [1..MaxProposals -> SUBSET Debaters]
  /\ committed \subseteq Made
  /\ withdrawn \subseteq Made
  /\ entities \subseteq EntityIds
  /\ hidden \subseteq entities
  /\ settled \subseteq {e \in entities : IsEdge(e)}
  /\ recanted \subseteq entities \X Debaters
  /\ axioms \subseteq NodeIds \X Participants

\* A claim is reshaped by one proposal at a time and replaced at most once:
\* two pending proposals never reshape the same node, a node that a committed
\* decompose or split replaced stays hidden and no later one can reach it
\* (findConflictingProposalAgainst and nodeIsVisible at propose time are the
\* only guards; the commit handler does not look at the node again).
ReplacedOnce ==
  /\ \A p, q \in pending :
       Kind(p) \in Reshaping /\ Kind(q) \in Reshaping /\ On(p) = On(q) => p = q
  /\ \A p \in committed : Kind(p) \in Replacing =>
       /\ On(p) \in hidden
       /\ \A q \in (pending \cup committed) \ {p} :
            Kind(q) \in Replacing => On(q) # On(p)

\* Nothing leaves the graph unexplained: what is hidden was minted by a
\* proposal its proposer took back, or a committed decompose, split or
\* break-edge took it away.  A withdrawal never reaches past its own entities.
HiddenForAReason ==
  \A e \in hidden :
    \/ \E p \in withdrawn : Kind(p) \in Minting /\ e \in Minted(Kind(p), p, On(p))
    \/ \E p \in committed : Kind(p) \in Replacing \cup {"break"} /\ On(p) = e

\* An edge the debaters never drew is there only because a committed split
\* handed it down: its source is a reading of a split whose parent carries the
\* same link (buildStructuralEventsForCommit).
EdgesAreInherited ==
  \A e \in entities :
    IsEdge(e) /\ e[3] # LinkSource(e[2]) =>
      \E p \in committed, i \in Parts :
        /\ Kind(p) = "split"
        /\ e[3] = Node(p, i)
        /\ Edge(e[2], On(p)) \in entities

\* No edge is handed down that was not agreed on: an edge that appears at a
\* commit copies one that was visible, committed and not taken back by anyone
\* present, and it starts out settled like it.
OnlyAgreedEdgesAreHandedDown ==
  [][\A p \in committed' \ committed :
       \A e \in entities' \ entities : IsEdge(e) =>
         LET f == Edge(e[2], On(p)) IN
           /\ f \in (Visible \cap settled)
           /\ ~\E d \in present : <<f, d>> \in recanted
           /\ e \in settled' \ hidden']_vars

=============================================================================
