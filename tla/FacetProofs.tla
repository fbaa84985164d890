----------------------------- MODULE FacetProofs -----------------------------
(* Machine-checked proofs about FacetAgreement, then about the clients'     *)
(* copies in FacetDisplay and FacetPanel, for every set of debaters and     *)
(* values, both kinds of entity and any number of proposals and frames.     *)
EXTENDS FacetPanel, TLAPS

(****************************************************************************)
(* The server: FacetAgreement                                               *)
(****************************************************************************)

\* A commit mark and a committed value come together.
MarkHasValue == \A f \in Facets : committedAt[f] <=> committed[f] # NoValue

\* Proposals are numbered in the order they are made, and a pending proposal's
\* facet carries a candidate (its own or a newer one).
PendingHasCandidate ==
  /\ \A f \in Facets : source[f] < nextId
  /\ \A q \in pending :
       /\ q.id < nextId
       /\ candidate[q.facet] # NoValue
       /\ q.kind = "capture" => q.facet = InlineFacet

\* The inductive invariant: type correctness, the two invariants TLC checks,
\* and the two facts above that make them inductive.
IInv ==
  /\ TypeOK
  /\ VotesFollowCandidate
  /\ PendingIsUnsettled
  /\ MarkHasValue
  /\ PendingHasCandidate

----------------------------------------------------------------------------
\* A facet whose derived status is votable, or that is unanimously agreed,
\* carries a candidate: the handlers never act on an awaiting-proposal facet.
LEMMA ActiveFacetHasCandidate ==
  ASSUME VotesFollowCandidate, TypeOK,
         NEW f \in Facets,
         \/ Status(f) \in {"proposed", "disputed"}
         \/ Unanimous(f)
  PROVE  candidate[f] # NoValue
<1>1. CASE Status(f) \in {"proposed", "disputed"}
  BY <1>1 DEF Status
<1>2. CASE Unanimous(f)
  <2>1. PICK p \in present : votes[f][p].choice = "agree"
    BY <1>2 DEF Unanimous
  <2>2. p \in Participants
    BY <2>1 DEF TypeOK, Participants
  <2> QED
    BY <2>1, <2>2 DEF VotesFollowCandidate
<1> QED
  BY <1>1, <1>2

\* The initial states satisfy the inductive invariant.
LEMMA InitEstablishesIInv == Init => IInv
<1> SUFFICES ASSUME Init PROVE IInv
  OBVIOUS
<1> USE DEF Init
<1>0. InlineFacet \in Facets /\ "substance" \in Facets
  BY KindAssumption DEF InlineFacet, Facets
<1>a. PICK v \in Values :
        \/ \E p \in Current :
             Minted(IF EntityKind = "node" THEN "wording" ELSE "substance", v, p)
        \/ CapturedEdge(v)
  OBVIOUS
<1>b. v # NoValue
  BY ValueAssumption
<1>c. Current \subseteq Participants
  BY DEF Current, Participants
<1>1. TypeOK /\ PendingHasCandidate /\ PendingIsUnsettled
  <2>1. CASE CapturedEdge(v)
    <3>1. TypeOK
      BY <1>0, <2>1 DEF CapturedEdge, TypeOK, NoVote, Choices
    <3> QED
      BY <3>1, <2>1 DEF CapturedEdge, PendingHasCandidate, PendingIsUnsettled
  <2>2. ASSUME NEW p \in Current,
               Minted(IF EntityKind = "node" THEN "wording" ELSE "substance", v, p)
        PROVE  TypeOK /\ PendingHasCandidate /\ PendingIsUnsettled
    <3> DEFINE g == IF EntityKind = "node" THEN "wording" ELSE "substance"
               q == [id |-> 1, facet |-> g, proposer |-> p,
                     kind |-> IF EntityKind = "node" THEN "capture" ELSE "minting"]
    <3>1. g \in Facets /\ g \in Proposable
      BY KindAssumption DEF Facets, Proposable
    <3>2. q \in Proposals
      BY <3>1, <1>c DEF Proposals, ProposalKinds
    <3>3. pending = {q}
      BY <2>2 DEF Minted
    <3>4. /\ candidate = [h \in Facets |-> IF h \in {g, InlineFacet} THEN v ELSE NoValue]
          /\ source = [h \in Facets |-> IF h = g THEN 1 ELSE 0]
      BY <2>2 DEF Minted
    <3>5. TypeOK
      BY <3>2, <3>3, <3>4 DEF TypeOK, NoVote, Choices
    <3>6. candidate[g] = v /\ source[g] = 1
      BY <3>1, <3>4
    <3>7. q.kind = "capture" => q.facet = InlineFacet
      BY KindAssumption DEF InlineFacet
    <3>8. PendingHasCandidate
      BY <1>b, <3>3, <3>4, <3>6, <3>7 DEF PendingHasCandidate
    <3>9. PendingIsUnsettled
      BY <3>1, <3>3, <3>6 DEF PendingIsUnsettled
    <3> QED
      BY <3>5, <3>8, <3>9
  <2> QED
    BY <1>a, <2>1, <2>2
<1>2. VotesFollowCandidate
  BY DEF VotesFollowCandidate, NoVote
<1>3. MarkHasValue
  BY DEF MarkHasValue
<1> QED
  BY <1>1, <1>2, <1>3 DEF IInv

----------------------------------------------------------------------------
(* One lemma per action: each preserves the inductive invariant. *)

LEMMA ProposePreserves ==
  ASSUME IInv, NEW p \in Participants, NEW f \in Facets, NEW v \in Values,
         Propose(p, f, v)
  PROVE  IInv'
<1> USE DEF IInv
<1>1. PICK k \in {"value", "minting"} :
        pending' = pending \cup {[id |-> nextId, facet |-> f, proposer |-> p,
                                  kind |-> k]}
  BY DEF Propose, ClearVotes
<1> DEFINE q == [id |-> nextId, facet |-> f, proposer |-> p, kind |-> k]
<1>2. q \in Proposals /\ q.kind # "capture"
  BY DEF Propose, ClearVotes, Proposals, ProposalKinds, TypeOK
<1>3. v # NoValue
  BY ValueAssumption
<1>4. TypeOK'
  BY <1>1, <1>2 DEF TypeOK, Propose, ClearVotes, NoVote, Choices
<1>5. VotesFollowCandidate'
  BY DEF VotesFollowCandidate, Propose, ClearVotes, TypeOK, NoVote
<1>6. PendingHasCandidate'
  <2>1. \A g \in Facets : source'[g] < nextId'
    BY DEF Propose, ClearVotes, TypeOK, PendingHasCandidate
  <2>2. \A r \in pending : r.facet \in Facets /\ r.id \in Nat
    BY DEF TypeOK, Proposals, Proposable
  <2>3. ASSUME NEW r \in pending'
        PROVE  /\ r.id < nextId'
               /\ candidate'[r.facet] # NoValue
               /\ r.kind = "capture" => r.facet = InlineFacet
    <3>1. CASE r = q
      BY <3>1, <1>2, <1>3 DEF Propose, ClearVotes, TypeOK
    <3>2. CASE r \in pending
      BY <3>2, <2>2, <1>3 DEF Propose, ClearVotes, TypeOK, PendingHasCandidate
    <3> QED
      BY <1>1, <3>1, <3>2
  <2> QED
    BY <2>1, <2>3 DEF PendingHasCandidate
<1>7. PendingIsUnsettled'
  <2>1. \A r \in pending : r.facet \in Facets /\ r.id \in Nat
    BY DEF TypeOK, Proposals, Proposable
  <2>2. ASSUME NEW r \in pending'
        PROVE  /\ r.id <= source'[r.facet]
               /\ r.kind = "capture" => ~committedAt'[r.facet] /\ ~meta'[r.facet]
    <3>1. CASE r = q
      BY <3>1, <1>2 DEF Propose, ClearVotes, TypeOK
    <3>2. CASE r \in pending
      BY <3>2, <2>1 DEF Propose, ClearVotes, TypeOK, PendingHasCandidate, PendingIsUnsettled
    <3> QED
      BY <1>1, <3>1, <3>2
  <2> QED
    BY <2>2 DEF PendingIsUnsettled
<1>8. MarkHasValue'
  BY DEF MarkHasValue, Propose, ClearVotes
<1> QED
  BY <1>4, <1>5, <1>6, <1>7, <1>8

LEMMA RecordVotePreserves ==
  ASSUME IInv, NEW p \in Participants, NEW f \in Facets, NEW id \in Nat,
         NEW c \in {"agree", "dispute"},
         candidate[f] # NoValue, RecordVote(p, f, c, id)
  PROVE  IInv'
<1> USE DEF IInv, RecordVote
<1>1. TypeOK'
  BY DEF TypeOK, Choices
<1>2. VotesFollowCandidate'
  BY DEF VotesFollowCandidate, TypeOK
<1>3. PendingIsUnsettled' /\ PendingHasCandidate'
  BY DEF PendingIsUnsettled, PendingHasCandidate
<1>4. MarkHasValue'
  BY DEF MarkHasValue
<1> QED
  BY <1>1, <1>2, <1>3, <1>4

LEMMA CommitPreserves ==
  ASSUME IInv, NEW f \in Facets, candidate[f] # NoValue, Commit(f)
  PROVE  IInv'
<1> USE DEF IInv, Commit, Sweep
<1>1. TypeOK'
  BY DEF TypeOK
<1>2. VotesFollowCandidate'
  BY DEF VotesFollowCandidate
<1>3. PendingIsUnsettled'
  <2> SUFFICES ASSUME NEW q \in pending'
               PROVE  /\ q.id <= source'[q.facet]
                      /\ q.kind = "capture" =>
                           ~committedAt'[q.facet] /\ ~meta'[q.facet]
    BY DEF PendingIsUnsettled
  <2>1. q \in pending /\ q.facet # f /\ q.facet \in Facets
    BY DEF TypeOK, Proposals, Proposable
  <2> QED
    BY <2>1 DEF PendingIsUnsettled, TypeOK
<1>4. PendingHasCandidate'
  BY DEF PendingHasCandidate
<1>5. MarkHasValue'
  BY DEF MarkHasValue, TypeOK
<1> QED
  BY <1>1, <1>2, <1>3, <1>4, <1>5

LEMMA MarkPreserves ==
  ASSUME IInv, NEW q \in pending, MarkMetaDisagreement(q)
  PROVE  IInv'
<1> USE DEF IInv, MarkMetaDisagreement, CanMark, Sweep
<1>1. TypeOK'
  BY DEF TypeOK
<1>2. VotesFollowCandidate'
  BY DEF VotesFollowCandidate
<1>3. PendingIsUnsettled'
  <2> SUFFICES ASSUME NEW r \in pending'
               PROVE  /\ r.id <= source'[r.facet]
                      /\ r.kind = "capture" =>
                           ~committedAt'[r.facet] /\ ~meta'[r.facet]
    BY DEF PendingIsUnsettled
  <2>1. r \in pending /\ r.facet # q.facet /\ r.facet \in Facets
    BY DEF TypeOK, Proposals, Proposable
  <2> QED
    BY <2>1 DEF PendingIsUnsettled, TypeOK
<1>4. PendingHasCandidate' /\ MarkHasValue'
  BY DEF PendingHasCandidate, MarkHasValue
<1> QED
  BY <1>1, <1>2, <1>3, <1>4

\* The actions that leave every facet alone but for a withdrawal.
LEMMA QuietPreserves ==
  ASSUME IInv,
         \/ \E p \in Participants, f \in Facets : WithdrawAgreement(p, f)
         \/ \E q \in pending : WithdrawProposal(q)
         \/ \E p \in Debaters : Join(p) \/ Leave(p)
         \/ \E p \in Participants, q \in pending, c \in {"agree", "dispute"} :
              VoteCapture(p, q, c)
         \/ UNCHANGED vars
  PROVE  IInv'
<1> USE DEF IInv, facetVars
<1>1. CASE \E p \in Participants, f \in Facets : WithdrawAgreement(p, f)
  BY <1>1 DEF WithdrawAgreement, TypeOK, VotesFollowCandidate, PendingIsUnsettled,
              PendingHasCandidate, MarkHasValue
<1>2. CASE \E q \in pending : WithdrawProposal(q)
  <2>1. /\ pending' \subseteq pending
        /\ visible' \in {FALSE, visible}
        /\ UNCHANGED <<present, facetVars, captureVotes, nextId>>
    BY <1>2 DEF WithdrawProposal
  <2>2. TypeOK'
    BY <2>1 DEF TypeOK
  <2>3. VotesFollowCandidate' /\ MarkHasValue'
    BY <2>1 DEF VotesFollowCandidate, MarkHasValue
  <2>4. PendingIsUnsettled' /\ PendingHasCandidate'
    BY <2>1 DEF PendingIsUnsettled, PendingHasCandidate
  <2> QED
    BY <2>2, <2>3, <2>4
<1>3. CASE \E p \in Debaters : Join(p) \/ Leave(p)
  BY <1>3 DEF Join, Leave, TypeOK, VotesFollowCandidate, PendingIsUnsettled,
              PendingHasCandidate, MarkHasValue
<1>4. CASE \E p \in Participants, q \in pending, c \in {"agree", "dispute"} :
             VoteCapture(p, q, c)
  BY <1>4 DEF VoteCapture, TypeOK, VotesFollowCandidate, PendingIsUnsettled,
              PendingHasCandidate, MarkHasValue, Choices
<1>5. CASE UNCHANGED vars
  BY <1>5 DEF vars, TypeOK, VotesFollowCandidate, PendingIsUnsettled,
              PendingHasCandidate, MarkHasValue
<1> QED
  BY <1>1, <1>2, <1>3, <1>4, <1>5

LEMMA NextPreservesIInv == IInv /\ [Next]_vars => IInv'
<1> SUFFICES ASSUME IInv, [Next]_vars PROVE IInv'
  OBVIOUS
<1>0. /\ Voters \subseteq Participants
      /\ \A q \in pending : /\ q.facet \in Facets
                            /\ q.id \in Nat
                            /\ candidate[q.facet] # NoValue
      /\ \A f \in Facets : source[f] \in Nat
  BY VoterAssumption DEF Participants, IInv, TypeOK, Proposals, Proposable,
                         PendingHasCandidate
<1>1. ASSUME NEW p \in Participants, NEW f \in Facets, NEW v \in Values,
             Propose(p, f, v)
      PROVE  IInv'
  BY <1>1, ProposePreserves
<1>2. ASSUME NEW p \in Voters, NEW f \in Facets, NEW c \in {"agree", "dispute"},
             VoteFacet(p, f, c)
      PROVE  IInv'
  <2>1. candidate[f] # NoValue
    BY <1>2, ActiveFacetHasCandidate DEF VoteFacet, CanVoteFacet, IInv
  <2>2. RecordVote(p, f, c, source[f])
    BY <1>2 DEF VoteFacet
  <2> QED
    BY <1>0, <2>1, <2>2, RecordVotePreserves
<1>3. ASSUME NEW p \in Voters, NEW q \in pending, NEW c \in {"agree", "dispute"},
             VoteValueProposal(p, q, c)
      PROVE  IInv'
  <2>1. RecordVote(p, q.facet, c, q.id)
    BY <1>3 DEF VoteValueProposal
  <2> QED
    BY <1>0, <2>1, RecordVotePreserves
<1>4. ASSUME NEW f \in Facets, CommitFacet(f)
      PROVE  IInv'
  <2>1. candidate[f] # NoValue
    BY <1>4, ActiveFacetHasCandidate DEF CommitFacet, IInv
  <2>2. Commit(f)
    BY <1>4 DEF CommitFacet
  <2> QED
    BY <2>1, <2>2, CommitPreserves
<1>5. ASSUME NEW q \in pending, CommitCapture(q)
      PROVE  IInv'
  <2>1. Commit(q.facet)
    BY <1>5 DEF CommitCapture
  <2> QED
    BY <1>0, <2>1, CommitPreserves
<1>6. ASSUME NEW q \in pending, MarkMetaDisagreement(q)
      PROVE  IInv'
  BY <1>6, MarkPreserves
<1>7. CASE \/ \E p \in Participants, f \in Facets : WithdrawAgreement(p, f)
           \/ \E q \in pending : WithdrawProposal(q)
           \/ \E p \in Debaters : Join(p) \/ Leave(p)
           \/ \E p \in Participants, q \in pending, c \in {"agree", "dispute"} :
                VoteCapture(p, q, c)
           \/ UNCHANGED vars
  BY <1>7, QuietPreserves
<1> QED
  BY <1>0, <1>1, <1>2, <1>3, <1>4, <1>5, <1>6, <1>7 DEF Next

\* The inductive invariant holds in every behaviour.
THEOREM InvariantHolds == Spec => []IInv
<1>1. Init => IInv
  BY InitEstablishesIInv
<1>2. IInv /\ [Next]_vars => IInv'
  BY NextPreservesIInv
<1> QED
  BY <1>1, <1>2, PTL DEF Spec

\* Every variable stays in its type (projection state of one entity).
THEOREM TypeCorrect == Spec => []TypeOK
BY InvariantHolds, PTL DEF IInv

\* No vote outlives the candidate it was cast on (replay.ts handleProposal).
THEOREM VotesNeverOutliveCandidates == Spec => []VotesFollowCandidate
BY InvariantHolds, PTL DEF IInv

\* Commits and marks leave nothing pending behind on their facet, and a pending
\* capture means a wording never settled (replay.ts clearPendingProposalsForFacet).
THEOREM SweepsAreComplete == Spec => []PendingIsUnsettled
BY InvariantHolds, PTL DEF IInv

----------------------------------------------------------------------------
(* The decision ledger *)

\* The facet arm commits only a value that is not committed already.
LEMMA FacetCommitIsFresh ==
  ASSUME IInv, NEW f \in Facets, CommitFacet(f)
  PROVE  ~meta[f] /\ candidate[f] # NoValue /\ committed[f] # candidate[f]
<1>1. candidate[f] # NoValue
  BY ActiveFacetHasCandidate DEF CommitFacet, IInv
<1>2. ~meta[f]
  BY DEF CommitFacet, Status
<1>3. ~\E p \in present : votes[f][p].choice = "dispute"
  BY DEF CommitFacet, Unanimous
<1>4. ASSUME committed[f] = candidate[f] PROVE FALSE
  <2>1. CommittedNow(f)
    BY <1>1, <1>4 DEF CommittedNow, IInv, MarkHasValue
  <2>2. Status(f) \in {"withdrawn", "committed"}
    BY <1>1, <1>2, <1>3, <2>1 DEF Status
  <2> QED
    BY <2>2 DEF CommitFacet
<1> QED
  BY <1>1, <1>2, <1>4

\* A pending capture's wording was never settled, so its commit is the first.
LEMMA CaptureCommitIsFresh ==
  ASSUME IInv, NEW q \in pending, CommitCapture(q)
  PROVE  /\ q.facet \in Facets
         /\ ~meta[q.facet]
         /\ candidate[q.facet] # NoValue
         /\ committed[q.facet] # candidate[q.facet]
<1>1. q.facet \in Facets /\ candidate[q.facet] # NoValue
  BY DEF IInv, TypeOK, Proposals, Proposable, PendingHasCandidate
<1>2. ~committedAt[q.facet] /\ ~meta[q.facet]
  BY DEF IInv, PendingIsUnsettled, CommitCapture
<1> QED
  BY <1>1, <1>2 DEF IInv, MarkHasValue

LEMMA StepImplementsDecision ==
  IInv /\ [Next]_vars => [Decision!Next]_Decision!vars
<1> SUFFICES ASSUME IInv, [Next]_vars
             PROVE  [Decision!Next]_<<candidate, committed, meta>>
  BY DEF Decision!vars
<1> DEFINE Stutter == UNCHANGED <<candidate, committed, meta>>
<1>1. ASSUME NEW p \in Participants, NEW f \in Facets, NEW v \in Values,
             Propose(p, f, v)
      PROVE  Decision!Next
  <2>1. Decision!Table(f, v)
    BY <1>1 DEF Propose, ClearVotes, Decision!Table
  <2> QED
    BY <2>1 DEF Decision!Next
<1>2. ASSUME NEW f \in Facets, CommitFacet(f)
      PROVE  Decision!Next
  <2>1. Decision!Decide(f)
    BY <1>2, FacetCommitIsFresh DEF CommitFacet, Commit, Decision!Decide
  <2> QED
    BY <2>1 DEF Decision!Next
<1>3. ASSUME NEW q \in pending, CommitCapture(q)
      PROVE  Decision!Next
  <2>1. Decision!Decide(q.facet)
    BY <1>3, CaptureCommitIsFresh DEF CommitCapture, Commit, Decision!Decide
  <2> QED
    BY <1>3, <2>1, CaptureCommitIsFresh DEF Decision!Next
<1>4. ASSUME NEW q \in pending, MarkMetaDisagreement(q)
      PROVE  Decision!Next
  <2>1. q.facet \in Facets /\ candidate[q.facet] # NoValue
    BY DEF IInv, TypeOK, Proposals, Proposable, PendingHasCandidate
  <2>2. ~meta[q.facet]
    BY <1>4 DEF MarkMetaDisagreement, CanMark, Status
  <2>3. Decision!Close(q.facet)
    BY <1>4, <2>1, <2>2 DEF MarkMetaDisagreement, CanMark, Decision!Close
  <2> QED
    BY <2>1, <2>3 DEF Decision!Next
<1>5. ASSUME NEW p, NEW f, NEW c, NEW id, RecordVote(p, f, c, id)
      PROVE  Stutter
  BY <1>5 DEF RecordVote
<1>6. ASSUME NEW p, NEW f, WithdrawAgreement(p, f)
      PROVE  Stutter
  BY <1>6 DEF WithdrawAgreement
<1>7. ASSUME NEW p, NEW q, NEW c,
             \/ WithdrawProposal(q)
             \/ Join(p)
             \/ Leave(p)
             \/ VoteCapture(p, q, c)
             \/ UNCHANGED vars
      PROVE  Stutter
  BY <1>7 DEF WithdrawProposal, Join, Leave, VoteCapture, vars, facetVars
<1> QED
  BY <1>1, <1>2, <1>3, <1>4, <1>5, <1>6, <1>7
     DEF Next, VoteFacet, VoteValueProposal

LEMMA InitImplementsDecision == Init => Decision!Init
<1> SUFFICES ASSUME Init PROVE Decision!Init
  OBVIOUS
<1>1. candidate \in [Facets -> Values \cup {NoValue}]
  BY InitEstablishesIInv DEF IInv, TypeOK
<1> QED
  BY <1>1 DEF Init, Decision!Init

\* The facets of an entity implement the decision ledger: only the value on the
\* table is decided, once per value, and never after the facet was closed.
THEOREM AgreementImplementsDecision == Spec => ImplementsFacetDecision
<1>1. Init => Decision!Init
  BY InitImplementsDecision
<1>2. IInv /\ [Next]_vars => [Decision!Next]_Decision!vars
  BY StepImplementsDecision
<1> QED
  BY <1>1, <1>2, InvariantHolds, PTL
     DEF Spec, ImplementsFacetDecision, Decision!Spec

----------------------------------------------------------------------------
(* Action properties *)

\* Once a facet is meta-disagreed its flag and its commit mark never change
\* again, through either arm.  It follows from the decision ledger, whose
\* closed facets decide nothing.
THEOREM MetaDisagreementStays == Spec => MetaDisagreementIsFinal
<1> DEFINE Final == \A f \in Facets :
                      meta[f] => /\ meta'[f]
                                 /\ committedAt'[f] = committedAt[f]
                                 /\ committed'[f] = committed[f]
<1>1. ASSUME IInv, IInv', [Next]_vars PROVE [Final]_vars
  <2>1. [Decision!Next]_<<candidate, committed, meta>>
    BY <1>1, StepImplementsDecision DEF Decision!vars
  <2>2. ASSUME NEW f \in Facets, meta[f]
        PROVE  meta'[f] /\ committed'[f] = committed[f]
    BY <1>1, <2>1, <2>2
       DEF Decision!Next, Decision!Table, Decision!Decide, Decision!Close,
           IInv, TypeOK
  <2>3. ASSUME NEW f \in Facets, committed'[f] = committed[f]
        PROVE  committedAt'[f] = committedAt[f]
    <3>1. committedAt[f] \in BOOLEAN /\ committedAt'[f] \in BOOLEAN
      BY <1>1 DEF IInv, TypeOK
    <3>2. committedAt[f] <=> committedAt'[f]
      BY <1>1, <2>3 DEF IInv, MarkHasValue
    <3> QED
      BY <3>1, <3>2
  <2> QED
    BY <2>2, <2>3
<1> QED
  BY <1>1, NextPreservesIInv, InvariantHolds, PTL
     DEF Spec, MetaDisagreementIsFinal

\* No debater who is present can be committed over in silence or in dispute:
\* a commit through the facet arm counts the votes on the facet, one through
\* the proposal arm the votes on the capture that created it.
THEOREM CommitsHaveEveryVoice == Spec => EveryCommitHasEveryVoice
<1> DEFINE Newly(f) ==
             committedAt'[f] /\ (committedAt[f] => committed'[f] # committed[f])
           Heard(f) ==
             /\ present # {}
             /\ \/ \A p \in present : votes[f][p].choice = "agree"
                \/ /\ f = InlineFacet
                   /\ \A p \in present : captureVotes[p] = "agree"
           Voiced == \A f \in Facets : Newly(f) => Heard(f)
<1>1. ASSUME IInv, [Next]_vars PROVE [Voiced]_vars
  <2> SUFFICES ASSUME NEW f \in Facets, Newly(f) PROVE Heard(f)
    OBVIOUS
  <2>1. ASSUME NEW g \in Facets, Commit(g) PROVE f = g
    BY <1>1, <2>1 DEF Commit, IInv, TypeOK
  <2>2. ASSUME NEW g \in Facets, CommitFacet(g) PROVE Heard(f)
    BY <2>1, <2>2 DEF CommitFacet, Unanimous
  <2>3. ASSUME NEW q \in pending, CommitCapture(q) PROVE Heard(f)
    <3>1. q.facet \in Facets /\ q.facet = InlineFacet
      BY <1>1, <2>3 DEF IInv, TypeOK, Proposals, Proposable, PendingHasCandidate,
                        CommitCapture
    <3> QED
      BY <2>1, <2>3, <3>1 DEF CommitCapture
  <2>4. ASSUME UNCHANGED <<committedAt, committed>> PROVE FALSE
    BY <2>4
  <2>5. CASE \/ \E p \in Participants, g \in Facets, v \in Values : Propose(p, g, v)
             \/ \E q \in pending : MarkMetaDisagreement(q)
             \/ \E p \in Participants, g \in Facets : WithdrawAgreement(p, g)
    BY <2>4, <2>5 DEF Propose, ClearVotes, MarkMetaDisagreement, CanMark, WithdrawAgreement
  <2>6. ASSUME NEW p, NEW g, NEW c, NEW id, RecordVote(p, g, c, id) PROVE FALSE
    BY <2>4, <2>6 DEF RecordVote
  <2>7. ASSUME NEW p, NEW q, NEW c,
               \/ WithdrawProposal(q)
               \/ Join(p)
               \/ Leave(p)
               \/ VoteCapture(p, q, c)
               \/ UNCHANGED vars
        PROVE  FALSE
    BY <2>4, <2>7 DEF WithdrawProposal, Join, Leave, VoteCapture, vars, facetVars
  <2> QED
    BY <1>1, <2>2, <2>3, <2>5, <2>6, <2>7 DEF Next, VoteFacet, VoteValueProposal
<1> QED
  BY <1>1, InvariantHolds, PTL DEF Spec, EveryCommitHasEveryVoice

----------------------------------------------------------------------------
(* Reopening *)

\* The status of a facet is a function of its own fields and of who is present.
LEMMA StatusIsLocal ==
  ASSUME NEW f \in Facets,
         present' = present,
         candidate'[f] = candidate[f],
         votes'[f] = votes[f],
         withdrawals'[f] = withdrawals[f],
         committedAt'[f] = committedAt[f],
         committed'[f] = committed[f],
         meta'[f] = meta[f]
  PROVE  Status(f)' = Status(f)
BY DEF Status, CommittedNow, Unanimous

\* A committed facet is reopened by a new candidate, a withdrawal, a change of
\* who is present or a vote on a pending proposal, and by nothing else: the
\* facet arm of the vote handler is shut, and marks and commits need a
\* proposal that the commit swept (vote.ts, facet-status.ts).
THEOREM NothingReopensInSilence == Spec => NoSilentReopening
<1> DEFINE Reopened(f) == Status(f) = "committed" /\ Status(f)' # "committed"
           Excused(f) == \/ candidate'[f] # candidate[f]
                         \/ withdrawals'[f] # withdrawals[f]
                         \/ present' # present
                         \/ \E q \in pending : q.facet = f
           Loud == \A f \in Facets : Reopened(f) => Excused(f)
<1>1. ASSUME IInv, [Next]_vars PROVE [Loud]_vars
  <2> SUFFICES ASSUME Next, NEW f \in Facets, Reopened(f), ~Excused(f)
               PROVE  FALSE
    BY <1>1
  <2> USE <1>1 DEF IInv, TypeOK
  <2>0. /\ ~(/\ votes'[f] = votes[f]
              /\ committedAt'[f] = committedAt[f]
              /\ committed'[f] = committed[f]
              /\ meta'[f] = meta[f])
        /\ \A q \in pending : q.facet # f /\ q.facet \in Facets
    BY StatusIsLocal DEF Proposals, Proposable
  <2>1. ASSUME NEW p \in Participants, NEW g \in Facets, NEW v \in Values,
               Propose(p, g, v)
        PROVE  FALSE
    <3>1. g # f => votes'[f] = votes[f]
      BY <2>1 DEF Propose, ClearVotes
    <3>2. g = f => candidate' = [candidate EXCEPT ![f] = v] /\ votes'[f] = [r \in Participants |-> NoVote]
      BY <2>1 DEF Propose, ClearVotes
    <3>3. UNCHANGED <<withdrawals, committedAt, committed, meta, present>>
      BY <2>1 DEF Propose
    <3>4. g = f => FALSE
      <4> SUFFICES ASSUME g = f PROVE FALSE
        OBVIOUS
      <4>1. candidate'[f] = candidate[f]
        OBVIOUS
      <4>2. CommittedNow(f)' /\ ~meta'[f] /\ candidate'[f] # NoValue
        BY <3>3, <4>1 DEF Status, CommittedNow
      <4>3. ~ \E r \in present' : votes'[f][r].choice = "dispute"
        BY <3>2, <3>3 DEF NoVote, Participants
      <4>4. ~(withdrawals'[f] \cap present' # {})
        BY <3>3 DEF Status, CommittedNow
      <4> QED
        BY <4>2, <4>3, <4>4 DEF Status
    <3> QED
      BY <2>0, <3>1, <3>3, <3>4
  <2>2. ASSUME NEW p \in Voters, NEW g \in Facets, NEW c \in {"agree", "dispute"},
               VoteFacet(p, g, c)
        PROVE  FALSE
    <3>1. g # f
      BY <2>2 DEF VoteFacet, CanVoteFacet
    <3> QED
      BY <2>0, <2>2, <3>1 DEF VoteFacet, RecordVote
  <2>3. ASSUME NEW p \in Voters, NEW q \in pending, NEW c \in {"agree", "dispute"},
               VoteValueProposal(p, q, c)
        PROVE  FALSE
    BY <2>0, <2>3 DEF VoteValueProposal, RecordVote
  <2>4. ASSUME NEW p \in Voters, NEW q \in pending, NEW c \in {"agree", "dispute"},
               VoteCapture(p, q, c)
        PROVE  FALSE
    BY <2>0, <2>4 DEF VoteCapture, facetVars
  <2>5. ASSUME NEW g \in Facets, CommitFacet(g) PROVE FALSE
    <3>1. g # f
      BY <2>5 DEF CommitFacet
    <3> QED
      BY <2>0, <2>5, <3>1 DEF CommitFacet, Commit
  <2>6. ASSUME NEW q \in pending, CommitCapture(q) PROVE FALSE
    BY <2>0, <2>6 DEF CommitCapture, Commit
  <2>7. ASSUME NEW q \in pending, MarkMetaDisagreement(q) PROVE FALSE
    BY <2>0, <2>7 DEF MarkMetaDisagreement, CanMark
  <2>8. ASSUME NEW p \in Participants, NEW g \in Facets, WithdrawAgreement(p, g)
        PROVE  FALSE
    BY <2>0, <2>8 DEF WithdrawAgreement
  <2>9. ASSUME NEW q \in pending, WithdrawProposal(q) PROVE FALSE
    BY <2>0, <2>9 DEF WithdrawProposal, facetVars
  <2>10. ASSUME NEW p \in Debaters, Join(p) \/ Leave(p) PROVE FALSE
    BY <2>0, <2>10 DEF Join, Leave, facetVars
  <2> QED
    BY <2>1, <2>2, <2>3, <2>4, <2>5, <2>6, <2>7, <2>8, <2>9, <2>10 DEF Next
<1>2. IInv /\ [Next]_vars => [Loud]_vars
  BY <1>1
<1> QED
  BY <1>2, InvariantHolds, PTL DEF Spec, NoSilentReopening

\* No vote and no pending proposal outlives what it is about.
THEOREM NothingStaysBehind == Spec => []NothingIsLeftOver
  BY VotesNeverOutliveCandidates, SweepsAreComplete, PTL DEF NothingIsLeftOver

(****************************************************************************)
(* The clients: FacetDisplay and FacetPanel                                 *)
(****************************************************************************)

\* Nobody voted on the capture: from then on the fold and the server count the
\* votes of its facet differently.
CaptureUnvoted == \A p \in Participants : captureVotes[p] = "none"

\* The proposals about the entity are numbered from 1, and those made after it
\* was created stay within the bound.
Numbered ==
  /\ nextId \in Nat \ {0, 1}
  /\ \A q \in pending : q.id > 0 /\ (q.kind = "value" => q.id <= MaxProposals)

\* What the fold has in common with the projection, whatever happened: the
\* marks, and as long as it attributes the candidate to the right proposal
\* also the candidate and its votes.
Mirrors ==
  /\ recanted = withdrawals
  /\ marked = committedAt
  /\ closed = meta
  /\ \A f \in Facets :
       supplier[f] = source[f] =>
         /\ offered[f] <=> candidate[f] # NoValue
         /\ CaptureUnvoted =>
              \A p \in Participants : tally[f][p] = votes[f][p].choice

\* A facet none of whose frames was lost or overtaken: the last frame under
\* way, or the cell when there is none, is the status the server holds.
InStep ==
  \A f \in Facets \ upset :
    IF frames[f] = <<>>
      THEN cell[f] # NoCell => cell[f] = Status(f)
      ELSE frames[f][Len(frames[f])] = Status(f)

DInv == IInv /\ DisplayTypeOK /\ Numbered /\ Mirrors /\ InStep

----------------------------------------------------------------------------
(* Frames *)

\* One of the rules of the derivation always applies.
LEMMA StatusIsAStatus ==
  ASSUME NEW f \in Facets
  PROVE  Status(f) \in Statuses /\ Status(f)' \in Statuses
BY DEF Status, Statuses

\* Taking one frame out of a queue leaves a queue of frames.
LEMMA WithoutIsASeq ==
  ASSUME NEW S, NEW s \in Seq(S), NEW i \in 1..Len(s)
  PROVE  /\ Without(s, i) \in Seq(S)
         /\ Len(Without(s, i)) = Len(s) - 1
         /\ s[i] \in S
<1>1. /\ SubSeq(s, 1, i - 1) \in Seq(S)
      /\ Len(SubSeq(s, 1, i - 1)) = i - 1
  OBVIOUS
<1>2. /\ SubSeq(s, i + 1, Len(s)) \in Seq(S)
      /\ Len(SubSeq(s, i + 1, Len(s))) = Len(s) - i
  OBVIOUS
<1>3. ASSUME NEW a \in Seq(S), NEW b \in Seq(S)
      PROVE  a \o b \in Seq(S) /\ Len(a \o b) = Len(a) + Len(b)
  OBVIOUS
<1>4. s[i] \in S
  OBVIOUS
<1>5. Without(s, i) \in Seq(S) /\ Len(Without(s, i)) = i - 1 + (Len(s) - i)
  BY <1>1, <1>2, <1>3 DEF Without
<1> QED
  BY <1>4, <1>5

\* Taking the first frame out leaves the last one where it is, if it was
\* another.
LEMMA WithoutFirst ==
  ASSUME NEW S, NEW s \in Seq(S), Len(s) > 1
  PROVE  Without(s, 1)[Len(s) - 1] = s[Len(s)]
<1>1. SubSeq(s, 1, 0) = <<>> /\ SubSeq(s, 2, Len(s)) \in Seq(S)
  OBVIOUS
<1>2. Without(s, 1) = SubSeq(s, 2, Len(s))
  BY <1>1 DEF Without
<1>3. SubSeq(s, 2, Len(s))[Len(s) - 1] = s[Len(s)]
  OBVIOUS
<1> QED
  BY <1>2, <1>3

LEMMA WithoutOnly ==
  ASSUME NEW S, NEW s \in Seq(S), Len(s) = 1
  PROVE  Without(s, 1) = <<>>
<1>1. SubSeq(s, 1, 0) = <<>> /\ SubSeq(s, 2, 1) = <<>>
  OBVIOUS
<1> QED
  BY <1>1 DEF Without

\* A status frame for f, when nothing else changed its status.
LEMMA AnnouncePreserves ==
  ASSUME DisplayTypeOK, InStep, NEW f \in Facets, Announce(f),
         \A g \in Facets \ {f} : Status(g)' = Status(g)
  PROVE  /\ InStep'
         /\ frames' \in [Facets -> Seq(Statuses)]
         /\ cell' \in [Facets -> Statuses \cup {NoCell}]
         /\ upset' \subseteq Facets
<1> USE DEF Announce
<1>1. /\ frames \in [Facets -> Seq(Statuses)]
      /\ cell \in [Facets -> Statuses \cup {NoCell}]
      /\ upset \subseteq Facets
  BY DEF DisplayTypeOK
<1>2. Status(f)' \in Statuses
  BY StatusIsAStatus
<1>3. PICK x \in Statuses : x = Status(f)'
  BY <1>2
<1>4. frames' = [frames EXCEPT ![f] = Append(@, x)]
  BY <1>3
<1>5. /\ frames'[f] = Append(frames[f], x)
      /\ \A g \in Facets \ {f} : frames'[g] = frames[g]
  BY <1>1, <1>4
<1>6. /\ frames'[f] # <<>>
      /\ frames'[f][Len(frames'[f])] = x
  BY <1>1, <1>5
<1>7. InStep'
  <2> SUFFICES ASSUME NEW g \in Facets, g \notin upset'
               PROVE  IF frames'[g] = <<>>
                        THEN cell'[g] # NoCell => cell'[g] = Status(g)'
                        ELSE frames'[g][Len(frames'[g])] = Status(g)'
    BY DEF InStep
  <2>1. CASE g = f
    BY <2>1, <1>3, <1>6
  <2>2. CASE g # f
    <3>1. g \notin upset /\ Status(g)' = Status(g)
      BY <2>2
    <3> QED
      BY <2>2, <3>1, <1>5 DEF InStep
  <2> QED
    BY <2>1, <2>2
<1>8. frames' \in [Facets -> Seq(Statuses)]
  BY <1>1, <1>4
<1> QED
  BY <1>1, <1>7, <1>8

\* No frame: the facets whose status changed are noted.
LEMMA UnannouncedPreserves ==
  ASSUME DisplayTypeOK, InStep, Unannounced
  PROVE  /\ InStep'
         /\ frames' \in [Facets -> Seq(Statuses)]
         /\ cell' \in [Facets -> Statuses \cup {NoCell}]
         /\ upset' \subseteq Facets
<1> USE DEF Unannounced
<1>1. InStep'
  <2> SUFFICES ASSUME NEW g \in Facets, g \notin upset'
               PROVE  IF frames'[g] = <<>>
                        THEN cell'[g] # NoCell => cell'[g] = Status(g)'
                        ELSE frames'[g][Len(frames'[g])] = Status(g)'
    BY DEF InStep
  <2>1. g \notin upset /\ Status(g)' = Status(g)
    OBVIOUS
  <2> QED
    BY <2>1 DEF InStep
<1> QED
  BY <1>1 DEF DisplayTypeOK

LEMMA AnnounceKeyedPreserves ==
  ASSUME DisplayTypeOK, InStep, NEW f \in Facets, AnnounceKeyed(f),
         \A g \in Facets \ {f} : Status(g)' = Status(g)
  PROVE  /\ InStep'
         /\ frames' \in [Facets -> Seq(Statuses)]
         /\ cell' \in [Facets -> Statuses \cup {NoCell}]
         /\ upset' \subseteq Facets
<1>1. CASE source[f] # 0
  BY <1>1, AnnouncePreserves DEF AnnounceKeyed
<1>2. CASE source[f] = 0
  BY <1>2, UnannouncedPreserves DEF AnnounceKeyed, Unannounced
<1> QED
  BY <1>1, <1>2

----------------------------------------------------------------------------
(* The fold *)

\* The part of DisplayTypeOK about the fold.
FoldTypes ==
  /\ tally \in [Facets -> [Participants -> Choices]]
  /\ recanted \in [Facets -> SUBSET Participants]
  /\ marked \in [Facets -> BOOLEAN]
  /\ closed \in [Facets -> BOOLEAN]
  /\ offered \in [Facets -> BOOLEAN]
  /\ supplier \in [Facets -> Nat]
  /\ \A f \in Facets : supplier[f] \in {0, source[f]}
  /\ prior \in [Proposed -> BOOLEAN]

FoldInv == IInv /\ FoldTypes /\ Numbered /\ Mirrors

LEMMA FoldOfPropose ==
  ASSUME FoldInv, NEW p \in Participants, NEW f \in Facets, NEW v \in Values,
         Propose(p, f, v), FoldProposal(f)
  PROVE  FoldTypes' /\ Numbered' /\ Mirrors'
<1> USE DEF FoldInv, IInv
<1>1. nextId \in Proposed /\ nextId \in Nat
  BY BoundAssumption DEF Numbered, Propose, Proposed
<1>2. FoldTypes'
  <2>1. tally' = [tally EXCEPT ![f] = Nobody] /\ Nobody \in [Participants -> Choices]
    BY DEF FoldProposal, Nobody, Choices
  <2>2. supplier' = [supplier EXCEPT ![f] = nextId] /\ source' = [source EXCEPT ![f] = nextId]
    BY DEF FoldProposal, Propose
  <2>3. \A g \in Facets : supplier'[g] \in {0, source'[g]}
    BY <2>2 DEF FoldTypes, TypeOK
  <2>4. supplier' \in [Facets -> Nat]
    BY <1>1, <2>2 DEF FoldTypes
  <2>5. tally' \in [Facets -> [Participants -> Choices]]
    BY <2>1 DEF FoldTypes
  <2>6. /\ offered' \in [Facets -> BOOLEAN]
        /\ prior' \in [Proposed -> BOOLEAN]
    BY <1>1 DEF FoldTypes, FoldProposal
  <2>7. UNCHANGED <<recanted, marked, closed>>
    BY DEF FoldProposal
  <2> QED
    BY <2>3, <2>4, <2>5, <2>6, <2>7 DEF FoldTypes
<1>3. Numbered'
  <2>1. PICK k \in {"value", "minting"} :
          pending' = pending \cup {[id |-> nextId, facet |-> f, proposer |-> p, kind |-> k]}
    BY DEF Propose
  <2>2. nextId' = nextId + 1 /\ nextId <= MaxProposals
    BY DEF Propose
  <2> QED
    BY <2>1, <2>2 DEF Numbered
<1>4. Mirrors'
  <2>1. UNCHANGED <<recanted, marked, closed, withdrawals, committedAt, meta, captureVotes>>
    BY DEF FoldProposal, Propose
  <2>2. /\ tally' = [tally EXCEPT ![f] = Nobody]
        /\ votes' = [votes EXCEPT ![f] = [r \in Participants |-> NoVote]]
        /\ offered' = [offered EXCEPT ![f] = TRUE]
        /\ candidate' = [candidate EXCEPT ![f] = v]
        /\ supplier' = [supplier EXCEPT ![f] = nextId]
        /\ source' = [source EXCEPT ![f] = nextId]
    BY DEF FoldProposal, Propose, ClearVotes
  <2>3. ASSUME NEW g \in Facets, supplier'[g] = source'[g]
        PROVE  /\ offered'[g] <=> candidate'[g] # NoValue
               /\ CaptureUnvoted' =>
                    \A r \in Participants : tally'[g][r] = votes'[g][r].choice
    <3>1. CASE g = f
      <4>1. offered'[g] /\ candidate'[g] # NoValue
        BY <3>1, <2>2, ValueAssumption DEF FoldTypes, TypeOK
      <4>2. \A r \in Participants : tally'[g][r] = "none" /\ votes'[g][r].choice = "none"
        BY <3>1, <2>2 DEF FoldTypes, TypeOK, Nobody, NoVote
      <4> QED
        BY <4>1, <4>2
    <3>2. CASE g # f
      <4>1. /\ offered'[g] = offered[g] /\ candidate'[g] = candidate[g]
            /\ tally'[g] = tally[g] /\ votes'[g] = votes[g]
            /\ supplier[g] = source[g]
        BY <3>2, <2>2, <2>3 DEF FoldTypes, TypeOK
      <4> QED
        BY <4>1, <2>1 DEF Mirrors, CaptureUnvoted
    <3> QED
      BY <3>1, <3>2
  <2> QED
    BY <2>1, <2>3 DEF Mirrors
<1> QED
  BY <1>2, <1>3, <1>4

\* A vote the server records on the facet.
LEMMA FoldOfVote ==
  ASSUME FoldInv, NEW p \in Participants, NEW f \in Facets, NEW id,
         NEW c \in {"agree", "dispute"},
         RecordVote(p, f, c, id), FoldVote(p, f, c)
  PROVE  FoldTypes' /\ Numbered' /\ Mirrors'
<1> USE DEF FoldInv, IInv
<1>1. /\ tally' = [tally EXCEPT ![f][p] = c]
      /\ votes' = [votes EXCEPT ![f][p] = [choice |-> c, on |-> id]]
      /\ UNCHANGED <<recanted, marked, closed, offered, supplier, prior,
                     source, candidate, withdrawals, committedAt, meta,
                     captureVotes, nextId, pending>>
  BY DEF FoldVote, RecordVote
<1>2. FoldTypes'
  BY <1>1 DEF FoldTypes, Choices
<1>3. Numbered'
  BY <1>1 DEF Numbered
<1>4. Mirrors'
  <2>1. ASSUME NEW g \in Facets, supplier'[g] = source'[g], CaptureUnvoted',
               NEW r \in Participants
        PROVE  tally'[g][r] = votes'[g][r].choice
    <3>1. tally[g][r] = votes[g][r].choice
      BY <2>1, <1>1 DEF Mirrors, CaptureUnvoted
    <3>2. CASE g = f /\ r = p
      BY <3>2, <1>1 DEF FoldTypes, TypeOK
    <3>3. CASE ~(g = f /\ r = p)
      <4>1. tally'[g][r] = tally[g][r] /\ votes'[g][r] = votes[g][r]
        BY <3>3, <1>1 DEF FoldTypes, TypeOK
      <4> QED
        BY <3>1, <4>1
    <3> QED
      BY <3>2, <3>3
  <2> QED
    BY <1>1, <2>1 DEF Mirrors
<1> QED
  BY <1>2, <1>3, <1>4

\* A vote the server keeps on the capture: from now on nothing is compared.
LEMMA FoldOfCaptureVote ==
  ASSUME FoldInv, NEW p \in Participants, NEW q \in pending,
         NEW c \in {"agree", "dispute"},
         VoteCapture(p, q, c), q.facet \in Facets, FoldVote(p, q.facet, c)
  PROVE  FoldTypes' /\ Numbered' /\ Mirrors'
<1> USE DEF FoldInv, IInv, VoteCapture, facetVars, FoldVote
<1>1. FoldTypes'
  BY DEF FoldTypes, Choices
<1>2. Numbered'
  BY DEF Numbered
<1>3. ~CaptureUnvoted'
  BY DEF CaptureUnvoted, TypeOK
<1> QED
  BY <1>1, <1>2, <1>3 DEF Mirrors

LEMMA FoldOfCommit ==
  ASSUME FoldInv, NEW f \in Facets, Commit(f), FoldCommit(f)
  PROVE  FoldTypes' /\ Numbered' /\ Mirrors'
<1> USE DEF FoldInv, IInv, Commit, Sweep, FoldCommit
<1>1. FoldTypes'
  BY DEF FoldTypes
<1>2. Numbered'
  BY DEF Numbered
<1>3. Mirrors'
  BY DEF Mirrors, CaptureUnvoted
<1> QED
  BY <1>1, <1>2, <1>3

LEMMA FoldOfMark ==
  ASSUME FoldInv, NEW q \in pending, q.facet \in Facets,
         MarkMetaDisagreement(q), FoldMark(q.facet)
  PROVE  FoldTypes' /\ Numbered' /\ Mirrors'
<1> USE DEF FoldInv, IInv, MarkMetaDisagreement, CanMark, Sweep, FoldMark
<1>1. FoldTypes'
  BY DEF FoldTypes
<1>2. Numbered'
  BY DEF Numbered
<1>3. Mirrors'
  BY DEF Mirrors, CaptureUnvoted
<1> QED
  BY <1>1, <1>2, <1>3

LEMMA FoldOfWithdrawAgreement ==
  ASSUME FoldInv, NEW p \in Participants, NEW f \in Facets,
         WithdrawAgreement(p, f), FoldWithdrawAgreement(p, f)
  PROVE  FoldTypes' /\ Numbered' /\ Mirrors'
<1> USE DEF FoldInv, IInv, WithdrawAgreement, FoldWithdrawAgreement
<1>1. FoldTypes'
  BY DEF FoldTypes
<1>2. Numbered'
  BY DEF Numbered
<1>3. Mirrors'
  BY DEF Mirrors, CaptureUnvoted
<1> QED
  BY <1>1, <1>2, <1>3

\* The proposal that supplied the candidate is withdrawn: the server keeps the
\* candidate under its number, the fold attributes the facet to nobody.
LEMMA FoldOfProposalWithdrawn ==
  ASSUME FoldInv, NEW q \in pending, q.facet \in Facets,
         q.kind \notin {"capture", "minting"},
         WithdrawProposal(q), FoldProposalWithdrawn(q)
  PROVE  FoldTypes' /\ Numbered' /\ Mirrors'
<1> USE DEF FoldInv, IInv
<1>1. /\ pending' = pending \ {q}
      /\ UNCHANGED <<candidate, source, votes, withdrawals, committedAt, meta,
                     captureVotes, nextId, recanted, marked, closed, prior>>
  BY DEF WithdrawProposal, facetVars, FoldProposalWithdrawn
<1>2. q.kind = "value" /\ q.id \in Proposed /\ q.id \in Nat /\ q.id # 0
  BY BoundAssumption DEF TypeOK, Proposals, ProposalKinds, Numbered, Proposed
<1>3. Numbered'
  BY <1>1 DEF Numbered
<1>4. CASE supplier[q.facet] = q.id
  <2>1. /\ tally' = [tally EXCEPT ![q.facet] = Nobody]
        /\ offered' = [offered EXCEPT ![q.facet] = prior[q.id]]
        /\ supplier' = [supplier EXCEPT ![q.facet] = 0]
    BY <1>4 DEF FoldProposalWithdrawn
  <2>2. prior[q.id] \in BOOLEAN /\ Nobody \in [Participants -> Choices]
    BY <1>2 DEF FoldTypes, Nobody, Choices
  <2>3. source[q.facet] # 0
    BY <1>2, <1>4 DEF FoldTypes
  <2>4. tally' \in [Facets -> [Participants -> Choices]]
    BY <2>1, <2>2 DEF FoldTypes
  <2>5. offered' \in [Facets -> BOOLEAN]
    BY <2>1, <2>2 DEF FoldTypes
  <2>6. FoldTypes'
    BY <1>1, <2>1, <2>4, <2>5 DEF FoldTypes
  <2>7. Mirrors'
    <3> SUFFICES ASSUME NEW g \in Facets, supplier'[g] = source'[g]
                 PROVE  /\ offered'[g] <=> candidate'[g] # NoValue
                        /\ CaptureUnvoted' =>
                             \A p \in Participants : tally'[g][p] = votes'[g][p].choice
      BY <1>1 DEF Mirrors
    <3>1. g # q.facet
      BY <1>1, <2>1, <2>3 DEF FoldTypes
    <3>2. /\ offered'[g] = offered[g] /\ tally'[g] = tally[g]
          /\ supplier[g] = source[g]
      BY <3>1, <1>1, <2>1 DEF FoldTypes
    <3> QED
      BY <3>2, <1>1 DEF Mirrors, CaptureUnvoted
  <2> QED
    BY <1>3, <2>6, <2>7
<1>5. CASE supplier[q.facet] # q.id
  <2>1. UNCHANGED <<tally, offered, supplier>>
    BY <1>5 DEF FoldProposalWithdrawn
  <2> QED
    BY <1>1, <1>3, <2>1 DEF FoldTypes, Mirrors, CaptureUnvoted
<1> QED
  BY <1>4, <1>5

\* An event the fold makes nothing of, or no event at all.
LEMMA FoldIdle ==
  ASSUME FoldInv, UNCHANGED <<facetVars, captureVotes, nextId, fold>>,
         pending' = pending
  PROVE  FoldTypes' /\ Numbered' /\ Mirrors'
BY DEF FoldInv, FoldTypes, Numbered, Mirrors, CaptureUnvoted, facetVars, fold

----------------------------------------------------------------------------
(* Steps *)

\* Every step of the screens is a step of the server, or none.
LEMMA ServerSteps == DisplayNext => [Next]_vars
BY DEF DisplayNext, SeePropose, SeeVoteFacet, SeeVoteValueProposal,
       SeeVoteCapture, SeeCommitFacet, SeeCommitCapture, SeeMark,
       SeeWithdrawAgreement, SeeWithdrawProposal, SeeJoin, SeeLeave, Deliver,
       Lose, Reload, Next

\* What a step does to the cells and frames keeps them in their types and in
\* step with the server.
OverlayOK ==
  /\ InStep'
  /\ frames' \in [Facets -> Seq(Statuses)]
  /\ cell' \in [Facets -> Statuses \cup {NoCell}]
  /\ upset' \subseteq Facets

\* An event about facet f leaves the status of the others alone.
LEMMA OthersKeepTheirStatus ==
  ASSUME IInv, NEW f \in Facets, NEW g \in Facets \ {f},
         \/ \E p \in Participants, v \in Values : Propose(p, f, v)
         \/ \E p \in Participants, c \in {"agree", "dispute"}, id \in Nat : RecordVote(p, f, c, id)
         \/ Commit(f)
         \/ \E q \in pending : q.facet = f /\ MarkMetaDisagreement(q)
  PROVE  Status(g)' = Status(g)
<1> USE DEF IInv, TypeOK
<1>1. ASSUME NEW p \in Participants, NEW v \in Values, Propose(p, f, v)
      PROVE  Status(g)' = Status(g)
  BY <1>1, StatusIsLocal DEF Propose, ClearVotes
<1>2. ASSUME NEW p \in Participants, NEW c \in {"agree", "dispute"}, NEW id \in Nat,
             RecordVote(p, f, c, id)
      PROVE  Status(g)' = Status(g)
  BY <1>2, StatusIsLocal DEF RecordVote
<1>3. CASE Commit(f)
  BY <1>3, StatusIsLocal DEF Commit
<1>4. ASSUME NEW q \in pending, q.facet = f, MarkMetaDisagreement(q)
      PROVE  Status(g)' = Status(g)
  BY <1>4, StatusIsLocal DEF MarkMetaDisagreement, CanMark
<1> QED
  BY <1>1, <1>2, <1>3, <1>4

\* A frame arrives.
LEMMA DeliverOK ==
  ASSUME DInv, NEW f \in Facets, NEW i \in DOMAIN frames[f], Deliver(f, i)
  PROVE  OverlayOK
<1>1. /\ frames \in [Facets -> Seq(Statuses)]
      /\ cell \in [Facets -> Statuses \cup {NoCell}]
      /\ upset \subseteq Facets
  BY DEF DInv, DisplayTypeOK
<1>2. PICK s \in Seq(Statuses) : s = frames[f]
  BY <1>1
<1>3. i \in 1..Len(s)
  BY <1>2
<1>4. PICK t \in Seq(Statuses) : t = Without(s, i)
  BY <1>3, WithoutIsASeq
<1>5. /\ frames' = [frames EXCEPT ![f] = t]
      /\ cell' = [cell EXCEPT ![f] = s[i]]
      /\ upset' = IF i > 1 THEN upset \cup {f} ELSE upset
  BY <1>2, <1>4 DEF Deliver
<1>6. s[i] \in Statuses
  BY <1>3, WithoutIsASeq
<1>7. \A g \in Facets : Status(g)' = Status(g)
  BY StatusIsLocal DEF Deliver, vars, facetVars
<1>8. ASSUME NEW g \in Facets, g \notin upset'
      PROVE  IF frames'[g] = <<>>
               THEN cell'[g] # NoCell => cell'[g] = Status(g)'
               ELSE frames'[g][Len(frames'[g])] = Status(g)'
  <2>1. g \notin upset
    BY <1>5, <1>8
  <2>2. CASE g # f
    <3>1. frames'[g] = frames[g] /\ cell'[g] = cell[g]
      BY <1>1, <1>5, <2>2
    <3> QED
      BY <3>1, <2>1, <1>7 DEF DInv, InStep
  <2>3. CASE g = f
    <3>1. i = 1
      BY <1>3, <1>5, <1>8, <2>3
    <3>2. frames'[f] = t /\ cell'[f] = s[1] /\ t = Without(s, 1)
      BY <1>1, <1>4, <1>5, <3>1
    <3>3. s # <<>> /\ s[Len(s)] = Status(f)
      BY <1>2, <1>3, <2>1, <2>3 DEF DInv, InStep
    <3>4. CASE Len(s) = 1
      BY <3>4, <3>2, <3>3, <2>3, <1>7, WithoutOnly
    <3>5. CASE Len(s) > 1
      <4>1. Len(t) = Len(s) - 1 /\ t[Len(s) - 1] = s[Len(s)]
        BY <3>5, <3>2, <1>3, <3>1, WithoutIsASeq, WithoutFirst
      <4>2. t # <<>>
        BY <4>1, <3>5
      <4> QED
        BY <4>1, <4>2, <3>2, <3>3, <2>3, <1>7
    <3>6. Len(s) \in Nat
      OBVIOUS
    <3>7. Len(s) = 1 \/ Len(s) > 1
      <4>1. PICK n \in Nat : n = Len(s)
        BY <3>6
      <4>2. i \in 1..n
        BY <4>1, <1>3
      <4>3. n = 1 \/ n > 1
        BY <4>2
      <4> QED
        BY <4>1, <4>3
    <3> QED
      BY <3>4, <3>5, <3>7
  <2> QED
    BY <2>2, <2>3
<1>9. InStep'
  BY <1>8 DEF InStep
<1> QED
  BY <1>1, <1>5, <1>6, <1>9 DEF OverlayOK

\* A frame is lost.
LEMMA LoseOK ==
  ASSUME DInv, NEW f \in Facets, NEW i \in DOMAIN frames[f], Lose(f, i)
  PROVE  OverlayOK
<1>1. /\ frames \in [Facets -> Seq(Statuses)]
      /\ cell \in [Facets -> Statuses \cup {NoCell}]
      /\ upset \subseteq Facets
  BY DEF DInv, DisplayTypeOK
<1>2. PICK s \in Seq(Statuses) : s = frames[f]
  BY <1>1
<1>3. PICK t \in Seq(Statuses) : t = Without(s, i)
  BY <1>2, WithoutIsASeq
<1>4. /\ frames' = [frames EXCEPT ![f] = t]
      /\ upset' = upset \cup {f}
      /\ cell' = cell
  BY <1>2, <1>3 DEF Lose
<1>5. \A g \in Facets : Status(g)' = Status(g)
  BY StatusIsLocal DEF Lose, vars, facetVars
<1>6. InStep'
  BY <1>1, <1>4, <1>5 DEF DInv, InStep
<1> QED
  BY <1>1, <1>4, <1>6 DEF OverlayOK

\* The three parts a step has to keep make up the invariant.
LEMMA PartsMakeTheInvariant ==
  ASSUME IInv', FoldTypes', Numbered', Mirrors', OverlayOK
  PROVE  DInv'
BY DEF DInv, DisplayTypeOK, FoldTypes, OverlayOK

LEMMA InitEstablishesDInv == DisplayInit => DInv
<1> SUFFICES ASSUME DisplayInit PROVE DInv
  OBVIOUS
<1> USE DEF DisplayInit
<1>1. IInv
  BY InitEstablishesIInv
<1>2. /\ source \in [Facets -> Nat]
      /\ withdrawals = [f \in Facets |-> {}]
      /\ committedAt = [f \in Facets |-> FALSE]
      /\ meta = [f \in Facets |-> FALSE]
      /\ votes = [f \in Facets |-> [p \in Participants |-> NoVote]]
      /\ nextId = 2
  BY <1>1 DEF IInv, TypeOK, Init
<1>3. FoldTypes
  BY <1>2 DEF FoldTypes, Nobody, Choices
<1>4. Numbered
  <2>1. \A q \in pending : q.id = 1 /\ q.kind # "value"
    BY DEF Init, Minted, CapturedEdge
  <2> QED
    BY <1>2, <2>1 DEF Numbered
<1>5. Mirrors
  BY <1>2 DEF Mirrors, Nobody, NoVote
<1>6. /\ frames \in [Facets -> Seq(Statuses)]
      /\ cell \in [Facets -> Statuses \cup {NoCell}]
      /\ upset \subseteq Facets
      /\ InStep
  BY DEF InStep
<1> QED
  BY <1>1, <1>3, <1>4, <1>5, <1>6 DEF DInv, DisplayTypeOK, FoldTypes

LEMMA NextPreservesDInv == DInv /\ [DisplayNext]_displayVars => DInv'
<1> SUFFICES ASSUME DInv, [DisplayNext]_displayVars PROVE DInv'
  OBVIOUS
<1>0. /\ IInv /\ DisplayTypeOK /\ InStep
      /\ FoldInv
      /\ IInv'
  BY ServerSteps, NextPreservesIInv DEF DInv, FoldInv, FoldTypes, DisplayTypeOK, displayVars
<1>a. /\ Voters \subseteq Participants
      /\ \A q \in pending : q.facet \in Facets /\ q.id \in Nat
      /\ source \in [Facets -> Nat]
  BY <1>0, VoterAssumption DEF IInv, TypeOK, Proposals, Proposable, Participants
<1>1. ASSUME NEW p \in Participants, NEW f \in Facets, NEW v \in Values,
             SeePropose(p, f, v)
      PROVE  DInv'
  <2>1. FoldTypes' /\ Numbered' /\ Mirrors'
    BY <1>0, <1>1, FoldOfPropose DEF SeePropose
  <2>2. OverlayOK
    BY <1>0, <1>1, OthersKeepTheirStatus, AnnouncePreserves DEF SeePropose, OverlayOK
  <2> QED
    BY <1>0, <2>1, <2>2, PartsMakeTheInvariant
<1>2. ASSUME NEW p \in Voters, NEW f \in Facets, NEW c \in {"agree", "dispute"},
             SeeVoteFacet(p, f, c)
      PROVE  DInv'
  <2>1. p \in Participants /\ source[f] \in Nat /\ RecordVote(p, f, c, source[f])
    BY <1>a, <1>2 DEF SeeVoteFacet, VoteFacet
  <2>2. FoldTypes' /\ Numbered' /\ Mirrors'
    BY <1>0, <1>2, <2>1, FoldOfVote DEF SeeVoteFacet
  <2>3. \A g \in Facets \ {f} : Status(g)' = Status(g)
    BY <1>0, <2>1, OthersKeepTheirStatus
  <2>4. OverlayOK
    BY <1>0, <1>2, <2>3, AnnounceKeyedPreserves DEF SeeVoteFacet, OverlayOK
  <2> QED
    BY <1>0, <2>2, <2>4, PartsMakeTheInvariant
<1>3. ASSUME NEW p \in Voters, NEW q \in pending, NEW c \in {"agree", "dispute"},
             SeeVoteValueProposal(p, q, c)
      PROVE  DInv'
  <2>1. /\ p \in Participants /\ q.facet \in Facets /\ q.id \in Nat
        /\ RecordVote(p, q.facet, c, q.id)
    BY <1>a, <1>3 DEF SeeVoteValueProposal, VoteValueProposal
  <2>2. FoldTypes' /\ Numbered' /\ Mirrors'
    BY <1>0, <1>3, <2>1, FoldOfVote DEF SeeVoteValueProposal
  <2>3. \A g \in Facets \ {q.facet} : Status(g)' = Status(g)
    BY <1>0, <2>1, OthersKeepTheirStatus
  <2>4. OverlayOK
    BY <1>0, <1>3, <2>1, <2>3, AnnouncePreserves DEF SeeVoteValueProposal, OverlayOK
  <2> QED
    BY <1>0, <2>2, <2>4, PartsMakeTheInvariant
<1>4. ASSUME NEW p \in Voters, NEW q \in pending, NEW c \in {"agree", "dispute"},
             SeeVoteCapture(p, q, c)
      PROVE  DInv'
  <2>1. p \in Participants /\ q.facet \in Facets /\ VoteCapture(p, q, c)
    BY <1>a, <1>4 DEF SeeVoteCapture
  <2>2. FoldTypes' /\ Numbered' /\ Mirrors'
    BY <1>0, <1>4, <2>1, FoldOfCaptureVote DEF SeeVoteCapture
  <2>3. \A g \in Facets \ {q.facet} : Status(g)' = Status(g)
    BY <2>1, StatusIsLocal DEF VoteCapture, facetVars
  <2>4. OverlayOK
    BY <1>0, <1>4, <2>1, <2>3, AnnouncePreserves DEF SeeVoteCapture, OverlayOK
  <2> QED
    BY <1>0, <2>2, <2>4, PartsMakeTheInvariant
<1>5. ASSUME NEW f \in Facets, SeeCommitFacet(f) PROVE DInv'
  <2>1. Commit(f)
    BY <1>5 DEF SeeCommitFacet, CommitFacet
  <2>2. FoldTypes' /\ Numbered' /\ Mirrors'
    BY <1>0, <1>5, <2>1, FoldOfCommit DEF SeeCommitFacet
  <2>3. \A g \in Facets \ {f} : Status(g)' = Status(g)
    BY <1>0, <2>1, OthersKeepTheirStatus
  <2>4. OverlayOK
    BY <1>0, <1>5, <2>3, AnnounceKeyedPreserves DEF SeeCommitFacet, OverlayOK
  <2> QED
    BY <1>0, <2>2, <2>4, PartsMakeTheInvariant
<1>6. ASSUME NEW q \in pending, SeeCommitCapture(q) PROVE DInv'
  <2>1. q.facet \in Facets /\ Commit(q.facet)
    BY <1>a, <1>6 DEF SeeCommitCapture, CommitCapture
  <2>2. FoldTypes' /\ Numbered' /\ Mirrors'
    BY <1>0, <1>6, <2>1, FoldOfCommit DEF SeeCommitCapture
  <2>3. \A g \in Facets \ {q.facet} : Status(g)' = Status(g)
    BY <1>0, <2>1, OthersKeepTheirStatus
  <2>4. OverlayOK
    BY <1>0, <1>6, <2>1, <2>3, AnnouncePreserves DEF SeeCommitCapture, OverlayOK
  <2> QED
    BY <1>0, <2>2, <2>4, PartsMakeTheInvariant
<1>7. ASSUME NEW q \in pending, SeeMark(q) PROVE DInv'
  <2>1. q.facet \in Facets /\ MarkMetaDisagreement(q)
    BY <1>a, <1>7 DEF SeeMark
  <2>2. FoldTypes' /\ Numbered' /\ Mirrors'
    BY <1>0, <1>7, <2>1, FoldOfMark DEF SeeMark
  <2>3. \A g \in Facets \ {q.facet} : Status(g)' = Status(g)
    BY <1>0, <2>1, OthersKeepTheirStatus
  <2>4. OverlayOK
    BY <1>0, <1>7, <2>1, <2>3, AnnounceKeyedPreserves DEF SeeMark, OverlayOK
  <2> QED
    BY <1>0, <2>2, <2>4, PartsMakeTheInvariant
<1>8. ASSUME NEW p \in Participants, NEW f \in Facets, SeeWithdrawAgreement(p, f)
      PROVE  DInv'
  <2>1. FoldTypes' /\ Numbered' /\ Mirrors'
    BY <1>0, <1>8, FoldOfWithdrawAgreement DEF SeeWithdrawAgreement
  <2>2. OverlayOK
    BY <1>0, <1>8, UnannouncedPreserves DEF SeeWithdrawAgreement, OverlayOK
  <2> QED
    BY <1>0, <2>1, <2>2, PartsMakeTheInvariant
<1>9. ASSUME NEW q \in pending, SeeWithdrawProposal(q) PROVE DInv'
  <2>1. q.facet \in Facets
    BY <1>a
  <2>2. CASE q.kind \in {"capture", "minting"}
    <3>1. /\ UNCHANGED <<facetVars, captureVotes, nextId, fold>>
          /\ pending' = pending
          /\ cell' = [f \in Facets |-> NoCell]
          /\ UNCHANGED <<frames, upset, present>>
      BY <1>9, <2>2 DEF SeeWithdrawProposal, WithdrawProposal
    <3>2. FoldTypes' /\ Numbered' /\ Mirrors'
      BY <1>0, <3>1, FoldIdle
    <3>3. \A g \in Facets : Status(g)' = Status(g)
      BY <3>1, StatusIsLocal DEF facetVars
    <3>4. OverlayOK
      BY <1>0, <3>1, <3>3 DEF OverlayOK, InStep, DisplayTypeOK
    <3> QED
      BY <1>0, <3>2, <3>4, PartsMakeTheInvariant
  <2>3. CASE q.kind \notin {"capture", "minting"}
    <3>1. FoldTypes' /\ Numbered' /\ Mirrors'
      BY <1>0, <1>9, <2>1, <2>3, FoldOfProposalWithdrawn DEF SeeWithdrawProposal
    <3>2. OverlayOK
      BY <1>0, <1>9, <2>3, UnannouncedPreserves DEF SeeWithdrawProposal, OverlayOK
    <3> QED
      BY <1>0, <3>1, <3>2, PartsMakeTheInvariant
  <2> QED
    BY <2>2, <2>3
<1>10. ASSUME NEW p \in Debaters, SeeJoin(p) \/ SeeLeave(p) PROVE DInv'
  <2>1. /\ UNCHANGED <<facetVars, captureVotes, nextId, fold>>
        /\ pending' = pending
        /\ Unannounced
    BY <1>10 DEF SeeJoin, SeeLeave, Join, Leave
  <2> QED
    BY <1>0, <2>1, FoldIdle, UnannouncedPreserves, PartsMakeTheInvariant DEF OverlayOK
<1>11. ASSUME NEW f \in Facets, NEW i \in DOMAIN frames[f], Deliver(f, i) \/ Lose(f, i)
       PROVE  DInv'
  <2>1. OverlayOK
    BY <1>11, DeliverOK, LoseOK
  <2>2. FoldTypes' /\ Numbered' /\ Mirrors'
    BY <1>0, <1>11, FoldIdle DEF Deliver, Lose, vars
  <2> QED
    BY <1>0, <2>1, <2>2, PartsMakeTheInvariant
<1>12. CASE Reload
  <2>1. OverlayOK
    BY <1>12 DEF Reload, OverlayOK, InStep
  <2>2. FoldTypes' /\ Numbered' /\ Mirrors'
    BY <1>0, <1>12, FoldIdle DEF Reload, vars
  <2> QED
    BY <1>0, <2>1, <2>2, PartsMakeTheInvariant
<1>13. CASE UNCHANGED displayVars
  <2>1. FoldTypes' /\ Numbered' /\ Mirrors'
    BY <1>0, <1>13, FoldIdle DEF displayVars, vars
  <2>2. \A g \in Facets : Status(g)' = Status(g)
    BY <1>13, StatusIsLocal DEF displayVars, vars, facetVars
  <2>3. OverlayOK
    BY <1>0, <1>13, <2>2 DEF displayVars, overlay, OverlayOK, InStep, DisplayTypeOK
  <2> QED
    BY <1>0, <2>1, <2>3, PartsMakeTheInvariant
<1> QED
  BY <1>1, <1>2, <1>3, <1>4, <1>5, <1>6, <1>7, <1>8, <1>9, <1>10, <1>11, <1>12,
     <1>13 DEF DisplayNext

\* The rules of the shell and of the server agree where they are about the
\* same candidate.
LEMMA MirrorsAgree == DInv => FoldsAgree
<1> SUFFICES ASSUME DInv, NEW f \in Facets, Comparable(f)
             PROVE  FoldedStatus(f) = Status(f)
  BY DEF FoldsAgree
<1> USE DEF DInv
<1>1. marked[f] <=> CommittedNow(f)
  BY DEF Mirrors, Comparable, CommittedNow, IInv, MarkHasValue, TypeOK
<1>2. offered[f] <=> candidate[f] # NoValue
  BY DEF Mirrors, Comparable
<1>3. recanted[f] = withdrawals[f] /\ closed[f] = meta[f]
  BY DEF Mirrors
<1>4. \A p \in present : tally[f][p] = votes[f][p].choice
  BY DEF Mirrors, Comparable, CaptureUnvoted, IInv, TypeOK, Participants
<1> QED
  BY <1>1, <1>2, <1>3, <1>4 DEF FoldedStatus, Status, Unanimous

THEOREM DisplayInvariantHolds == DisplaySpec => []DInv
<1>1. DisplayInit => DInv
  BY InitEstablishesDInv
<1>2. DInv /\ [DisplayNext]_displayVars => DInv'
  BY NextPreservesDInv
<1> QED
  BY <1>1, <1>2, PTL DEF DisplaySpec

\* Every reachable state of the fold, the frames and the cells is well typed
\* (computeFacetStatuses, defaultStore.ts).
THEOREM DisplayTypeCorrect == DisplaySpec => []DisplayTypeOK
BY DisplayInvariantHolds, PTL DEF DInv

\* Where the shell's rules and the server's are about the same candidate they
\* give the same status (the two facet-status.ts).
THEOREM FoldFollowsProjection == DisplaySpec => []FoldsAgree
BY DisplayInvariantHolds, MirrorsAgree, PTL

\* The cell of a facet whose frames all arrived in order shows the status the
\* server holds (proposal-status.ts, applyProposalStatus).
THEOREM CellsShowTheStatus == DisplaySpec => []CellsSettle
<1>1. DInv => CellsSettle
  BY DEF DInv, InStep, CellsSettle
<1> QED
  BY <1>1, DisplayInvariantHolds, PTL

----------------------------------------------------------------------------
(* The panel *)

\* The types of the folds the controls are derived from.
PanelTypeOK ==
  /\ own \in [Facets -> [Participants -> Choices]]
  /\ ballots \in [Facets -> [Participants -> Choices]]
  /\ agreedTo \in [Facets -> [Participants -> Values \cup {NoValue}]]
  /\ made \subseteq [id : Nat, facet : Facets, kind : ProposalKinds,
                     value : Values \cup {NoValue}]
  /\ ended \subseteq Nat

\* The log's proposals and the server's: each facet's latest is the one that
\* supplied its candidate, with the candidate's value, and every pending
\* proposal is one of them; no number is used twice.
Registered ==
  /\ latest = source
  /\ \A m \in made : m.id < nextId /\ m.id <= source[m.facet]
  /\ \A m, n \in made : m.id = n.id => m = n
  /\ \A f \in Facets :
       source[f] # 0 =>
         \E m \in made : m.id = source[f] /\ m.facet = f /\ m.value = candidate[f]
  /\ \A q \in pending : \E m \in made : m.id = q.id /\ m.facet = q.facet
  /\ \A q, r \in pending : q.id = r.id => q = r
  /\ \A i \in ended : i < nextId

\* The person's own votes are those the server counts, and the ballots hold
\* them too, beside others that count no more.
Cast ==
  \A f \in Facets, p \in Participants :
    /\ own[f][p] = votes[f][p].choice
    /\ votes[f][p].choice # "none" => ballots[f][p] = votes[f][p].choice

\* No list has closed the row of a proposal the server still waits for.
Open == visible => \A q \in pending : q.id \notin ended

\* A facet is not shown as ended in meta-disagreement before it is.
MetaIsKnown ==
  \A f \in Facets :
    ~meta[f] =>
      /\ cell[f] # "meta-disagreement"
      /\ \A i \in DOMAIN frames[f] : frames[f][i] # "meta-disagreement"

Agreed == AgreementsAreToTheCandidate

FoldsInv ==
  /\ PanelTypeOK
  /\ Registered
  /\ Cast
  /\ Agreed
  /\ Open
  /\ DeadRowsAreOvertaken

PanelInv == DInv /\ MetaIsKnown /\ FoldsInv

\* What the lemmas below use of the server's invariant.
LEMMA ServerFacts ==
  ASSUME DInv
  PROVE  /\ TypeOK
         /\ Voters \subseteq Participants
         /\ present \subseteq Participants
         /\ nextId \in Nat
         /\ \A f \in Facets : source[f] \in Nat /\ source[f] < nextId
         /\ \A q \in pending : /\ q.id \in Nat /\ q.id < nextId /\ q.id # 0
                               /\ q.facet \in Facets
                               /\ q.kind \in ProposalKinds
<1>1. TypeOK /\ PendingHasCandidate /\ Numbered
  BY DEF DInv, IInv
<1>2. pending \subseteq Proposals /\ source \in [Facets -> Nat] /\ present \subseteq Debaters
  BY <1>1 DEF TypeOK
<1>3. \A q \in pending : /\ q.id \in Nat /\ q.id < nextId /\ q.id # 0
                         /\ q.facet \in Facets
                         /\ q.kind \in ProposalKinds
  BY <1>1, <1>2 DEF Proposals, Proposable, PendingHasCandidate, Numbered
<1>4. Voters \subseteq Participants /\ present \subseteq Participants
  BY <1>2, VoterAssumption DEF Participants
<1>5. nextId \in Nat /\ \A f \in Facets : source[f] \in Nat /\ source[f] < nextId
  BY <1>1, <1>2 DEF TypeOK, PendingHasCandidate
<1> QED
  BY <1>1, <1>3, <1>4, <1>5

\* The frames of a queue from which one was taken were in it before.
LEMMA WithoutKeepsElements ==
  ASSUME NEW S, NEW s \in Seq(S), NEW i \in 1..Len(s),
         NEW j \in DOMAIN Without(s, i)
  PROVE  \E k \in DOMAIN s : Without(s, i)[j] = s[k]
<1> DEFINE a == SubSeq(s, 1, i - 1)
           b == SubSeq(s, i + 1, Len(s))
<1>0. PICK n \in Nat : n = Len(s) /\ DOMAIN s = 1..n /\ i \in 1..n
  OBVIOUS
<1>1. a \in Seq(S) /\ Len(a) = i - 1 /\ \A k \in 1..(i - 1) : a[k] = s[k]
  OBVIOUS
<1>2. b \in Seq(S) /\ Len(b) = n - i /\ \A k \in 1..(n - i) : b[k] = s[k + i]
  BY <1>0
<1>3. Without(s, i) = a \o b
  BY DEF Without
<1> HIDE DEF a, b
<1>4. /\ DOMAIN (a \o b) = 1..(Len(a) + Len(b))
      /\ \A k \in 1..(Len(a) + Len(b)) :
           (a \o b)[k] = IF k <= Len(a) THEN a[k] ELSE b[k - Len(a)]
  <2>1. ASSUME NEW x \in Seq(S), NEW y \in Seq(S)
        PROVE  /\ DOMAIN (x \o y) = 1..(Len(x) + Len(y))
               /\ \A k \in 1..(Len(x) + Len(y)) :
                    (x \o y)[k] = IF k <= Len(x) THEN x[k] ELSE y[k - Len(x)]
    OBVIOUS
  <2> QED
    BY <2>1, <1>1, <1>2
<1>5. j \in 1..(n - 1)
  BY <1>0, <1>1, <1>2, <1>3, <1>4
<1>6. CASE j <= i - 1
  <2>1. (a \o b)[j] = a[j] /\ a[j] = s[j]
    BY <1>0, <1>1, <1>2, <1>4, <1>5, <1>6
  <2> QED
    BY <2>1, <1>0, <1>3, <1>5
<1>7. CASE j > i - 1
  <2>1. (a \o b)[j] = b[j - (i - 1)]
    BY <1>0, <1>1, <1>2, <1>4, <1>5, <1>7
  <2>2. j - (i - 1) \in 1..(n - i)
    BY <1>0, <1>5, <1>7
  <2>3. b[j - (i - 1)] = s[j + 1]
    BY <2>2, <1>2, <1>0, <1>5
  <2>4. j + 1 \in DOMAIN s
    BY <1>0, <1>5
  <2> QED
    BY <2>1, <2>3, <2>4, <1>3
<1> QED
  BY <1>0, <1>5, <1>6, <1>7

\* A status frame says meta-disagreement only of a facet that ended in it.
LEMMA AnnounceTellsTheTruth ==
  ASSUME DisplayTypeOK, MetaIsKnown, NEW f \in Facets, Announce(f),
         \A g \in Facets : meta[g] => meta'[g]
  PROVE  MetaIsKnown'
<1>1. PICK x \in Statuses : x = Status(f)'
  BY StatusIsAStatus
<1>2. ~meta'[f] => x # "meta-disagreement"
  BY <1>1 DEF Status
<1>3. /\ frames \in [Facets -> Seq(Statuses)]
      /\ frames' = [frames EXCEPT ![f] = Append(@, x)]
      /\ cell' = cell
  BY <1>1 DEF Announce, DisplayTypeOK
<1> SUFFICES ASSUME NEW g \in Facets, ~meta'[g]
             PROVE  /\ cell'[g] # "meta-disagreement"
                    /\ \A i \in DOMAIN frames'[g] : frames'[g][i] # "meta-disagreement"
  BY DEF MetaIsKnown
<1>4. ~meta[g]
  OBVIOUS
<1>5. /\ cell'[g] # "meta-disagreement"
      /\ \A i \in DOMAIN frames[g] : frames[g][i] # "meta-disagreement"
  BY <1>3, <1>4 DEF MetaIsKnown
<1>6. CASE g # f
  BY <1>3, <1>5, <1>6
<1>7. CASE g = f
  <2>1. PICK s \in Seq(Statuses) : s = frames[f]
    BY <1>3
  <2>2. frames'[f] = Append(s, x)
    BY <1>3, <2>1
  <2>3. \A i \in DOMAIN Append(s, x) : i \in DOMAIN s \/ i = Len(s) + 1
    OBVIOUS
  <2>4. /\ \A i \in DOMAIN s : Append(s, x)[i] = s[i]
        /\ Append(s, x)[Len(s) + 1] = x
    OBVIOUS
  <2> QED
    BY <1>2, <1>5, <1>7, <2>1, <2>2, <2>3, <2>4
<1> QED
  BY <1>6, <1>7

LEMMA MetaStaysKnown ==
  DInv /\ MetaIsKnown /\ [DisplayNext]_displayVars => MetaIsKnown'
<1> SUFFICES ASSUME DInv, MetaIsKnown, [DisplayNext]_displayVars PROVE MetaIsKnown'
  OBVIOUS
<1>0. /\ DisplayTypeOK
      /\ meta \in [Facets -> BOOLEAN]
      /\ \A q \in pending : q.facet \in Facets
  BY ServerFacts DEF DInv, TypeOK
<1>1. ASSUME UNCHANGED <<cell, frames>>, \A g \in Facets : meta[g] => meta'[g]
      PROVE  MetaIsKnown'
  BY <1>1 DEF MetaIsKnown
<1>2. ASSUME NEW f \in Facets, AnnounceKeyed(f), \A g \in Facets : meta[g] => meta'[g]
      PROVE  MetaIsKnown'
  BY <1>0, <1>1, <1>2, AnnounceTellsTheTruth DEF AnnounceKeyed
<1>3. ASSUME NEW p \in Participants, NEW f \in Facets, NEW v \in Values, SeePropose(p, f, v)
      PROVE  MetaIsKnown'
  <2>1. meta' = meta /\ Announce(f)
    BY <1>3 DEF SeePropose, Propose
  <2> QED
    BY <1>0, <2>1, AnnounceTellsTheTruth
<1>4. ASSUME NEW p \in Voters, NEW f \in Facets, NEW c \in {"agree", "dispute"},
             SeeVoteFacet(p, f, c)
      PROVE  MetaIsKnown'
  <2>1. meta' = meta /\ AnnounceKeyed(f)
    BY <1>4 DEF SeeVoteFacet, VoteFacet, RecordVote
  <2> QED
    BY <2>1, <1>2
<1>5. ASSUME NEW p \in Voters, NEW q \in pending, NEW c \in {"agree", "dispute"},
             SeeVoteValueProposal(p, q, c) \/ SeeVoteCapture(p, q, c)
      PROVE  MetaIsKnown'
  <2>1. meta' = meta /\ Announce(q.facet)
    BY <1>5 DEF SeeVoteValueProposal, SeeVoteCapture, VoteValueProposal, VoteCapture,
                RecordVote, facetVars
  <2> QED
    BY <1>0, <2>1, AnnounceTellsTheTruth
<1>6. ASSUME NEW f \in Facets, SeeCommitFacet(f) PROVE MetaIsKnown'
  <2>1. meta' = meta /\ AnnounceKeyed(f)
    BY <1>6 DEF SeeCommitFacet, CommitFacet, Commit
  <2> QED
    BY <2>1, <1>2
<1>7. ASSUME NEW q \in pending, SeeCommitCapture(q) PROVE MetaIsKnown'
  <2>1. meta' = meta /\ Announce(q.facet)
    BY <1>7 DEF SeeCommitCapture, CommitCapture, Commit
  <2> QED
    BY <1>0, <2>1, AnnounceTellsTheTruth
<1>8. ASSUME NEW q \in pending, SeeMark(q) PROVE MetaIsKnown'
  <2>1. meta' = [meta EXCEPT ![q.facet] = TRUE] /\ AnnounceKeyed(q.facet)
    BY <1>8 DEF SeeMark, MarkMetaDisagreement, CanMark
  <2> QED
    BY <1>0, <2>1, <1>2
<1>9. ASSUME NEW q \in pending, SeeWithdrawProposal(q) PROVE MetaIsKnown'
  <2>1. meta' = meta /\ frames' = frames
    BY <1>9 DEF SeeWithdrawProposal, WithdrawProposal, facetVars, Unannounced
  <2>2. CASE q.kind \in {"capture", "minting"}
    <3>1. cell' = [f \in Facets |-> NoCell] /\ NoCell # "meta-disagreement"
      BY <1>9, <2>2 DEF SeeWithdrawProposal, NoCell
    <3> QED
      BY <2>1, <3>1 DEF MetaIsKnown
  <2>3. CASE q.kind \notin {"capture", "minting"}
    BY <1>9, <2>1, <2>3, <1>1 DEF SeeWithdrawProposal, Unannounced
  <2> QED
    BY <2>2, <2>3
<1>10. ASSUME NEW p \in Participants, NEW f \in Facets, SeeWithdrawAgreement(p, f)
       PROVE  MetaIsKnown'
  BY <1>10, <1>1 DEF SeeWithdrawAgreement, WithdrawAgreement, Unannounced
<1>11. ASSUME NEW p \in Debaters, SeeJoin(p) \/ SeeLeave(p) PROVE MetaIsKnown'
  BY <1>11, <1>1 DEF SeeJoin, SeeLeave, Join, Leave, facetVars, Unannounced
<1>12. ASSUME NEW f \in Facets, NEW i \in DOMAIN frames[f], Deliver(f, i) \/ Lose(f, i)
       PROVE  MetaIsKnown'
  <2>1. PICK s \in Seq(Statuses) : s = frames[f] /\ i \in 1..Len(s)
    BY <1>0 DEF DisplayTypeOK
  <2>2. PICK t \in Seq(Statuses) : t = Without(s, i)
    BY <2>1, WithoutIsASeq
  <2>3. \A j \in DOMAIN t : \E k \in DOMAIN s : t[j] = s[k]
    BY <2>1, <2>2, WithoutKeepsElements
  <2>4. /\ meta' = meta
        /\ frames' = [frames EXCEPT ![f] = t]
        /\ cell' \in {cell, [cell EXCEPT ![f] = s[i]]}
    BY <1>12, <2>1, <2>2 DEF Deliver, Lose, vars, facetVars
  <2>5. /\ frames'[f] = t
        /\ \A g \in Facets \ {f} : frames'[g] = frames[g] /\ cell'[g] = cell[g]
        /\ cell'[f] \in {cell[f], s[i]}
    BY <1>0, <2>4 DEF DisplayTypeOK
  <2> QED
    BY <2>1, <2>3, <2>4, <2>5 DEF MetaIsKnown
<1>13. CASE Reload
  <2>1. /\ cell' = [f \in Facets |-> NoCell] /\ NoCell # "meta-disagreement"
        /\ frames' = [f \in Facets |-> <<>>]
    BY <1>13 DEF Reload, NoCell
  <2> QED
    BY <2>1 DEF MetaIsKnown
<1>14. CASE UNCHANGED displayVars
  BY <1>14, <1>1 DEF displayVars, vars, facetVars, overlay
<1> QED
  BY <1>3, <1>4, <1>5, <1>6, <1>7, <1>8, <1>9, <1>10, <1>11, <1>12, <1>13, <1>14
     DEF DisplayNext

----------------------------------------------------------------------------
(* The folds, step by step *)

\* A number names one proposal of the log.
LEMMA NumbersName ==
  ASSUME Registered, NEW m \in made
  PROVE  (CHOOSE n \in made : n.id = m.id) = m
<1>1. (CHOOSE n \in made : n.id = m.id) \in {n \in made : n.id = m.id}
  OBVIOUS
<1> QED
  BY <1>1 DEF Registered

LEMMA FoldsOfPropose ==
  ASSUME DInv, FoldsInv, NEW p \in Participants, NEW f \in Facets, NEW v \in Values,
         Propose(p, f, v), PanelProposal(f, v)
  PROVE  FoldsInv'
<1> USE DEF FoldsInv
<1>0. /\ TypeOK /\ nextId \in Nat
      /\ \A g \in Facets : source[g] \in Nat /\ source[g] < nextId
      /\ \A q \in pending : q.id \in Nat /\ q.id < nextId
  BY ServerFacts
<1>1. PICK k \in {"value", "minting"} :
        pending' = pending \cup {[id |-> nextId, facet |-> f, proposer |-> p, kind |-> k]}
  BY DEF Propose
<1> DEFINE q == [id |-> nextId, facet |-> f, proposer |-> p, kind |-> k]
           m == [id |-> nextId, facet |-> f, kind |-> k, value |-> v]
<1>2. pending' \ pending = {q} /\ q.id = nextId
  BY <1>0, <1>1
<1>3. made' = made \cup {m} /\ m.id = nextId /\ m.facet = f /\ m.value = v
  BY <1>2 DEF PanelProposal, Made
<1>4. /\ m \in [id : Nat, facet : Facets, kind : ProposalKinds, value : Values \cup {NoValue}]
      /\ q.facet = f
  BY <1>0 DEF ProposalKinds
<1> HIDE DEF q, m
<1>5. /\ latest' = [latest EXCEPT ![f] = nextId]
      /\ own' = [own EXCEPT ![f] = Nobody]
      /\ UNCHANGED <<ballots, agreedTo, ended>>
      /\ candidate' = [candidate EXCEPT ![f] = v]
      /\ source' = [source EXCEPT ![f] = nextId]
      /\ votes' = [votes EXCEPT ![f] = [r \in Participants |-> NoVote]]
      /\ nextId' = nextId + 1
      /\ UNCHANGED <<captureVotes, visible>>
  BY DEF PanelProposal, Propose, ClearVotes
<1>6. /\ candidate \in [Facets -> Values \cup {NoValue}]
      /\ source \in [Facets -> Nat]
      /\ votes \in [Facets -> [Participants -> [choice : Choices, on : Nat]]]
  BY <1>0 DEF TypeOK
<1>7. PanelTypeOK'
  <2>1. Nobody \in [Participants -> Choices]
    BY DEF Nobody, Choices
  <2> QED
    BY <1>3, <1>4, <1>5, <2>1 DEF PanelTypeOK
<1>8. Registered'
  <2>1. latest' = source'
    BY <1>5 DEF Registered
  <2>2. \A n \in made : n.id < nextId /\ n.id \in Nat /\ n.facet \in Facets
    BY DEF Registered, PanelTypeOK
  <2>3. \A n \in made' : n.id < nextId' /\ n.id <= source'[n.facet]
    <3>1. \A n \in made : n.id <= source'[n.facet]
      BY <2>2, <1>0, <1>5, <1>6 DEF Registered
    <3> QED
      BY <3>1, <2>2, <1>0, <1>3, <1>5, <1>6
  <2>4. \A n, o \in made' : n.id = o.id => n = o
    BY <2>2, <1>0, <1>3 DEF Registered
  <2>5. ASSUME NEW g \in Facets, source'[g] # 0
        PROVE  \E n \in made' : n.id = source'[g] /\ n.facet = g /\ n.value = candidate'[g]
    <3>1. CASE g = f
      BY <3>1, <1>3, <1>5, <1>6
    <3>2. CASE g # f
      <4>1. source'[g] = source[g] /\ candidate'[g] = candidate[g]
        BY <3>2, <1>5, <1>6
      <4> QED
        BY <4>1, <2>5, <1>3 DEF Registered
    <3> QED
      BY <3>1, <3>2
  <2>6. \A r \in pending' : \E n \in made' : n.id = r.id /\ n.facet = r.facet
    BY <1>1, <1>2, <1>3, <1>4 DEF Registered
  <2>7. \A r, s \in pending' : r.id = s.id => r = s
    BY <1>0, <1>1, <1>2 DEF Registered
  <2>8. \A i \in ended' : i < nextId'
    BY <1>0, <1>5 DEF Registered, PanelTypeOK
  <2> QED
    BY <2>1, <2>3, <2>4, <2>5, <2>6, <2>7, <2>8 DEF Registered
<1>9. Cast'
  BY <1>5, <1>6 DEF Cast, PanelTypeOK, Nobody, NoVote
<1>10. Agreed'
  <2> SUFFICES ASSUME NEW g \in Facets, NEW r \in Participants,
                      captureVotes'[r] = "none",
                      votes'[g][r] = [choice |-> "agree", on |-> source'[g]],
                      source'[g] # 0
               PROVE  agreedTo'[g][r] = candidate'[g]
    BY DEF Agreed, AgreementsAreToTheCandidate
  <2>1. g # f
    <3>1. NoVote.choice = "none" /\ [choice |-> "agree", on |-> source'[g]].choice = "agree"
      BY DEF NoVote
    <3>2. g = f => votes'[g][r] = NoVote
      BY <1>5, <1>6
    <3> QED
      BY <3>1, <3>2
  <2>2. votes'[g] = votes[g] /\ source'[g] = source[g] /\ candidate'[g] = candidate[g]
    BY <2>1, <1>5, <1>6
  <2> QED
    BY <2>2, <1>5 DEF Agreed, AgreementsAreToTheCandidate
<1>11. Open'
  <2>1. nextId \notin ended
    BY <1>0 DEF Registered
  <2> QED
    BY <2>1, <1>1, <1>2, <1>5 DEF Open
<1>12. DeadRowsAreOvertaken'
  <2> SUFFICES ASSUME \A r \in Participants : captureVotes[r] = "none",
                      NEW n \in made', n.id \notin ended'
               PROVE  (\E r \in pending' : r.id = n.id) \/ n.id < latest'[n.facet]
    BY <1>5 DEF DeadRowsAreOvertaken, Rows
  <2>1. CASE n \in made
    <3>1. (\E r \in pending : r.id = n.id) \/ n.id < latest[n.facet]
      BY <2>1, <1>5 DEF DeadRowsAreOvertaken, Rows
    <3>2. latest = source /\ n.facet \in Facets /\ n.id \in Nat /\ n.id < nextId
      BY <2>1 DEF Registered, PanelTypeOK
    <3>3. latest'[n.facet] \in {latest[n.facet], nextId}
      BY <3>2, <1>5, <1>6
    <3> QED
      BY <3>1, <3>2, <3>3, <1>1
  <2>2. CASE n = m
    BY <2>2, <1>1, <1>2, <1>3
  <2> QED
    BY <2>1, <2>2, <1>3
<1> QED
  BY <1>7, <1>8, <1>9, <1>10, <1>11, <1>12

\* A vote the server records on facet f, cast on proposal i, the one
\* through which the lists resolve its value.
LEMMA FoldsOfVote ==
  ASSUME DInv, FoldsInv, NEW p \in Participants, NEW f \in Facets,
         NEW c \in {"agree", "dispute"}, NEW i \in Nat,
         i = 0 \/ \E m \in made : m.id = i,
         RecordVote(p, f, c, i), PanelVote(p, f, c, i)
  PROVE  FoldsInv'
<1> USE DEF FoldsInv
<1>1. /\ own' = [own EXCEPT ![f][p] = c]
      /\ ballots' = [ballots EXCEPT ![f][p] = c]
      /\ votes' = [votes EXCEPT ![f][p] = [choice |-> c, on |-> i]]
      /\ AgreeTo(p, f, c, i)
      /\ UNCHANGED <<made, latest, ended, pending, candidate, source,
                     captureVotes, visible, nextId>>
  BY DEF PanelVote, RecordVote
<1>2. votes \in [Facets -> [Participants -> [choice : Choices, on : Nat]]]
  BY ServerFacts DEF TypeOK
<1>3. c \in Choices
  BY DEF Choices
<1>4. CASE i = 0
  <2>1. agreedTo' = agreedTo
    BY <1>1, <1>4 DEF AgreeTo
  <2>2. PanelTypeOK'
    BY <1>1, <1>3, <2>1 DEF PanelTypeOK
  <2>3. Agreed'
    <3> SUFFICES ASSUME NEW g \in Facets, NEW r \in Participants,
                        captureVotes[r] = "none",
                        votes'[g][r] = [choice |-> "agree", on |-> source[g]],
                        source[g] # 0
                 PROVE  agreedTo[g][r] = candidate[g]
      BY <1>1, <2>1 DEF Agreed, AgreementsAreToTheCandidate
    <3>1. ~(g = f /\ r = p)
      BY <1>1, <1>2, <1>4
    <3>2. votes'[g][r] = votes[g][r]
      BY <3>1, <1>1, <1>2
    <3> QED
      BY <3>2 DEF Agreed, AgreementsAreToTheCandidate
  <2> QED
    BY <1>1, <1>2, <2>2, <2>3 DEF Registered, Cast, Open, DeadRowsAreOvertaken, Rows,
       PanelTypeOK
<1>5. CASE i # 0
  <2>1. PICK m \in made : m.id = i
    BY <1>5
  <2>2. (CHOOSE n \in made : n.id = i) = m
    BY <2>1, NumbersName
  <2> DEFINE w == IF c = "agree" THEN m.value ELSE NoValue
  <2>3. agreedTo' = [agreedTo EXCEPT ![f][p] = w]
    BY <1>1, <1>5, <2>2 DEF AgreeTo
  <2>4. w \in Values \cup {NoValue}
    BY <2>1 DEF PanelTypeOK
  <2>5. c = "agree" => w = m.value
    OBVIOUS
  <2> HIDE DEF w
  <2>6. PanelTypeOK'
    BY <1>1, <1>3, <2>3, <2>4 DEF PanelTypeOK
  <2>7. Agreed'
    <3> SUFFICES ASSUME NEW g \in Facets, NEW r \in Participants,
                        captureVotes[r] = "none",
                        votes'[g][r] = [choice |-> "agree", on |-> source[g]],
                        source[g] # 0
                 PROVE  agreedTo'[g][r] = candidate[g]
      BY <1>1 DEF Agreed, AgreementsAreToTheCandidate
    <3>1. CASE g = f /\ r = p
      <4>1. votes'[f][p] = [choice |-> c, on |-> i]
        BY <1>1, <1>2
      <4>2. c = "agree" /\ i = source[f]
        BY <3>1, <4>1
      <4>3. m.value = candidate[f]
        BY <4>2, <2>1, <1>5 DEF Registered
      <4>4. agreedTo'[f][p] = w
        BY <2>3 DEF PanelTypeOK
      <4> QED
        BY <3>1, <4>2, <4>3, <4>4, <2>5
    <3>2. CASE ~(g = f /\ r = p)
      <4>1. votes'[g][r] = votes[g][r]
        BY <3>2, <1>1, <1>2
      <4>2. agreedTo'[g][r] = agreedTo[g][r]
        BY <3>2, <2>3 DEF PanelTypeOK
      <4> QED
        BY <4>1, <4>2 DEF Agreed, AgreementsAreToTheCandidate
    <3> QED
      BY <3>1, <3>2
  <2>8. Cast'
    BY <1>1, <1>2 DEF Cast, PanelTypeOK
  <2> QED
    BY <1>1, <2>6, <2>7, <2>8 DEF Registered, Open, DeadRowsAreOvertaken, Rows
<1> QED
  BY <1>4, <1>5

LEMMA FoldsOfCaptureVote ==
  ASSUME DInv, FoldsInv, NEW p \in Participants, NEW q \in pending,
         NEW c \in {"agree", "dispute"}, VoteCapture(p, q, c), PanelVoteCapture(p, q, c)
  PROVE  FoldsInv'
<1> USE DEF FoldsInv
<1>0. q.id \in Nat /\ q.id # 0 /\ q.facet \in Facets /\ captureVotes \in [Participants -> Choices]
  BY ServerFacts DEF TypeOK
<1>1. PICK m \in made : m.id = q.id
  BY DEF Registered
<1>2. (CHOOSE n \in made : n.id = q.id) = m
  BY <1>1, NumbersName
<1>3. PICK w \in Values \cup {NoValue} : agreedTo' = [agreedTo EXCEPT ![q.facet][p] = w]
  BY <1>0, <1>1, <1>2 DEF PanelVoteCapture, AgreeTo, PanelTypeOK
<1>4. /\ UNCHANGED <<own, ballots, made, latest, ended, pending, candidate, source, votes,
                     visible, nextId>>
      /\ captureVotes' = [captureVotes EXCEPT ![p] = c]
  BY DEF PanelVoteCapture, VoteCapture, facetVars
<1>5. captureVotes'[p] # "none"
  BY <1>0, <1>4
<1>6. PanelTypeOK'
  BY <1>0, <1>3, <1>4 DEF PanelTypeOK
<1>7. Agreed'
  <2> SUFFICES ASSUME NEW g \in Facets, NEW r \in Participants,
                      captureVotes'[r] = "none",
                      votes[g][r] = [choice |-> "agree", on |-> source[g]],
                      source[g] # 0
               PROVE  agreedTo'[g][r] = candidate[g]
    BY <1>4 DEF Agreed, AgreementsAreToTheCandidate
  <2>1. r # p /\ captureVotes[r] = "none"
    BY <1>0, <1>4, <1>5
  <2>2. agreedTo'[g][r] = agreedTo[g][r]
    BY <2>1, <1>0, <1>3 DEF PanelTypeOK
  <2> QED
    BY <2>1, <2>2 DEF Agreed, AgreementsAreToTheCandidate
<1>8. DeadRowsAreOvertaken'
  BY <1>5 DEF DeadRowsAreOvertaken
<1> QED
  BY <1>4, <1>6, <1>7, <1>8 DEF Registered, Cast, Open

\* The facet's latest proposal is ended while everything pending on the facet
\* is swept.
LEMMA FoldsOfSettle ==
  ASSUME DInv, FoldsInv, NEW f \in Facets, Sweep(f), PanelSettleFacet(f),
         UNCHANGED <<candidate, source, votes, captureVotes, visible, nextId>>
  PROVE  FoldsInv'
<1> USE DEF FoldsInv
<1>0. \A g \in Facets : source[g] \in Nat /\ source[g] < nextId
  BY ServerFacts
<1>1. /\ ended' = ended \cup ({source[f]} \ {0})
      /\ pending' = {q \in pending : q.facet # f}
      /\ latest = source
      /\ UNCHANGED <<own, ballots, agreedTo, made, latest>>
  BY DEF PanelSettleFacet, Registered, Sweep
<1>2. \A q \in pending : q.facet # f /\ source[f] # 0 => q.id # source[f]
  BY DEF Registered
<1>3. PanelTypeOK'
  BY <1>0, <1>1 DEF PanelTypeOK
<1>4. Registered'
  BY <1>0, <1>1 DEF Registered
<1>5. Open'
  <2> SUFFICES ASSUME visible, NEW q \in pending, q.facet # f
               PROVE  q.id \notin ended'
    BY <1>1 DEF Open
  <2>1. q.id \notin ended
    BY DEF Open
  <2> QED
    BY <2>1, <1>1, <1>2
<1>6. DeadRowsAreOvertaken'
  <2> SUFFICES ASSUME \A r \in Participants : captureVotes[r] = "none",
                      NEW m \in made, m.id \notin ended'
               PROVE  (\E q \in pending' : q.id = m.id) \/ m.id < source[m.facet]
    BY <1>1 DEF DeadRowsAreOvertaken, Rows
  <2>1. m.id \notin ended /\ m.id <= source[m.facet] /\ m.id \in Nat /\ m.facet \in Facets
    BY <1>1 DEF Registered, PanelTypeOK
  <2>2. (\E q \in pending : q.id = m.id) \/ m.id < source[m.facet]
    BY <2>1, <1>1 DEF DeadRowsAreOvertaken, Rows
  <2>3. CASE m.facet = f
    <3>1. m.id # source[f] \/ source[f] = 0
      BY <1>1
    <3>2. CASE m.id < source[m.facet]
      BY <3>2
    <3>3. CASE \E q \in pending : q.id = m.id
      <4>1. m.id # 0
        BY <3>3, ServerFacts
      <4> QED
        BY <2>1, <2>3, <3>1, <4>1, <1>0
    <3> QED
      BY <2>2, <3>2, <3>3
  <2>4. CASE m.facet # f
    BY <2>2, <2>4, <1>1 DEF Registered
  <2> QED
    BY <2>3, <2>4
<1> QED
  BY <1>1, <1>3, <1>4, <1>5, <1>6 DEF Cast, Agreed, AgreementsAreToTheCandidate

LEMMA FoldsOfCaptureCommit ==
  ASSUME DInv, FoldsInv, NEW q \in pending, CommitCapture(q), PanelCommitCapture(q)
  PROVE  FoldsInv'
<1> USE DEF FoldsInv
<1>0. q.id \in Nat /\ q.id < nextId /\ q.facet \in Facets /\ present \subseteq Participants
  BY ServerFacts
<1>1. /\ ended' = ended \cup {q.id}
      /\ pending' = {r \in pending : r.facet # q.facet}
      /\ UNCHANGED <<own, ballots, agreedTo, made, latest>>
      /\ UNCHANGED <<candidate, source, votes, captureVotes, visible, nextId>>
  BY DEF PanelCommitCapture, CommitCapture, Commit, Sweep
<1>2. ~\A p \in Participants : captureVotes'[p] = "none"
  <2>1. PICK p \in present : captureVotes[p] = "agree"
    BY DEF CommitCapture
  <2> QED
    BY <2>1, <1>0, <1>1
<1>3. PanelTypeOK' /\ Registered'
  BY <1>0, <1>1 DEF PanelTypeOK, Registered
<1>4. Open'
  BY <1>1 DEF Open, Registered
<1>5. DeadRowsAreOvertaken'
  BY <1>2 DEF DeadRowsAreOvertaken
<1> QED
  BY <1>1, <1>3, <1>4, <1>5 DEF Cast, Agreed, AgreementsAreToTheCandidate

LEMMA FoldsOfWithdrawnProposal ==
  ASSUME DInv, FoldsInv, NEW q \in pending, WithdrawProposal(q), PanelWithdrawProposal(q)
  PROVE  FoldsInv'
<1> USE DEF FoldsInv
<1>0. q.id \in Nat /\ q.id < nextId
  BY ServerFacts
<1>1. /\ UNCHANGED <<own, ballots, agreedTo, made, latest>>
      /\ UNCHANGED <<candidate, source, votes, captureVotes, nextId>>
  BY DEF PanelWithdrawProposal, WithdrawProposal, facetVars
<1>2. Cast' /\ Agreed'
  BY <1>1 DEF Cast, Agreed, AgreementsAreToTheCandidate
<1>3. CASE q.kind \in {"capture", "minting"}
  <2>1. PICK S \in SUBSET made : ended' = ended \cup {m.id : m \in S}
    BY <1>3 DEF PanelWithdrawProposal
  <2>2. pending' = pending /\ ~visible'
    BY <1>3 DEF WithdrawProposal
  <2>3. \A m \in made : m.id \in Nat /\ m.id < nextId
    BY DEF PanelTypeOK, Registered
  <2>4. \A i \in ended' : i \in Nat /\ i < nextId
    BY <2>1, <2>3 DEF PanelTypeOK, Registered
  <2>5. PanelTypeOK' /\ Registered'
    BY <1>1, <2>2, <2>4 DEF PanelTypeOK, Registered
  <2>6. Open'
    BY <2>2 DEF Open
  <2>7. DeadRowsAreOvertaken'
    BY <1>1, <2>1, <2>2 DEF DeadRowsAreOvertaken, Rows
  <2> QED
    BY <1>2, <2>5, <2>6, <2>7
<1>4. CASE q.kind \notin {"capture", "minting"}
  <2>1. ended' = ended \cup {q.id} /\ pending' = pending \ {q} /\ visible' = visible
    BY <1>4 DEF PanelWithdrawProposal, WithdrawProposal
  <2>2. PanelTypeOK' /\ Registered'
    BY <1>0, <1>1, <2>1 DEF PanelTypeOK, Registered
  <2>3. Open'
    BY <2>1 DEF Open, Registered
  <2>4. DeadRowsAreOvertaken'
    BY <1>1, <2>1 DEF DeadRowsAreOvertaken, Rows
  <2> QED
    BY <1>2, <2>2, <2>3, <2>4
<1> QED
  BY <1>3, <1>4

LEMMA FoldsIdle ==
  ASSUME FoldsInv, UNCHANGED folds,
         UNCHANGED <<candidate, source, votes, captureVotes, nextId, pending, visible>>
  PROVE  FoldsInv'
BY DEF FoldsInv, folds, PanelTypeOK, Registered, Cast, Agreed, Open,
       AgreementsAreToTheCandidate, DeadRowsAreOvertaken, Rows

LEMMA InitEstablishesPanelInv == PanelInit => PanelInv
<1> SUFFICES ASSUME PanelInit PROVE PanelInv
  OBVIOUS
<1> USE DEF PanelInit
<1>0. DInv
  BY InitEstablishesDInv
<1>1. /\ TypeOK /\ nextId = 2
      /\ votes = [f \in Facets |-> [p \in Participants |-> NoVote]]
      /\ made = {Made(q, candidate[q.facet]) : q \in pending}
      /\ latest = source /\ ended = {}
  BY <1>0, ServerFacts DEF DisplayInit, Init
<1>2. Cast
  BY <1>1 DEF Cast, Unvoted, Nobody, NoVote
<1>3. Agreed
  <2>1. NoVote.choice = "none" /\ \A i : [choice |-> "agree", on |-> i].choice = "agree"
    BY DEF NoVote
  <2> QED
    BY <1>1, <2>1 DEF Agreed, AgreementsAreToTheCandidate
<1>4. Open
  BY <1>1 DEF Open
<1>5. MetaIsKnown
  BY DEF MetaIsKnown, DisplayInit, NoCell
<1>6. PICK v \in Values :
        \/ \E p \in Current :
             Minted(IF EntityKind = "node" THEN "wording" ELSE "substance", v, p)
        \/ CapturedEdge(v)
  BY DEF DisplayInit, Init
<1>7. candidate \in [Facets -> Values \cup {NoValue}] /\ source \in [Facets -> Nat]
  BY <1>1 DEF TypeOK
<1>8. /\ own \in [Facets -> [Participants -> Choices]]
      /\ ballots \in [Facets -> [Participants -> Choices]]
      /\ agreedTo \in [Facets -> [Participants -> Values \cup {NoValue}]]
  BY DEF Unvoted, Nobody, Choices
<1>9. CASE CapturedEdge(v)
  <2>1. pending = {} /\ source = [g \in Facets |-> 0] /\ made = {}
    BY <1>1, <1>9 DEF CapturedEdge
  <2> QED
    BY <1>0, <1>1, <1>2, <1>3, <1>4, <1>5, <1>8, <2>1
       DEF PanelInv, FoldsInv, PanelTypeOK, Registered, DeadRowsAreOvertaken, Rows
<1>10. ASSUME NEW p \in Current,
              Minted(IF EntityKind = "node" THEN "wording" ELSE "substance", v, p)
       PROVE  PanelInv
  <2> DEFINE g == IF EntityKind = "node" THEN "wording" ELSE "substance"
             k == IF EntityKind = "node" THEN "capture" ELSE "minting"
             q == [id |-> 1, facet |-> g, proposer |-> p, kind |-> k]
             m == [id |-> 1, facet |-> g, kind |-> k, value |-> v]
  <2>1. g \in Facets /\ k \in ProposalKinds
    BY KindAssumption DEF Facets, ProposalKinds
  <2>2. /\ pending = {q}
        /\ source = [h \in Facets |-> IF h = g THEN 1 ELSE 0]
        /\ candidate[g] = v
    BY <1>10, <2>1 DEF Minted
  <2>3. made = {m}
    BY <1>1, <2>2 DEF Made
  <2>4. m.id = 1 /\ m.facet = g /\ m.value = v /\ q.id = 1 /\ q.facet = g
    OBVIOUS
  <2>5. m \in [id : Nat, facet : Facets, kind : ProposalKinds, value : Values \cup {NoValue}]
    BY <2>1
  <2> HIDE DEF g, k, q, m
  <2>6. PanelTypeOK
    BY <1>1, <1>8, <2>3, <2>5 DEF PanelTypeOK
  <2>7. Registered
    <3>1. \A h \in Facets : source[h] # 0 => h = g /\ source[h] = 1
      BY <2>2
    <3>2. source[g] = 1
      BY <2>1, <2>2
    <3>3. \A n \in made : n.id < nextId /\ n.id <= source[n.facet]
      BY <1>1, <2>3, <2>4, <3>2
    <3>4. \A h \in Facets :
            source[h] # 0 =>
              \E n \in made : n.id = source[h] /\ n.facet = h /\ n.value = candidate[h]
      BY <2>2, <2>3, <2>4, <3>1
    <3>5. \A r \in pending : \E n \in made : n.id = r.id /\ n.facet = r.facet
      BY <2>2, <2>3, <2>4
    <3> QED
      BY <1>1, <2>2, <2>3, <3>3, <3>4, <3>5 DEF Registered
  <2>8. DeadRowsAreOvertaken
    BY <2>2, <2>3, <2>4 DEF DeadRowsAreOvertaken, Rows
  <2> QED
    BY <1>0, <1>2, <1>3, <1>4, <1>5, <2>6, <2>7, <2>8 DEF PanelInv, FoldsInv
<1> QED
  BY <1>6, <1>9, <1>10

\* Every step of the panel is a step of the screens.
LEMMA PanelSteps == [PanelNext]_panelVars => [DisplayNext]_displayVars
BY DEF PanelNext, DisplayNext, panelVars, displayVars

LEMMA NextPreservesPanelInv == PanelInv /\ [PanelNext]_panelVars => PanelInv'
<1> SUFFICES ASSUME PanelInv, [PanelNext]_panelVars PROVE PanelInv'
  OBVIOUS
<1>0. DInv /\ FoldsInv /\ DInv' /\ MetaIsKnown'
  BY PanelSteps, NextPreservesDInv, MetaStaysKnown DEF PanelInv
<1>a. /\ Voters \subseteq Participants
      /\ \A f \in Facets : source[f] \in Nat
      /\ \A q \in pending : q.facet \in Facets /\ q.id \in Nat
  BY <1>0, ServerFacts
<1>b. latest = source
  BY <1>0 DEF FoldsInv, Registered
<1>1. ASSUME NEW p \in Participants, NEW f \in Facets, NEW v \in Values,
             SeePropose(p, f, v), PanelProposal(f, v)
      PROVE  FoldsInv'
  BY <1>0, <1>1, FoldsOfPropose DEF SeePropose
<1>2. ASSUME NEW p \in Voters, NEW f \in Facets, NEW c \in {"agree", "dispute"},
             SeeVoteFacet(p, f, c), PanelVote(p, f, c, latest[f])
      PROVE  FoldsInv'
  <2>1. /\ p \in Participants /\ source[f] \in Nat
        /\ RecordVote(p, f, c, source[f]) /\ PanelVote(p, f, c, source[f])
    BY <1>a, <1>b, <1>2 DEF SeeVoteFacet, VoteFacet
  <2>2. source[f] = 0 \/ \E m \in made : m.id = source[f]
    BY <1>0 DEF FoldsInv, Registered
  <2> QED
    BY <1>0, <2>1, <2>2, FoldsOfVote
<1>3. ASSUME NEW p \in Voters, NEW q \in pending, NEW c \in {"agree", "dispute"},
             SeeVoteValueProposal(p, q, c), PanelVote(p, q.facet, c, q.id)
      PROVE  FoldsInv'
  <2>1. /\ p \in Participants /\ q.id \in Nat /\ q.facet \in Facets
        /\ RecordVote(p, q.facet, c, q.id)
    BY <1>a, <1>3 DEF SeeVoteValueProposal, VoteValueProposal
  <2>2. \E m \in made : m.id = q.id
    BY <1>0 DEF FoldsInv, Registered
  <2> QED
    BY <1>0, <1>3, <2>1, <2>2, FoldsOfVote
<1>4. ASSUME NEW p \in Voters, NEW q \in pending, NEW c \in {"agree", "dispute"},
             SeeVoteCapture(p, q, c), PanelVoteCapture(p, q, c)
      PROVE  FoldsInv'
  BY <1>0, <1>a, <1>4, FoldsOfCaptureVote DEF SeeVoteCapture
<1>5. ASSUME NEW f \in Facets, SeeCommitFacet(f), PanelSettleFacet(f)
      PROVE  FoldsInv'
  <2>1. Sweep(f) /\ UNCHANGED <<candidate, source, votes, captureVotes, visible, nextId>>
    BY <1>5 DEF SeeCommitFacet, CommitFacet, Commit
  <2> QED
    BY <1>0, <1>5, <2>1, FoldsOfSettle
<1>6. ASSUME NEW q \in pending, SeeMark(q), PanelSettleFacet(q.facet)
      PROVE  FoldsInv'
  <2>1. Sweep(q.facet) /\ UNCHANGED <<candidate, source, votes, captureVotes, visible, nextId>>
    BY <1>6 DEF SeeMark, MarkMetaDisagreement, CanMark
  <2> QED
    BY <1>0, <1>a, <1>6, <2>1, FoldsOfSettle
<1>7. ASSUME NEW q \in pending, SeeCommitCapture(q), PanelCommitCapture(q)
      PROVE  FoldsInv'
  BY <1>0, <1>7, FoldsOfCaptureCommit DEF SeeCommitCapture
<1>8. ASSUME NEW q \in pending, SeeWithdrawProposal(q), PanelWithdrawProposal(q)
      PROVE  FoldsInv'
  BY <1>0, <1>8, FoldsOfWithdrawnProposal DEF SeeWithdrawProposal
<1>9. ASSUME UNCHANGED folds,
             \/ \E p \in Participants, f \in Facets : SeeWithdrawAgreement(p, f)
             \/ \E p \in Debaters : SeeJoin(p) \/ SeeLeave(p)
             \/ \E f \in Facets : \E i \in DOMAIN frames[f] : Deliver(f, i) \/ Lose(f, i)
             \/ Reload
             \/ UNCHANGED displayVars
      PROVE  FoldsInv'
  <2>1. UNCHANGED <<candidate, source, votes, captureVotes, nextId, pending, visible>>
    BY <1>9 DEF SeeWithdrawAgreement, WithdrawAgreement, SeeJoin, SeeLeave, Join, Leave,
                Deliver, Lose, Reload, displayVars, vars, facetVars
  <2> QED
    BY <1>0, <1>9, <2>1, FoldsIdle
<1>10. FoldsInv'
  BY <1>1, <1>2, <1>3, <1>4, <1>5, <1>6, <1>7, <1>8, <1>9 DEF PanelNext, panelVars
<1> QED
  BY <1>0, <1>10 DEF PanelInv

\* What the invariant says of the votes shown.
LEMMA PanelShowsVotes == PanelInv => VotesAreShown
<1> SUFFICES ASSUME PanelInv PROVE VotesAreShown
  OBVIOUS
<1>1. /\ DisplayTypeOK /\ Cast /\ Agreed
      /\ \A f \in Facets : \A p \in Participants : votes[f][p].choice \in Choices
  BY ServerFacts DEF PanelInv, FoldsInv, DInv, TypeOK
<1>2. OwnVotesAreCounted
  BY <1>1 DEF Cast, OwnVotesAreCounted
<1>3. DisputesShow
  BY <1>1 DEF Cast, DisputesShow, Chip, RollUp
<1> QED
  BY <1>1, <1>2, <1>3 DEF VotesAreShown, Agreed

LEMMA PanelShowsPending == PanelInv => RowsFollowTheServer
<1> SUFFICES ASSUME PanelInv PROVE RowsFollowTheServer
  OBVIOUS
<1>1. Registered /\ Open /\ DeadRowsAreOvertaken
  BY DEF PanelInv, FoldsInv
<1>2. PendingHasItsRow
  BY <1>1 DEF Registered, Open, PendingHasItsRow, Rows
<1> QED
  BY <1>1, <1>2 DEF RowsFollowTheServer

LEMMA PanelOffersCommit == PanelInv => AgreedCanBeCommitted
<1> SUFFICES ASSUME PanelInv, NEW q \in pending, visible, q.id = source[q.facet],
                    Status(q.facet) = "agreed"
             PROVE  \E m \in Rows : m.id = q.id /\ CommitOffered(m)
  BY DEF AgreedCanBeCommitted
<1>0. /\ DInv /\ Registered /\ Open /\ Cast /\ MetaIsKnown
      /\ q.facet \in Facets /\ present \subseteq Participants
  BY ServerFacts DEF PanelInv, FoldsInv
<1>1. PICK m \in made : m.id = q.id /\ m.facet = q.facet
  BY <1>0 DEF Registered
<1>2. m \in Rows
  BY <1>0, <1>1 DEF Open, Rows
<1>3. ~meta[q.facet] /\ Unanimous(q.facet)
  BY DEF Status
<1>4. Display(q.facet) # "meta-disagreement"
  <2>1. closed[q.facet] = meta[q.facet]
    BY <1>0 DEF DInv, Mirrors
  <2>2. FoldedStatus(q.facet) # "meta-disagreement"
    BY <1>3, <2>1 DEF FoldedStatus
  <2> QED
    BY <1>0, <1>3, <2>2 DEF Display, MetaIsKnown
<1>5. present # {} /\ \A p \in present : ballots[q.facet][p] = "agree"
  BY <1>0, <1>3 DEF Unanimous, Cast
<1> QED
  BY <1>1, <1>2, <1>4, <1>5 DEF CommitOffered, AllAgree

LEMMA PanelOffersVotes == PanelInv => TakenVotesAreOffered
<1> SUFFICES ASSUME PanelInv, NEW p \in Voters, NEW f \in Facets,
                    NEW c \in {"agree", "dispute"},
                    CanVoteFacet(p, f, c), Display(f) = Status(f)
             PROVE  c \in Offered(p, f) \cap OfferedInPane(p, f)
  BY DEF TakenVotesAreOffered
<1>1. p \in Participants /\ Cast
  BY ServerFacts DEF PanelInv, FoldsInv
<1>2. own[f][p] # c
  BY <1>1 DEF Cast, CanVoteFacet
<1>3. Display(f) \in Votable
  BY DEF CanVoteFacet, Votable
<1> QED
  BY <1>2, <1>3 DEF Offered, OfferedInPane, VoteButtons, Votable

THEOREM PanelInvariantHolds == PanelSpec => []PanelInv
<1>1. PanelInit => PanelInv
  BY InitEstablishesPanelInv
<1>2. PanelInv /\ [PanelNext]_panelVars => PanelInv'
  BY NextPreservesPanelInv
<1> QED
  BY <1>1, <1>2, PTL DEF PanelSpec

\* The votes a person sees as their own, the disputes in the colour of the
\* entity and the values under "my agreements" are those the server counts
\* (projectOwnFacetVotes, projectOtherVotes, derivePersonalAgreements).
THEOREM VotesAreAlwaysShown == PanelSpec => []VotesAreShown
BY PanelInvariantHolds, PanelShowsVotes, PTL

\* Every proposal the server still waits for has its row, and a row it waits
\* for no more was overtaken (derivePendingProposals).
THEOREM RowsAlwaysFollow == PanelSpec => []RowsFollowTheServer
BY PanelInvariantHolds, PanelShowsPending, PTL

\* The screens shut out no commit and no vote the engine would take
\* (deriveAllAgree, the vote buttons).
THEOREM NothingTakenIsRefused == PanelSpec => []WhatIsTakenIsOffered
<1>1. PanelInv => WhatIsTakenIsOffered
  BY PanelOffersCommit, PanelOffersVotes DEF WhatIsTakenIsOffered
<1> QED
  BY <1>1, PanelInvariantHolds, PTL

\* The panel reads the fold and the cells without disturbing what they show.
THEOREM PanelKeepsTheDisplay == PanelSpec => [](FoldsAgree /\ CellsSettle)
<1>1. PanelInv => FoldsAgree
  BY MirrorsAgree DEF PanelInv
<1>2. PanelInv => CellsSettle
  BY DEF PanelInv, DInv, InStep, CellsSettle
<1> QED
  BY <1>1, <1>2, PanelInvariantHolds, PTL
=============================================================================
