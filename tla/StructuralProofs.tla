-------------------------- MODULE StructuralProofs --------------------------
(* Proofs about StructuralProposals and StructuralViews, for any debaters,  *)
(* any parts and any number of proposals.                                   *)
EXTENDS StructuralViews, WellFoundedInduction, TLAPS

\* What a proposal is about, and what it minted, is on record; an edge belongs
\* to a link that was made.
Grounded ==
  /\ \A p \in Made :
       /\ Kind(p) # "capture" => On(p) \in entities
       /\ Kind(p) = "axiom-mark" => IsNode(On(p))
       /\ Minted(Kind(p), p, On(p)) \subseteq entities
  /\ \A e \in entities : IsEdge(e) => e[2] \in 0..Len(proposals)

IInv ==
  TypeOK /\ Grounded /\ ReplacedOnce /\ HiddenForAReason /\ EdgesAreInherited

----------------------------------------------------------------------------
(* The names of entities *)

\* The elements of a sequence over S are in S.
LEMMA ElementOfSeq ==
  ASSUME NEW S, NEW s \in Seq(S), NEW i \in 1..Len(s)
  PROVE  s[i] \in S
OBVIOUS

\* An entity that calls itself an edge is an edge name.
LEMMA EdgeShape ==
  ASSUME NEW e \in EntityIds, IsEdge(e)
  PROVE  /\ e \in EdgeIds
         /\ e[2] \in 0..MaxProposals
         /\ e[3] \in NodeIds
         /\ e = Edge(e[2], e[3])
BY DEF EntityIds, EdgeIds, NodeIds, IsEdge, Node, Edge, Annotation

\* An entity that calls itself a node is a node name.
LEMMA NodeShape ==
  ASSUME NEW e \in EntityIds, IsNode(e)
  PROVE  e \in NodeIds
BY DEF EntityIds, EdgeIds, NodeIds, IsNode, Node, Edge, Annotation

\* What proposal p mints is well named.
LEMMA MintedShape ==
  ASSUME NEW p \in 1..MaxProposals, NEW k \in Kinds, NEW on,
         k = "capture-to" => on \in NodeIds
  PROVE  /\ Minted(k, p, on) \subseteq EntityIds
         /\ \A e \in Minted(k, p, on) : IsEdge(e) => e[2] = p
<1>1. \A i \in Parts \cup {1} : Node(p, i) \in NodeIds
  BY BoundAssumption DEF NodeIds
<1>2. 1 \in Parts /\ p \in 0..MaxProposals
  BY PartsAssumption, BoundAssumption
<1>3. \A n \in NodeIds : Edge(p, n) \in EdgeIds
  BY <1>2 DEF EdgeIds
<1>4. \A i : ~IsEdge(Node(p, i))
  BY DEF IsEdge, Node
<1>5. \A n : Edge(p, n)[2] = p
  BY DEF Edge
<1>. QED
  BY <1>1, <1>2, <1>3, <1>4, <1>5 DEF Minted, MintedNodes, MintedEdges, EntityIds

\* The edges a split hands down leave its readings and copy settled edges of
\* its parent.
LEMMA InheritedShape ==
  ASSUME TypeOK, NEW p \in Made, NEW e \in Inherited(p)
  PROVE  /\ e \in EdgeIds /\ IsEdge(e)
         /\ \E i \in Parts : e[3] = Node(p, i)
         /\ Edge(e[2], On(p)) \in Visible \cap settled
         /\ ~\E d \in present : <<Edge(e[2], On(p)), d>> \in recanted
<1>1. PICK i \in Parts, f \in VisibleEdges \cap settled :
        /\ e = Edge(f[2], Node(p, i))
        /\ f[3] = On(p)
        /\ ~\E d \in present : <<f, d>> \in recanted
  BY DEF Inherited
<1>2. f \in EntityIds /\ IsEdge(f)
  BY DEF VisibleEdges, Visible, TypeOK
<1>3. f[2] \in 0..MaxProposals /\ f = Edge(f[2], f[3])
  BY <1>2, EdgeShape
<1>4. Node(p, i) \in NodeIds
  BY BoundAssumption DEF NodeIds, Made, TypeOK
<1>5. e[2] = f[2] /\ e[3] = Node(p, i) /\ IsEdge(e)
  BY <1>1 DEF Edge, IsEdge
<1>. QED
  BY <1>1, <1>2, <1>3, <1>4, <1>5 DEF EdgeIds, VisibleEdges

----------------------------------------------------------------------------
(* The invariant starts true and every step keeps it *)

\* The initial graph satisfies the invariant.
LEMMA InitInvariant == Init => IInv
<1>. SUFFICES ASSUME Init PROVE IInv
  OBVIOUS
<1>1. Made = {} /\ Len(proposals) = 0
  BY DEF Init, Made
<1>2. /\ Node(0, 1) \in NodeIds /\ Node(0, 2) \in NodeIds
      /\ Edge(0, Node(0, 1)) \in EdgeIds
  BY BoundAssumption DEF NodeIds, EdgeIds
<1>3. TypeOK
  <2>1. proposals \in Seq([kind : Kinds, by : Participants,
                           on : EntityIds \cup {NoEntity}])
    BY DEF Init
  <2>2. entities \subseteq EntityIds
    BY <1>2 DEF Init, EntityIds
  <2>3. IsEdge(Edge(0, Node(0, 1)))
    BY DEF IsEdge, Edge
  <2>. QED
    BY <1>1, <2>1, <2>2, <2>3, BoundAssumption DEF Init, TypeOK
<1>4. \A e \in entities : IsEdge(e) => e[2] = 0 /\ e[3] = LinkSource(e[2])
  BY DEF Init, IsEdge, Edge, Node, LinkSource
<1>5. Grounded
  BY <1>1, <1>4 DEF Grounded
<1>6. ReplacedOnce /\ HiddenForAReason /\ EdgesAreInherited
  BY <1>4 DEF Init, ReplacedOnce, HiddenForAReason, EdgesAreInherited
<1>. QED
  BY <1>3, <1>5, <1>6 DEF IInv

\* A new proposal is added at the end and mints only its own entities.
LEMMA ProposeInvariant ==
  ASSUME IInv, NEW k \in Kinds, NEW by \in Participants,
         NEW on \in entities \cup {NoEntity}, Propose(k, by, on)
  PROVE  IInv'
<1>1. /\ TypeOK /\ Grounded /\ ReplacedOnce /\ HiddenForAReason
      /\ EdgesAreInherited
  BY DEF IInv
<1>0. PICK n \in Nat : n = Len(proposals) + 1
  BY <1>1 DEF TypeOK
<1>2. /\ Allowed(k, by, on)
      /\ proposals' = Append(proposals, [kind |-> k, by |-> by, on |-> on])
      /\ pending' = pending \cup {n}
      /\ entities' = entities \cup Minted(k, n, on)
      /\ UNCHANGED <<present, votes, committed, withdrawn, hidden, settled,
                     recanted, axioms>>
      /\ n \in 1..MaxProposals
  BY <1>0, <1>1, BoundAssumption DEF Propose, TypeOK
<1>3. [kind |-> k, by |-> by, on |-> on] \in
        [kind : Kinds, by : Participants, on : EntityIds \cup {NoEntity}]
  BY <1>1 DEF TypeOK
<1>4. /\ proposals' \in Seq([kind : Kinds, by : Participants,
                             on : EntityIds \cup {NoEntity}])
      /\ Len(proposals') = n
      /\ Made' = Made \cup {n} /\ n \notin Made
      /\ Kind(n)' = k /\ On(n)' = on
      /\ \A p \in Made : Kind(p)' = Kind(p) /\ On(p)' = On(p)
  BY <1>0, <1>1, <1>2, <1>3 DEF TypeOK, Made, Kind, On
<1>5. on \in VisibleNodes => on \in NodeIds /\ IsNode(on) /\ on \notin hidden
  BY <1>1, NodeShape DEF VisibleNodes, Visible, TypeOK
<1>6. /\ k = "capture-to" => on \in NodeIds
      /\ k # "capture" => on \in entities
      /\ k = "axiom-mark" => IsNode(on)
      /\ k \in Reshaping => on \notin hidden /\ ~Conflict(on)
  BY <1>2, <1>5 DEF Allowed, MayLink, MayReshape, MayMark, MayBreak, MayMetaMove,
                    MayAnnotate, Kinds, VisibleEdges, VisibleNodes, Visible, Captures
<1>7. /\ Minted(k, n, on) \subseteq EntityIds
      /\ \A e \in Minted(k, n, on) : IsEdge(e) => e[2] = n
  BY <1>2, <1>6, MintedShape
<1>8. TypeOK'
  BY <1>1, <1>2, <1>4, <1>7 DEF TypeOK
<1>9. Grounded'
  <2>1. ASSUME NEW p \in Made'
        PROVE  /\ Kind(p)' # "capture" => On(p)' \in entities'
               /\ Kind(p)' = "axiom-mark" => IsNode(On(p))'
               /\ Minted(Kind(p), p, On(p))' \subseteq entities'
    <3>1. CASE p \in Made
      BY <1>1, <1>2, <1>4, <3>1
      DEF Grounded, Minted, MintedNodes, MintedEdges, IsNode
    <3>2. CASE p = n
      BY <1>2, <1>4, <1>6, <3>2 DEF Minted, MintedNodes, MintedEdges, IsNode
    <3>. QED
      BY <1>4, <3>1, <3>2
  <2>2. \A e \in entities' : IsEdge(e) => e[2] \in 0..Len(proposals')
    BY <1>1, <1>2, <1>4, <1>7 DEF Grounded, TypeOK, IsEdge
  <2>. QED
    BY <2>1, <2>2 DEF Grounded, IsEdge
<1>10. ReplacedOnce'
  <2>1. ASSUME NEW p \in pending', NEW q \in pending',
               (Kind(p) \in Reshaping)', (Kind(q) \in Reshaping)',
               (On(p) = On(q))'
        PROVE  p = q
    BY <1>1, <1>2, <1>4, <1>6, <2>1 DEF ReplacedOnce, Conflict, TypeOK
  <2>2. ASSUME NEW p \in committed, (Kind(p) \in Replacing)'
        PROVE  /\ On(p)' \in hidden
               /\ \A q \in (pending' \cup committed) \ {p} :
                    (Kind(q) \in Replacing)' => On(q)' # On(p)'
    BY <1>1, <1>2, <1>4, <1>6, <2>2 DEF ReplacedOnce, TypeOK, Replacing, Reshaping
  <2>. QED
    BY <1>2, <2>1, <2>2 DEF ReplacedOnce
<1>11. HiddenForAReason'
  <2>1. ASSUME NEW e \in hidden
        PROVE  \/ \E p \in withdrawn :
                    (Kind(p) \in Minting /\ e \in Minted(Kind(p), p, On(p)))'
               \/ \E p \in committed :
                    (Kind(p) \in Replacing \cup {"break"} /\ On(p) = e)'
    <3>1. CASE \E p \in withdrawn :
                 Kind(p) \in Minting /\ e \in Minted(Kind(p), p, On(p))
      BY <1>1, <1>4, <3>1 DEF Minted, MintedNodes, MintedEdges, TypeOK
    <3>2. CASE \E p \in committed :
                 Kind(p) \in Replacing \cup {"break"} /\ On(p) = e
      BY <1>1, <1>4, <3>2 DEF TypeOK
    <3>. QED
      BY <1>1, <3>1, <3>2 DEF HiddenForAReason
  <2>. QED
    BY <1>2, <2>1 DEF HiddenForAReason
<1>12. EdgesAreInherited'
  <2>1. \A l \in 0..Len(proposals) : LinkSource(l)' = LinkSource(l)
    BY <1>1, <1>4 DEF LinkSource, Made, TypeOK
  <2>2. \A e \in Minted(k, n, on) : IsEdge(e) => e[3] = LinkSource(e[2])'
    <3>1. \A e \in MintedNodes(k, n) : ~IsEdge(e)
      BY DEF MintedNodes, Node, IsEdge
    <3>2. \A e \in MintedEdges(k, n, on) : e[3] = LinkSource(n)'
      BY <1>2, <1>4 DEF MintedEdges, LinkSource, Edge
    <3>. QED
      BY <1>7, <3>1, <3>2 DEF Minted
  <2>3. ASSUME NEW e \in entities, IsEdge(e), e[3] # LinkSource(e[2])'
        PROVE  \E p \in committed, i \in Parts :
                 /\ Kind(p)' = "split"
                 /\ e[3] = Node(p, i)
                 /\ Edge(e[2], On(p)') \in entities'
    <3>1. PICK p \in committed, i \in Parts :
            /\ Kind(p) = "split"
            /\ e[3] = Node(p, i)
            /\ Edge(e[2], On(p)) \in entities
      BY <1>1, <2>1, <2>3 DEF EdgesAreInherited, Grounded
    <3>. QED
      BY <1>1, <1>2, <1>4, <3>1 DEF TypeOK
  <2>. QED
    BY <1>2, <2>2, <2>3 DEF EdgesAreInherited, IsEdge, Node, Edge
<1>. QED
  BY <1>8, <1>9, <1>10, <1>11, <1>12 DEF IInv

\* A commit adds what the kind adds, hides what it takes, and leaves no other
\* pending proposal against a node it replaced.
LEMMA CommitInvariant ==
  ASSUME IInv, NEW p \in Made, Commit(p)
  PROVE  IInv'
<1>1. /\ TypeOK /\ Grounded /\ ReplacedOnce /\ HiddenForAReason
      /\ EdgesAreInherited
  BY DEF IInv
<1>2. /\ p \in pending /\ Unanimous(p)
      /\ committed' = committed \cup {p}
      /\ pending' \subseteq pending
      /\ entities' = entities \cup Created(p)
      /\ settled' = settled \cup {e \in Created(p) : IsEdge(e)}
      /\ hidden' = hidden \cup Takes(p)
      /\ axioms' = IF Kind(p) = "axiom-mark"
                     THEN axioms \cup {<<On(p), proposals[p].by>>} ELSE axioms
      /\ UNCHANGED <<present, proposals, votes, withdrawn, recanted>>
  BY DEF Commit
<1>3. /\ Made' = Made
      /\ \A q : Kind(q)' = Kind(q) /\ On(q)' = On(q)
      /\ \A l : LinkSource(l)' = LinkSource(l)
      /\ \A k, q, on : Minted(k, q, on)' = Minted(k, q, on)
  BY <1>2 DEF Made, Kind, On, LinkSource, Minted, MintedNodes, MintedEdges
<1>4. p \in 1..MaxProposals /\ p \in 1..Len(proposals)
  BY <1>1, BoundAssumption DEF TypeOK, Made
<1>5. Created(p) \subseteq EntityIds
  <2>1. \A e \in Inherited(p) : e \in EntityIds
    BY <1>1, InheritedShape DEF EntityIds
  <2>2. Annotation(p) \in EntityIds
    BY <1>4 DEF EntityIds
  <2>. QED
    BY <2>1, <2>2 DEF Created
<1>6. ~IsEdge(Annotation(p))
  BY DEF IsEdge, Annotation
<1>7. Takes(p) \subseteq entities
  BY <1>1 DEF Takes, Grounded, Replacing
<1>8. \A e \in Created(p) : IsEdge(e) =>
        /\ Kind(p) = "split"
        /\ \E i \in Parts : e[3] = Node(p, i)
        /\ Edge(e[2], On(p)) \in entities
  BY <1>1, <1>6, InheritedShape DEF Created, Visible
<1>9. TypeOK'
  <2>0. proposals[p] \in [kind : Kinds, by : Participants,
                          on : EntityIds \cup {NoEntity}]
    BY <1>1, <1>4, ElementOfSeq DEF TypeOK
  <2>1. proposals[p].by \in Participants /\ proposals[p].on = On(p)
    BY <2>0 DEF On
  <2>2. Kind(p) = "axiom-mark" => On(p) \in NodeIds
    BY <1>1, NodeShape DEF TypeOK, Grounded
  <2>3. axioms' \subseteq NodeIds \X Participants
    BY <1>1, <1>2, <2>1, <2>2 DEF TypeOK
  <2>4. /\ settled' \subseteq {e \in entities' : IsEdge(e)'}
        /\ hidden' \subseteq entities' /\ entities' \subseteq EntityIds
        /\ recanted' \subseteq entities' \X Debaters
    BY <1>1, <1>2, <1>5, <1>7 DEF TypeOK, IsEdge
  <2>. QED
    BY <1>1, <1>2, <1>3, <2>3, <2>4 DEF TypeOK
<1>10. Grounded'
  <2>1. \A e \in Created(p) : IsEdge(e) => e[2] \in 0..Len(proposals)
    <3>. SUFFICES ASSUME NEW e \in Created(p), IsEdge(e)
                  PROVE  e[2] \in 0..Len(proposals)
      OBVIOUS
    <3>1. Edge(e[2], On(p)) \in entities
      BY <1>8
    <3>. QED
      BY <1>1, <3>1 DEF Grounded, Edge, IsEdge
  <2>2. \A e \in entities' : IsEdge(e) => e[2] \in 0..Len(proposals)
    BY <1>1, <1>2, <2>1 DEF Grounded
  <2>3. \A q \in Made :
          /\ Kind(q) # "capture" => On(q) \in entities'
          /\ Kind(q) = "axiom-mark" => IsNode(On(q))
          /\ Minted(Kind(q), q, On(q)) \subseteq entities'
    BY <1>1, <1>2 DEF Grounded
  <2>. QED
    BY <1>2, <1>3, <2>2, <2>3 DEF Grounded, IsNode, IsEdge
<1>11. ReplacedOnce'
  <2>1. \A q, r \in pending' :
          Kind(q) \in Reshaping /\ Kind(r) \in Reshaping /\ On(q) = On(r)
            => q = r
    BY <1>1, <1>2 DEF ReplacedOnce
  <2>2. \A q \in committed : Kind(q) \in Replacing =>
          /\ On(q) \in hidden'
          /\ \A r \in (pending' \cup committed') \ {q} :
               Kind(r) \in Replacing => On(r) # On(q)
    BY <1>1, <1>2 DEF ReplacedOnce
  <2>3. p \notin pending'
    BY DEF Commit, Swept
  <2>4. Kind(p) \in Replacing =>
          /\ On(p) \in hidden'
          /\ \A r \in (pending' \cup committed) \ {p} :
               Kind(r) \in Replacing => On(r) # On(p)
    BY <1>1, <1>2, <2>3 DEF ReplacedOnce, Takes, Replacing, Reshaping
  <2>. QED
    BY <1>2, <1>3, <2>1, <2>2, <2>4 DEF ReplacedOnce
<1>12. HiddenForAReason'
  <2>1. ASSUME NEW e \in hidden
        PROVE  \/ \E q \in withdrawn :
                    Kind(q) \in Minting /\ e \in Minted(Kind(q), q, On(q))
               \/ \E q \in committed' :
                    Kind(q) \in Replacing \cup {"break"} /\ On(q) = e
    BY <1>1, <1>2 DEF HiddenForAReason
  <2>2. ASSUME NEW e \in Takes(p)
        PROVE  Kind(p) \in Replacing \cup {"break"} /\ On(p) = e
    BY DEF Takes
  <2>. QED
    BY <1>2, <1>3, <2>1, <2>2 DEF HiddenForAReason
<1>13. EdgesAreInherited'
  <2>1. ASSUME NEW e \in entities', IsEdge(e), e[3] # LinkSource(e[2])
        PROVE  \E q \in committed', i \in Parts :
                 /\ Kind(q) = "split"
                 /\ e[3] = Node(q, i)
                 /\ Edge(e[2], On(q)) \in entities'
    BY <1>1, <1>2, <1>8, <2>1 DEF EdgesAreInherited
  <2>. QED
    BY <1>3, <2>1 DEF EdgesAreInherited, IsEdge, Node, Edge
<1>. QED
  BY <1>9, <1>10, <1>11, <1>12, <1>13 DEF IInv

\* A withdrawal hides only what the proposal minted.
LEMMA WithdrawInvariant ==
  ASSUME IInv, NEW p \in Made, Withdraw(p)
  PROVE  IInv'
<1>1. /\ TypeOK /\ Grounded /\ ReplacedOnce /\ HiddenForAReason
      /\ EdgesAreInherited
  BY DEF IInv
<1>2. /\ withdrawn' = withdrawn \cup {p}
      /\ hidden' = hidden \cup Minted(Kind(p), p, On(p))
      /\ pending' \subseteq pending
      /\ UNCHANGED <<present, proposals, votes, committed, entities, settled,
                     recanted, axioms>>
  BY DEF Withdraw, Retracted
<1>3. /\ Made' = Made
      /\ \A q : Kind(q)' = Kind(q) /\ On(q)' = On(q)
      /\ \A l : LinkSource(l)' = LinkSource(l)
      /\ \A k, q, on : Minted(k, q, on)' = Minted(k, q, on)
  BY <1>2 DEF Made, Kind, On, LinkSource, Minted, MintedNodes, MintedEdges
<1>4. Minted(Kind(p), p, On(p)) \subseteq entities
  BY <1>1 DEF Grounded
<1>5. TypeOK'
  BY <1>1, <1>2, <1>3, <1>4 DEF TypeOK, IsEdge
<1>6. Grounded'
  BY <1>1, <1>2, <1>3 DEF Grounded, IsNode, IsEdge
<1>7. ReplacedOnce'
  BY <1>1, <1>2, <1>3 DEF ReplacedOnce
<1>8. HiddenForAReason'
  <2>1. Minted(Kind(p), p, On(p)) # {} => Kind(p) \in Minting
    <3>1. Kind(p) \notin Minting => Kind(p) \notin Captures \cup Replacing
      BY DEF Minting, Replacing
    <3>2. Kind(p) \notin Captures \cup Replacing =>
            MintedNodes(Kind(p), p) = {} /\ MintedEdges(Kind(p), p, On(p)) = {}
      BY DEF MintedNodes, MintedEdges, Captures
    <3>. QED
      BY <3>1, <3>2 DEF Minted
  <2>2. ASSUME NEW e \in hidden'
        PROVE  \/ \E q \in withdrawn' :
                    Kind(q) \in Minting /\ e \in Minted(Kind(q), q, On(q))
               \/ \E q \in committed :
                    Kind(q) \in Replacing \cup {"break"} /\ On(q) = e
    BY <1>1, <1>2, <2>1 DEF HiddenForAReason
  <2>. QED
    BY <1>2, <1>3, <2>2 DEF HiddenForAReason
<1>9. EdgesAreInherited'
  BY <1>1, <1>2, <1>3 DEF EdgesAreInherited, IsEdge, Node, Edge
<1>. QED
  BY <1>5, <1>6, <1>7, <1>8, <1>9 DEF IInv

\* The other steps touch neither the entities nor what is committed.
LEMMA RestInvariant ==
  ASSUME IInv, pending' \subseteq pending,
         settled' \subseteq {e \in entities : IsEdge(e)},
         recanted' \subseteq entities \X Debaters, present' \subseteq Debaters,
         votes' \in [1..MaxProposals -> SUBSET Debaters],
         UNCHANGED <<proposals, committed, withdrawn, entities, hidden, axioms>>
  PROVE  IInv'
<1>1. /\ TypeOK /\ Grounded /\ ReplacedOnce /\ HiddenForAReason
      /\ EdgesAreInherited
  BY DEF IInv
<1>2. /\ Made' = Made
      /\ \A q : Kind(q)' = Kind(q) /\ On(q)' = On(q)
      /\ \A l : LinkSource(l)' = LinkSource(l)
      /\ \A k, q, on : Minted(k, q, on)' = Minted(k, q, on)
  BY DEF Made, Kind, On, LinkSource, Minted, MintedNodes, MintedEdges
<1>3. TypeOK'
  BY <1>1, <1>2 DEF TypeOK, IsEdge
<1>4. Grounded'
  BY <1>1, <1>2 DEF Grounded, IsNode, IsEdge
<1>5. ReplacedOnce'
  BY <1>1, <1>2 DEF ReplacedOnce
<1>6. HiddenForAReason' /\ EdgesAreInherited'
  BY <1>1, <1>2 DEF HiddenForAReason, EdgesAreInherited, IsEdge, Node, Edge
<1>. QED
  BY <1>3, <1>4, <1>5, <1>6 DEF IInv

\* Every step keeps the invariant.
LEMMA StepInvariant == IInv /\ [Next]_vars => IInv'
<1>. SUFFICES ASSUME IInv, [Next]_vars PROVE IInv'
  OBVIOUS
<1>0. TypeOK
  BY DEF IInv
<1>1. ASSUME NEW k \in Kinds, NEW by \in Participants,
             NEW on \in entities \cup {NoEntity}, Propose(k, by, on)
      PROVE  IInv'
  BY <1>1, ProposeInvariant
<1>2. ASSUME NEW d \in Debaters, NEW p \in Made, Vote(d, p)
      PROVE  IInv'
  <2>1. votes' \in [1..MaxProposals -> SUBSET Debaters]
    BY <1>0, <1>2 DEF Vote, TypeOK
  <2>. QED
    BY <1>0, <1>2, <2>1, RestInvariant DEF Vote, TypeOK, graph
<1>3. ASSUME NEW p \in Made, Commit(p)
      PROVE  IInv'
  BY <1>3, CommitInvariant
<1>4. ASSUME NEW p \in Made, SettleFacet(p)
      PROVE  IInv'
  BY <1>0, <1>4, RestInvariant DEF SettleFacet, TypeOK, graph
<1>5. ASSUME NEW p \in Made, Withdraw(p)
      PROVE  IInv'
  BY <1>5, WithdrawInvariant
<1>6. ASSUME NEW e \in entities, SettleSubstance(e) \/ ReopenSubstance(e)
      PROVE  IInv'
  BY <1>0, <1>6, RestInvariant DEF SettleSubstance, ReopenSubstance, Open, TypeOK
<1>7. ASSUME NEW e \in entities, NEW d \in Debaters, RecantSubstance(e, d)
      PROVE  IInv'
  BY <1>0, <1>7, RestInvariant DEF RecantSubstance, TypeOK
<1>8. ASSUME NEW d \in Debaters, Join(d) \/ Leave(d)
      PROVE  IInv'
  BY <1>0, <1>8, RestInvariant DEF Join, Leave, TypeOK, graph
<1>9. CASE UNCHANGED vars
  BY <1>0, <1>9, RestInvariant DEF vars, TypeOK
<1>. QED
  BY <1>1, <1>2, <1>3, <1>4, <1>5, <1>6, <1>7, <1>8, <1>9 DEF Next

\* The invariant holds of every reachable state of the server.
LEMMA ServerInvariant == Spec => []IInv
<1>1. Init => IInv
  BY InitInvariant
<1>2. IInv /\ [Next]_vars => IInv'
  BY StepInvariant
<1>. QED
  BY <1>1, <1>2, PTL DEF Spec

\* The clients only watch: the server behaves as if they were not there.
LEMMA ClientsOnlyWatch == ViewSpec => Spec
<1>1. ViewInit => Init
  BY DEF ViewInit
<1>2. [ViewNext]_viewVars => [Next]_vars
  <2>. SUFFICES ASSUME [ViewNext]_viewVars PROVE [Next]_vars
    OBVIOUS
  <2>1. CASE ViewNext
    BY <2>1 DEF ViewNext, Next, SeePropose, SeeVote, SeeCommit, SeeSettleFacet,
                SeeWithdraw, SeeRest
  <2>2. CASE UNCHANGED viewVars
    BY <2>2 DEF viewVars
  <2>. QED
    BY <2>1, <2>2
<1>. QED
  BY <1>1, <1>2, PTL DEF ViewSpec, Spec

\* The structural proposals, their votes, entities and effects stay well typed,
\* whatever is proposed, committed and withdrawn.
THEOREM TypeCorrect == ViewSpec => []TypeOK
<1>1. IInv => TypeOK
  BY DEF IInv
<1>. QED
  BY <1>1, ServerInvariant, ClientsOnlyWatch, PTL

\* No claim is replaced twice or reshaped by two pending proposals at once,
\* although the commit handler never looks at the node again: the conflict and
\* visibility checks at propose time are enough.
THEOREM NoClaimIsReplacedTwice == ViewSpec => []ReplacedOnce
<1>1. IInv => ReplacedOnce
  BY DEF IInv
<1>. QED
  BY <1>1, ServerInvariant, ClientsOnlyWatch, PTL

\* Nothing disappears from the graph but by a withdrawal of the proposal that
\* minted it or by a committed decompose, split or break-edge.
THEOREM DisappearancesAreExplained == ViewSpec => []HiddenForAReason
<1>1. IInv => HiddenForAReason
  BY DEF IInv
<1>. QED
  BY <1>1, ServerInvariant, ClientsOnlyWatch, PTL

\* Every edge nobody drew comes from a committed split and from an edge of the
\* same link at the split's parent.
THEOREM EdgesHaveAnOrigin == ViewSpec => []EdgesAreInherited
<1>1. IInv => EdgesAreInherited
  BY DEF IInv
<1>. QED
  BY <1>1, ServerInvariant, ClientsOnlyWatch, PTL

----------------------------------------------------------------------------
(* What a commit hands down *)

\* The edges that appear at a commit are copies of agreed, visible edges.
LEMMA StepHandsDownAgreedEdges ==
  ASSUME IInv, [Next]_vars, NEW p \in committed' \ committed,
         NEW e \in entities' \ entities, IsEdge(e)
  PROVE  LET f == Edge(e[2], On(p)) IN
           /\ f \in (Visible \cap settled)
           /\ ~\E d \in present : <<f, d>> \in recanted
           /\ e \in settled' \ hidden'
<1>1. TypeOK /\ Grounded
  BY DEF IInv
<1>2. PICK q \in Made : Commit(q)
  BY DEF Next, vars, graph, Propose, Vote, SettleFacet, Withdraw, SettleSubstance,
         ReopenSubstance, RecantSubstance, Join, Leave
<1>3. p = q
  BY <1>2 DEF Commit
<1>4. e \in Created(p) /\ ~IsEdge(Annotation(p))
  BY <1>2, <1>3 DEF Commit, IsEdge, Annotation
<1>5. e \in Inherited(p) /\ Kind(p) = "split"
  BY <1>4 DEF Created
<1>6. /\ Edge(e[2], On(p)) \in Visible \cap settled
      /\ ~\E d \in present : <<Edge(e[2], On(p)), d>> \in recanted
  BY <1>1, <1>2, <1>3, <1>5, InheritedShape
<1>7. e \in settled'
  BY <1>2, <1>3, <1>4 DEF Commit
<1>8. On(p) \in entities /\ e \notin hidden
  BY <1>1, <1>2, <1>3, <1>5 DEF Grounded, TypeOK
<1>9. e \notin hidden'
  BY <1>2, <1>3, <1>8 DEF Commit, Takes
<1>. QED
  BY <1>6, <1>7, <1>9

\* An edge is handed down by a split only if it was agreed on and nobody
\* present has taken the agreement back.
THEOREM OnlyAgreedEdgesMove == ViewSpec => OnlyAgreedEdgesAreHandedDown
<1>1. IInv /\ [Next]_vars =>
        [\A p \in committed' \ committed :
           \A e \in entities' \ entities : IsEdge(e) =>
             LET f == Edge(e[2], On(p)) IN
               /\ f \in (Visible \cap settled)
               /\ ~\E d \in present : <<f, d>> \in recanted
               /\ e \in settled' \ hidden']_vars
  BY StepHandsDownAgreedEdges
<1>. QED
  BY <1>1, ServerInvariant, ClientsOnlyWatch, PTL
  DEF Spec, OnlyAgreedEdgesAreHandedDown

----------------------------------------------------------------------------
(* The screens *)

\* The clients' accumulators against the projection: everything hidden was
\* retracted, superseded or broken; what is off the pane is decided.
Mirror ==
  /\ superseded = {On(p) : p \in {q \in committed : Kind(q) \in Replacing}}
  /\ hidden = removed \cup superseded \cup Broken
  /\ \A e \in Broken : IsEdge(e)
  /\ \A e \in superseded : IsNode(e)
  /\ \A p \in Made : Kind(p) = "break" => IsEdge(On(p))
  /\ \A p \in Made : Kind(p) \in Replacing => IsNode(On(p))
  /\ terminated \subseteq Made
  /\ committed \cup withdrawn \subseteq terminated
  /\ (pending \ withdrawn) \cap terminated = {}

\* A nonempty set of proposals has a newest member.
LEMMA NewestExists ==
  ASSUME NEW n \in Nat, NEW S, S \subseteq 1..n, S # {}
  PROVE  \E p \in S : \A q \in S : q <= p
<1>. DEFINE R == OpToRel(<, Nat)
            T == {n - p : p \in S}
<1>0. \A p \in S : n - p \in Nat
  OBVIOUS
<1>1. T \subseteq Nat /\ T # {}
  BY <1>0
<1>2. PICK x \in T : \A y \in T : ~(<<y, x>> \in R)
  <2>. HIDE DEF R, T
  <2>1. IsWellFoundedOn(R, Nat)
    BY NatLessThanWellFounded DEF R
  <2>. QED
    BY <1>1, <2>1, WFMin
<1>3. \A y \in T : ~(y < x)
  BY <1>1, <1>2 DEF OpToRel
<1>4. PICK p \in S : x = n - p
  OBVIOUS
<1>5. \A q \in S : n - q \in T
  OBVIOUS
<1>6. \A q \in S : ~(n - q < n - p)
  BY <1>3, <1>4, <1>5
<1>. QED
  BY <1>6

\* The pane's newest proposal on a wording is one the server sweeps with it.
LEMMA NewestIsOnTheWording ==
  ASSUME TypeOK, NEW p \in Made
  PROVE  /\ Newest(WordingOf(p)) \in Made
         /\ WordingOf(Newest(WordingOf(p))) = WordingOf(p)
<1>. DEFINE S == {q \in Made : WordingOf(q) = WordingOf(p)}
<1>1. Len(proposals) \in Nat /\ S \subseteq 1..Len(proposals) /\ S # {}
  BY DEF Made, TypeOK
<1>2. \E r \in S : \A q \in S : q <= r
  BY <1>1, NewestExists
<1>3. \E r \in Made : /\ WordingOf(r) = WordingOf(p)
                      /\ \A q \in Made : WordingOf(q) = WordingOf(p) => q <= r
  BY <1>2
<1>. QED
  BY <1>3 DEF Newest

\* The clients start out agreeing with the server.
LEMMA InitMirror == ViewInit => Mirror
<1>. SUFFICES ASSUME ViewInit PROVE Mirror
  OBVIOUS
<1>1. Made = {} /\ committed = {} /\ withdrawn = {} /\ pending = {}
  BY DEF ViewInit, Init, Made
<1>. QED
  BY <1>1 DEF ViewInit, Init, Mirror, Broken

\* What the kinds and targets of past proposals say never changes.
LEMMA PastIsFixed ==
  ASSUME TypeOK, [Next]_vars
  PROVE  /\ Made \subseteq Made'
         /\ \A p \in Made : Kind(p)' = Kind(p) /\ On(p)' = On(p)
<1>1. ASSUME NEW k \in Kinds, NEW by \in Participants,
             NEW on \in entities \cup {NoEntity}, Propose(k, by, on)
      PROVE  /\ Made \subseteq Made'
             /\ \A p \in Made : Kind(p)' = Kind(p) /\ On(p)' = On(p)
  <2>1. [kind |-> k, by |-> by, on |-> on] \in
          [kind : Kinds, by : Participants, on : EntityIds \cup {NoEntity}]
    BY DEF TypeOK
  <2>. QED
    BY <1>1, <2>1 DEF Propose, TypeOK, Made, Kind, On
<1>2. UNCHANGED proposals =>
        /\ Made \subseteq Made'
        /\ \A p \in Made : Kind(p)' = Kind(p) /\ On(p)' = On(p)
  BY DEF Made, Kind, On
<1>. QED
  BY <1>1, <1>2 DEF Next, vars, graph, Vote, Commit, SettleFacet, Withdraw,
     SettleSubstance, ReopenSubstance, RecantSubstance, Join, Leave

\* Every step keeps the clients' accumulators in line with the projection.
LEMMA StepMirror ==
  ASSUME IInv, Mirror, [ViewNext]_viewVars, [Next]_vars
  PROVE  Mirror'
<1>0. TypeOK /\ Grounded
  BY DEF IInv
<1>1. /\ Made \subseteq Made'
      /\ \A p \in Made : Kind(p)' = Kind(p) /\ On(p)' = On(p)
  BY <1>0, PastIsFixed
<1>2. committed \subseteq Made /\ withdrawn \subseteq Made /\ pending \subseteq Made
  BY <1>0 DEF TypeOK
<1>3. ASSUME NEW k \in Kinds, NEW by \in Participants,
             NEW on \in entities \cup {NoEntity}, SeePropose(k, by, on)
      PROVE  Mirror'
  <2>0. PICK n \in Nat : n = Len(proposals) + 1
    BY <1>0 DEF TypeOK
  <2>1. [kind |-> k, by |-> by, on |-> on] \in
          [kind : Kinds, by : Participants, on : EntityIds \cup {NoEntity}]
    BY <1>0 DEF TypeOK
  <2>2. /\ Made' = Made \cup {n} /\ n \notin Made
        /\ Kind(n)' = k /\ On(n)' = on
        /\ pending' = pending \cup {n}
        /\ UNCHANGED <<committed, withdrawn, hidden, terminated,
                       removed, superseded>>
    BY <1>0, <1>3, <2>0, <2>1 DEF SeePropose, Propose, TypeOK, Made, Kind, On
  <2>3. /\ k = "break" => IsEdge(on)
        /\ k \in Replacing => IsNode(on)
    BY <1>3 DEF SeePropose, Propose, Allowed, MayReshape, MayBreak, VisibleEdges,
                VisibleNodes, Replacing, Reshaping
  <2>. QED
    BY <1>1, <1>2, <2>2, <2>3 DEF Mirror, Broken, IsEdge, IsNode, views
<1>4. ASSUME NEW p \in Made, SeeCommit(p)
      PROVE  Mirror'
  <2>1. /\ committed' = committed \cup {p}
        /\ pending' \subseteq pending \ {p}
        /\ hidden' = hidden \cup Takes(p)
        /\ superseded' = IF Kind(p) \in Replacing
                           THEN superseded \cup {On(p)} ELSE superseded
        /\ terminated' = terminated \cup {p}
        /\ UNCHANGED <<proposals, withdrawn, removed>>
    BY <1>4 DEF SeeCommit, Commit, Swept
  <2>2. Made' = Made /\ \A q : Kind(q)' = Kind(q) /\ On(q)' = On(q)
    BY <2>1 DEF Made, Kind, On
  <2>3. superseded' = {On(q) : q \in {r \in committed' : Kind(r) \in Replacing}}
    BY <2>1 DEF Mirror
  <2>4. Broken' = IF Kind(p) = "break" THEN Broken \cup {On(p)} ELSE Broken
    BY <2>1, <2>2 DEF Broken
  <2>5. hidden' = removed' \cup superseded' \cup Broken'
    BY <2>1, <2>4 DEF Mirror, Takes, Replacing
  <2>. QED
    BY <2>1, <2>2, <2>3, <2>4, <2>5 DEF Mirror, IsEdge, IsNode, Replacing
<1>5. ASSUME NEW p \in Made, SeeSettleFacet(p)
      PROVE  Mirror'
  <2>1. /\ UNCHANGED <<proposals, committed, withdrawn, hidden, removed,
                       superseded>>
        /\ pending' = pending \ Swept(p)
        /\ terminated' = IF WordingOf(p) = NoEntity THEN terminated
                         ELSE terminated \cup {Newest(WordingOf(p))}
    BY <1>5 DEF SeeSettleFacet, SettleFacet, graph
  <2>2. /\ Made' = Made /\ Broken' = Broken
        /\ \A q : Kind(q)' = Kind(q) /\ On(q)' = On(q)
    BY <2>1 DEF Made, Kind, On, Broken
  <2>3. WordingOf(p) # NoEntity => Newest(WordingOf(p)) \in Made \ pending'
    BY <1>0, <2>1, NewestIsOnTheWording DEF Swept
  <2>. QED
    BY <2>1, <2>2, <2>3 DEF Mirror, IsEdge, IsNode
<1>6. ASSUME NEW p \in Made, SeeWithdraw(p)
      PROVE  Mirror'
  <2>1. /\ UNCHANGED <<proposals, committed, superseded>>
        /\ withdrawn' = withdrawn \cup {p}
        /\ hidden' = hidden \cup Retracted(p)
        /\ removed' = removed \cup Retracted(p)
        /\ pending' \subseteq pending
        /\ terminated' = terminated \cup {p}
    BY <1>6 DEF SeeWithdraw, Withdraw
  <2>2. /\ Made' = Made /\ Broken' = Broken
        /\ \A q : Kind(q)' = Kind(q) /\ On(q)' = On(q)
    BY <2>1 DEF Made, Kind, On, Broken
  <2>. QED
    BY <2>1, <2>2 DEF Mirror, IsEdge, IsNode
<1>7. ASSUME /\ UNCHANGED <<proposals, committed, withdrawn, hidden, views>>
             /\ pending' = pending
      PROVE  Mirror'
  <2>1. /\ Made' = Made /\ Broken' = Broken
        /\ \A q : Kind(q)' = Kind(q) /\ On(q)' = On(q)
    BY <1>7 DEF Made, Kind, On, Broken
  <2>. QED
    BY <1>7, <2>1 DEF Mirror, IsEdge, IsNode, views
<1>8. ASSUME NEW d \in Debaters, NEW p \in Made, SeeVote(d, p)
      PROVE  Mirror'
  BY <1>7, <1>8 DEF SeeVote, Vote, graph
<1>9. CASE SeeRest
  BY <1>7, <1>9 DEF SeeRest, SettleSubstance, ReopenSubstance, RecantSubstance,
                    Join, Leave, graph
<1>10. CASE UNCHANGED viewVars
  BY <1>7, <1>10 DEF viewVars, vars
<1>. QED
  BY <1>3, <1>4, <1>5, <1>6, <1>8, <1>9, <1>10 DEF ViewNext

\* The accumulators stay in line with the projection.
LEMMA MirrorInvariant == ViewSpec => []Mirror
<1>1. ViewInit => Mirror
  BY InitMirror
<1>2. IInv /\ Mirror /\ [ViewNext]_viewVars /\ [Next]_vars => Mirror'
  BY StepMirror
<1>. QED
  BY <1>1, <1>2, ServerInvariant, ClientsOnlyWatch, PTL DEF ViewSpec, Spec

\* The screens show the nodes and edges the server holds visible, whatever was
\* committed, withdrawn or superseded in whatever order; broken edges apart.
THEOREM ScreensShowTheGraph == ViewSpec => []CanvasShowsTheGraph
<1>1. TypeOK /\ Mirror => CanvasShowsTheGraph
  <2>. SUFFICES ASSUME TypeOK, Mirror PROVE CanvasShowsTheGraph
    OBVIOUS
  <2>1. \A e : ~(IsNode(e) /\ IsEdge(e))
    BY DEF IsNode, IsEdge
  <2>2. CanvasNodes = VisibleNodes
    BY <2>1 DEF CanvasNodes, VisibleNodes, Visible, Mirror
  <2>3. \A e : IsEdge(e) => (e \notin hidden <=> e \notin removed \cup Broken)
    BY <2>1 DEF Mirror
  <2>. QED
    BY <2>2, <2>3 DEF CanvasShowsTheGraph, CanvasEdges, VisibleEdges, Visible
<1>2. IInv => TypeOK
  BY DEF IInv
<1>. QED
  BY <1>1, <1>2, MirrorInvariant, ServerInvariant, ClientsOnlyWatch, PTL

\* The pane lists everything that can still be decided, except what was taken
\* back, and nothing that was decided or taken back.
THEOREM PaneIsUpToDate == ViewSpec => []PaneFollowsTheServer
<1>1. TypeOK /\ Mirror => PaneFollowsTheServer
  BY DEF TypeOK, Mirror, PaneFollowsTheServer, Pane
<1>2. IInv => TypeOK
  BY DEF IInv
<1>. QED
  BY <1>1, <1>2, MirrorInvariant, ServerInvariant, ClientsOnlyWatch, PTL

\* What the screens gather beside the shape of the graph: the marks are the
\* projection's, the dots are the undecided axiom-marks and the withdrawn ones,
\* and what was retracted is what withdrawn proposals had minted.
MarksMirror ==
  /\ marks = axioms
  /\ awaited \subseteq Made
  /\ awaited \ withdrawn = {p \in pending : Kind(p) = "axiom-mark"}
  /\ removed = LeftBehind

\* Nothing is marked, awaited or retracted at the start.
LEMMA InitMarks == ViewInit => MarksMirror
<1>. SUFFICES ASSUME ViewInit PROVE MarksMirror
  OBVIOUS
<1>. QED
  BY DEF ViewInit, Init, MarksMirror, LeftBehind, Made

\* Every step keeps the marks, the dots and the retractions in line.
LEMMA StepMarks ==
  ASSUME TypeOK, MarksMirror, [ViewNext]_viewVars, [Next]_vars
  PROVE  MarksMirror'
<1>1. /\ Made \subseteq Made'
      /\ \A p \in Made : Kind(p)' = Kind(p) /\ On(p)' = On(p)
  BY PastIsFixed
<1>2. \A p \in Made : Minted(Kind(p), p, On(p))' = Minted(Kind(p), p, On(p))
  BY <1>1 DEF Minted, MintedNodes, MintedEdges, Node, Edge
<1>3. committed \subseteq Made /\ withdrawn \subseteq Made /\ pending \subseteq Made
  BY DEF TypeOK
<1>4. withdrawn' = withdrawn => LeftBehind' = LeftBehind
  BY <1>2, <1>3 DEF LeftBehind
<1>5. ASSUME NEW k \in Kinds, NEW by \in Participants,
             NEW on \in entities \cup {NoEntity}, SeePropose(k, by, on)
      PROVE  MarksMirror'
  <2>0. PICK n \in Nat : n = Len(proposals) + 1
    BY DEF TypeOK
  <2>1. [kind |-> k, by |-> by, on |-> on] \in
          [kind : Kinds, by : Participants, on : EntityIds \cup {NoEntity}]
    BY DEF TypeOK
  <2>2. /\ Made' = Made \cup {n} /\ n \notin Made
        /\ Kind(n)' = k
        /\ pending' = pending \cup {n}
        /\ awaited' = awaited \cup Dotted(k, n)
        /\ UNCHANGED <<withdrawn, axioms, marks, removed>>
    BY <1>5, <2>0, <2>1 DEF SeePropose, Propose, TypeOK, Made, Kind
  <2>. QED
    BY <1>1, <1>3, <1>4, <2>2 DEF MarksMirror, Dotted
<1>6. ASSUME NEW p \in Made, SeeCommit(p)
      PROVE  MarksMirror'
  <2>1. /\ pending' = pending \ Swept(p)
        /\ awaited' = awaited \ {p}
        /\ marks' = marks \cup MarkOf(p)
        /\ axioms' = IF Kind(p) = "axiom-mark"
                       THEN axioms \cup {<<On(p), proposals[p].by>>} ELSE axioms
        /\ UNCHANGED <<proposals, withdrawn, removed>>
    BY <1>6 DEF SeeCommit, Commit
  <2>2. \A q \in Swept(p) : Kind(q) = "axiom-mark" => q = p
    BY DEF Swept, WordingOf, Captures
  <2>3. Made' = Made /\ p \in Swept(p)
    BY <2>1 DEF Made, Swept
  <2>. QED
    BY <1>1, <1>3, <1>4, <2>1, <2>2, <2>3 DEF MarksMirror, MarkOf
<1>7. ASSUME NEW p \in Made, SeeSettleFacet(p)
      PROVE  MarksMirror'
  <2>1. /\ Kind(p) \in Minting \cup {"edit"}
        /\ pending' = pending \ Swept(p)
        /\ UNCHANGED <<proposals, withdrawn, axioms, marks, awaited, removed>>
    BY <1>7 DEF SeeSettleFacet, SettleFacet, graph
  <2>2. \A q \in Swept(p) : Kind(q) # "axiom-mark"
    BY <2>1 DEF Swept, WordingOf, Captures, Minting
  <2>3. Made' = Made
    BY <2>1 DEF Made
  <2>. QED
    BY <1>1, <1>3, <1>4, <2>1, <2>2, <2>3 DEF MarksMirror
<1>8. ASSUME NEW p \in Made, SeeWithdraw(p)
      PROVE  MarksMirror'
  <2>1. /\ withdrawn' = withdrawn \cup {p}
        /\ removed' = removed \cup Retracted(p)
        /\ pending' = IF Kind(p) \in Minting THEN pending ELSE pending \ {p}
        /\ UNCHANGED <<proposals, axioms, marks, awaited>>
    BY <1>8 DEF SeeWithdraw, Withdraw
  <2>2. Made' = Made
    BY <2>1 DEF Made
  <2>3. LeftBehind' = LeftBehind \cup Retracted(p)
    BY <1>2, <1>3, <2>1 DEF LeftBehind, Retracted
  <2>4. Kind(p) = "axiom-mark" => Kind(p) \notin Minting
    BY DEF Minting, Captures
  <2>. QED
    BY <1>1, <1>3, <2>1, <2>2, <2>3, <2>4 DEF MarksMirror
<1>9. ASSUME UNCHANGED <<proposals, pending, withdrawn, axioms, marks, awaited,
                         removed>>
      PROVE  MarksMirror'
  <2>1. Made' = Made
    BY <1>9 DEF Made
  <2>. QED
    BY <1>1, <1>3, <1>4, <1>9, <2>1 DEF MarksMirror
<1>10. ASSUME NEW d \in Debaters, NEW p \in Made, SeeVote(d, p)
       PROVE  MarksMirror'
  BY <1>9, <1>10 DEF SeeVote, Vote, graph, views
<1>11. CASE SeeRest
  BY <1>9, <1>11 DEF SeeRest, SettleSubstance, ReopenSubstance, RecantSubstance,
                     Join, Leave, graph, views
<1>12. CASE UNCHANGED viewVars
  BY <1>9, <1>12 DEF viewVars, vars, views
<1>. QED
  BY <1>5, <1>6, <1>7, <1>8, <1>10, <1>11, <1>12 DEF ViewNext

\* The marks, the dots and the retractions stay in line with the projection.
LEMMA MarksInvariant == ViewSpec => []MarksMirror
<1>1. ViewInit => MarksMirror
  BY InitMarks
<1>2. TypeOK /\ MarksMirror /\ [ViewNext]_viewVars /\ [Next]_vars => MarksMirror'
  BY StepMarks
<1>3. IInv => TypeOK
  BY DEF IInv
<1>. QED
  BY <1>1, <1>2, <1>3, ServerInvariant, ClientsOnlyWatch, PTL DEF ViewSpec, Spec

\* The audience misses nothing the server holds visible, and what it shows
\* beyond that comes from a proposal that was taken back.
THEOREM AudienceMissesNothing == ViewSpec => []AudienceShowsTheGraph
<1>1. TypeOK /\ Mirror /\ MarksMirror => AudienceShowsTheGraph
  <2>. SUFFICES ASSUME TypeOK, Mirror, MarksMirror PROVE AudienceShowsTheGraph
    OBVIOUS
  <2>1. \A e : ~(IsNode(e) /\ IsEdge(e))
    BY DEF IsNode, IsEdge
  <2>2. superseded \subseteq hidden /\ hidden \subseteq LeftBehind \cup superseded \cup Broken
    BY DEF Mirror, MarksMirror
  <2>3. VisibleNodes \subseteq AudienceNodes
    BY <2>2 DEF AudienceNodes, VisibleNodes, Visible
  <2>4. AudienceNodes \ VisibleNodes \subseteq LeftBehind
    BY <2>1, <2>2 DEF AudienceNodes, VisibleNodes, Visible, Mirror
  <2>5. CanvasNodes = AudienceNodes \ LeftBehind
    BY DEF CanvasNodes, AudienceNodes, MarksMirror
  <2>6. CanvasEdges \subseteq AudienceEdges
    BY <2>5 DEF CanvasEdges, AudienceEdges
  <2>7. \A e \in AudienceEdges \ CanvasEdges :
          LeftBehind \cap {e, e[3], LinkTarget(e[2])} # {}
    BY <2>5 DEF CanvasEdges, AudienceEdges, MarksMirror
  <2>. QED
    BY <2>3, <2>4, <2>6, <2>7 DEF AudienceShowsTheGraph
<1>2. IInv => TypeOK
  BY DEF IInv
<1>. QED
  BY <1>1, <1>2, MirrorInvariant, MarksInvariant, ServerInvariant,
     ClientsOnlyWatch, PTL

\* The axiom badges, the dashed dots and the annotation badges follow the
\* server's axiom marks, its undecided axiom-marks and its annotations.
THEOREM MarksAreUpToDate == ViewSpec => []MarksFollowTheServer
<1>1. TypeOK /\ Mirror /\ MarksMirror => MarksFollowTheServer
  <2>. SUFFICES ASSUME TypeOK, Mirror, MarksMirror PROVE MarksFollowTheServer
    OBVIOUS
  <2>1. \A e : ~(IsNode(e) /\ IsEdge(e))
    BY DEF IsNode, IsEdge
  <2>2. CanvasNodes = VisibleNodes
    BY <2>1 DEF CanvasNodes, VisibleNodes, Visible, Mirror
  <2>3. \A e \in entities :
          IsAnnotation(e) /\ On(e[2]) \in VisibleNodes => e \in Badges
    BY <2>2 DEF Badges
  <2>4. \A e \in CanvasNodes \cup CanvasEdges : e \in hidden => e \in Broken
    BY <2>1 DEF CanvasNodes, CanvasEdges, Mirror
  <2>5. \A e \in Badges : On(e[2]) \in hidden => On(e[2]) \in Broken
    BY <2>4 DEF Badges
  <2>. QED
    BY <2>3, <2>5 DEF MarksFollowTheServer, MarksMirror
<1>2. IInv => TypeOK
  BY DEF IInv
<1>. QED
  BY <1>1, <1>2, MirrorInvariant, MarksInvariant, ServerInvariant,
     ClientsOnlyWatch, PTL

\* Why rows and votes keep together: what is pending was not committed, an
\* axiom-mark or an annotation ends by a commit or a withdrawal only, and no
\* reshaping was proposed after one that is still pending on the same node.
Undecided ==
  /\ pending \cap committed = {}
  /\ \A p \in Made \ pending :
       Kind(p) \in {"axiom-mark", "annotate"} => p \in committed \cup withdrawn
  /\ \A p \in pending, q \in Made :
       Kind(p) \in Reshaping /\ Kind(q) \in Reshaping /\ On(p) = On(q) => q <= p

\* Every step of the server keeps it so.
LEMMA StepUndecided ==
  ASSUME TypeOK, Undecided, [Next]_vars
  PROVE  Undecided'
<1>1. /\ Made \subseteq Made'
      /\ \A p \in Made : Kind(p)' = Kind(p) /\ On(p)' = On(p)
  BY PastIsFixed
<1>2. committed \subseteq Made /\ withdrawn \subseteq Made /\ pending \subseteq Made
  BY DEF TypeOK
<1>3. ASSUME NEW k \in Kinds, NEW by \in Participants,
             NEW on \in entities \cup {NoEntity}, Propose(k, by, on)
      PROVE  Undecided'
  <2>0. PICK n \in Nat : n = Len(proposals) + 1
    BY DEF TypeOK
  <2>1. [kind |-> k, by |-> by, on |-> on] \in
          [kind : Kinds, by : Participants, on : EntityIds \cup {NoEntity}]
    BY DEF TypeOK
  <2>2. /\ Made' = Made \cup {n} /\ n \notin Made /\ \A q \in Made : q <= n
        /\ Kind(n)' = k /\ On(n)' = on
        /\ pending' = pending \cup {n}
        /\ UNCHANGED <<committed, withdrawn>>
    BY <1>3, <2>0, <2>1 DEF Propose, TypeOK, Made, Kind, On
  <2>3. k \in Reshaping =>
          ~\E p \in pending : Kind(p) \in Reshaping /\ On(p) = on
    BY <1>3 DEF Propose, Allowed, MayReshape, Conflict
  <2>. QED
    BY <1>1, <1>2, <2>0, <2>2, <2>3 DEF Undecided
<1>4. ASSUME NEW p \in Made, Commit(p)
      PROVE  Undecided'
  <2>1. /\ committed' = committed \cup {p}
        /\ pending' = pending \ Swept(p)
        /\ UNCHANGED <<proposals, withdrawn>>
    BY <1>4 DEF Commit
  <2>2. \A q \in Swept(p) : Kind(q) \in {"axiom-mark", "annotate"} => q = p
    BY DEF Swept, WordingOf, Captures
  <2>3. Made' = Made /\ p \in Swept(p)
    BY <2>1 DEF Made, Swept
  <2>. QED
    BY <1>1, <1>2, <2>1, <2>2, <2>3 DEF Undecided
<1>5. ASSUME NEW p \in Made, SettleFacet(p)
      PROVE  Undecided'
  <2>1. /\ Kind(p) \in Minting \cup {"edit"}
        /\ pending' = pending \ Swept(p)
        /\ UNCHANGED <<proposals, committed, withdrawn>>
    BY <1>5 DEF SettleFacet
  <2>2. \A q \in Swept(p) : Kind(q) \notin {"axiom-mark", "annotate"}
    BY <2>1 DEF Swept, WordingOf, Captures, Minting
  <2>3. Made' = Made
    BY <2>1 DEF Made
  <2>. QED
    BY <1>1, <1>2, <2>1, <2>2, <2>3 DEF Undecided
<1>6. ASSUME NEW p \in Made, Withdraw(p)
      PROVE  Undecided'
  <2>1. /\ withdrawn' = withdrawn \cup {p}
        /\ pending' = IF Kind(p) \in Minting THEN pending ELSE pending \ {p}
        /\ UNCHANGED <<proposals, committed>>
    BY <1>6 DEF Withdraw
  <2>2. Made' = Made
    BY <2>1 DEF Made
  <2>. QED
    BY <1>1, <1>2, <2>1, <2>2 DEF Undecided
<1>7. ASSUME UNCHANGED <<proposals, pending, committed, withdrawn>>
      PROVE  Undecided'
  <2>1. Made' = Made
    BY <1>7 DEF Made
  <2>. QED
    BY <1>1, <1>2, <1>7, <2>1 DEF Undecided
<1>8. (\E d \in Debaters, p \in Made : Vote(d, p)) => Undecided'
  BY <1>7 DEF Vote
<1>9. (\E e \in entities : SettleSubstance(e) \/ ReopenSubstance(e)) => Undecided'
  BY <1>7 DEF SettleSubstance, ReopenSubstance
<1>10. (\E e \in entities, d \in Debaters : RecantSubstance(e, d)) => Undecided'
  BY <1>7 DEF RecantSubstance
<1>11. (\E d \in Debaters : Join(d) \/ Leave(d)) => Undecided'
  BY <1>7 DEF Join, Leave
<1>12. UNCHANGED vars => Undecided'
  BY <1>7 DEF vars
<1>. QED
  BY <1>3, <1>4, <1>5, <1>6, <1>8, <1>9, <1>10, <1>11, <1>12 DEF Next

\* Nothing decided counts as pending in any reachable state.
LEMMA UndecidedInvariant == Spec => []Undecided
<1>1. Init => Undecided
  <2>1. Init => Made = {} /\ pending = {}
    BY DEF Init, Made
  <2>. QED
    BY <2>1 DEF Undecided
<1>2. TypeOK /\ Undecided /\ [Next]_vars => Undecided'
  BY StepUndecided
<1>3. IInv => TypeOK
  BY DEF IInv
<1>. QED
  BY <1>1, <1>2, <1>3, ServerInvariant, PTL DEF Spec

\* Every structural proposal that can still be decided is offered under its
\* entity or was overtaken there, and no row outlives its proposal but for a
\* withdrawal and a settled component.
THEOREM RowsAreOffered == ViewSpec => []RowsLeadToVotes
<1>1. TypeOK /\ Undecided => RowsLeadToVotes
  <2>. SUFFICES ASSUME TypeOK, Undecided, NEW d \in Debaters
                PROVE  /\ \A p \in pending : OffersRow(p, d) =>
                            \/ p \in DetailRows(d)
                            \/ \E q \in Made :
                                 /\ q > p /\ OffersRow(q, d) /\ On(q) = On(p)
                                 /\ Kind(p) \in Replacing => Kind(q) \notin Replacing
                       /\ DetailRows(d) \subseteq pending \cup withdrawn
                            \cup {p \in Made : Kind(p) \in Replacing}
    BY DEF RowsLeadToVotes
  <2>1. ASSUME NEW p \in pending, OffersRow(p, d), p \notin DetailRows(d)
        PROVE  \E q \in Made :
                 /\ q > p /\ OffersRow(q, d) /\ On(q) = On(p)
                 /\ Kind(p) \in Replacing => Kind(q) \notin Replacing
    <3>1. p \in Made /\ p \notin committed /\ Made \subseteq Nat
      BY DEF TypeOK, Undecided, Made
    <3>2. PICK q \in Made : OffersRow(q, d) /\ On(q) = On(p) /\ ~(q <= p)
      BY <2>1, <3>1 DEF DetailRows
    <3>3. Kind(p) \in Replacing => Kind(q) \notin Replacing
      BY <3>2 DEF Undecided, Replacing, Reshaping
    <3>. QED
      BY <3>1, <3>2, <3>3
  <2>2. ASSUME NEW p \in DetailRows(d), p \notin pending \cup withdrawn
        PROVE  p \in Made /\ Kind(p) \in Replacing
    BY <2>2 DEF DetailRows, OffersRow, Undecided
  <2>. QED
    BY <2>1, <2>2
<1>2. IInv => TypeOK
  BY DEF IInv
<1>. QED
  BY <1>1, <1>2, UndecidedInvariant, ServerInvariant, ClientsOnlyWatch, PTL

\* The canvases, the pane, the marks and the audience's view follow the
\* server's graph and its pending proposals.
THEOREM ScreensAreUpToDate == ViewSpec => []ScreensFollowTheServer
BY ScreensShowTheGraph, PaneIsUpToDate, AudienceMissesNothing, MarksAreUpToDate,
   RowsAreOffered, PTL DEF ScreensFollowTheServer
=============================================================================
