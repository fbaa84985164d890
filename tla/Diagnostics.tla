---------------------------- MODULE Diagnostics ----------------------------
(* The structural diagnostics: which edges fire, the five detectors that    *)
(* read the projection, the difference of two diagnoses that the bus sends, *)
(* and the map of active diagnostics a client keeps from it.                *)
(*                                                                          *)
(* The graph is that of StructuralProposals, reduced to what the detectors  *)
(* read: edges in the order they were drawn, with a role and two ends that  *)
(* are nodes or annotations, what has been hidden, and the substance facet  *)
(* of FacetAgreement, reduced to the value on the table, the value decided  *)
(* and the derived status.  Nodes are numbered in the order of projection.  *)
(* Only the replay endpoint asks for a diagnosis in production; the bus and *)
(* the client are wired and driven by tests, one notification per change.   *)
EXTENDS Integers, FiniteSets, SequencesExt

CONSTANTS
  Nodes,        \* the statements, 1..n
  Annotations,  \* the annotations
  Anchor,       \* what each annotation is about: a node, or NoNode for an edge
  NoNode,       \* targetNodeId of an annotation on an edge
  NoValue,      \* no substance value
  Drawable,     \* bound: the edges that may be drawn, [role, source, target]
  Debated,      \* bound: the nodes whose substance is discussed
  Starts,       \* bound: the edges already drawn when the runs begin
  MaxEdges,     \* bound: edges drawn
  MaxHidden     \* bound: entities taken away

Entities == Nodes \cup Annotations
Roles == {"supports", "rebuts", "contradicts", "bridges-from", "bridges-to"}
Values == {"agreed", "disputed"}

\* `open` stands for proposed, awaiting-proposal, disputed, withdrawn and
\* meta-disagreement, which the detectors of a diagnosis treat alike.
Statuses == {"open", "agreed", "committed"}

ASSUME NodesAssumption == IsFiniteSet(Nodes) /\ Nodes = 1..Cardinality(Nodes)
ASSUME KindsAssumption ==
  Nodes \cap Annotations = {} /\ NoNode \notin Nodes /\ NoValue \notin Values
ASSUME AnchorAssumption == Anchor \in [Annotations -> Nodes \cup {NoNode}]
ASSUME DebatedAssumption == Debated \subseteq Nodes
ASSUME DrawableAssumption ==
  /\ MaxEdges \in Nat
  /\ Drawable \subseteq [role : Roles, source : Entities, target : Entities]
  /\ Starts \subseteq {s \in Seq(Drawable) : Len(s) <= MaxEdges}

VARIABLES
  edges,    \* the edges in the order they were drawn
  hidden,   \* nodes and annotations whose `visible` is false
  broken,   \* positions of the edges whose `visible` is false
  facet,    \* the substance facet of each node
  due,      \* the graph has changed since the last notification
  reported, \* the diagnosis the last notification was about
  screen    \* activeDiagnostics of a client that saw every notification

vars == <<edges, hidden, broken, facet, due, reported, screen>>
----------------------------------------------------------------------------
(* Active firing *)

Settled == [offered |-> "agreed", decided |-> "agreed", status |-> "committed"]
Fresh == [offered |-> NoValue, decided |-> NoValue, status |-> "open"]

\* statusEstablishesTruth
Established(x) == x.status \in {"agreed", "committed"}

\* resolveSubstanceValue: the committed value, and the candidate without one.
Resolved(x) == IF x.decided # NoValue THEN x.decided ELSE x.offered

\* Mutant: a source that is agreed and not yet committed does not count.
StandsOnceCommitted(n) ==
  facet[n].status = "committed" /\ Resolved(facet[n]) = "agreed"

\* The node is held to be true.
Stands(n) == Established(facet[n]) /\ Resolved(facet[n]) = "agreed"

\* isEdgeActive; the substance of an edge is not discussed here and stands.
Fires(i) == Stands(edges[i].source)

Drawn == 1..Len(edges)
Seen(x) == x \in Entities \ hidden
SeenNode(x) == x \in Nodes \ hidden
SeenNote(x) == x \in Annotations \ hidden
SeenEdges == Drawn \ broken

\* The visible edges of a role between two visible nodes.
Links(role) ==
  {i \in SeenEdges : /\ edges[i].role = role
                     /\ SeenNode(edges[i].source) /\ SeenNode(edges[i].target)}

----------------------------------------------------------------------------
(* Cycles *)

Least(a, b) == IF a < b THEN a ELSE b
LeastOf(S) == CHOOSE k \in S : \A j \in S : k <= j

\* Numbers from least to greatest, as the Map and the Sets of the adjacency
\* keep what was put into them in order.
InOrder(S) ==
  CHOOSE row \in [1..Cardinality(S) -> S] :
    \A i, j \in DOMAIN row : i < j => row[i] < row[j]

\* buildSupportsAdjacency: the targets of n in the order of their first edge.
Successors(n) ==
  LET firing == {i \in Links("supports") : edges[i].source = n /\ Fires(i)}
      first == InOrder({i \in firing :
                 \A j \in firing : edges[j].target = edges[i].target => i <= j})
  IN [k \in DOMAIN first |-> edges[first[k]].target]
Adjacency == [n \in Nodes \ hidden |-> Successors(n)]

\* Mutant: a finished component still lowers the link of the node before it.
EarlierSeen(state, m) == TRUE

\* A visited successor counts while it is on the stack.
EarlierOpen(state, m) == Contains(state.stack, m)

\* pushNode
Enter(state, n, adjacency) ==
  [state EXCEPT !.index[n] = state.next, !.low[n] = state.next, !.next = @ + 1,
                !.stack = Append(@, n),
                !.frames = Append(@, [node |-> n, left |-> adjacency[n]])]

\* The top frame looks at its next successor.
LookAt(state, m, adjacency) ==
  LET top == Len(state.frames)
      n == state.frames[top].node
      after == [state EXCEPT !.frames[top].left = Tail(@)]
  IN IF state.index[m] = 0 THEN Enter(after, m, adjacency)
     ELSE IF EarlierOpen(state, m)
     THEN [after EXCEPT !.low[n] = Least(@, state.index[m])]
     ELSE after

\* The top frame is done: the root of a component takes it off the stack, and
\* the link is handed down to the parent's frame.
Leave(state) ==
  LET n == Last(state.frames).node
      rest == Front(state.frames)
      at == CHOOSE k \in DOMAIN state.stack : state.stack[k] = n
      shed == IF state.low[n] # state.index[n] THEN state
              ELSE [state EXCEPT
                     !.stack = SubSeq(@, 1, at - 1),
                     !.found = Append(@, Reverse(SubSeq(state.stack, at,
                                                        Len(state.stack))))]
  IN IF rest = <<>> THEN [shed EXCEPT !.frames = rest]
     ELSE [shed EXCEPT !.frames = rest,
                       !.low[Last(rest).node] = Least(@, state.low[n])]

\* One turn of strongConnect's loop, or tarjanScc's step to the next node that
\* was not reached.
Turn(state, adjacency) ==
  LET unreached == {n \in DOMAIN adjacency : state.index[n] = 0}
  IN IF state.frames # <<>>
     THEN IF Last(state.frames).left = <<>> THEN Leave(state)
          ELSE LookAt(state, Head(Last(state.frames).left), adjacency)
     ELSE IF unreached # {} THEN Enter(state, LeastOf(unreached), adjacency)
     ELSE state

\* Turns enough for the loop to end: a node is entered once, and between two
\* entries frames are left and edges looked at, a link being one edge at most.
Turns == Cardinality(Nodes \ hidden) * (2 * Cardinality(Links("supports")) + 2)

\* tarjanScc
Components(adjacency) ==
  LET zero == [n \in DOMAIN adjacency |-> 0]
      start == [index |-> zero, low |-> zero, next |-> 1, stack |-> <<>>,
                frames |-> <<>>, found |-> <<>>]
      run[k \in Nat] == IF k = 0 THEN start ELSE Turn(run[k - 1], adjacency)
  IN run[Turns].found

\* walkSccInAdjacencyOrder: on to the first member not seen, until there is
\* none.
Onward(path, component, adjacency) ==
  LET ways == adjacency[Last(path)]
      open == {k \in DOMAIN ways : Contains(component, ways[k])
                                     /\ ~Contains(path, ways[k])}
  IN IF open = {} THEN path ELSE Append(path, ways[LeastOf(open)])
Walk(component, adjacency) ==
  LET walk[k \in Nat] == IF k = 0 THEN <<component[1]>>
                         ELSE Onward(walk[k - 1], component, adjacency)
  IN walk[Len(component)]

\* detectSupportsCycles
Cycles ==
  LET adjacency == Adjacency
      Circular(c) == Len(c) > 1 \/ Contains(adjacency[c[1]], c[1])
  IN {Walk(c, adjacency) : c \in {d \in ToSet(Components(adjacency)) : Circular(d)}}
----------------------------------------------------------------------------
(* The other detectors *)

\* One diagnosis: its identity, the entities it names, and its severity.
Entry(key, nodes, links, severity) ==
  [key |-> key, nodes |-> nodes, edges |-> links, severity |-> severity]

Cycle(path) == Entry(<<"cycle", ToSet(path)>>, ToSet(path), {}, "blocking")

\* The contradicts edges of detectContradictions: both sides hold.
Clashing ==
  {i \in Links("contradicts") :
     edges[i].source # edges[i].target /\ Fires(i) /\ Stands(edges[i].target)}

Ends(i) == {edges[i].source, edges[i].target}

Contradictions ==
  {Entry(<<"contradiction", pair>>, pair, {i \in Clashing : Ends(i) = pair},
         "blocking") : pair \in {Ends(i) : i \in Clashing}}

\* What node n is joined to by its own visible edges of a role.
Targets(n, role) ==
  {edges[i].target : i \in {j \in Links(role) : edges[j].source = n}}

\* The claims a warrant n licenses, as detectMultiWarrants reads them.
Licensed(n) == Targets(n, "bridges-to")

\* detectMultiWarrants
WarrantsOf(data, claim) ==
  {n \in Nodes : data \in Targets(n, "bridges-from") /\ claim \in Licensed(n)}
MultiWarrants ==
  {Entry(<<"multi-warrant", p[1], p[2], WarrantsOf(p[1], p[2])>>,
         {p[1], p[2]} \cup WarrantsOf(p[1], p[2]), {}, "advisory") :
     p \in {q \in Nodes \X Nodes : Cardinality(WarrantsOf(q[1], q[2])) > 1}}

\* detectDanglingClaims: something leans on the node and nothing bears it out.
Incoming(n) ==
  {edges[i].role : i \in {j \in SeenEdges : /\ edges[j].target = n
                                            /\ SeenNode(edges[j].source)}}
DanglingClaims ==
  {Entry(<<"dangling-claim", n>>, {n}, {}, "advisory") :
     n \in {m \in Nodes \ hidden :
              /\ Incoming(m) # {}
              /\ Incoming(m) \cap {"supports", "rebuts", "bridges-to"} = {}}}

\* The two incomplete-warrant hints: one leg is there and the other is not.
HalfWarrants(has, lacks) ==
  {Entry(<<lacks, p[1], p[2]>>, {p[1], p[2]}, {}, "advisory") :
     p \in {q \in (Nodes \ hidden) \X Nodes :
              q[2] \in Targets(q[1], has) /\ Targets(q[1], lacks) = {}}}

SelfContradicts ==
  {Entry(<<"self-contradicts", i>>, {edges[i].source}, {i}, "advisory") :
     i \in {j \in Links("contradicts") : edges[j].source = edges[j].target}}

\* detectAnnotationOfAnnotationChains
NoteLinks == {i \in SeenEdges : SeenNote(edges[i].source)
                                  /\ SeenNote(edges[i].target)}
Before(i) ==
  SelectInSeq([j \in Drawn |-> j],
              LAMBDA j : /\ j # i /\ j \in NoteLinks
                         /\ edges[j].target = edges[i].source)
Chains ==
  {Entry(<<"annotation-of-annotation-chain", i>>, Ends(i), {i, Before(i)},
         "advisory") : i \in {j \in NoteLinks : Before(j) # 0}}

\* A visible contradicts edge between node n and annotation a, either way.
Mixed(i, n, a) ==
  /\ i \in SeenEdges /\ edges[i].role = "contradicts" /\ Ends(i) = {n, a}
  /\ SeenNode(n) /\ SeenNote(a)
MixedEnds == {t \in SeenEdges \X Nodes \X Annotations : Mixed(t[1], t[2], t[3])}

SelfReferential ==
  {Entry(<<"self-referential-annotation-contradicts", t[1]>>, {t[2], t[3]},
         {t[1]}, "advisory") : t \in {u \in MixedEnds : Anchor[u[3]] = u[2]}}

\* Mutant: an annotation on the node itself is across anchors as well.
CrossesAnywhere(t) == Anchor[t[3]] # NoNode

Crosses(t) == Anchor[t[3]] \notin {NoNode, t[2]}

\* The entry names the anchor too; only the direct ends must be visible.
CrossAnchor ==
  {Entry(<<"non-self-referential-annotation-contradicts", t[1]>>,
         {t[2], t[3], Anchor[t[3]]}, {t[1]}, "advisory") :
     t \in {u \in MixedEnds : Crosses(u)}}

\* computeAllDiagnostics
Diagnosis ==
  {Cycle(path) : path \in Cycles}
    \cup Contradictions \cup MultiWarrants \cup DanglingClaims
    \cup HalfWarrants("bridges-from", "bridges-to")
    \cup HalfWarrants("bridges-to", "bridges-from")
    \cup SelfContradicts \cup Chains \cup SelfReferential \cup CrossAnchor

\* detectPendingConsequences, which no diagnosis includes: the edges that
\* would fire once their source stands.
Pending ==
  {i \in SeenEdges : SeenNode(edges[i].source)
                       /\ ~Established(facet[edges[i].source])}
----------------------------------------------------------------------------
(* The bus and the client *)

Keys(diagnosis) == {d.key : d \in diagnosis}

\* Mutant: entries are compared whole, so a contradiction that gains an edge
\* is announced and then cleared.
DifferenceOfEntries(prev, next) ==
  [fired |-> next \ prev, cleared |-> prev \ next]

\* diffDiagnostics
Difference(prev, next) ==
  [fired |-> {d \in next : d.key \notin Keys(prev)},
   cleared |-> {d \in prev : d.key \notin Keys(next)}]

\* notify: the listeners hear what fired and then what cleared, and
\* applyDiagnostic sets and deletes by key.
Applied(diagnosis, fired, cleared) ==
  {d \in diagnosis : d.key \notin Keys(fired) \cup Keys(cleared)}
    \cup {d \in fired : d.key \notin Keys(cleared)}

\* projectDiagnosticHighlights: blocking wins.
Mark(x) ==
  LET severities == {d.severity : d \in {e \in screen : x \in e.nodes}}
  IN IF "blocking" \in severities THEN "blocking"
     ELSE IF severities # {} THEN "advisory" ELSE "none"

\* candidateBreakEdges: the supports edges the moderator is offered to break
\* for a cycle through these nodes.
CandidateBreakEdges(nodes) ==
  {i \in Links("supports") : Ends(i) \subseteq nodes}

----------------------------------------------------------------------------
(* What changes the graph *)

\* Each change is followed by a notification before the next one.
Change ==
  /\ ~due
  /\ due' = TRUE
  /\ UNCHANGED <<reported, screen>>

Init ==
  /\ edges \in Starts
  /\ hidden = {}
  /\ broken = {}
  /\ facet = [n \in Nodes |-> IF n \in Debated THEN Fresh ELSE Settled]
  /\ due = FALSE
  /\ reported = Diagnosis
  /\ screen = Diagnosis

\* handleEdgeCreated; both ends are visible when an edge is proposed.
Draw(e) ==
  /\ Len(edges) < MaxEdges
  /\ e \notin ToSet(edges)
  /\ Seen(e.source) /\ Seen(e.target)
  /\ edges' = Append(edges, e)
  /\ UNCHANGED <<hidden, broken, facet>>
  /\ Change

Bounded == Cardinality(hidden) + Cardinality(broken) < MaxHidden

\* A node is decomposed, split or retracted, or an annotation retracted.
Hide(x) ==
  /\ Bounded /\ Seen(x)
  /\ hidden' = hidden \cup {x}
  /\ UNCHANGED <<edges, broken, facet>>
  /\ Change

\* An edge is broken or retracted.
Break(i) ==
  /\ Bounded /\ i \in SeenEdges
  /\ broken' = broken \cup {i}
  /\ UNCHANGED <<edges, hidden, facet>>
  /\ Change

\* A substance value is proposed: the votes start again, and the value
\* committed before stays where it is.  To propose that value once more is to
\* be committed to it, unless someone withdrew from it.
Propose(n, v) ==
  /\ \E status \in {"open"} \cup {s \in {"committed"} : facet[n].decided = v} :
       facet' = [facet EXCEPT ![n] = [@ EXCEPT !.offered = v,
                                               !.status = status]]
  /\ UNCHANGED <<edges, hidden, broken>>
  /\ Change

\* Votes on the value on the table, or an agreement withdrawn from it.
Poll(n, status) ==
  /\ facet[n].offered # NoValue
  /\ facet[n].decided = facet[n].offered => status = "open"
  /\ facet' = [facet EXCEPT ![n].status = status]
  /\ UNCHANGED <<edges, hidden, broken>>
  /\ Change

Commit(n) ==
  /\ facet[n].status = "agreed"
  /\ facet' = [facet EXCEPT ![n] = [@ EXCEPT !.decided = facet[n].offered,
                                             !.status = "committed"]]
  /\ UNCHANGED <<edges, hidden, broken>>
  /\ Change

\* notifyForSession, from the diagnosis before the change to the present one.
Notify ==
  /\ due
  /\ due' = FALSE
  /\ \E next \in {Diagnosis} : \E news \in {Difference(reported, next)} :
       /\ reported' = next
       /\ screen' = Applied(screen, news.fired, news.cleared)
  /\ UNCHANGED <<edges, hidden, broken, facet>>

Next ==
  \/ Notify
  \/ \E e \in Drawable : Draw(e)
  \/ \E x \in Entities : Hide(x)
  \/ \E i \in Drawn : Break(i)
  \/ \E n \in Debated, v \in Values : Propose(n, v)
  \/ \E n \in Debated, s \in Statuses \ {"committed"} : Poll(n, s)
  \/ \E n \in Debated : Commit(n)

Spec == Init /\ [][Next]_vars

----------------------------------------------------------------------------
(* Properties *)

Severities == {"blocking", "advisory"}
EdgeIds == 1..MaxEdges

\* Every variable stays in its type.
TypeOK ==
  /\ edges \in Seq(Drawable) /\ Len(edges) <= MaxEdges
  /\ hidden \subseteq Entities
  /\ broken \subseteq Drawn
  /\ facet \in [Nodes -> [offered : Values \cup {NoValue},
                          decided : Values \cup {NoValue}, status : Statuses]]
  /\ due \in BOOLEAN
  /\ \A d \in reported \cup screen :
                       /\ d.nodes \subseteq Entities
                       /\ d.edges \subseteq EdgeIds
                       /\ d.severity \in Severities

\* The firing supports edges, and what they lead to in one step or more.
Step == {<<edges[i].source, edges[i].target>> :
           i \in {j \in Links("supports") : Fires(j)}}
Leads ==
  LET step == Step
      Holds(n, S) == \A q \in step : q[1] \in S \cup {n} => q[2] \in S
  IN {p \in Nodes \X Nodes : \A S \in SUBSET Nodes : Holds(p[1], S) => p[2] \in S}

\* The nodes of circular support, by who leads to whom and back.
Circles ==
  LET leads == Leads
  IN {{m \in Nodes : <<n, m>> \in leads /\ <<m, n>> \in leads} :
        n \in {k \in Nodes : <<k, k>> \in leads}}

\* The diagnoses of a kind, once the last change has been reported.
Reported(kinds) == {d \in reported : ~due /\ d.key[1] \in kinds}

\* Every circle of support is reported exactly once and nothing else is: each
\* reported path lies in a circle and each circle holds one path, whatever the
\* order in which edges were drawn and nodes are visited (detectSupportsCycles
\* and tarjanScc).
CirclesAreReported ==
  ~due => LET cycles == Reported({"cycle"})
              circles == Circles
          IN /\ \A d \in cycles : \E c \in circles : d.nodes \subseteq c
             /\ \A c \in circles :
                  Cardinality({d \in cycles : d.nodes \cap c # {}}) = 1

\* The moderator is always offered a way out: among the edges proposed for
\* breaking is one that fires and lies on the circle (candidateBreakEdges).
BreakingHelps ==
  \A d \in Reported({"cycle"}) : \E i \in CandidateBreakEdges(d.nodes) :
    Fires(i) /\ <<edges[i].target, edges[i].source>> \in Leads

\* Cycle reports are exact, and each can be acted on.
CirclesAreFound == CirclesAreReported /\ BreakingHelps

\* A client that applies what fired and what cleared holds the diagnoses of
\* the present graph, whatever sequence of changes led there (diffDiagnostics
\* against applyDiagnostic, which compute their keys apart).
ScreenFollowsGraph == Keys(screen) = Keys(reported)

\* Nothing that was taken off the graph is named in a diagnosis, save the node
\* an annotation is anchored on.
OnlyTheVisibleIsNamed ==
  ~due => \A d \in reported :
    /\ d.edges \cap broken = {}
    /\ d.nodes \cap hidden \subseteq {Anchor[a] : a \in d.nodes \cap Annotations}

\* Both legs of a warrant that counts towards a multi-warrant are in place, so
\* no hint calls it incomplete.
CountedWarrantsAreWhole ==
  \A d \in Reported({"multi-warrant"}) :
    ~\E h \in Reported({"bridges-to", "bridges-from"}) : h.key[2] \in d.key[4]

\* A contradicts edge is read in one way: two nodes that clash, a node against
\* itself, or a node against an annotation of its own or of another node; and
\* an edge between a visible node and an annotation of a node is always read.
OneReadingPerContradiction ==
  ~due =>
    LET Readings(i) ==
          {d \in Reported({"contradiction", "self-contradicts",
                           "self-referential-annotation-contradicts",
                           "non-self-referential-annotation-contradicts"}) :
             i \in d.edges}
    IN /\ \A i \in Drawn : Cardinality(Readings(i)) <= 1
       /\ \A t \in MixedEnds : Anchor[t[3]] # NoNode => Readings(t[1]) # {}

\* What stands in a blocking diagnosis is marked as blocking on the screen,
\* even where an advisory one names it too (projectDiagnosticHighlights).
BlockedIsMarked ==
  \A d \in reported : d.severity = "blocking" =>
    \A n \in d.nodes : Mark(n) = "blocking"

\* The screen holds the diagnoses of the present graph, and none of them hides
\* that another one blocks.
ScreenShowsTheGraph == ScreenFollowsGraph /\ BlockedIsMarked

\* The other detectors read the graph one way, count what is there and name
\* what can be seen.
ReadingsAreRight ==
  TypeOK /\ OneReadingPerContradiction /\ CountedWarrantsAreWhole /\ OnlyTheVisibleIsNamed

\* A defeater wakes up: an edge listed as a pending consequence fires in the
\* step after which the participants agree that its source holds.
DefeatersActivate ==
  [][\A i \in Pending :
       /\ i \in SeenEdges' /\ SeenNode(edges[i].source)'
       /\ facet[edges[i].source].decided = NoValue
       /\ (facet[edges[i].source].status = "agreed")'
       /\ (facet[edges[i].source].offered = "agreed")'
       => Fires(i)']_vars
============================================================================
