---------------------------- MODULE CanvasActions ----------------------------
(***************************************************************************)
(* Where the gestures of CaptureActions are made from: the moderator's     *)
(* canvas with its context menu, its three submenus and the role picker of *)
(* a drawn edge (apps/moderator/src/graph/GraphCanvasPane.tsx), the label  *)
(* dialog, the rows of the pending proposals with their shortcut, the      *)
(* buttons on the cards, and the participant's detail and proposal panes.  *)
(*                                                                         *)
(* What is on screen decides which gesture can start and is itself changed *)
(* by what the gestures come to: an ack closes the submenu of its kind,    *)
(* whichever thing that submenu is about by then.                          *)
(***************************************************************************)
EXTENDS CaptureActions, FiniteSets

CONSTANTS
    Hook,        \* the hook each slot belongs to
    About,       \* what each slot is about
    Annotations, \* annotations on the canvas
    Casts        \* sets of gestures a behaviour mixes: a bound

Submenus == {"annotate", "axiom-mark", "edit-wording"}
\* A proposal about one facet is committed under the slot of that facet.
Commits == {"commit-wording", "commit-classification", "commit-shape"}
\* What ends a proposal and takes its row away.
Enders == Commits \cup {"mark-meta-disagreement", "withdraw-proposal"}
Pane == "pane"
Targets == Nodes \cup Edges \cup Annotations \cup {Pane}

ASSUME CanvasAssumption ==
    /\ DOMAIN Hook = Slots /\ DOMAIN About = Slots
    /\ Casts # {} /\ \A c \in Casts : c \subseteq Gestures
    /\ "others" \notin Slots

\* The label's in-flight flag is one store of the application's.
ASSUME LabelAssumption ==
    \A s, t \in Slots : Hook[s] = "label-snapshot" /\ Hook[t] = "label-snapshot" => s = t

VARIABLES
    cast,     \* the gestures of this behaviour
    menu,     \* what the context menu is open on, or Nothing
    submenu,  \* what each submenu is open on, or Nothing
    picker,   \* the ends of the edge being drawn, or nothing: a sequence
    picking,  \* the picker's own in-flight flag
    dialog,   \* the label dialog is up
    selected, \* the proposal whose row is selected, or Nothing
    listed    \* the pane of the pending proposals is on screen

surfaces == <<menu, submenu, picker, picking, dialog, selected, listed>>
canvasVars == <<vars, cast, surfaces>>

CanvasInit ==
    /\ Init
    /\ cast \in Casts
    /\ menu = Nothing /\ submenu = [k \in Submenus |-> Nothing]
    /\ picker = <<>> /\ picking = FALSE
    /\ dialog = FALSE
    /\ selected = Nothing /\ listed = TRUE

-----------------------------------------------------------------------------
\* The menu and the submenus.

NodeItems == Submenus \cup NodeModes
EdgeItems == {"annotate"}
AnnotationItems == {"annotate"}
PaneItems == {}

Items(x) ==
    CASE x \in Nodes -> NodeItems
      [] x \in Edges -> EdgeItems
      [] x \in Annotations -> AnnotationItems
      [] x = Pane -> PaneItems

Closed == [k \in Submenus |-> Nothing]

\* A right click, or the menu key: whatever is open makes way.
RightClick(x) ==
    /\ menu' = x
    /\ submenu' = Closed
    /\ UNCHANGED <<vars, cast, picker, picking, dialog, selected, listed>>

\* An item acts and then closes the menu.
OpenSubmenu(k) ==
    /\ menu # Nothing /\ k \in Items(menu) \cap Submenus
    /\ submenu' = [submenu EXCEPT ![k] = menu]
    /\ menu' = Nothing
    /\ UNCHANGED <<vars, cast, picker, picking, dialog, selected, listed>>

PickMode(m) ==
    /\ menu \in Nodes /\ m \in Items(menu)
    /\ EnterMode(m, menu)
    /\ menu' = Nothing
    /\ UNCHANGED <<cast, submenu, picker, picking, dialog, selected, listed>>

\* The items still without an action, and the pane's, which only moves the focus.
PickStub ==
    /\ menu # Nothing
    /\ menu' = Nothing
    /\ UNCHANGED <<vars, cast, submenu, picker, picking, dialog, selected, listed>>

\* Mutant: the picker's listener forgets what it has in flight.
DismissPickerAnyway(keep) ==
    /\ picker' = IF keep THEN picker ELSE <<>>
    /\ picking' = (picking /\ keep)

\* The picker stays while its request is out.
DismissPicker(keep) ==
    /\ picker' = IF keep \/ picking THEN picker ELSE <<>>
    /\ UNCHANGED picking

Showing == {k \in Submenus : submenu[k] # Nothing}
           \cup {m \in {"menu"} : menu # Nothing} \cup {m \in {"picker"} : picker # <<>>}

\* A press of the button, on one of the surfaces or on none: each of them
\* listens for itself.
PressOutside(keep) ==
    /\ Showing # {} /\ keep \in Showing \cup {"canvas"}
    /\ menu' = IF keep = "menu" THEN menu ELSE Nothing
    /\ submenu' = [k \in Submenus |-> IF keep = k THEN submenu[k] ELSE Nothing]
    /\ DismissPicker(keep = "picker")
    /\ UNCHANGED <<vars, cast, dialog, selected, listed>>

-----------------------------------------------------------------------------
\* What the submenus, the picker and the dialog send.

Press(s, h) == Hook[s] = h /\ Gesture(s) /\ UNCHANGED cast

AnnotateForm(s) == submenu["annotate"] = About[s]
AxiomForm(s) == submenu["axiom-mark"] = About[s]
WordingForm(s) == submenu["edit-wording"] = About[s]

Annotate(s) ==
    /\ AnnotateForm(s)
    /\ Press(s, "annotate")
    /\ UNCHANGED surfaces

MarkAxiom(s) ==
    /\ AxiomForm(s)
    /\ Press(s, "axiom-mark")
    /\ UNCHANGED surfaces

EditWording(s) ==
    /\ WordingForm(s)
    /\ Press(s, "edit-wording")
    /\ UNCHANGED surfaces

SlotsOf(h) == {s \in cast \cap Slots : Hook[s] = h}
DrawSlots == SlotsOf("draw-edge")
LabelSlots == SlotsOf("label-snapshot")

\* The end of a drag from one handle to another; a drag onto itself, or onto
\* nothing, is none.  A picker on screen changes its pair, and keeps its error.
DragEdge(a, b) ==
    /\ a # b
    /\ picker' = <<a, b>>
    /\ error' = IF picker = <<>> THEN error \ DrawSlots ELSE error
    /\ UNCHANGED <<draft, busy, baseline, requests, session, open, edits,
                   cast, menu, submenu, picking, dialog, selected, listed>>

\* The picker's lock is a state of the component, not of a store.
PickRoleFor(s) ==
    /\ picker # <<>> /\ ~picking
    /\ Hook[s] = "draw-edge"
    /\ IF open
       THEN /\ Request(s, Empty)
            /\ busy' = busy \cup {s} /\ error' = error \ {s}
       ELSE /\ error' = error \cup {s}
            /\ UNCHANGED <<busy, requests>>
    /\ picking' = open
    /\ UNCHANGED <<draft, baseline, session, open, edits,
                   cast, menu, submenu, picker, dialog, selected, listed>>

\* The button or Ctrl+S.
OpenDialog ==
    /\ dialog' = TRUE
    /\ UNCHANGED <<vars, cast, menu, submenu, picker, picking, selected, listed>>

\* Cancel also forgets the error; the backdrop does not.
CancelDialog(cancel) ==
    /\ dialog /\ busy \cap LabelSlots = {}
    /\ dialog' = FALSE
    /\ error' = IF cancel THEN error \ LabelSlots ELSE error
    /\ UNCHANGED <<draft, busy, baseline, requests, session, open, edits,
                   cast, menu, submenu, picker, picking, selected, listed>>

LabelSnapshot(s) ==
    /\ dialog
    /\ Press(s, "label-snapshot")
    /\ UNCHANGED surfaces

-----------------------------------------------------------------------------
\* The rows of the pending proposals and the cards.

\* The first so many events of the log end the proposal.
OverBy(p, upto) ==
    \E i \in 1..upto : /\ log[i].of \in Slots /\ Hook[log[i].of] \in Enders
                       /\ About[log[i].of] = p
Over(p) == OverBy(p, applied)

Row(p) == listed /\ ~Over(p)

\* The row's Commit asks for the connection, as the shortcut does; that every
\* voice agrees is the subject of FacetPanel.
CommitRow(s) ==
    /\ Row(About[s]) /\ open
    /\ \E h \in Commits : Press(s, h)
    /\ UNCHANGED surfaces

\* The buttons on the cards have the slot of the row's, and do not ask.
CommitCard(s, h) == ~Over(About[s]) /\ Press(s, h) /\ UNCHANGED surfaces
CommitWording(s) == CommitCard(s, "commit-wording")
CommitClassification(s) == CommitCard(s, "commit-classification")
CommitShape(s) == CommitCard(s, "commit-shape")

SelectRow(p) ==
    /\ Row(p)
    /\ selected' = p
    /\ UNCHANGED <<vars, cast, menu, submenu, picker, picking, dialog, listed>>

\* Ctrl+Shift+Enter, whichever pane is on screen.
CommitChord(s) ==
    /\ selected = About[s]
    /\ IF Over(selected)
       THEN /\ Hook[s] \in Commits
            /\ selected' = Nothing
            /\ UNCHANGED <<vars, cast, menu, submenu, picker, picking, dialog, listed>>
       ELSE /\ open
            /\ \E h \in Commits : Press(s, h)
            /\ UNCHANGED surfaces

\* Another pane of the sidebar; the rows forget a selection that is over when
\* they are drawn again.
SwitchPane ==
    /\ listed' = ~listed
    /\ selected' = IF listed' /\ selected # Nothing /\ Over(selected) THEN Nothing ELSE selected
    /\ UNCHANGED <<vars, cast, menu, submenu, picker, picking, dialog>>

MarkMetaDisagreement(s) ==
    /\ Row(About[s]) /\ open
    /\ Press(s, "mark-meta-disagreement")
    /\ UNCHANGED surfaces

\* Offered to the proposer only, who needs no connection.
WithdrawProposal(s) ==
    /\ Row(About[s])
    /\ Press(s, "withdraw-proposal")
    /\ UNCHANGED surfaces

ClassifyNode(s) == Press(s, "classify-node") /\ UNCHANGED surfaces
SetNodeSubstance(s) == Press(s, "set-node-substance") /\ UNCHANGED surfaces
SetEdgeSubstance(s) == Press(s, "set-edge-substance") /\ UNCHANGED surfaces
RebutEdge(s) == SetEdgeSubstance(s)
BreakEdge(s) == Press(s, "break-edge") /\ UNCHANGED surfaces

\* The participant's panes.
CastVote(s) == Press(s, "vote") /\ UNCHANGED surfaces
WithdrawAgreement(s) == Press(s, "withdraw-agreement") /\ UNCHANGED surfaces
WithdrawOwnProposal(s) == WithdrawProposal(s)
MarkOwnAxiom(s) == Press(s, "own-axiom") /\ UNCHANGED surfaces
DisputeAnnotation(s) == Press(s, "dispute-annotation") /\ UNCHANGED surfaces

-----------------------------------------------------------------------------
\* One Escape reaches every listener; the capture keymap sits still while a
\* field has the focus.
Escape(inField) ==
    /\ menu' = Nothing /\ submenu' = Closed
    /\ DismissPicker(FALSE)
    /\ dialog' = (dialog /\ busy \cap LabelSlots # {})
    /\ selected' = IF listed THEN Nothing ELSE selected
    /\ UNCHANGED <<cast, listed>>
    /\ IF inField \/ cast \cap Flows = {} \/ (draft.mode = "idle" /\ draft.target = Nothing)
       THEN UNCHANGED vars
       ELSE \/ \E m \in NodeModes : ExitMode(m)
            \/ \E clear \in BOOLEAN : ExitMetaMode(clear)
            \/ draft.mode = "idle" /\ ClearTarget

\* What the end of a request does to the surface it was made from.
Settled(s, ok) ==
    /\ submenu' = [k \in Submenus |-> IF ok /\ Hook[s] = k THEN Nothing ELSE submenu[k]]
    /\ picker' = IF ok /\ Hook[s] = "draw-edge" THEN <<>> ELSE picker
    /\ picking' = (picking /\ Hook[s] # "draw-edge")
    /\ dialog' = (dialog /\ ~(ok /\ Hook[s] = "label-snapshot"))

CanvasAnswer(a) ==
    /\ Answer(a)
    /\ IF \E r \in waiting : r.id = a.id /\ r.of \in Slots
       THEN Settled((CHOOSE r \in waiting : r.id = a.id).of, a.ok)
       ELSE UNCHANGED <<submenu, picker, picking, dialog>>
    /\ UNCHANGED <<cast, menu, selected, listed>>

CanvasTimeout(r) ==
    /\ Timeout(r)
    /\ IF r.of \in Slots THEN Settled(r.of, FALSE)
       ELSE UNCHANGED <<submenu, picker, picking, dialog>>
    /\ UNCHANGED <<cast, menu, selected, listed>>

CanvasDisconnect ==
    /\ Disconnect
    /\ picking' = FALSE
    /\ UNCHANGED <<cast, menu, submenu, picker, dialog, selected, listed>>

\* The pane that lists the rows drops a selection whose row has gone.
CanvasApply ==
    /\ Apply
    /\ selected' = IF listed /\ selected # Nothing /\ OverBy(selected, applied') THEN Nothing ELSE selected
    /\ UNCHANGED <<cast, menu, submenu, picker, picking, dialog, listed>>

\* The pane's other gestures, the server and the others, as they are.
Elsewhere ==
    /\ \/ cast \cap Flows # {} /\ Drafting
       \/ \E f \in Flows \cap cast : Propose(f)
       \/ \E r \in wire : Handle(r)
       \/ Others
       \/ Reconnect
    /\ UNCHANGED <<cast, surfaces>>

\* A behaviour plays with the surfaces its cast sends from, and clicks on what
\* the cast is about: a bound.
Plays(hooks) == \E h \in hooks : SlotsOf(h) # {}
Around == {About[s] : s \in cast \cap Slots} \cup (IF cast \cap Flows # {} THEN Nodes ELSE {})

CanvasMenus ==
    \/ (Plays(Submenus) \/ cast \cap Flows # {}) /\ \E x \in Targets \cap Around : RightClick(x)
    \/ \E k \in Submenus : Plays({k}) /\ OpenSubmenu(k)
    \/ cast \cap Flows # {} /\ \E m \in NodeModes : PickMode(m)
    \/ PickStub
    \/ \E keep \in Submenus \cup {"menu", "picker", "canvas"} : PressOutside(keep)
    \/ Plays({"draw-edge"}) /\ \E a, b \in Nodes \cup Annotations : DragEdge(a, b)
    \/ Plays({"label-snapshot"}) /\ OpenDialog
    \/ \E cancel \in BOOLEAN : CancelDialog(cancel)
    \/ \E h \in Commits : \E s \in SlotsOf(h) : SelectRow(About[s])
    \/ Plays(Enders) /\ SwitchPane
    \/ \E inField \in BOOLEAN : Escape(inField)

CanvasGestures ==
    \E s \in cast \cap Slots :
        \/ Annotate(s) \/ MarkAxiom(s) \/ EditWording(s)
        \/ PickRoleFor(s) \/ LabelSnapshot(s)
        \/ CommitRow(s) \/ CommitChord(s)
        \/ CommitWording(s) \/ CommitClassification(s) \/ CommitShape(s)
        \/ MarkMetaDisagreement(s) \/ WithdrawProposal(s)
        \/ ClassifyNode(s) \/ SetNodeSubstance(s) \/ SetEdgeSubstance(s)
        \/ RebutEdge(s) \/ BreakEdge(s)
        \/ CastVote(s) \/ WithdrawAgreement(s) \/ WithdrawOwnProposal(s)
        \/ MarkOwnAxiom(s) \/ DisputeAnnotation(s)

CanvasNext ==
    \/ CanvasMenus
    \/ CanvasGestures
    \/ Elsewhere
    \/ \E a \in answers : CanvasAnswer(a)
    \/ \E r \in waiting : CanvasTimeout(r)
    \/ CanvasDisconnect
    \/ CanvasApply

CanvasSpec == CanvasInit /\ [][CanvasNext]_canvasVars

-----------------------------------------------------------------------------
\* The menu and its submenus never stand side by side, whatever is clicked.
OneThingIsOpen ==
    Cardinality(Showing \ {"picker"}) <= 1

\* A picker whose request is out keeps its place, its lock and no second
\* request, whatever is dragged, clicked or escaped meanwhile; the dialog of a
\* label keeps its place too.
AskersOutlastTheirRequests ==
    /\ picking <=> \E r \in waiting : r.of \in DrawSlots
    /\ picking => picker # <<>>
    /\ busy \cap LabelSlots # {} => dialog

\* Commit, withdrawal and meta-disagreement of one proposal, from the row, the
\* card and the shortcut, under three different locks: one of them lands.
ProposalsEndOnce ==
    \A i, j \in DOMAIN log :
        (i < j /\ {log[i].of, log[j].of} \subseteq Slots /\ {Hook[log[i].of], Hook[log[j].of]} \subseteq Enders)
            => About[log[i].of] # About[log[j].of]

CanvasIsSound == OneThingIsOpen /\ AskersOutlastTheirRequests /\ ProposalsEndOnce

=============================================================================
