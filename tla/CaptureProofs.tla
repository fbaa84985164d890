---------------------------- MODULE CaptureProofs ----------------------------
(***************************************************************************)
(* Proofs about CaptureActions and CanvasActions, for every set of nodes,  *)
(* edges, wordings, slots and casts and every bound on the rows.           *)
(*                                                                         *)
(* The invariant of the capture pane is IInv.  Beside the types it says    *)
(* that the requests the client waits on differ by their number            *)
(* (Identified), that what they saved is the slice of a draft, and         *)
(* proposable if it was a list (Kept), so that bringing it back gives a    *)
(* list that can be shown, and the two properties themselves.              *)
(*                                                                         *)
(* CanvasInv adds the canvas.  Whatever is clicked there is a step of the  *)
(* pane or forgets an error, because the picker's own lock is up whenever  *)
(* its slot is busy; and what ends a proposal was sent by somebody who had *)
(* not seen it end (Fresh), so that of two only one lands.                 *)
(***************************************************************************)
EXTENDS CanvasActions, FiniteSetTheorems, TLAPS

Placed(d) ==
    /\ d.mode \in NodeModes => d.on[d.mode] \in Nodes
    /\ \A m \in RowModes : d.mode = m => Len(d.rows[m]) \in MinRows..MaxRows

Identified ==
    /\ \A r \in waiting : r.id <= sent
    /\ \A r1, r2 \in waiting : r1.id = r2.id => r1 = r2

Showable(saved) == saved.on \in Nodes /\ Len(saved.rows) \in MinRows..MaxRows
Kept ==
    /\ \A r \in waiting : r.of \in RowModes => Showable(r.saved)
    /\ \A r \in waiting : r.of \in Flows => \E d \in Drafts : r.saved = Slice(d, r.of)

IInv == TypeOK /\ Identified /\ Kept /\ OneRequestPerLock /\ ModeHasItsNode

USE DEF Nothing, Blank

\* A list of blanks is a list, as long as it was asked to be.
LEMMA Emptied ==
    ASSUME NEW n \in Nat
    PROVE  EmptyRows(n) \in Rows /\ Len(EmptyRows(n)) = n
BY DEF EmptyRows, Rows

\* Entering a mode of a node leaves a draft on which the mode has its node.
LEMMA Entered ==
    ASSUME NEW d \in Drafts, NEW m \in NodeModes, NEW n \in Nodes
    PROVE  /\ Enter(d, m, n) \in Drafts
           /\ Placed(Enter(d, m, n))
           /\ Enter(d, m, n).proposing = d.proposing
<1>0. MinRows \in Nat /\ MaxRows \in Nat /\ MinRows <= MaxRows
    BY DraftAssumption
<1>1. EmptyRows(MinRows) \in Rows /\ Len(EmptyRows(MinRows)) = MinRows
    BY <1>0, Emptied
<1>2. d.proposing \in BOOLEAN /\ d.on \in [NodeModes -> Nodes \cup {Nothing}]
      /\ d.rows \in [RowModes -> Rows]
    BY DEF Drafts
<1>3. [d.on EXCEPT ![m] = n] \in [NodeModes -> Nodes \cup {Nothing}]
    BY <1>2
<1>4. [k \in RowModes |-> IF k = m THEN EmptyRows(MinRows) ELSE d.rows[k]] \in [RowModes -> Rows]
    BY <1>1, <1>2
<1>5. m \in Modes
    BY DEF Modes
<1>6. Enter(d, m, n) \in Drafts
    BY <1>2, <1>3, <1>4, <1>5 DEF Enter, Drafts
<1>7. Placed(Enter(d, m, n))
    BY <1>0, <1>1, <1>2 DEF Enter, Placed
<1> QED BY <1>6, <1>7 DEF Enter

\* Leaving a mode leaves the pane idle.
LEMMA Exited ==
    ASSUME NEW d \in Drafts, NEW m \in NodeModes
    PROVE  /\ Exit(d, m) \in Drafts
           /\ Exit(d, m).mode = "idle"
           /\ Exit(d, m).proposing = d.proposing
<1>1. d.on \in [NodeModes -> Nodes \cup {Nothing}] /\ d.rows \in [RowModes -> Rows]
    BY DEF Drafts
<1>2. [d.on EXCEPT ![m] = Nothing] \in [NodeModes -> Nodes \cup {Nothing}]
    BY <1>1
<1>3. <<>> \in Rows
    BY DEF Rows
<1>4. [k \in RowModes |-> IF k = m THEN <<>> ELSE d.rows[k]] \in [RowModes -> Rows]
    BY <1>1, <1>3
<1>5. "idle" \in Modes
    BY DEF Modes
<1> QED BY <1>2, <1>4, <1>5 DEF Exit, Drafts

\* A draft with nothing of a mode on screen is placed.
LEMMA IdleIsPlaced ==
    ASSUME NEW d, d.mode \in {"idle", "meta-move"}
    PROVE  Placed(d)
BY DEF Placed, NodeModes, RowModes

\* Adding and removing rows stays within what can be proposed.
LEMMA RowsStay ==
    ASSUME NEW rows \in Rows, Len(rows) \in MinRows..MaxRows,
           NEW i \in 1..Len(rows), NEW t \in Texts \cup {Blank}
    PROVE  /\ AddRow(rows) \in Rows /\ Len(AddRow(rows)) \in MinRows..MaxRows
           /\ RemoveRow(rows, i) \in Rows /\ Len(RemoveRow(rows, i)) \in MinRows..MaxRows
           /\ [rows EXCEPT ![i] = t] \in Rows /\ Len([rows EXCEPT ![i] = t]) = Len(rows)
<1>0. MinRows \in Nat /\ MaxRows \in Nat /\ MinRows <= MaxRows
    BY DraftAssumption
<1>1. AddRow(rows) \in Rows /\ Len(AddRow(rows)) \in MinRows..MaxRows
    BY <1>0 DEF AddRow, Rows
<1>2. RemoveRow(rows, i) \in Rows /\ Len(RemoveRow(rows, i)) \in MinRows..MaxRows
  <2>1. CASE Len(rows) <= MinRows
      BY <2>1 DEF RemoveRow
  <2>2. CASE Len(rows) > MinRows
    <3> DEFINE short == [j \in 1..(Len(rows) - 1) |-> IF j < i THEN rows[j] ELSE rows[j + 1]]
    <3>1. Len(rows) - 1 \in Nat
        BY <1>0, <2>2
    <3>2. \A j \in 1..(Len(rows) - 1) : (IF j < i THEN rows[j] ELSE rows[j + 1]) \in Texts \cup {Blank}
        BY <3>1 DEF Rows
    <3>3. short \in Seq(Texts \cup {Blank}) /\ Len(short) = Len(rows) - 1
        BY <3>1, <3>2
    <3>4. RemoveRow(rows, i) = short
        BY <1>0, <2>2 DEF RemoveRow
    <3> QED BY <1>0, <2>2, <3>3, <3>4 DEF Rows
  <2> QED BY <1>0, <2>1, <2>2 DEF Rows
<1>3. [rows EXCEPT ![i] = t] \in Rows /\ Len([rows EXCEPT ![i] = t]) = Len(rows)
    BY DEF Rows
<1> QED BY <1>1, <1>2, <1>3

\* A list that was proposable comes back whole.
LEMMA ListsComeBack ==
    ASSUME NEW rows \in Rows, NEW saved \in Rows,
           Len(rows) = MinRows, Len(saved) \in MinRows..MaxRows
    PROVE  Refilled(rows, saved) = saved
<1>0. MinRows \in Nat /\ MaxRows \in Nat /\ MinRows <= MaxRows
    BY DraftAssumption
<1>1. Len(saved) \in Nat
    BY DEF Rows
<1>2. Regrown(rows, Len(saved)) \in Rows /\ Len(Regrown(rows, Len(saved))) = Len(saved)
    BY <1>0, <1>1, Emptied DEF Regrown
<1>3. DOMAIN Regrown(rows, Len(saved)) = 1..Len(saved) /\ DOMAIN saved = 1..Len(saved)
    BY <1>2 DEF Rows
<1>4. saved = [i \in 1..Len(saved) |-> saved[i]]
    BY DEF Rows
<1> QED BY <1>3, <1>4 DEF Refilled

-----------------------------------------------------------------------------
LEMMA FlowNames ==
    /\ Flows = {"statement", "decompose", "interpretive-split", "capture-defeater", "meta-move"}
    /\ RowModes \subseteq Flows /\ Panels \subseteq Flows
    /\ \A f \in Flows : f \in RowModes \/ f = "statement" \/ f = "capture-defeater" \/ f = "meta-move"
    /\ "statement" \notin RowModes /\ "capture-defeater" \notin RowModes /\ "meta-move" \notin RowModes
BY DEF Flows, RowModes, Panels

LEMMA SliceTyped ==
    ASSUME NEW d \in Drafts, NEW f \in Flows
    PROVE  Slice(d, f) \in Snapshots
<1>0. Empty \in Snapshots
    BY DEF Empty, Snapshots, Rows
<1>1. CASE f \in RowModes
  <2>1. f # "statement" /\ f # "capture-defeater" /\ f # "meta-move" /\ f \in NodeModes
      BY <1>1 DEF RowModes, NodeModes
  <2>2. d.on[f] \in Nodes \cup {Nothing} /\ d.rows[f] \in Rows
      BY <1>1, <2>1 DEF Drafts
  <2>3. Slice(d, f) = [Empty EXCEPT !.on = d.on[f], !.rows = d.rows[f]]
      BY <1>1, <2>1 DEF Slice
  <2> QED BY <1>0, <2>2, <2>3 DEF Snapshots
<1>2. CASE f = "statement"
  <2>1. Slice(d, f) = [Empty EXCEPT !.text = d.text, !.target = d.target, !.role = d.role]
      BY <1>2, FlowNames DEF Slice
  <2> QED BY <1>0, <2>1 DEF Snapshots, Drafts
<1>3. CASE f = "capture-defeater"
  <2>1. Slice(d, f) = [Empty EXCEPT !.text = d.text]
      BY <1>3 DEF Slice, RowModes
  <2> QED BY <1>0, <2>1 DEF Snapshots, Drafts
<1>4. CASE f = "meta-move"
  <2>1. Slice(d, f) = [Empty EXCEPT !.text = d.text, !.target = d.target]
      BY <1>4 DEF Slice, RowModes
  <2> QED BY <1>0, <2>1 DEF Snapshots, Drafts
<1> QED BY <1>1, <1>2, <1>3, <1>4, FlowNames

\* A render shows the draft it is given, dismisses errors and adds none.
LEMMA ShowTyped ==
    ASSUME TypeOK, NEW d \in Drafts, NEW e \in SUBSET Gestures, Show(d, e)
    PROVE  /\ draft' = d
           /\ error' \in SUBSET Gestures
           /\ baseline' \in [Flows -> SUBSET Snapshots]
<1>1. \A f \in Flows : Remembered(d, e, f) \in SUBSET Snapshots
    BY SliceTyped DEF Remembered, TypeOK
<1> QED BY <1>1 DEF Show

\* The draft after a request of `f` has ended, well or badly.
LEMMA Ended ==
    ASSUME TypeOK, ModeHasItsNode, NEW f \in Flows, NEW saved \in Snapshots,
           f \in RowModes => Showable(saved)
    PROVE  /\ Success(f) \in Drafts /\ Placed(Success(f)) /\ ~Success(f).proposing
           /\ Failure(f, saved) \in Drafts /\ Placed(Failure(f, saved))
           /\ ~Failure(f, saved).proposing
<1>0. draft \in Drafts /\ Placed(draft)
    BY DEF TypeOK, ModeHasItsNode, Placed
<1>1. CASE f \in RowModes
  <2>0. f \notin Panels /\ f # "statement" /\ f # "capture-defeater" /\ f # "meta-move"
        /\ f \in NodeModes
      BY <1>1 DEF Panels, RowModes, NodeModes
  <2>1. Success(f) = [draft EXCEPT !.proposing = FALSE]
      BY <2>0 DEF Success, Panels
  <2>2. Success(f) \in Drafts /\ Placed(Success(f)) /\ ~Success(f).proposing
      BY <1>0, <2>1 DEF Drafts, Placed
  <2> DEFINE back == Enter(draft, f, saved.on)
  <2>11. saved.on \in Nodes /\ draft.on \in [NodeModes -> Nodes \cup {Nothing}]
      BY <1>0, <1>1 DEF Showable, Drafts
  <2>12. back \in Drafts
      BY <1>0, <2>0, <2>11, Entered
  <2>3. back \in Drafts /\ back.mode = f /\ back.on[f] \in Nodes
        /\ back.rows[f] = EmptyRows(MinRows)
      BY <1>1, <2>0, <2>11, <2>12 DEF Enter
  <2>4. saved.rows \in Rows /\ Len(saved.rows) \in MinRows..MaxRows
      BY <1>1 DEF Showable, Snapshots
  <2>5. Refilled(back.rows[f], saved.rows) = saved.rows
      BY <2>3, <2>4, Emptied, ListsComeBack, DraftAssumption
  <2>6. Failure(f, saved) = [back EXCEPT !.rows = [back.rows EXCEPT ![f] = saved.rows],
                                         !.proposing = FALSE]
      BY <1>1, <2>0, <2>5 DEF Failure, Restored
  <2>7. back.rows \in [RowModes -> Rows]
      BY <2>3 DEF Drafts
  <2>8. [back.rows EXCEPT ![f] = saved.rows] \in [RowModes -> Rows]
      BY <2>4, <2>7
  <2> HIDE DEF back
  <2>9. Failure(f, saved) \in Drafts /\ ~Failure(f, saved).proposing
        /\ Failure(f, saved).mode = f /\ Failure(f, saved).on = back.on
        /\ Failure(f, saved).rows = [back.rows EXCEPT ![f] = saved.rows]
      BY <2>3, <2>6, <2>8 DEF Drafts
  <2>10. Placed(Failure(f, saved))
      BY <1>1, <2>3, <2>4, <2>7, <2>9 DEF Placed
  <2> QED BY <2>2, <2>9, <2>10
<1>2. CASE f = "statement"
  <2>1. Success(f) = [draft EXCEPT !.proposing = FALSE]
      BY <1>2 DEF Success, Panels
  <2>2. Failure(f, saved) = [draft EXCEPT !.text = saved.text, !.target = saved.target,
                                          !.role = saved.role, !.proposing = FALSE]
      BY <1>2, FlowNames DEF Failure
  <2> QED BY <1>0, <2>1, <2>2 DEF Drafts, Placed, Snapshots
<1>3. CASE f = "capture-defeater"
  <2>1. Success(f) = [Exit(draft, f) EXCEPT !.text = Blank, !.proposing = FALSE]
      BY <1>3 DEF Success, Panels
  <2>2. Exit(draft, f) \in Drafts /\ Exit(draft, f).mode = "idle"
      BY <1>0, <1>3, Exited DEF NodeModes
  <2>3. Success(f) \in Drafts /\ Success(f).mode = "idle" /\ ~Success(f).proposing
      BY <2>1, <2>2 DEF Drafts
  <2>4. Failure(f, saved) = [draft EXCEPT !.text = saved.text, !.proposing = FALSE]
      BY <1>3 DEF Failure, RowModes
  <2>5. Failure(f, saved) \in Drafts /\ Placed(Failure(f, saved)) /\ ~Failure(f, saved).proposing
      BY <1>0, <2>4 DEF Drafts, Placed, Snapshots
  <2> QED BY <2>3, <2>5, IdleIsPlaced
<1>4. CASE f = "meta-move"
  <2>1. Success(f) = [draft EXCEPT !.text = Blank, !.target = Nothing, !.proposing = FALSE]
      BY <1>4 DEF Success, Panels
  <2>2. Failure(f, saved) = [draft EXCEPT !.text = saved.text, !.target = saved.target,
                                          !.proposing = FALSE]
      BY <1>4 DEF Failure, RowModes
  <2> QED BY <1>0, <2>1, <2>2 DEF Drafts, Placed, Snapshots
<1> QED BY <1>1, <1>2, <1>3, <1>4, FlowNames

-----------------------------------------------------------------------------
\* An edit that leaves `proposing` alone and a placed draft behind keeps the
\* invariant.
LEMMA EditKeeps ==
    ASSUME IInv, NEW d \in Drafts, Placed(d), d.proposing = draft.proposing, Edit(d)
    PROVE  IInv'
<1>0. TypeOK /\ Identified /\ Kept /\ OneRequestPerLock /\ Show(d, error)
    BY DEF IInv, Edit
<1>1. draft' = d /\ error' \in SUBSET Gestures /\ baseline' \in [Flows -> SUBSET Snapshots]
    BY <1>0, ShowTyped DEF TypeOK
<1>2. /\ busy' = busy /\ waiting' = waiting /\ wire' = wire /\ answers' = answers
      /\ sent' = sent /\ log' = log /\ applied' = applied /\ open' = open
    BY DEF Edit, requests, session
<1>3. edits' \in 0..MaxGestures
    BY <1>0, GestureAssumption DEF Edit, TypeOK
<1>4. TypeOK'
    BY <1>0, <1>1, <1>2, <1>3 DEF TypeOK
<1>5. Identified' /\ Kept'
    BY <1>0, <1>2 DEF Identified, Kept
<1>6. OneRequestPerLock'
    BY <1>0, <1>1, <1>2 DEF OneRequestPerLock
<1>7. ModeHasItsNode'
    BY <1>1 DEF ModeHasItsNode, Placed
<1> QED BY <1>4, <1>5, <1>6, <1>7 DEF IInv

\* Every edit at the pane is one of those.
LEMMA EditingKeeps ==
    ASSUME IInv, Editing
    PROVE  IInv'
<1>0. draft \in Drafts /\ Placed(draft)
    BY DEF IInv, TypeOK, ModeHasItsNode, Placed
<1>00. /\ draft.rows \in [RowModes -> Rows] /\ draft.proposing \in BOOLEAN
       /\ \A m \in RowModes : draft.mode = m => Len(draft.rows[m]) \in MinRows..MaxRows
    BY <1>0 DEF Drafts, Placed
<1>1. ASSUME NEW m \in NodeModes, NEW n \in Nodes, EnterMode(m, n) PROVE IInv'
    BY <1>0, <1>1, Entered, EditKeeps DEF EnterMode
<1>2. ASSUME NEW m \in NodeModes, ExitMode(m) PROVE IInv'
    BY <1>0, <1>2, Exited, IdleIsPlaced, EditKeeps DEF ExitMode
<1>3. ASSUME EnterMetaMode PROVE IInv'
  <2>1. /\ EnterMeta(draft) \in Drafts /\ EnterMeta(draft).proposing = draft.proposing
        /\ EnterMeta(draft).mode = "meta-move"
      BY <1>0 DEF EnterMeta, Drafts, Modes
  <2> QED BY <1>3, <2>1, IdleIsPlaced, EditKeeps DEF EnterMetaMode
<1>4. ASSUME NEW clear \in BOOLEAN, ExitMetaMode(clear) PROVE IInv'
  <2> DEFINE d == [draft EXCEPT !.mode = "idle",
                                !.target = IF clear THEN Nothing ELSE draft.target,
                                !.role = IF clear THEN FALSE ELSE draft.role]
  <2>1. d \in Drafts /\ d.proposing = draft.proposing /\ d.mode = "idle"
      BY <1>0 DEF Drafts, Modes
  <2>2. Edit(d)
      BY <1>0, <1>4 DEF ExitMetaMode, Drafts
  <2> HIDE DEF d
  <2>3. Placed(d)
      BY <2>1, IdleIsPlaced
  <2> QED BY <2>1, <2>2, <2>3, EditKeeps
<1>5. ASSUME NEW t \in Texts \cup {Blank}, Type(t) PROVE IInv'
  <2>1. /\ [draft EXCEPT !.text = t] \in Drafts /\ Placed([draft EXCEPT !.text = t])
        /\ [draft EXCEPT !.text = t].proposing = draft.proposing
      BY <1>0 DEF Drafts, Placed
  <2> QED BY <1>5, <2>1, EditKeeps DEF Type
<1>6. ASSUME NEW x \in Nodes \cup Edges,
             Edit([draft EXCEPT !.target = x])
      PROVE IInv'
  <2>1. /\ [draft EXCEPT !.target = x] \in Drafts /\ Placed([draft EXCEPT !.target = x])
        /\ [draft EXCEPT !.target = x].proposing = draft.proposing
      BY <1>0 DEF Drafts, Placed
  <2> QED BY <1>6, <2>1, EditKeeps
<1>7. ASSUME ClearTarget PROVE IInv'
  <2> DEFINE d == [draft EXCEPT !.target = Nothing, !.role = FALSE]
  <2>1. d \in Drafts /\ Placed(d) /\ d.proposing = draft.proposing
      BY <1>0 DEF Drafts, Placed
  <2> QED BY <1>7, <2>1, EditKeeps DEF ClearTarget
<1>8. ASSUME NEW on \in BOOLEAN, PickRole(on) PROVE IInv'
  <2>1. /\ [draft EXCEPT !.role = on] \in Drafts /\ Placed([draft EXCEPT !.role = on])
        /\ [draft EXCEPT !.role = on].proposing = draft.proposing
      BY <1>0 DEF Drafts, Placed
  <2> QED BY <1>8, <2>1, EditKeeps DEF PickRole
\* One list changes and stays within what can be proposed.
<1>9. ASSUME NEW m \in RowModes, draft.mode = m, NEW rows \in Rows,
             Len(rows) \in MinRows..MaxRows,
             Edit([draft EXCEPT !.rows = [draft.rows EXCEPT ![m] = rows]])
      PROVE IInv'
  <2> DEFINE new == [draft.rows EXCEPT ![m] = rows]
             d == [draft EXCEPT !.rows = new]
  <2>1. new \in [RowModes -> Rows] /\ new[m] = rows
      BY <1>00, <1>9
  <2> HIDE DEF new
  <2>2. d \in Drafts /\ d.proposing = draft.proposing /\ d.mode = m /\ d.on = draft.on
        /\ d.rows = new
      BY <1>0, <1>9, <2>1 DEF Drafts
  <2>3. Placed(d)
      BY <1>0, <1>9, <2>1, <2>2 DEF Placed
  <2>4. Edit(d)
      BY <1>9 DEF new
  <2> QED BY <2>2, <2>3, <2>4, EditKeeps
<1>10. ASSUME NEW m \in RowModes, NEW i \in 1..MaxRows, NEW t \in Texts \cup {Blank},
              WriteRow(m, i, t)
       PROVE IInv'
  <2>1. draft.rows[m] \in Rows /\ Len(draft.rows[m]) \in MinRows..MaxRows
        /\ i \in 1..Len(draft.rows[m])
      BY <1>00, <1>10 DEF WriteRow, Rows
  <2>2. [draft.rows[m] EXCEPT ![i] = t] \in Rows
        /\ Len([draft.rows[m] EXCEPT ![i] = t]) \in MinRows..MaxRows
      BY <2>1, RowsStay
  <2> QED BY <1>9, <1>10, <2>2 DEF WriteRow
<1>11. ASSUME NEW m \in RowModes, AddRowTo(m) PROVE IInv'
  <2>1. draft.rows[m] \in Rows /\ Len(draft.rows[m]) \in MinRows..MaxRows
      BY <1>00, <1>11 DEF AddRowTo
  <2>2. AddRow(draft.rows[m]) \in Rows /\ Len(AddRow(draft.rows[m])) \in MinRows..MaxRows
      BY <2>1, DraftAssumption DEF AddRow, Rows
  <2> QED BY <1>9, <1>11, <2>2 DEF AddRowTo
<1>12. ASSUME NEW m \in RowModes, NEW i \in 1..MaxRows, RemoveRowFrom(m, i) PROVE IInv'
  <2>1. draft.rows[m] \in Rows /\ Len(draft.rows[m]) \in MinRows..MaxRows
        /\ i \in 1..Len(draft.rows[m])
      BY <1>00, <1>12 DEF RemoveRowFrom, Rows
  <2>2. RemoveRow(draft.rows[m], i) \in Rows
        /\ Len(RemoveRow(draft.rows[m], i)) \in MinRows..MaxRows
      BY <2>1, RowsStay
  <2> QED BY <1>9, <1>12, <2>2 DEF RemoveRowFrom
<1>13. ASSUME NEW n \in Nodes, Stage(n) PROVE IInv'
    BY <1>6, <1>13 DEF Stage
<1>14. ASSUME NEW e \in Edges, StageEdge(e) PROVE IInv'
    BY <1>6, <1>14 DEF StageEdge
<1> QED BY <1>1, <1>2, <1>3, <1>4, <1>5, <1>7, <1>8, <1>10, <1>11, <1>12, <1>13, <1>14 DEF Editing, Drafting

-----------------------------------------------------------------------------
\* A request of the client's ends: the screen stays typed, its lock is down
\* and the others are as they were.
LEMMA LandKeeps ==
    ASSUME IInv, NEW r \in waiting, NEW ok \in BOOLEAN, Land(r, ok), waiting' = waiting \ {r}
    PROVE  /\ draft' \in Drafts /\ busy' \in SUBSET Slots /\ error' \in SUBSET Gestures
           /\ baseline' \in [Flows -> SUBSET Snapshots]
           /\ OneRequestPerLock' /\ ModeHasItsNode'
<1>0. /\ TypeOK /\ Kept /\ OneRequestPerLock /\ ModeHasItsNode
      /\ r.of \in Gestures /\ r.saved \in Snapshots
    BY DEF IInv, TypeOK, Requests
<1>1. \A r1, r2 \in waiting' : (r1.of = r2.of \/ {r1.of, r2.of} \subseteq Flows) => r1 = r2
    BY <1>0 DEF OneRequestPerLock
<1>2. CASE r.of \in Slots
  <2>1. /\ busy' = busy \ {r.of} /\ draft' = draft /\ baseline' = baseline
        /\ error' \in SUBSET (error \cup {r.of})
      BY <1>2 DEF Land
  <2>2. r.of \notin Flows
      BY <1>2, GestureAssumption
  <2>3. draft'.proposing <=> \E q \in waiting' : q.of \in Flows
      BY <1>0, <2>1, <2>2 DEF OneRequestPerLock
  <2>4. \A s \in Slots : s \in busy' <=> \E q \in waiting' : q.of = s
      BY <1>0, <1>2, <2>1 DEF OneRequestPerLock
  <2>5. OneRequestPerLock'
      BY <1>1, <2>3, <2>4 DEF OneRequestPerLock
  <2>6. ModeHasItsNode'
      BY <1>0, <2>1 DEF ModeHasItsNode
  <2> QED BY <1>0, <2>1, <2>5, <2>6 DEF TypeOK
<1>3. CASE r.of \notin Slots
  <2>0. r.of \in Flows
      BY <1>0, <1>3 DEF Gestures
  <2> DEFINE d == IF ok THEN Success(r.of) ELSE Failure(r.of, r.saved)
             e == IF ok THEN error \ {r.of} ELSE error \cup {r.of}
  <2>1. Show(d, e) /\ busy' = busy
      BY <1>3 DEF Land
  <2>2. d \in Drafts /\ Placed(d) /\ ~d.proposing
      BY <1>0, <2>0, Ended DEF Kept
  <2>3. e \in SUBSET Gestures
      BY <1>0 DEF TypeOK
  <2> HIDE DEF d, e
  <2>4. draft' = d /\ error' \in SUBSET Gestures /\ baseline' \in [Flows -> SUBSET Snapshots]
      BY <1>0, <2>1, <2>2, <2>3, ShowTyped
  <2>5. ~ \E q \in waiting' : q.of \in Flows
      BY <1>0, <2>0 DEF OneRequestPerLock
  <2>6. \A s \in Slots : s \in busy' <=> \E q \in waiting' : q.of = s
      BY <1>0, <1>3, <2>1 DEF OneRequestPerLock
  <2>7. OneRequestPerLock'
      BY <1>1, <2>2, <2>4, <2>5, <2>6 DEF OneRequestPerLock
  <2>8. ModeHasItsNode'
      BY <2>2, <2>4 DEF ModeHasItsNode, Placed
  <2> QED BY <1>0, <2>1, <2>2, <2>4, <2>7, <2>8 DEF TypeOK
<1> QED BY <1>2, <1>3

\* Sending under a free lock.
LEMMA RequestKeeps ==
    ASSUME TypeOK, Identified, Kept, NEW g \in Gestures, NEW saved \in Snapshots,
           Request(g, saved),
           g \in RowModes => Showable(saved),
           g \in Flows => \E d \in Drafts : saved = Slice(d, g)
    PROVE  /\ waiting' \in SUBSET Requests /\ wire' \in SUBSET Requests
           /\ answers' = answers /\ sent' \in 0..MaxSends
           /\ Identified' /\ Kept'
           /\ \E r \in Requests : r.of = g /\ waiting' = waiting \cup {r}
<1> DEFINE r == [id |-> sent + 1, of |-> g, expected |-> applied, saved |-> saved]
<1>1. sent + 1 \in 1..MaxSends /\ applied \in 0..MaxLog
    BY GestureAssumption DEF TypeOK, Request
<1>2. r \in Requests /\ r.of = g /\ r.id = sent + 1 /\ r.saved = saved
    BY <1>1 DEF Requests
<1>3. /\ waiting' = waiting \cup {r} /\ wire' = wire \cup {r}
      /\ sent' = sent + 1 /\ answers' = answers
    BY DEF Request
<1> HIDE DEF r
<1>4. \A q \in waiting : q.id \in Nat /\ q.id <= sent
    BY DEF Identified, TypeOK, Requests
<1>5. Identified'
    BY <1>1, <1>2, <1>3, <1>4 DEF Identified, TypeOK
<1>6. Kept'
    BY <1>2, <1>3 DEF Kept
<1> QED BY <1>1, <1>2, <1>3, <1>5, <1>6 DEF TypeOK

\* What is on screen once a draft is out.
LEMMA OutTyped ==
    ASSUME TypeOK, ModeHasItsNode, NEW f \in Flows
    PROVE  Out(f) \in Drafts /\ Placed(Out(f)) /\ Out(f).proposing
<1>0. draft \in Drafts /\ Placed(draft)
    BY DEF TypeOK, ModeHasItsNode, Placed
<1>1. CASE f = "statement"
  <2>1. Initial \in Drafts /\ Initial.mode = "idle"
      BY DEF Initial, Drafts, Modes, Rows
  <2>2. Out(f) = [Initial EXCEPT !.proposing = TRUE]
      BY <1>1, FlowNames DEF Out, Reset, Panels
  <2>3. Out(f) \in Drafts /\ Out(f).mode = "idle" /\ Out(f).proposing
      BY <2>1, <2>2 DEF Drafts
  <2> QED BY <2>3, IdleIsPlaced
<1>2. CASE f \in RowModes
  <2>1. f # "statement" /\ f \in NodeModes /\ f \notin Panels
      BY <1>2 DEF RowModes, NodeModes, Panels
  <2>2. Exit(draft, f) \in Drafts /\ Exit(draft, f).mode = "idle"
      BY <1>0, <2>1, Exited
  <2>3. Out(f) = [Exit(draft, f) EXCEPT !.proposing = TRUE]
      BY <1>2, <2>1 DEF Out
  <2>4. Out(f) \in Drafts /\ Out(f).mode = "idle" /\ Out(f).proposing
      BY <2>2, <2>3 DEF Drafts
  <2> QED BY <2>4, IdleIsPlaced
<1>3. CASE f \in Panels
  <2>1. Out(f) = [draft EXCEPT !.proposing = TRUE]
      BY <1>3 DEF Out, Panels, RowModes
  <2> QED BY <1>0, <2>1 DEF Drafts, Placed
<1> QED BY <1>1, <1>2, <1>3 DEF Flows

\* A draft ready to be sent saves what can be brought back.
LEMMA ReadyIsShowable ==
    ASSUME TypeOK, NEW f \in RowModes, Ready(f)
    PROVE  Showable(Slice(draft, f))
<1>1. f # "statement" /\ f # "capture-defeater" /\ f # "meta-move" /\ f \in NodeModes
    BY DEF RowModes, NodeModes
<1>2. draft.on[f] \in Nodes /\ Len(draft.rows[f]) \in MinRows..MaxRows
    BY <1>1 DEF Ready, Proposable, TypeOK, Drafts
<1>3. Slice(draft, f) = [Empty EXCEPT !.on = draft.on[f], !.rows = draft.rows[f]]
    BY <1>1 DEF Slice
<1> QED BY <1>2, <1>3 DEF Showable, Empty

LEMMA ProposeKeeps ==
    ASSUME IInv, NEW f \in Flows, Propose(f)
    PROVE  IInv'
<1>0. TypeOK /\ Identified /\ Kept /\ OneRequestPerLock /\ ModeHasItsNode /\ draft \in Drafts
    BY DEF IInv, TypeOK
<1>1. /\ f \in Gestures /\ f \notin Slots /\ Slice(draft, f) \in Snapshots
      /\ ~draft.proposing /\ Ready(f) /\ Request(f, Slice(draft, f)) /\ Show(Out(f), error)
    BY <1>0, SliceTyped, GestureAssumption DEF Gestures, Propose
<1>2. /\ busy' = busy /\ log' = log /\ applied' = applied /\ open' = open /\ edits' = edits
    BY DEF Propose, session
<1>3. /\ waiting' \in SUBSET Requests /\ wire' \in SUBSET Requests
      /\ answers' = answers /\ sent' \in 0..MaxSends /\ Identified' /\ Kept'
      /\ \E r \in Requests : r.of = f /\ waiting' = waiting \cup {r}
    BY <1>0, <1>1, RequestKeeps, ReadyIsShowable
<1>4. Out(f) \in Drafts /\ Placed(Out(f)) /\ Out(f).proposing
    BY <1>0, OutTyped
<1>5. /\ draft' = Out(f) /\ error' \in SUBSET Gestures
      /\ baseline' \in [Flows -> SUBSET Snapshots]
    BY <1>0, <1>1, <1>4, ShowTyped DEF TypeOK
<1>6. TypeOK'
    BY <1>0, <1>2, <1>3, <1>4, <1>5 DEF TypeOK
<1>7. PICK r \in Requests : r.of = f /\ waiting' = waiting \cup {r}
    BY <1>3
<1>8. \A q \in waiting : q.of \notin Flows
    BY <1>0, <1>1 DEF OneRequestPerLock
<1>9. \A r1, r2 \in waiting' : (r1.of = r2.of \/ {r1.of, r2.of} \subseteq Flows) => r1 = r2
    BY <1>0, <1>7, <1>8 DEF OneRequestPerLock
<1>10. \A s \in Slots : s \in busy' <=> \E q \in waiting' : q.of = s
    BY <1>0, <1>1, <1>2, <1>7 DEF OneRequestPerLock
<1>11. draft'.proposing <=> \E q \in waiting' : q.of \in Flows
    BY <1>4, <1>5, <1>7
<1>12. OneRequestPerLock'
    BY <1>9, <1>10, <1>11 DEF OneRequestPerLock
<1>13. ModeHasItsNode'
    BY <1>4, <1>5 DEF ModeHasItsNode, Placed
<1> QED BY <1>3, <1>6, <1>12, <1>13 DEF IInv

LEMMA GestureKeeps ==
    ASSUME IInv, NEW s \in Slots, Gesture(s)
    PROVE  IInv'
<1>0. TypeOK /\ Identified /\ Kept /\ OneRequestPerLock /\ ModeHasItsNode
    BY DEF IInv
<1>1. /\ s \in Gestures /\ s \notin Flows /\ s \notin RowModes /\ s \notin busy
      /\ draft' = draft /\ baseline' = baseline /\ log' = log /\ applied' = applied
      /\ open' = open /\ edits' = edits
    BY GestureAssumption, FlowNames DEF Gestures, Gesture, session
<1>2. ModeHasItsNode'
    BY <1>0, <1>1 DEF ModeHasItsNode
<1>3. CASE open
  <2>1. Request(s, Empty) /\ busy' = busy \cup {s} /\ error' = error \ {s}
      BY <1>3 DEF Gesture
  <2>2. Empty \in Snapshots
      BY DEF Empty, Snapshots, Rows
  <2>3. /\ waiting' \in SUBSET Requests /\ wire' \in SUBSET Requests
        /\ answers' = answers /\ sent' \in 0..MaxSends /\ Identified' /\ Kept'
        /\ \E r \in Requests : r.of = s /\ waiting' = waiting \cup {r}
      BY <1>0, <1>1, <2>1, <2>2, RequestKeeps
  <2>4. TypeOK'
      BY <1>0, <1>1, <2>1, <2>3 DEF TypeOK
  <2>5. PICK r \in Requests : r.of = s /\ waiting' = waiting \cup {r}
      BY <2>3
  <2>6. \A q \in waiting : q.of # s
      BY <1>0, <1>1 DEF OneRequestPerLock
  <2>7. \A r1, r2 \in waiting' : (r1.of = r2.of \/ {r1.of, r2.of} \subseteq Flows) => r1 = r2
      BY <1>0, <1>1, <2>5, <2>6 DEF OneRequestPerLock
  <2>8. \A k \in Slots : k \in busy' <=> \E q \in waiting' : q.of = k
      BY <1>0, <2>1, <2>5 DEF OneRequestPerLock
  <2>9. draft'.proposing <=> \E q \in waiting' : q.of \in Flows
      BY <1>0, <1>1, <2>5 DEF OneRequestPerLock
  <2>10. OneRequestPerLock'
      BY <2>7, <2>8, <2>9 DEF OneRequestPerLock
  <2> QED BY <1>2, <2>3, <2>4, <2>10 DEF IInv
<1>4. CASE ~open
  <2>1. /\ busy' = busy /\ error' = error \cup {s} /\ waiting' = waiting /\ wire' = wire
        /\ answers' = answers /\ sent' = sent
      BY <1>4 DEF Gesture, requests
  <2>2. TypeOK' /\ Identified' /\ Kept'
      BY <1>0, <1>1, <2>1 DEF TypeOK, Identified, Kept
  <2>3. OneRequestPerLock'
      BY <1>0, <1>1, <2>1 DEF OneRequestPerLock
  <2> QED BY <1>2, <2>2, <2>3 DEF IInv
<1> QED BY <1>3, <1>4

\* An ending, seen from the whole state.
LEMMA EndKeeps ==
    ASSUME IInv, NEW r \in waiting, NEW ok \in BOOLEAN, Land(r, ok), waiting' = waiting \ {r},
           wire' = wire, answers' \in SUBSET answers, sent' = sent, UNCHANGED <<session, open, edits>>
    PROVE  IInv'
<1>0. TypeOK /\ Identified /\ Kept
    BY DEF IInv
<1>1. /\ draft' \in Drafts /\ busy' \in SUBSET Slots /\ error' \in SUBSET Gestures
      /\ baseline' \in [Flows -> SUBSET Snapshots]
      /\ OneRequestPerLock' /\ ModeHasItsNode'
    BY LandKeeps
<1>2. log' = log /\ applied' = applied /\ open' = open /\ edits' = edits
    BY DEF session
<1>3. TypeOK'
    BY <1>0, <1>1, <1>2 DEF TypeOK
<1>4. Identified' /\ Kept'
    BY <1>0 DEF Identified, Kept
<1> QED BY <1>1, <1>3, <1>4 DEF IInv

LEMMA AnswerKeeps ==
    ASSUME IInv, NEW a \in answers, Answer(a)
    PROVE  IInv'
<1>0. TypeOK /\ Identified /\ Kept /\ a.ok \in BOOLEAN
    BY DEF IInv, TypeOK
<1>1. CASE \E r \in waiting : r.id = a.id
  <2>1. PICK r \in waiting : r = CHOOSE q \in waiting : q.id = a.id
      BY <1>1
  <2>2. r.id = a.id
      BY <1>1, <2>1
  <2>3. waiting' = waiting \ {r}
      BY <1>0, <2>2 DEF Answer, Identified
  <2>4. Land(r, a.ok)
      BY <1>1, <2>1 DEF Answer
  <2> QED BY <1>0, <2>3, <2>4, EndKeeps DEF Answer
<1>2. CASE ~ \E r \in waiting : r.id = a.id
  <2>1. waiting' = waiting
      BY <1>2 DEF Answer
  <2>2. /\ draft' = draft /\ busy' = busy /\ error' = error /\ baseline' = baseline
        /\ wire' = wire /\ answers' \in SUBSET answers /\ sent' = sent /\ log' = log
        /\ applied' = applied /\ open' = open /\ edits' = edits
      BY <1>2 DEF Answer, screen, session
  <2>3. TypeOK' /\ Identified' /\ Kept'
      BY <1>0, <2>1, <2>2 DEF TypeOK, Identified, Kept
  <2>4. OneRequestPerLock' /\ ModeHasItsNode'
      BY <2>1, <2>2 DEF IInv, OneRequestPerLock, ModeHasItsNode
  <2> QED BY <2>3, <2>4 DEF IInv
<1> QED BY <1>1, <1>2

LEMMA DisconnectKeeps ==
    ASSUME IInv, Disconnect
    PROVE  IInv'
<1>0. TypeOK /\ OneRequestPerLock /\ ModeHasItsNode /\ Kept /\ draft \in Drafts
    BY DEF IInv, TypeOK
<1> DEFINE lost == error \cup {r.of : r \in waiting}
           failed == {r \in waiting : r.of \in Flows}
<1>1. lost \in SUBSET Gestures
    BY <1>0 DEF TypeOK, Requests
<1>2. \E d \in Drafts : Placed(d) /\ ~d.proposing /\ Show(d, lost)
  <2>1. CASE failed = {}
    <3>1. ~draft.proposing
        BY <1>0, <2>1 DEF OneRequestPerLock
    <3> QED BY <1>0, <2>1, <3>1 DEF Disconnect, ModeHasItsNode, Placed
  <2>2. CASE failed # {}
    <3>1. PICK r \in failed : Show(Failure(r.of, r.saved), lost)
        BY <2>2 DEF Disconnect
    <3>2. r.of \in Flows /\ r.saved \in Snapshots /\ (r.of \in RowModes => Showable(r.saved))
        BY <1>0, <3>1 DEF TypeOK, Requests, Kept
    <3>3. Failure(r.of, r.saved) \in Drafts /\ Placed(Failure(r.of, r.saved))
          /\ ~Failure(r.of, r.saved).proposing
        BY <1>0, <3>2, Ended
    <3> QED BY <3>1, <3>3
  <2> QED BY <2>1, <2>2
<1>3. PICK d \in Drafts : Placed(d) /\ ~d.proposing /\ Show(d, lost)
    BY <1>2
<1> HIDE DEF lost, failed
<1>4. /\ draft' = d /\ error' \in SUBSET Gestures
      /\ baseline' \in [Flows -> SUBSET Snapshots]
    BY <1>0, <1>1, <1>3, ShowTyped
<1>5. /\ open' = FALSE /\ wire' \in SUBSET wire /\ answers' = {} /\ waiting' = {}
      /\ busy' = busy \ {r.of : r \in waiting}
      /\ sent' = sent /\ log' = log /\ applied' = applied /\ edits' = edits
    BY DEF Disconnect, session
<1>6. busy' = {}
    BY <1>0, <1>5 DEF OneRequestPerLock, TypeOK
<1>7. TypeOK'
    BY <1>0, <1>4, <1>5, <1>6 DEF TypeOK
<1>8. Identified' /\ Kept'
    BY <1>5 DEF Identified, Kept
<1>9. OneRequestPerLock'
    BY <1>3, <1>4, <1>5, <1>6 DEF OneRequestPerLock
<1>10. ModeHasItsNode'
    BY <1>3, <1>4 DEF ModeHasItsNode, Placed
<1> QED BY <1>7, <1>8, <1>9, <1>10 DEF IInv

\* The server's steps and the connection's leave the screen and its requests
\* alone.
LEMMA ServerKeeps ==
    ASSUME IInv, (\E r \in wire : Handle(r)) \/ Others \/ Apply \/ Reconnect
    PROVE  IInv'
<1>0. TypeOK /\ Identified /\ Kept /\ OneRequestPerLock /\ ModeHasItsNode
    BY DEF IInv
<1>1. /\ draft' = draft /\ busy' = busy /\ error' = error /\ baseline' = baseline
      /\ waiting' = waiting /\ sent' = sent /\ edits' = edits
      /\ wire' \in SUBSET wire /\ open' \in BOOLEAN
    BY <1>0 DEF Handle, Others, Apply, Reconnect, screen, requests, TypeOK
<1>2. answers' \in SUBSET [id : 1..MaxSends, ok : BOOLEAN]
  <2>1. ASSUME NEW r \in wire, Handle(r) PROVE answers' \in SUBSET [id : 1..MaxSends, ok : BOOLEAN]
      BY <1>0, <2>1 DEF Handle, TypeOK, Requests
  <2> QED BY <1>0, <2>1 DEF Others, Apply, Reconnect, requests, TypeOK
<1>3. /\ log' \in Seq([of : Gestures \cup {"others"}, seen : 0..MaxLog])
      /\ applied' \in 0..Len(log') /\ Len(log') <= MaxLog
  <2>1. ASSUME NEW r \in wire, Handle(r)
        PROVE  /\ log' \in Seq([of : Gestures \cup {"others"}, seen : 0..MaxLog])
               /\ applied' \in 0..Len(log') /\ Len(log') <= MaxLog
    <3>1. r.of \in Gestures /\ r.expected \in 0..MaxLog
        BY <1>0 DEF TypeOK, Requests
    <3>2. applied' = applied
        BY <2>1 DEF Handle
    <3>3. PICK sound \in BOOLEAN :
            /\ sound => r.expected = Len(log) /\ Len(log) < MaxLog
            /\ log' = IF sound THEN Append(log, [of |-> r.of, seen |-> r.expected]) ELSE log
        BY <2>1 DEF Handle
    <3>4. [of |-> r.of, seen |-> r.expected] \in [of : Gestures \cup {"others"}, seen : 0..MaxLog]
        BY <3>1
    <3>5. CASE sound
      <4>1. log' = Append(log, [of |-> r.of, seen |-> r.expected]) /\ Len(log) < MaxLog
          BY <3>3, <3>5
      <4> HIDE <3>3
      <4>2. log \in Seq([of : Gestures \cup {"others"}, seen : 0..MaxLog]) /\ applied \in 0..Len(log)
          BY <1>0 DEF TypeOK
      <4>3. log' \in Seq([of : Gestures \cup {"others"}, seen : 0..MaxLog])
            /\ Len(log') = Len(log) + 1 /\ Len(log) \in Nat
          BY <3>4, <4>1, <4>2
      <4> QED BY <3>2, <4>1, <4>2, <4>3, GestureAssumption
    <3>6. CASE ~sound
        BY <1>0, <3>2, <3>3, <3>6 DEF TypeOK
    <3> QED BY <3>5, <3>6
  <2>2. CASE Others
    <3>1. [of |-> "others", seen |-> Len(log)] \in [of : Gestures \cup {"others"}, seen : 0..MaxLog]
        BY <1>0, <2>2, GestureAssumption DEF TypeOK
    <3> QED BY <1>0, <2>2, <3>1, GestureAssumption DEF TypeOK, Others
  <2>3. CASE Apply
      BY <1>0, <2>3 DEF TypeOK, Apply
  <2>4. CASE Reconnect
      BY <1>0, <2>4 DEF TypeOK, Reconnect, session
  <2> QED BY <2>1, <2>2, <2>3, <2>4
<1>4. TypeOK'
    BY <1>0, <1>1, <1>2, <1>3 DEF TypeOK
<1>5. Identified' /\ Kept'
    BY <1>0, <1>1 DEF Identified, Kept
<1>6. OneRequestPerLock' /\ ModeHasItsNode'
    BY <1>0, <1>1 DEF OneRequestPerLock, ModeHasItsNode
<1> QED BY <1>4, <1>5, <1>6 DEF IInv

LEMMA InitKeeps == Init => IInv
<1> SUFFICES ASSUME Init PROVE IInv
  OBVIOUS
<1>1. Initial \in Drafts /\ Initial.mode = "idle" /\ ~Initial.proposing
  BY DEF Initial, Drafts, Modes, Rows
<1>2. TypeOK
  BY <1>1, GestureAssumption DEF Init, TypeOK
<1>3. ModeHasItsNode
  BY <1>1, IdleIsPlaced DEF Init, ModeHasItsNode, Placed
<1> QED BY <1>1, <1>2, <1>3 DEF Init, IInv, Identified, Kept, OneRequestPerLock

LEMMA NextKeeps == IInv /\ [Next]_vars => IInv'
<1> SUFFICES ASSUME IInv, [Next]_vars PROVE IInv'
  OBVIOUS
<1>1. CASE Editing
  BY <1>1, EditingKeeps
<1>2. ASSUME NEW f \in Flows, Propose(f) PROVE IInv'
  BY <1>2, ProposeKeeps
<1>3. ASSUME NEW s \in Slots, Gesture(s) PROVE IInv'
  BY <1>3, GestureKeeps
<1>4. CASE (\E r \in wire : Handle(r)) \/ Others \/ Apply \/ Reconnect
  BY <1>4, ServerKeeps
<1>5. ASSUME NEW a \in answers, Answer(a) PROVE IInv'
  BY <1>5, AnswerKeeps
<1>6. ASSUME NEW r \in waiting, Timeout(r) PROVE IInv'
  BY <1>6, EndKeeps DEF Timeout
<1>7. CASE Disconnect
  BY <1>7, DisconnectKeeps
<1>8. CASE UNCHANGED vars
  BY <1>8 DEF vars, screen, requests, session, IInv, TypeOK, Identified, Kept,
              OneRequestPerLock, ModeHasItsNode
<1> QED BY <1>1, <1>2, <1>3, <1>4, <1>5, <1>6, <1>7, <1>8 DEF Next

LEMMA Invariance == Init /\ [][Next]_vars => []IInv
BY InitKeeps, NextKeeps, PTL

-----------------------------------------------------------------------------
\* The types hold: whatever lands, the draft is one the store can hold.
THEOREM CaptureTypeCorrect == Spec => []TypeOK
<1>1. IInv => TypeOK
    BY DEF IInv
<1> QED BY <1>1, Invariance, PTL DEF Spec

\* One request per lock: the shared `proposing` of five hooks and each slot's
\* own flag are up exactly while their request is out.
THEOREM LocksAreExclusive == Spec => []OneRequestPerLock
<1>1. IInv => OneRequestPerLock
    BY DEF IInv
<1> QED BY <1>1, Invariance, PTL DEF Spec

\* A mode on screen has its node and a list that can be proposed, also after
\* an answer restored a draft of another mode.
THEOREM ModesHaveTheirNodes == Spec => []ModeHasItsNode
<1>1. IInv => ModeHasItsNode
    BY DEF IInv
<1> QED BY <1>1, Invariance, PTL DEF Spec

\* What a step leaves of a draft whose request it ends badly.
Back == \A r \in waiting : (r \notin waiting' /\ r.of \in Flows /\ r.of \in error')
                             => Slice(draft', r.of) = r.saved

LEMMA StepsBringBack == ASSUME IInv, [Next]_vars PROVE Back
<1> USE DEF Back
<1>1. TypeOK /\ Identified /\ Kept /\ OneRequestPerLock /\ draft \in Drafts
    BY DEF IInv, TypeOK
\* The failure of one request, as it brings its own draft back.
<1>2. ASSUME NEW r \in waiting, r.of \in Flows PROVE Slice(Failure(r.of, r.saved), r.of) = r.saved
  <2>1. PICK d \in Drafts : r.saved = Slice(d, r.of)
      BY <1>1, <1>2 DEF Kept
  <2>2. draft.on \in [NodeModes -> Nodes \cup {Nothing}] /\ draft.rows \in [RowModes -> Rows]
      BY <1>1 DEF Drafts
  <2> DEFINE f == r.of
             saved == r.saved
  <2>3. CASE f = "statement"
    <3>1. saved = [Empty EXCEPT !.text = d.text, !.target = d.target, !.role = d.role]
        BY <2>1, <2>3, FlowNames DEF Slice
    <3>2. Failure(f, saved) = [draft EXCEPT !.text = saved.text, !.target = saved.target,
                                            !.role = saved.role, !.proposing = FALSE]
        BY <2>3, FlowNames DEF Failure
    <3>3. LET after == Failure(f, saved)
          IN  /\ after.text = d.text /\ after.target = d.target /\ after.role = d.role
        BY <1>1, <3>1, <3>2 DEF Drafts, Empty
    <3> QED BY <2>3, <3>1, <3>3, FlowNames DEF Slice
  <2>4. CASE f \in RowModes
    <3>0. f # "statement" /\ f # "capture-defeater" /\ f # "meta-move" /\ f \in NodeModes
        BY <2>4 DEF RowModes, NodeModes
    <3>1. saved = [Empty EXCEPT !.on = d.on[f], !.rows = d.rows[f]]
        BY <2>1, <2>4, <3>0 DEF Slice
    <3>2. Showable(saved) /\ saved.rows \in Rows
        BY <1>1, <2>4, <1>2 DEF Kept, TypeOK, Requests, Snapshots
    <3> DEFINE back == Enter(draft, f, saved.on)
    <3>3. back \in Drafts /\ back.on[f] = saved.on /\ back.rows[f] = EmptyRows(MinRows)
          /\ back.rows \in [RowModes -> Rows]
      <4>1. back \in Drafts
          BY <1>1, <3>0, <3>2, Entered DEF Showable
      <4>2. back.rows \in [RowModes -> Rows]
          BY <4>1 DEF Drafts
      <4> QED BY <2>2, <2>4, <3>0, <4>1, <4>2 DEF Enter
    <3>4. Refilled(back.rows[f], saved.rows) = saved.rows
        BY <3>2, <3>3, Emptied, ListsComeBack, DraftAssumption DEF Showable
    <3>5. Failure(f, saved) = [back EXCEPT !.rows = [back.rows EXCEPT ![f] = saved.rows],
                                           !.proposing = FALSE]
        BY <2>4, <3>0, <3>4 DEF Failure, Restored
    <3> HIDE DEF back
    <3>6. Failure(f, saved).on[f] = saved.on /\ Failure(f, saved).rows[f] = saved.rows
        BY <2>4, <3>3, <3>5 DEF Drafts
    <3>7. Slice(Failure(f, saved), f) = [Empty EXCEPT !.on = saved.on, !.rows = saved.rows]
        BY <2>4, <3>0, <3>6 DEF Slice
    <3> QED BY <3>1, <3>7 DEF Empty
  <2>5. CASE f = "capture-defeater"
    <3>1. saved = [Empty EXCEPT !.text = d.text]
        BY <2>1, <2>5, FlowNames DEF Slice
    <3>2. Failure(f, saved) = [draft EXCEPT !.text = saved.text, !.proposing = FALSE]
        BY <2>5, FlowNames DEF Failure
    <3>3. Failure(f, saved).text = d.text
        BY <1>1, <3>1, <3>2 DEF Drafts, Empty
    <3> QED BY <2>5, <3>1, <3>3, FlowNames DEF Slice
  <2>6. CASE f = "meta-move"
    <3>1. saved = [Empty EXCEPT !.text = d.text, !.target = d.target]
        BY <2>1, <2>6, FlowNames DEF Slice
    <3>2. Failure(f, saved) = [draft EXCEPT !.text = saved.text, !.target = saved.target,
                                            !.proposing = FALSE]
        BY <2>6, FlowNames DEF Failure
    <3>3. Failure(f, saved).text = d.text /\ Failure(f, saved).target = d.target
        BY <1>1, <3>1, <3>2 DEF Drafts, Empty
    <3> QED BY <2>6, <3>1, <3>3, FlowNames DEF Slice
  <2> QED BY <1>2, <2>3, <2>4, <2>5, <2>6, FlowNames
\* One request ends.
<1>3. ASSUME NEW r \in waiting, NEW ok \in BOOLEAN, Land(r, ok), waiting' = waiting \ {r}
      PROVE  Back
  <2>1. SUFFICES ASSUME r.of \in Flows, r.of \in error' PROVE Slice(draft', r.of) = r.saved
      BY <1>3
  <2>2. r.of \notin Slots
      BY <2>1, GestureAssumption
  <2>3. ~ok
      BY <1>3, <2>1, <2>2 DEF Land, Show
  <2>4. draft' = Failure(r.of, r.saved)
      BY <1>3, <2>2, <2>3 DEF Land, Show
  <2> QED BY <1>2, <2>1, <2>4
<1>4. CASE waiting \subseteq waiting'
    BY <1>4
<1>5. CASE \E a \in answers : Answer(a)
  <2>1. PICK a \in answers : Answer(a)
      BY <1>5
  <2>2. CASE \E r \in waiting : r.id = a.id
    <3>1. PICK r \in waiting : r = CHOOSE q \in waiting : q.id = a.id
        BY <2>2
    <3>2. r.id = a.id /\ a.ok \in BOOLEAN
        BY <1>1, <2>2, <3>1 DEF TypeOK
    <3>3. waiting' = waiting \ {r}
        BY <1>1, <2>1, <3>2 DEF Answer, Identified
    <3>4. Land(r, a.ok)
        BY <2>1, <2>2, <3>1 DEF Answer
    <3> QED BY <1>3, <3>2, <3>3, <3>4
  <2>3. CASE ~ \E r \in waiting : r.id = a.id
      BY <2>1, <2>3 DEF Answer
  <2> QED BY <2>2, <2>3
<1>6. CASE \E r \in waiting : Timeout(r)
    BY <1>3, <1>6 DEF Timeout
<1>7. CASE Disconnect
  <2>1. SUFFICES ASSUME NEW r \in waiting, r.of \in Flows PROVE Slice(draft', r.of) = r.saved
      BY <1>7
  <2>2. {q \in waiting : q.of \in Flows} = {r}
      BY <1>1, <2>1 DEF OneRequestPerLock
  <2>3. draft' = Failure(r.of, r.saved)
      BY <1>7, <2>2 DEF Disconnect, Show
  <2> QED BY <1>2, <2>1, <2>3
<1>8. \/ waiting \subseteq waiting' \/ Disconnect
      \/ (\E a \in answers : Answer(a)) \/ (\E r \in waiting : Timeout(r))
    BY DEF Next, Editing, Drafting, EnterMode, ExitMode, EnterMetaMode, ExitMetaMode, Type, Stage,
                StageEdge, ClearTarget, PickRole, WriteRow, AddRowTo, RemoveRowFrom, Edit,
                Propose, Gesture, Request, Handle, Others, Apply, Reconnect, vars, requests
<1> QED BY <1>4, <1>5, <1>6, <1>7, <1>8

\* The draft of a request that failed is on screen again, whole, at once:
\* nothing the moderator sent is lost to a timeout or a lost socket.
THEOREM NothingSentIsLost == Spec => FailedDraftsComeBack
<1>1. IInv /\ [Next]_vars => Back
  BY StepsBringBack
<1> QED BY <1>1, Invariance, PTL DEF Spec, FailedDraftsComeBack, Back

LEMMA StepsAreSighted == ASSUME IInv, RetriesAreSighted, [Next]_vars PROVE RetriesAreSighted'
<1>1. log \in Seq([of : Gestures \cup {"others"}, seen : 0..MaxLog])
    BY DEF IInv, TypeOK
<1>2. \/ log' = log
      \/ \E e : /\ e.of = "others" \/ e.seen = Len(log)
               /\ e \in [of : Gestures \cup {"others"}, seen : 0..MaxLog]
               /\ log' = Append(log, e)
  <2>1. ASSUME NEW r \in wire, Handle(r)
        PROVE  \/ log' = log
               \/ \E e : /\ e.of = "others" \/ e.seen = Len(log)
                        /\ e \in [of : Gestures \cup {"others"}, seen : 0..MaxLog]
                        /\ log' = Append(log, e)
    <3> DEFINE e == [of |-> r.of, seen |-> r.expected]
    <3>1. e \in [of : Gestures \cup {"others"}, seen : 0..MaxLog]
          /\ e.seen = r.expected
        BY DEF IInv, TypeOK, Requests
    <3>2. log' = log \/ (r.expected = Len(log) /\ log' = Append(log, e))
        BY <2>1 DEF Handle
    <3> QED BY <3>1, <3>2
  <2>2. CASE Others
    <3> DEFINE e == [of |-> "others", seen |-> Len(log)]
    <3>1. e \in [of : Gestures \cup {"others"}, seen : 0..MaxLog] /\ e.of = "others"
        BY <2>2, GestureAssumption DEF IInv, TypeOK, Others
    <3> QED BY <2>2, <3>1 DEF Others
  <2> QED BY <2>1, <2>2
        DEF Next, Editing, Drafting, EnterMode, ExitMode, EnterMetaMode, ExitMetaMode, Type, Stage,
            StageEdge, ClearTarget, PickRole, WriteRow, AddRowTo, RemoveRowFrom, Edit,
            Propose, Gesture, Apply, Answer, Timeout, Disconnect, Reconnect, vars, session
<1>3. CASE log' = log
    BY <1>3 DEF RetriesAreSighted
<1>4. ASSUME NEW e \in [of : Gestures \cup {"others"}, seen : 0..MaxLog],
             e.of = "others" \/ e.seen = Len(log), log' = Append(log, e)
      PROVE  RetriesAreSighted'
  <2>1. DOMAIN log' = 1..(Len(log) + 1) /\ DOMAIN log = 1..Len(log) /\ Len(log) \in Nat
        /\ log'[Len(log) + 1] = e /\ \A i \in 1..Len(log) : log'[i] = log[i]
      BY <1>1, <1>4
  <2> SUFFICES ASSUME NEW i \in DOMAIN log', NEW j \in DOMAIN log', i < j,
                      log'[i].of = log'[j].of, log'[i].of # "others"
               PROVE  log'[j].seen >= i
      BY DEF RetriesAreSighted
  <2>2. CASE j = Len(log) + 1
      BY <1>4, <2>1, <2>2
  <2>3. CASE j # Len(log) + 1
      BY <2>1, <2>3 DEF RetriesAreSighted
  <2> QED BY <2>2, <2>3
<1> QED BY <1>2, <1>3, <1>4

\* Retrying is sighted: a second gesture of the same lock lands only after its
\* sender has applied the first, for a log of any length.
THEOREM RetriesSeeTheFirst == Spec => []RetriesAreSighted
<1>1. Init => RetriesAreSighted
  BY DEF Init, RetriesAreSighted
<1>2. IInv /\ RetriesAreSighted /\ [Next]_vars => RetriesAreSighted'
  BY StepsAreSighted
<1> QED BY <1>1, <1>2, Invariance, PTL DEF Spec

LEMMA StepsKeepErrorsCurrent ==
    ASSUME ErrorIsAboutTheStatement, [Next]_vars
    PROVE  ErrorIsAboutTheStatement'
<1>0. "statement" \in Flows /\ "statement" \notin Slots
    BY FlowNames, GestureAssumption
\* Every render dismisses the error or leaves it about what it was about.
<1>1. ASSUME NEW d, NEW e, Show(d, e) PROVE ErrorIsAboutTheStatement'
  <2>1. SUFFICES ASSUME "statement" \in error' PROVE baseline'["statement"] = {Slice(draft', "statement")}
      BY DEF ErrorIsAboutTheStatement
  <2>2. ~Dismisses(d, e, "statement") /\ draft' = d
      BY <1>0, <1>1, <2>1 DEF Show
  <2>3. baseline'["statement"] = Remembered(d, e, "statement")
      BY <1>0, <1>1, <2>1 DEF Show
  <2>4. Remembered(d, e, "statement") = {Slice(d, "statement")}
        \/ Remembered(d, e, "statement") = {Slice(draft, "statement")}
      BY DEF Remembered, Mounted, ErrorIsAboutTheStatement
  <2> QED BY <2>2, <2>3, <2>4 DEF Dismisses
\* Whatever renders nothing of the statement's.
<1>2. ASSUME draft' = draft, baseline' = baseline, "statement" \in error' => "statement" \in error
      PROVE  ErrorIsAboutTheStatement'
    BY <1>2 DEF ErrorIsAboutTheStatement
<1>3. ASSUME NEW r, NEW ok, Land(r, ok) PROVE ErrorIsAboutTheStatement'
    BY <1>0, <1>1, <1>2, <1>3 DEF Land
<1>4. CASE Editing
    BY <1>1, <1>4 DEF Editing, Drafting, EnterMode, ExitMode, EnterMetaMode, ExitMetaMode, Type, Stage,
                      StageEdge, ClearTarget, PickRole, WriteRow, AddRowTo, RemoveRowFrom, Edit
<1>5. ASSUME NEW f \in Flows, Propose(f) PROVE ErrorIsAboutTheStatement'
    BY <1>1, <1>5 DEF Propose
<1>6. ASSUME NEW s \in Slots, Gesture(s) PROVE ErrorIsAboutTheStatement'
  <2>1. draft' = draft /\ baseline' = baseline /\ error' \subseteq error \cup {s}
      BY <1>6 DEF Gesture
  <2> QED BY <1>0, <1>2, <2>1
<1>7. ASSUME UNCHANGED screen PROVE ErrorIsAboutTheStatement'
    BY <1>2, <1>7 DEF screen
<1>8. ASSUME NEW a \in answers, Answer(a) PROVE ErrorIsAboutTheStatement'
    BY <1>3, <1>7, <1>8 DEF Answer
<1>9. ASSUME NEW r \in waiting, Timeout(r) PROVE ErrorIsAboutTheStatement'
    BY <1>3, <1>9 DEF Timeout
<1>10. CASE Disconnect
    BY <1>1, <1>10 DEF Disconnect
<1> QED BY <1>4, <1>5, <1>6, <1>7, <1>8, <1>9, <1>10
      DEF Next, Handle, Others, Apply, Reconnect, vars

\* The error under the statement is about the statement on screen.
THEOREM StatementErrorsAreCurrent == Spec => []ErrorIsAboutTheStatement
<1>1. Init => ErrorIsAboutTheStatement
  BY DEF Init, ErrorIsAboutTheStatement
<1>2. ErrorIsAboutTheStatement /\ [Next]_vars => ErrorIsAboutTheStatement'
  BY StepsKeepErrorsCurrent
<1> QED BY <1>1, <1>2, PTL DEF Spec

\* Locks are exclusive and retries sighted.
THEOREM LocksAlwaysHold == Spec => []LocksHold
  BY LocksAreExclusive, RetriesSeeTheFirst, PTL DEF LocksHold

\* The pane stays coherent whatever lands while the moderator is elsewhere.
THEOREM PaneStaysCoherent == Spec => []PaneIsCoherent
  BY ModesHaveTheirNodes, StatementErrorsAreCurrent, PTL DEF PaneIsCoherent

-----------------------------------------------------------------------------
(* The canvas: which surface a gesture is made from, and the lock that is a *)
(* state of the picker's component instead of a slot's flag.                *)

\* One of the menu and the submenus at most is open.
OneAtATime ==
    /\ menu \in Targets \cup {Nothing}
    /\ submenu \in [Submenus -> Targets \cup {Nothing}]
    /\ menu # Nothing => \A k \in Submenus : submenu[k] = Nothing
    /\ \A k, l \in Submenus : submenu[k] # Nothing /\ submenu[l] # Nothing => k = l

FromTheCast == \A r \in waiting : r.of \in Slots => r.of \in cast

OneDraw == \A r1, r2 \in waiting : {r1.of, r2.of} \subseteq DrawSlots => r1 = r2

\* What ends a proposal was sent by somebody who had not seen it end, so that
\* it lands only if it has not.
Fresh ==
    \A r \in wire :
        r.of \in Slots /\ Hook[r.of] \in Enders =>
            r.expected <= Len(log) /\ ~OverBy(About[r.of], r.expected)

CanvasInv ==
    /\ IInv /\ ErrorIsAboutTheStatement /\ RetriesAreSighted
    /\ OneAtATime /\ FromTheCast /\ OneDraw /\ AskersOutlastTheirRequests
    /\ Fresh /\ ProposalsEndOnce

Forget ==
    /\ error' \in SUBSET error
    /\ UNCHANGED <<draft, busy, baseline, requests, session, open, edits>>

\* Whatever is clicked on the canvas is for the requests and the draft a step
\* of CaptureActions, or forgets an error.  The picker does not look at its
\* slot's flag: its own stands for it.
LEMMA StepsAreGestures ==
    ASSUME IInv, AskersOutlastTheirRequests, CanvasNext
    PROVE  [Next]_vars \/ Forget
<1>1. CASE CanvasMenus
  <2>1. ASSUME NEW m \in NodeModes, PickMode(m) PROVE Next
      BY <2>1 DEF PickMode, Next, Editing
  <2>2. ASSUME NEW inField \in BOOLEAN, Escape(inField) PROVE [Next]_vars
      BY <2>2 DEF Escape, Next, Editing, Drafting
  <2>3. ASSUME NEW a, NEW b, DragEdge(a, b) PROVE Forget
      BY <2>3 DEF DragEdge, Forget
  <2>4. ASSUME NEW cancel \in BOOLEAN, CancelDialog(cancel) PROVE Forget
      BY <2>4 DEF CancelDialog, Forget
  <2> QED BY <1>1, <2>1, <2>2, <2>3, <2>4
          DEF CanvasMenus, RightClick, OpenSubmenu, PickStub, PressOutside, OpenDialog,
              SelectRow, SwitchPane
<1>2. CASE CanvasGestures
  <2>1. PICK s \in cast \cap Slots : Gesture(s) \/ PickRoleFor(s) \/ UNCHANGED vars
      BY <1>2 DEF CanvasGestures, Press, Annotate, MarkAxiom, EditWording, LabelSnapshot, CommitRow,
                  CommitChord, CommitCard, CommitWording, CommitClassification, CommitShape,
                  MarkMetaDisagreement, WithdrawProposal, ClassifyNode, SetNodeSubstance,
                  SetEdgeSubstance, RebutEdge, BreakEdge, CastVote, WithdrawAgreement,
                  WithdrawOwnProposal, MarkOwnAxiom, DisputeAnnotation
  <2>2. ASSUME PickRoleFor(s) PROVE Gesture(s)
    <3>1. s \in DrawSlots
        BY <2>2 DEF PickRoleFor, DrawSlots, SlotsOf
    <3>2. s \notin busy
        BY <2>2, <3>1 DEF PickRoleFor, AskersOutlastTheirRequests, IInv, OneRequestPerLock
    <3> QED BY <2>2, <3>2 DEF PickRoleFor, Gesture
  <2> QED BY <2>1, <2>2 DEF Next
<1>3. CASE Elsewhere
    BY <1>3 DEF Elsewhere, Next, Editing
<1>4. CASE \/ \E a \in answers : CanvasAnswer(a)
           \/ \E r \in waiting : CanvasTimeout(r)
           \/ CanvasDisconnect
           \/ CanvasApply
    BY <1>4 DEF CanvasAnswer, CanvasTimeout, CanvasDisconnect, CanvasApply, Next
<1> QED BY <1>1, <1>2, <1>3, <1>4 DEF CanvasNext

LEMMA ForgettingKeeps ==
    ASSUME IInv, ErrorIsAboutTheStatement, RetriesAreSighted, Forget
    PROVE  IInv' /\ ErrorIsAboutTheStatement' /\ RetriesAreSighted' /\ Back
<1>1. /\ draft' = draft /\ busy' = busy /\ baseline' = baseline /\ waiting' = waiting
      /\ wire' = wire /\ answers' = answers /\ sent' = sent /\ log' = log /\ applied' = applied
      /\ open' = open /\ edits' = edits /\ error' \in SUBSET error
    BY DEF Forget, requests, session
<1>2. IInv'
    BY <1>1 DEF IInv, TypeOK, Identified, Kept, OneRequestPerLock, ModeHasItsNode
<1> QED BY <1>1, <1>2 DEF ErrorIsAboutTheStatement, RetriesAreSighted, Back

\* A step that sends, ends and logs nothing.
LEMMA CalmKeeps ==
    ASSUME FromTheCast, OneDraw, Fresh, ProposalsEndOnce,
           UNCHANGED <<waiting, wire, log, cast>>
    PROVE  FromTheCast' /\ OneDraw' /\ Fresh' /\ ProposalsEndOnce'
BY DEF FromTheCast, OneDraw, Fresh, ProposalsEndOnce, OverBy, DrawSlots, SlotsOf

LEMMA MenusAreCalm ==
    ASSUME CanvasMenus
    PROVE  UNCHANGED <<waiting, wire, log, busy, cast>>
<1>1. UNCHANGED <<busy, requests, session, cast>>
    BY DEF CanvasMenus, RightClick, OpenSubmenu, PickMode, PickStub, PressOutside, DragEdge,
           OpenDialog, CancelDialog, SelectRow, SwitchPane, Escape, ExitMode, ExitMetaMode,
           ClearTarget, EnterMode, Edit, vars, screen
<1> QED BY <1>1 DEF requests, session

LEMMA MenusKeep ==
    ASSUME OneAtATime, AskersOutlastTheirRequests, CanvasMenus
    PROVE  OneAtATime' /\ AskersOutlastTheirRequests'
<1>0. UNCHANGED <<waiting, busy, cast>>
    BY MenusAreCalm
<1>1. ASSUME picking' = picking, picking => picker' # <<>>,
             busy \cap LabelSlots # {} => dialog'
      PROVE  AskersOutlastTheirRequests'
    BY <1>0, <1>1 DEF AskersOutlastTheirRequests, DrawSlots, LabelSlots, SlotsOf
<1>2. AskersOutlastTheirRequests'
  <2>1. ASSUME NEW keep, DismissPicker(keep) PROVE picking' = picking /\ (picking => picker' # <<>>)
      BY <2>1 DEF DismissPicker, AskersOutlastTheirRequests
  <2>2. ASSUME NEW keep, PressOutside(keep) PROVE AskersOutlastTheirRequests'
      BY <1>1, <2>1, <2>2 DEF PressOutside, AskersOutlastTheirRequests
  <2>3. ASSUME NEW inField, Escape(inField) PROVE AskersOutlastTheirRequests'
      BY <1>1, <2>1, <2>3 DEF Escape, AskersOutlastTheirRequests
  <2>4. ASSUME NEW a, NEW b, DragEdge(a, b) PROVE AskersOutlastTheirRequests'
    <3>1. <<a, b>> # <<>>
        OBVIOUS
    <3> QED BY <1>1, <2>4, <3>1 DEF DragEdge, AskersOutlastTheirRequests
  <2>5. ASSUME NEW cancel, CancelDialog(cancel) PROVE AskersOutlastTheirRequests'
      BY <1>1, <2>5 DEF CancelDialog, AskersOutlastTheirRequests
  <2>6. CASE UNCHANGED <<picker, picking>> /\ (dialog => dialog')
      BY <1>1, <2>6 DEF AskersOutlastTheirRequests
  <2>7. \/ \E keep : PressOutside(keep) \/ Escape(keep) \/ CancelDialog(keep)
        \/ \E x, y : DragEdge(x, y)
        \/ UNCHANGED <<picker, picking>> /\ (dialog => dialog')
    <3>1. ASSUME NEW x, RightClick(x) \/ OpenSubmenu(x) \/ PickMode(x) \/ SelectRow(x)
          PROVE  UNCHANGED <<picker, picking, dialog>>
        BY <3>1 DEF RightClick, OpenSubmenu, PickMode, SelectRow
    <3>2. ASSUME PickStub \/ OpenDialog \/ SwitchPane
          PROVE  UNCHANGED <<picker, picking>> /\ (dialog => dialog')
        BY <3>2 DEF PickStub, OpenDialog, SwitchPane
    <3> QED BY <3>1, <3>2 DEF CanvasMenus
  <2> QED BY <2>2, <2>3, <2>4, <2>5, <2>6, <2>7
<1>3. OneAtATime'
  <2>1. ASSUME NEW x \in Targets, RightClick(x) PROVE OneAtATime'
      BY <2>1 DEF RightClick, OneAtATime, Closed
  <2>2. ASSUME NEW k \in Submenus, OpenSubmenu(k) PROVE OneAtATime'
      BY <2>2 DEF OpenSubmenu, OneAtATime
  <2>3. ASSUME NEW keep, PressOutside(keep) PROVE OneAtATime'
    <3>1. /\ menu' = IF keep = "menu" THEN menu ELSE Nothing
          /\ submenu' = [k \in Submenus |-> IF keep = k THEN submenu[k] ELSE Nothing]
        BY <2>3 DEF PressOutside
    <3> QED BY <3>1 DEF OneAtATime
  <2>4. ASSUME NEW inField, Escape(inField) PROVE OneAtATime'
      BY <2>4 DEF Escape, OneAtATime, Closed
  <2>5. CASE submenu' = submenu /\ menu' \in {menu, Nothing}
      BY <2>5 DEF OneAtATime
  <2> QED BY <2>1, <2>2, <2>3, <2>4, <2>5
          DEF CanvasMenus, PickMode, PickStub, DragEdge, OpenDialog, CancelDialog, SelectRow, SwitchPane
<1> QED BY <1>2, <1>3

\* A gesture from the canvas: what it sends is of the cast, nothing is sent
\* under the picker's lock but by the picker, nothing from the dialog but while
\* it is up, and nothing about a proposal whose end has been applied.
LEMMA GestureSends ==
    ASSUME CanvasGestures
    PROVE  \E s \in cast \cap Slots :
             /\ UNCHANGED <<log, applied, cast, menu, submenu, picker, dialog>>
             /\ Hook[s] = "label-snapshot" => dialog
             /\ \/ UNCHANGED <<busy, requests, picking>>
                \/ UNCHANGED <<busy, requests>> /\ ~picking /\ ~picking'
                \/ /\ Request(s, Empty) /\ busy' = busy \cup {s}
                   /\ Hook[s] \in Enders => ~Over(About[s])
                   /\ IF Hook[s] = "draw-edge" THEN ~picking /\ picking' /\ picker # <<>>
                      ELSE picking' = picking
<1> DEFINE Calm == UNCHANGED <<log, applied, cast, menu, submenu, picker, dialog>>
           Sent(s) == \/ UNCHANGED <<busy, requests, picking>>
                      \/ UNCHANGED <<busy, requests>> /\ ~picking /\ ~picking'
                      \/ /\ Request(s, Empty) /\ busy' = busy \cup {s}
                         /\ Hook[s] \in Enders => ~Over(About[s])
                         /\ IF Hook[s] = "draw-edge" THEN ~picking /\ picking' /\ picker # <<>>
                            ELSE picking' = picking
           Fine(s) == Calm /\ (Hook[s] = "label-snapshot" => dialog) /\ Sent(s)
<1>1. ASSUME NEW s \in Slots, NEW h, Press(s, h), UNCHANGED surfaces, h # "draw-edge",
             h \in Enders => ~Over(About[s]),
             h = "label-snapshot" => dialog
      PROVE  Fine(s)
    BY <1>1 DEF Press, Gesture, surfaces, session
<1>2. ASSUME NEW s \in Slots, PickRoleFor(s) PROVE Fine(s)
  <2>1. Hook[s] = "draw-edge" /\ Hook[s] # "label-snapshot" /\ Hook[s] \notin Enders
      BY <1>2 DEF PickRoleFor, Enders, Commits
  <2> QED BY <1>2, <2>1 DEF PickRoleFor, session
<1>3. ASSUME NEW s \in Slots, NEW h \in Commits, CommitCard(s, h) PROVE Fine(s)
    BY <1>1, <1>3 DEF CommitCard, Commits
<1>4. ASSUME NEW s \in Slots, CommitRow(s) \/ WithdrawProposal(s) \/ MarkMetaDisagreement(s)
      PROVE  Fine(s)
    BY <1>1, <1>4 DEF CommitRow, WithdrawProposal, MarkMetaDisagreement, Row, Commits
<1>5. ASSUME NEW s \in Slots, CommitChord(s) PROVE Fine(s)
  <2>1. CASE Over(selected)
      BY <1>5, <2>1 DEF CommitChord, vars, screen, session, Commits
  <2>2. CASE ~Over(selected)
    <3>1. PICK h \in Commits : Press(s, h)
        BY <1>5, <2>2 DEF CommitChord
    <3>2. selected = About[s] /\ UNCHANGED surfaces
        BY <1>5, <2>2 DEF CommitChord
    <3> QED BY <1>1, <2>2, <3>1, <3>2 DEF Commits
  <2> QED BY <2>1, <2>2
<1>6. ASSUME NEW s \in Slots, LabelSnapshot(s) PROVE Fine(s)
    BY <1>1, <1>6 DEF LabelSnapshot, Enders, Commits
<1>7. ASSUME NEW s \in Slots,
             NEW h \in {"annotate", "axiom-mark", "edit-wording", "classify-node",
                        "set-node-substance", "set-edge-substance", "break-edge", "vote",
                        "withdraw-agreement", "own-axiom", "dispute-annotation"},
             Press(s, h), UNCHANGED surfaces
      PROVE  Fine(s)
    BY <1>1, <1>7 DEF Enders, Commits
<1> HIDE DEF Fine
<1>8. \E s \in cast \cap Slots : Fine(s)
    BY <1>2, <1>3, <1>4, <1>5, <1>6, <1>7
       DEF CanvasGestures, Annotate, MarkAxiom, EditWording, CommitWording, CommitClassification,
           CommitShape, ClassifyNode, SetNodeSubstance, SetEdgeSubstance, RebutEdge, BreakEdge,
           CastVote, WithdrawAgreement, WithdrawOwnProposal, MarkOwnAxiom, DisputeAnnotation, Commits
<1> QED BY <1>8 DEF Fine

LEMMA GesturesKeep ==
    ASSUME CanvasInv, CanvasGestures
    PROVE  /\ OneAtATime' /\ FromTheCast' /\ OneDraw' /\ AskersOutlastTheirRequests'
           /\ Fresh' /\ ProposalsEndOnce'
<1>0. /\ IInv /\ TypeOK /\ OneAtATime /\ FromTheCast /\ OneDraw /\ AskersOutlastTheirRequests
      /\ Fresh /\ ProposalsEndOnce
      /\ applied \in 0..Len(log) /\ Len(log) \in Nat
    BY DEF CanvasInv, IInv, TypeOK
<1>1. PICK s \in cast \cap Slots :
        /\ UNCHANGED <<log, applied, cast, menu, submenu, picker, dialog>>
        /\ Hook[s] = "label-snapshot" => dialog
        /\ \/ UNCHANGED <<busy, requests, picking>>
           \/ UNCHANGED <<busy, requests>> /\ ~picking /\ ~picking'
           \/ /\ Request(s, Empty) /\ busy' = busy \cup {s}
              /\ Hook[s] \in Enders => ~Over(About[s])
              /\ IF Hook[s] = "draw-edge" THEN ~picking /\ picking' /\ picker # <<>>
                 ELSE picking' = picking
    BY GestureSends
<1>2. OneAtATime' /\ ProposalsEndOnce'
    BY <1>0, <1>1 DEF OneAtATime, ProposalsEndOnce
<1>3. DrawSlots' = DrawSlots /\ LabelSlots' = LabelSlots
    BY <1>1 DEF DrawSlots, LabelSlots, SlotsOf
<1>4. CASE UNCHANGED <<busy, requests>> /\ (picking' <=> picking)
  <2>1. UNCHANGED <<waiting, wire, busy>>
      BY <1>4 DEF requests
  <2>2. AskersOutlastTheirRequests'
      BY <1>0, <1>1, <1>3, <1>4, <2>1 DEF AskersOutlastTheirRequests
  <2> QED BY <1>0, <1>1, <1>2, <2>1, <2>2, CalmKeeps
<1>5. CASE /\ Request(s, Empty) /\ busy' = busy \cup {s}
           /\ Hook[s] \in Enders => ~Over(About[s])
           /\ IF Hook[s] = "draw-edge" THEN ~picking /\ picking' /\ picker # <<>>
              ELSE picking' = picking
  <2> DEFINE r == [id |-> sent + 1, of |-> s, expected |-> applied, saved |-> Empty]
  <2>1. waiting' = waiting \cup {r} /\ wire' = wire \cup {r} /\ r.of = s /\ r.expected = applied
      BY <1>5 DEF Request
  <2> HIDE DEF r
  <2>2. FromTheCast'
      BY <1>0, <1>1, <2>1 DEF FromTheCast
  <2>3. s \in DrawSlots <=> Hook[s] = "draw-edge"
      BY DEF DrawSlots, SlotsOf
  <2>4. OneDraw'
      BY <1>0, <1>3, <1>5, <2>1, <2>3 DEF OneDraw, AskersOutlastTheirRequests
  <2>5. Fresh'
    <3> SUFFICES ASSUME NEW q \in wire', q.of \in Slots, Hook[q.of] \in Enders
                 PROVE  q.expected <= Len(log) /\ ~OverBy(About[q.of], q.expected)
        BY <1>1 DEF Fresh, OverBy
    <3>1. CASE q \in wire
        BY <1>0, <3>1 DEF Fresh
    <3>2. CASE q = r
        BY <1>0, <1>5, <2>1, <3>2 DEF Over
    <3> QED BY <2>1, <3>1, <3>2
  <2>6. s \in LabelSlots => dialog
      BY <1>1 DEF LabelSlots, SlotsOf
  <2>7. picking' <=> \E q \in waiting' : q.of \in DrawSlots
      BY <1>0, <1>5, <2>1, <2>3 DEF AskersOutlastTheirRequests
  <2>8. AskersOutlastTheirRequests'
      BY <1>0, <1>1, <1>3, <1>5, <2>6, <2>7 DEF AskersOutlastTheirRequests
  <2> QED BY <1>2, <2>2, <2>4, <2>5, <2>8
<1> QED BY <1>1, <1>4, <1>5

\* The log grows by what was sent by somebody who had seen all of it.
LEMMA LoggingKeeps ==
    ASSUME CanvasInv,
           NEW e \in [of : Gestures \cup {"others"}, seen : 0..MaxLog],
           log' = Append(log, e), wire' \in SUBSET wire,
           e.of \in Slots /\ Hook[e.of] \in Enders => ~OverBy(About[e.of], Len(log))
    PROVE  Fresh' /\ ProposalsEndOnce'
<1>0. Fresh /\ ProposalsEndOnce /\ log \in Seq([of : Gestures \cup {"others"}, seen : 0..MaxLog])
      /\ \A r \in wire : r.expected \in Nat
    BY GestureAssumption DEF CanvasInv, IInv, TypeOK, Requests
<1>1. /\ DOMAIN log' = 1..(Len(log) + 1) /\ DOMAIN log = 1..Len(log) /\ Len(log) \in Nat
      /\ Len(log') = Len(log) + 1
      /\ log'[Len(log) + 1] = e /\ \A i \in 1..Len(log) : log'[i] = log[i]
    BY <1>0
<1>2. Fresh'
  <2> SUFFICES ASSUME NEW r \in wire, r.of \in Slots, Hook[r.of] \in Enders
               PROVE  r.expected <= Len(log') /\ ~OverBy(About[r.of], r.expected)'
      BY DEF Fresh
  <2>1. r.expected <= Len(log) /\ ~OverBy(About[r.of], r.expected) /\ r.expected \in Nat
      BY <1>0 DEF Fresh
  <2>2. \A i \in 1..r.expected : log'[i] = log[i]
      BY <1>1, <2>1
  <2> QED BY <1>1, <2>1, <2>2 DEF OverBy
<1>3. ProposalsEndOnce'
  <2> SUFFICES ASSUME NEW i \in DOMAIN log', NEW j \in DOMAIN log', i < j,
                      {log'[i].of, log'[j].of} \subseteq Slots,
                      {Hook[log'[i].of], Hook[log'[j].of]} \subseteq Enders
               PROVE  About[log'[i].of] # About[log'[j].of]
      BY DEF ProposalsEndOnce
  <2>1. i \in 1..Len(log) /\ log'[i] = log[i]
      BY <1>1
  <2>2. CASE j = Len(log) + 1
      BY <1>1, <2>1, <2>2 DEF OverBy
  <2>3. CASE j # Len(log) + 1
      BY <1>0, <1>1, <2>1, <2>3 DEF ProposalsEndOnce
  <2> QED BY <2>2, <2>3
<1> QED BY <1>2, <1>3

LEMMA ElsewhereKeeps ==
    ASSUME CanvasInv, Elsewhere
    PROVE  /\ OneAtATime' /\ FromTheCast' /\ OneDraw' /\ AskersOutlastTheirRequests'
           /\ Fresh' /\ ProposalsEndOnce'
<1>0. /\ IInv /\ TypeOK /\ OneAtATime /\ FromTheCast /\ OneDraw /\ AskersOutlastTheirRequests
      /\ Fresh /\ ProposalsEndOnce
    BY DEF CanvasInv, IInv
<1>1. UNCHANGED <<cast, menu, submenu, picker, picking, dialog>>
    BY DEF Elsewhere, surfaces
<1>2. OneAtATime' /\ DrawSlots' = DrawSlots /\ LabelSlots' = LabelSlots
    BY <1>0, <1>1 DEF OneAtATime, DrawSlots, LabelSlots, SlotsOf
<1>3. ASSUME UNCHANGED <<waiting, busy>>
      PROVE  FromTheCast' /\ OneDraw' /\ AskersOutlastTheirRequests'
    BY <1>0, <1>1, <1>2, <1>3 DEF FromTheCast, OneDraw, AskersOutlastTheirRequests
<1>4. CASE Drafting
  <2>1. UNCHANGED <<busy, requests, session>>
      BY <1>4 DEF Drafting, ExitMode, EnterMetaMode, ExitMetaMode, Type, Stage, StageEdge, ClearTarget,
                  PickRole, WriteRow, AddRowTo, RemoveRowFrom, Edit
  <2>2. UNCHANGED <<waiting, wire, busy, log>>
      BY <2>1 DEF requests, session
  <2> QED BY <1>0, <1>1, <1>2, <1>3, <2>2, CalmKeeps
<1>5. ASSUME NEW f \in Flows, Propose(f)
      PROVE  /\ FromTheCast' /\ OneDraw' /\ AskersOutlastTheirRequests'
             /\ Fresh' /\ ProposalsEndOnce'
  <2> DEFINE r == [id |-> sent + 1, of |-> f, expected |-> applied, saved |-> Slice(draft, f)]
  <2>1. /\ waiting' = waiting \cup {r} /\ wire' = wire \cup {r} /\ r.of = f
        /\ busy' = busy /\ log' = log /\ f \notin Slots
      BY <1>5, GestureAssumption DEF Propose, Request, session
  <2> HIDE DEF r
  <2>2. f \notin DrawSlots
      BY <2>1 DEF DrawSlots, SlotsOf
  <2>3. Fresh'
      BY <1>0, <2>1 DEF Fresh, OverBy
  <2> QED BY <1>0, <1>1, <1>2, <2>1, <2>2, <2>3
          DEF FromTheCast, OneDraw, AskersOutlastTheirRequests, ProposalsEndOnce
<1>6. ASSUME NEW r \in wire, Handle(r) PROVE Fresh' /\ ProposalsEndOnce' /\ UNCHANGED <<waiting, busy>>
  <2> DEFINE e == [of |-> r.of, seen |-> r.expected]
  <2>1. e \in [of : Gestures \cup {"others"}, seen : 0..MaxLog] /\ e.of = r.of
      BY <1>0 DEF TypeOK, Requests
  <2>2. /\ log' = log \/ (r.expected = Len(log) /\ log' = Append(log, e))
        /\ wire' \in SUBSET wire /\ UNCHANGED <<waiting, busy>>
      BY <1>6 DEF Handle, screen
  <2> HIDE DEF e
  <2>3. CASE log' = log
      BY <1>0, <2>2, <2>3 DEF Fresh, ProposalsEndOnce, OverBy
  <2>4. CASE r.expected = Len(log) /\ log' = Append(log, e)
    <3>1. e.of \in Slots /\ Hook[e.of] \in Enders => ~OverBy(About[e.of], Len(log))
        BY <1>0, <2>1, <2>4 DEF Fresh
    <3> QED BY <2>1, <2>2, <2>4, <3>1, LoggingKeeps
  <2> QED BY <2>2, <2>3, <2>4
<1>7. CASE Others
  <2> DEFINE e == [of |-> "others", seen |-> Len(log)]
  <2>1. e \in [of : Gestures \cup {"others"}, seen : 0..MaxLog] /\ e.of \notin Slots
      BY <1>0, <1>7, GestureAssumption, CanvasAssumption DEF TypeOK, Others
  <2>2. log' = Append(log, e) /\ wire' = wire /\ UNCHANGED <<waiting, busy>>
      BY <1>7 DEF Others, requests, screen
  <2> HIDE DEF e
  <2>3. Fresh' /\ ProposalsEndOnce'
      BY <2>1, <2>2, LoggingKeeps
  <2> QED BY <1>2, <1>3, <2>2, <2>3
<1>8. CASE Reconnect
  <2>1. UNCHANGED <<waiting, wire, log, busy>>
      BY <1>8 DEF Reconnect, requests, session, screen
  <2> QED BY <1>0, <1>1, <1>2, <1>3, <2>1, CalmKeeps
<1> QED BY <1>2, <1>3, <1>4, <1>5, <1>6, <1>7, <1>8 DEF Elsewhere

\* The end of a request closes the surface of its kind, and takes down the
\* picker's lock if it was the picker's.
LEMMA EndsKeep ==
    ASSUME CanvasInv, NEW r \in waiting, NEW ok \in BOOLEAN, Land(r, ok),
           waiting' = waiting \ {r}, UNCHANGED <<wire, log, cast, menu>>,
           IF r.of \in Slots THEN Settled(r.of, ok)
           ELSE UNCHANGED <<submenu, picker, picking, dialog>>
    PROVE  /\ OneAtATime' /\ FromTheCast' /\ OneDraw' /\ AskersOutlastTheirRequests'
           /\ Fresh' /\ ProposalsEndOnce'
<1>0. /\ IInv /\ TypeOK /\ OneAtATime /\ FromTheCast /\ OneDraw /\ AskersOutlastTheirRequests
      /\ Fresh /\ ProposalsEndOnce
    BY DEF CanvasInv, IInv
<1>1. FromTheCast' /\ OneDraw' /\ DrawSlots' = DrawSlots /\ LabelSlots' = LabelSlots
    BY <1>0 DEF FromTheCast, OneDraw, DrawSlots, LabelSlots, SlotsOf
<1>2. Fresh' /\ ProposalsEndOnce'
    BY <1>0 DEF Fresh, ProposalsEndOnce, OverBy
<1>3. CASE r.of \notin Slots
  <2>1. UNCHANGED <<submenu, picker, picking, dialog, busy>> /\ r.of \notin DrawSlots
      BY <1>3 DEF Land, DrawSlots, SlotsOf
  <2>2. OneAtATime' /\ AskersOutlastTheirRequests'
      BY <1>0, <1>1, <2>1 DEF OneAtATime, AskersOutlastTheirRequests
  <2> QED BY <1>1, <1>2, <2>2
<1>4. CASE r.of \in Slots
  <2>1. Settled(r.of, ok) /\ busy' = busy \ {r.of} /\ r.of \in cast
      BY <1>0, <1>4 DEF Land, FromTheCast
  <2>2. OneAtATime'
      BY <1>0, <2>1 DEF OneAtATime, Settled
  <2>3. r.of \in DrawSlots <=> Hook[r.of] = "draw-edge"
      BY <1>4, <2>1 DEF DrawSlots, SlotsOf
  <2>4. /\ picking' <=> \E q \in waiting' : q.of \in DrawSlots
        /\ picking' => picker' # <<>>
    <3>1. picking' = (picking /\ Hook[r.of] # "draw-edge")
          /\ (Hook[r.of] # "draw-edge" => picker' = picker)
        BY <2>1 DEF Settled
    <3>2. CASE Hook[r.of] = "draw-edge"
        BY <1>0, <2>3, <3>1, <3>2 DEF OneDraw
    <3>3. CASE Hook[r.of] # "draw-edge"
        BY <1>0, <2>3, <3>1, <3>3 DEF AskersOutlastTheirRequests
    <3> QED BY <3>2, <3>3
  <2>5. busy' \cap LabelSlots # {} => dialog'
    <3>1. CASE Hook[r.of] = "label-snapshot"
      <4>1. \A s \in LabelSlots : s = r.of
          BY <1>4, <3>1, LabelAssumption DEF LabelSlots, SlotsOf
      <4> QED BY <2>1, <4>1
    <3>2. CASE Hook[r.of] # "label-snapshot"
        BY <1>0, <2>1, <3>2 DEF Settled, AskersOutlastTheirRequests
    <3> QED BY <3>1, <3>2
  <2>6. AskersOutlastTheirRequests'
      BY <1>1, <2>4, <2>5 DEF AskersOutlastTheirRequests
  <2> QED BY <1>1, <1>2, <2>2, <2>6
<1> QED BY <1>3, <1>4

LEMMA CanvasStartsSound == CanvasInit => CanvasInv
<1> SUFFICES ASSUME CanvasInit PROVE CanvasInv
    OBVIOUS
<1>1. IInv
    BY InitKeeps DEF CanvasInit
<1>2. /\ waiting = {} /\ wire = {} /\ busy = {} /\ log = <<>> /\ error = {}
      /\ menu = Nothing /\ submenu = [k \in Submenus |-> Nothing] /\ picking = FALSE
    BY DEF CanvasInit, Init
<1>3. ErrorIsAboutTheStatement /\ RetriesAreSighted /\ ProposalsEndOnce
    BY <1>2 DEF ErrorIsAboutTheStatement, RetriesAreSighted, ProposalsEndOnce
<1>4. OneAtATime
    BY <1>2 DEF OneAtATime
<1>5. FromTheCast /\ OneDraw /\ Fresh /\ AskersOutlastTheirRequests
    BY <1>2 DEF FromTheCast, OneDraw, Fresh, AskersOutlastTheirRequests
<1> QED BY <1>1, <1>3, <1>4, <1>5 DEF CanvasInv

LEMMA CanvasNextKeeps ==
    ASSUME CanvasInv, [CanvasNext]_canvasVars
    PROVE  CanvasInv' /\ Back
<1>0. /\ IInv /\ ErrorIsAboutTheStatement /\ RetriesAreSighted /\ OneAtATime
      /\ AskersOutlastTheirRequests /\ Identified
    BY DEF CanvasInv, IInv
<1>1. IInv' /\ ErrorIsAboutTheStatement' /\ RetriesAreSighted' /\ Back
  <2>1. [Next]_vars \/ Forget
    <3>1. CASE CanvasNext
        BY <1>0, <3>1, StepsAreGestures
    <3>2. CASE UNCHANGED canvasVars
        BY <3>2 DEF canvasVars
    <3> QED BY <3>1, <3>2
  <2>2. CASE [Next]_vars
      BY <1>0, <2>2, NextKeeps, StepsKeepErrorsCurrent, StepsAreSighted, StepsBringBack
  <2>3. CASE Forget
      BY <1>0, <2>3, ForgettingKeeps
  <2> QED BY <2>1, <2>2, <2>3
<1> DEFINE Rest == /\ OneAtATime /\ FromTheCast /\ OneDraw /\ AskersOutlastTheirRequests
                   /\ Fresh /\ ProposalsEndOnce
<1>2. CASE CanvasMenus
  <2>1. UNCHANGED <<waiting, wire, log, cast>>
      BY <1>2, MenusAreCalm
  <2> QED BY <1>0, <1>1, <1>2, <2>1, MenusKeep, CalmKeeps DEF CanvasInv
<1>3. CASE CanvasGestures
    BY <1>1, <1>3, GesturesKeep DEF CanvasInv
<1>4. CASE Elsewhere
    BY <1>1, <1>4, ElsewhereKeeps DEF CanvasInv
<1>5. ASSUME NEW a \in answers, CanvasAnswer(a) PROVE Rest'
  <2>1. Answer(a) /\ UNCHANGED <<cast, menu>> /\ UNCHANGED <<wire, log>> /\ a.ok \in BOOLEAN
      BY <1>0, <1>5 DEF CanvasAnswer, Answer, session, IInv, TypeOK
  <2>2. CASE \E r \in waiting : r.id = a.id
    <3>1. PICK r \in waiting : r = CHOOSE q \in waiting : q.id = a.id
        BY <2>2
    <3>2. r.id = a.id
        BY <2>2, <3>1
    <3>3. waiting' = waiting \ {r} /\ Land(r, a.ok)
        BY <1>0, <2>1, <2>2, <3>1, <3>2 DEF Answer, Identified
    <3>4. (\E q \in waiting : q.id = a.id /\ q.of \in Slots) <=> r.of \in Slots
        BY <1>0, <3>2 DEF Identified
    <3>5. IF r.of \in Slots
          THEN Settled((CHOOSE q \in waiting : q.id = a.id).of, a.ok)
          ELSE UNCHANGED <<submenu, picker, picking, dialog>>
        BY <1>5, <3>4 DEF CanvasAnswer
    <3>6. IF r.of \in Slots THEN Settled(r.of, a.ok)
          ELSE UNCHANGED <<submenu, picker, picking, dialog>>
        BY <3>1, <3>5
    <3> QED BY <2>1, <3>3, <3>6, EndsKeep
  <2>3. CASE ~ \E r \in waiting : r.id = a.id
    <3>1. /\ UNCHANGED <<waiting, wire, log, busy, cast>>
          /\ UNCHANGED <<menu, submenu, picker, picking, dialog>>
        BY <1>5, <2>1, <2>3 DEF CanvasAnswer, Answer, screen
    <3>2. OneAtATime' /\ AskersOutlastTheirRequests'
        BY <1>0, <3>1 DEF OneAtATime, AskersOutlastTheirRequests, DrawSlots, LabelSlots, SlotsOf
    <3> QED BY <3>1, <3>2, CalmKeeps DEF CanvasInv
  <2> QED BY <2>2, <2>3
<1>6. ASSUME NEW r \in waiting, CanvasTimeout(r) PROVE Rest'
  <2>1. /\ waiting' = waiting \ {r} /\ Land(r, FALSE) /\ UNCHANGED <<wire, log, cast, menu>>
        /\ IF r.of \in Slots THEN Settled(r.of, FALSE)
           ELSE UNCHANGED <<submenu, picker, picking, dialog>>
      BY <1>6 DEF CanvasTimeout, Timeout, session
  <2> QED BY <2>1, EndsKeep
<1>7. ASSUME CanvasDisconnect PROVE Rest'
  <2>1. /\ waiting' = {} /\ wire' \in SUBSET wire /\ picking' = FALSE
        /\ busy' = busy \ {r.of : r \in waiting}
        /\ UNCHANGED <<log, cast, menu, submenu, picker, dialog>>
      BY <1>7 DEF CanvasDisconnect, Disconnect, session
  <2>2. busy' = {}
      BY <1>0, <2>1 DEF IInv, OneRequestPerLock, TypeOK
  <2>3. OneAtATime' /\ FromTheCast' /\ OneDraw' /\ AskersOutlastTheirRequests'
      BY <1>0, <2>1, <2>2 DEF OneAtATime, FromTheCast, OneDraw, AskersOutlastTheirRequests
  <2>4. Fresh' /\ ProposalsEndOnce'
      BY <2>1 DEF CanvasInv, Fresh, ProposalsEndOnce, OverBy
  <2> QED BY <2>3, <2>4
<1>8. ASSUME CanvasApply \/ UNCHANGED canvasVars PROVE Rest'
  <2>1. /\ UNCHANGED <<waiting, wire, log, busy, cast>>
        /\ UNCHANGED <<menu, submenu, picker, picking, dialog>>
    <3>1. CASE CanvasApply
        BY <3>1 DEF CanvasApply, Apply, screen, requests
    <3>2. CASE UNCHANGED canvasVars
        BY <3>2 DEF canvasVars, vars, surfaces, screen, requests, session
    <3> QED BY <1>8, <3>1, <3>2
  <2>2. OneAtATime' /\ AskersOutlastTheirRequests'
      BY <1>0, <2>1 DEF OneAtATime, AskersOutlastTheirRequests, DrawSlots, LabelSlots, SlotsOf
  <2> QED BY <2>1, <2>2, CalmKeeps DEF CanvasInv
<1> QED BY <1>1, <1>2, <1>3, <1>4, <1>5, <1>6, <1>7, <1>8 DEF CanvasNext, CanvasInv

LEMMA CanvasInvariance == CanvasSpec => []CanvasInv
<1>1. CanvasInit => CanvasInv
    BY CanvasStartsSound
<1>2. CanvasInv /\ [CanvasNext]_canvasVars => CanvasInv'
    BY CanvasNextKeeps
<1> QED BY <1>1, <1>2, PTL DEF CanvasSpec

\* On the whole canvas as on the pane alone: one request per lock and none of
\* a lock blind to the one before.  The picker, which has no slot's flag to
\* look at, never sends twice.
THEOREM CanvasLocksHold == CanvasSpec => []LocksHold
<1>1. CanvasInv => LocksHold
    BY DEF CanvasInv, IInv, LocksHold
<1> QED BY <1>1, CanvasInvariance, PTL

\* The capture pane stays coherent whatever the menus and Escape do to it.
THEOREM CanvasPaneStaysCoherent == CanvasSpec => []PaneIsCoherent
<1>1. CanvasInv => PaneIsCoherent
    BY DEF CanvasInv, IInv, PaneIsCoherent
<1> QED BY <1>1, CanvasInvariance, PTL

\* A draft whose request fails is back, also when a menu or Escape changed the
\* mode meanwhile.
THEOREM CanvasLosesNothingSent == CanvasSpec => FailedDraftsComeBack
<1>1. CanvasInv /\ [CanvasNext]_canvasVars =>
        [\A r \in waiting : (r \notin waiting' /\ r.of \in Flows /\ r.of \in error')
                              => Slice(draft', r.of) = r.saved]_vars
    BY CanvasNextKeeps DEF Back
<1> QED BY <1>1, CanvasInvariance, PTL DEF CanvasSpec, FailedDraftsComeBack

\* One thing is open at a time, what asked for something stays until it is
\* answered, and of all the ways to end a proposal one lands.
THEOREM CanvasStaysSound == CanvasSpec => []CanvasIsSound
<1>1. ASSUME OneAtATime PROVE OneThingIsOpen
  <2> DEFINE S == Showing \ {"picker"}
  <2>1. \A x, y \in S : x = y
    <3>1. \A x \in S : (x \in Submenus /\ submenu[x] # Nothing) \/ (x = "menu" /\ menu # Nothing)
        BY DEF Showing
    <3>2. "menu" \notin Submenus
        BY DEF Submenus
    <3> QED BY <1>1, <3>1, <3>2 DEF OneAtATime
  <2>2. CASE S = {}
      BY <2>2, FS_EmptySet DEF OneThingIsOpen
  <2>3. CASE S # {}
    <3>1. PICK x \in S : TRUE
        BY <2>3
    <3>2. S = {x}
        BY <2>1, <3>1
    <3>3. Cardinality({x}) = 1
        BY FS_Singleton
    <3> QED BY <3>2, <3>3 DEF OneThingIsOpen
  <2> QED BY <2>2, <2>3
<1>2. CanvasInv => CanvasIsSound
    BY <1>1 DEF CanvasInv, CanvasIsSound
<1> QED BY <1>2, CanvasInvariance, PTL
=============================================================================
