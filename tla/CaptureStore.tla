---------------------------- MODULE CaptureStore ----------------------------
(***************************************************************************)
(* The moderator's draft: useCaptureStore                                  *)
(* (apps/moderator/src/stores/captureStore.ts) as a record and one         *)
(* operator per setter that more than one field depends on.                *)
(*                                                                         *)
(* `text`, `target` and `role` are the slice every mode shares; `on` is    *)
(* the node each of the five node modes works on, `rows` the components    *)
(* or readings of the two modes that propose several.  A row is Blank      *)
(* until it has both a wording and a kind.  The classification and the     *)
(* direction of the shared slice and the kind of a meta-move travel with   *)
(* the text and are not told apart.                                        *)
(***************************************************************************)
EXTENDS Integers, Sequences

CONSTANTS
    Nodes, Edges, \* what can be selected on the canvas
    Texts,        \* wordings
    MinRows,      \* MINIMUM_DECOMPOSE_COMPONENTS
    MaxRows       \* MAXIMUM_DECOMPOSE_COMPONENTS

Nothing == "nothing"
Blank == "blank"

ASSUME DraftAssumption ==
    /\ Nothing \notin Nodes \cup Edges /\ Blank \notin Texts
    /\ Nodes \cap Edges = {}
    /\ MinRows \in Nat /\ MaxRows \in Nat /\ MinRows <= MaxRows

RowModes == {"decompose", "interpretive-split"}
NodeModes == RowModes \cup {"operationalization", "warrant-elicitation", "capture-defeater"}
Modes == NodeModes \cup {"idle", "meta-move"}

Rows == Seq(Texts \cup {Blank})
Drafts == [mode : Modes, text : Texts \cup {Blank}, target : Nodes \cup Edges \cup {Nothing},
           role : BOOLEAN, proposing : BOOLEAN,
           on : [NodeModes -> Nodes \cup {Nothing}], rows : [RowModes -> Rows]]

Initial ==
    [mode |-> "idle", text |-> Blank, target |-> Nothing, role |-> FALSE,
     proposing |-> FALSE, on |-> [m \in NodeModes |-> Nothing],
     rows |-> [m \in RowModes |-> <<>>]]

EmptyRows(n) == [i \in 1..n |-> Blank]

\* enterDecomposeMode and its four siblings: the node of another mode stays.
Enter(draft, m, n) ==
    [mode |-> m, text |-> Blank, target |-> Nothing, role |-> FALSE,
     proposing |-> draft.proposing,
     on |-> [draft.on EXCEPT ![m] = n],
     rows |-> [k \in RowModes |-> IF k = m THEN EmptyRows(MinRows) ELSE draft.rows[k]]]

\* exitDecomposeMode and its siblings.  A failed or a landed request may call
\* it while another mode is on screen.
ExitForgettingTheMode(draft, m) ==
    [draft EXCEPT !.on = [draft.on EXCEPT ![m] = Nothing],
                  !.rows = [k \in RowModes |-> IF k = m THEN <<>> ELSE draft.rows[k]]]
Exit(draft, m) ==
    [draft EXCEPT !.mode = "idle", !.on = [draft.on EXCEPT ![m] = Nothing],
                  !.rows = [k \in RowModes |-> IF k = m THEN <<>> ELSE draft.rows[k]]]

EnterMeta(draft) ==
    [draft EXCEPT !.mode = "meta-move", !.text = Blank, !.target = Nothing, !.role = FALSE]

\* reset, which also puts `proposing` down.
Reset == Initial

AddRow(rows) == IF Len(rows) >= MaxRows THEN rows ELSE Append(rows, Blank)

RemoveRow(rows, i) ==
    IF Len(rows) <= MinRows THEN rows
    ELSE [j \in 1..(Len(rows) - 1) |-> IF j < i THEN rows[j] ELSE rows[j + 1]]

\* validateProposalRows.
Proposable(rows) ==
    /\ Len(rows) \in MinRows..MaxRows
    /\ \A i \in DOMAIN rows : rows[i] # Blank

\* The loops that bring saved rows back: enter the mode, add rows up to the
\* saved number, write each one.
RegrownOneShort(rows, n) == EmptyRows(IF n > MinRows THEN n - 1 ELSE MinRows)
Regrown(rows, n) ==
    IF n <= Len(rows) THEN rows ELSE EmptyRows(IF n <= MaxRows THEN n ELSE MaxRows)
Refilled(rows, saved) ==
    LET grown == Regrown(rows, Len(saved))
    IN  [i \in DOMAIN grown |-> IF i \in DOMAIN saved THEN saved[i] ELSE grown[i]]
=============================================================================
