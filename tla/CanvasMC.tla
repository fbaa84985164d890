------------------------------ MODULE CanvasMC ------------------------------
(* TLC instance of CanvasActions: a slot of every hook, two of some. *)
EXTENDS CanvasActions

CONSTANTS n, e, a, \* a node, an edge and an annotation on it
          p, q     \* two proposals

MCHook == [
    noteOnNode |-> "annotate", noteOnEdge |-> "annotate", noteOnNote |-> "annotate",
    axiomOfAna |-> "axiom-mark", axiomOfBen |-> "axiom-mark",
    wording |-> "edit-wording", drawn |-> "draw-edge", label |-> "label-snapshot",
    commitP |-> "commit-wording", commitQ |-> "commit-shape", commitR |-> "commit-classification",
    metaP |-> "mark-meta-disagreement", withdrawP |-> "withdraw-proposal",
    kind |-> "classify-node", truth |-> "set-node-substance",
    link |-> "set-edge-substance", break |-> "break-edge",
    vote |-> "vote", takeBack |-> "withdraw-agreement",
    ownAxiom |-> "own-axiom", dispute |-> "dispute-annotation" ]

MCAbout == [
    noteOnNode |-> n, noteOnEdge |-> e, noteOnNote |-> a,
    axiomOfAna |-> n, axiomOfBen |-> n,
    wording |-> n, drawn |-> Pane, label |-> Pane,
    commitP |-> p, commitQ |-> q, commitR |-> q, metaP |-> p, withdrawP |-> p,
    kind |-> n, truth |-> n, link |-> e, break |-> e,
    vote |-> p, takeBack |-> n, ownAxiom |-> n, dispute |-> a ]

MCSlots == {
    "noteOnNode", "noteOnEdge", "noteOnNote", "axiomOfAna", "axiomOfBen",
    "wording", "drawn", "label", "commitP", "commitQ", "commitR", "metaP", "withdrawP",
    "kind", "truth", "link", "break", "vote", "takeBack", "ownAxiom", "dispute" }

\* The capture pane by itself, each surface of the canvas with another, the
\* rows and cards about one proposal, and the participant's panes.
MCCasts ==
    { Flows,
      {"noteOnNode", "noteOnEdge"}, {"noteOnNote", "wording"},
      {"axiomOfAna", "axiomOfBen"},
      {"drawn", "label"}, {"drawn", "noteOnNode"},
      {"commitP", "withdrawP"}, {"commitP", "commitQ"}, {"metaP", "kind"}, {"commitR", "link"},
      {"truth", "takeBack"}, {"break", "metaP"},
      {"vote", "withdrawP"}, {"ownAxiom", "dispute"} }
=============================================================================
