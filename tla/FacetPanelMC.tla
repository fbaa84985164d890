----------------------------- MODULE FacetPanelMC -----------------------------
(* The TLC instance of FacetPanel. *)
EXTENDS FacetPanel, TLC

\* No property names a value.
Symmetry == Permutations(Values)
=============================================================================
