-------------------------- MODULE FacetAgreementMC --------------------------
(* TLC instances of FacetAgreement. *)
EXTENDS FacetAgreement, TLC

\* Debaters and values are interchangeable: no property names one of them.
Symmetry == Permutations(Debaters) \cup Permutations(Values)
=============================================================================
