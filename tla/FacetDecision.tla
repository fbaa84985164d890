--------------------------- MODULE FacetDecision ---------------------------
(* What the methodology promises about the facets of one entity, with no    *)
(* votes, no proposals and no participants: a value lies on the table, the  *)
(* moderator may decide it, and a facet whose disagreement was declared     *)
(* irreducible stays closed.  FacetAgreement implements this specification. *)

CONSTANTS
  Facets,   \* the facets of the entity
  Values,   \* the values a facet may carry
  NoValue   \* the absent value

VARIABLES
  onTable,  \* the value each facet is currently deliberating
  decided,  \* the value each facet last committed
  closed    \* whether each facet ended in meta-disagreement

vars == <<onTable, decided, closed>>

Init ==
  /\ onTable \in [Facets -> Values \cup {NoValue}]
  /\ decided = [f \in Facets |-> NoValue]
  /\ closed = [f \in Facets |-> FALSE]

\* A new candidate replaces the one on the table; what was decided stands.
Table(f, v) ==
  /\ onTable' = [onTable EXCEPT ![f] = v]
  /\ UNCHANGED <<decided, closed>>

\* An open facet commits the value on its table, once per value.
Decide(f) ==
  /\ ~closed[f]
  /\ onTable[f] # NoValue
  /\ decided[f] # onTable[f]
  /\ decided' = [decided EXCEPT ![f] = onTable[f]]
  /\ UNCHANGED <<onTable, closed>>

\* The moderator gives the facet up as irreducible.
Close(f) ==
  /\ ~closed[f]
  /\ onTable[f] # NoValue
  /\ closed' = [closed EXCEPT ![f] = TRUE]
  /\ UNCHANGED <<onTable, decided>>

Next ==
  \E f \in Facets :
    \/ \E v \in Values : Table(f, v)
    \/ Decide(f)
    \/ Close(f)

Spec == Init /\ [][Next]_vars
=============================================================================
