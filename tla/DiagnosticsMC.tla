--------------------------- MODULE DiagnosticsMC ---------------------------
(* Diagnostics on four statements, one whose substance is discussed, and   *)
(* two annotations, of a statement and of an edge.                          *)
EXTENDS Diagnostics

CONSTANTS note, remark, nowhere

E(role, source, target) == [role |-> role, source |-> source, target |-> target]

MCNodes == 1..4
MCAnchor == [a \in {note, remark} |-> IF a = note THEN 2 ELSE nowhere]
MCDrawable ==
  {E("supports", 1, 2), E("supports", 2, 1), E("supports", 2, 3),
   E("supports", 3, 2), E("supports", 3, 3),
   E("contradicts", 1, 2), E("contradicts", 2, 1), E("contradicts", 3, 3),
   E("bridges-from", 1, 2), E("bridges-to", 1, 3),
   E("bridges-from", 4, 2), E("bridges-to", 4, 3),
   E("contradicts", 2, note), E("contradicts", note, 3),
   E("contradicts", 1, remark),
   E("rebuts", note, remark), E("rebuts", remark, note)}
MCStarts ==
  {<<E("bridges-from", 1, 2), E("bridges-to", 1, 3)>>,
   <<E("supports", 2, 1), E("supports", 2, 3)>>,
   <<E("contradicts", 1, 2), E("rebuts", note, remark)>>}
============================================================================
