SPECIFICATION Spec
CONSTANTS
  Clients = {mod, ana, gus}
  Host = mod
  Debater = ana
  Requests = {r1, r2}
  NoRequest = none
  MaxAppended = 3
SYMMETRY Symmetry
INVARIANTS
  WritesAreSound
  AnswersAreTrue
CHECK_DEADLOCK FALSE
