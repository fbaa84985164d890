CONSTANTS
  Debaters = {ana, ben}
  Moderator = mod
  Values = {v1, v2}
  NoValue = none
  EntityKind = "edge"
  MaxProposals = 2
  Discussed = {"shape", "substance"}
  Voters = {ana, ben}
SPECIFICATION Spec
SYMMETRY Symmetry
PROPERTIES NoSilentReopening ImplementsFacetDecision
CHECK_DEADLOCK FALSE
