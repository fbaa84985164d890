CONSTANTS
  Debaters = {ana, ben}
  Moderator = mod
  Values = {v1, v2}
  NoValue = none
  EntityKind = "node"
  MaxProposals = 2
  Discussed = {"wording"}
  Voters = {ana, ben, mod}
SPECIFICATION Spec
SYMMETRY Symmetry
INVARIANTS NothingIsLeftOver
PROPERTIES  MetaDisagreementIsFinal
CHECK_DEADLOCK FALSE
