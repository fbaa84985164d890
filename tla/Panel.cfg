CONSTANTS
  Debaters = {ana}
  Moderator = mod
  Values = {v1, v2}
  NoValue = none
  EntityKind = "node"
  MaxProposals = 2
  Discussed = {"wording", "classification"}
  Voters = {ana}
  MaxFrames = 2
SPECIFICATION PanelSpec
SYMMETRY Symmetry
INVARIANTS FoldsAgree  VotesAreShown RowsFollowTheServer
  WhatIsTakenIsOffered
CHECK_DEADLOCK FALSE
