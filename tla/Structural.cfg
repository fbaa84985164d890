SPECIFICATION ViewSpec
CONSTANTS
  Debaters = {ana}
  Moderator = mod
  Parts = {1, 2}
  Contradicting = {0}
  Discussed = {0}
  MaxProposals = 2
INVARIANTS
  HiddenForAReason
  EdgesAreInherited
  ScreensFollowTheServer
CHECK_DEADLOCK FALSE
