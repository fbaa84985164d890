SPECIFICATION ReplaySpec
CONSTANTS
  s1 = s1
  s2 = s2
  Sessions = {s1, s2}
  Surfaces = {"replay", "scrubber"}
  Viewers = {"member", "visitor"}
  PageLimit = 1
  MaxLog = 2
  MaxGestures = 2
INVARIANTS
  PlayerShowsTheLog
  

  
CHECK_DEADLOCK FALSE
