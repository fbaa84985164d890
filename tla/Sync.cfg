CONSTANTS
  Clients = {app}
  Handlers = {h1, h2}
  Threshold = 2
  Ceiling = 4
  MaxHead = 4
  MaxConnections = 2
SPECIFICATION Spec
INVARIANTS ViewsAreCommitted AppliedInOrder CaughtUpMeansCurrent 
 
