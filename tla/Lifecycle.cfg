CONSTANTS
    Host = host
    Users = {ana, ben}
    Roles = {"debater-A", "debater-B"}
    Anonymous = anonymous
    Watchers = {ana, anonymous}
    Requests = {r1}
    MaxLog = 6
SPECIFICATION Spec
INVARIANTS
    SeatsAreExclusive
    LogAndRowsAgree
    RegistryFollowsVisibility
PROPERTIES
    PruneReachesEverybody
CHECK_DEADLOCK FALSE
