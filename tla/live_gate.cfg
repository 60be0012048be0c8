SPECIFICATION Spec
CONSTANTS
    Checkers = {cycle, owner}
    Confirm = 2
    Recheck = 4
    BaseBackoff = 1
    MaxBackoff = 3
    MaxAge = 2
    ReviewAfter = 2
    MoveStages = {"discovered", "review", "needs_review", "ready_to_apply", "applying"}
    MaxLag = 1
    FailCap = 3
    Horizon = 4
PROPERTIES GateMeansLive
