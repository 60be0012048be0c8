SPECIFICATION Spec
CONSTANTS
    Sessions = {s1}
    HoldTasks = {h1}
    NoTask = NoTask
PROPERTIES OnlyApprovedAreDryRun
CHECK_DEADLOCK FALSE
