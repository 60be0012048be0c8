SPECIFICATION Spec
CONSTANTS
    Sessions = {s1}
    HoldTasks = {h1}
    NoTask = NoTask
INVARIANTS ApprovedGoesOn
CHECK_DEADLOCK FALSE
