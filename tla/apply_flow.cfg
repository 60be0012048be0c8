SPECIFICATION FairSpec
CONSTANTS
    Sessions = {s1}
    HoldTasks = {h1, h2}
    NoTask = NoTask
INVARIANTS TypeOK HeldHasTask NextStepKnown AppFollowsJob
PROPERTIES MovesAreLegal DryRunEnds
CHECK_DEADLOCK FALSE
