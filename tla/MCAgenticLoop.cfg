SPECIFICATION FairSpec
CONSTANTS
    Pipelines = {"default", "default_memory"}
    Limited = TRUE
    Faults = {"config", "crash"}
    MaxRounds = 2
    MaxCalls = 2
    MaxTurns = 2
    MaxFailures = 1
INVARIANTS
    EveryRequestWellFormed
    FirstRequestCarriesBatch
    ToolTalkSentOnce
PROPERTIES
    TurnEnds
