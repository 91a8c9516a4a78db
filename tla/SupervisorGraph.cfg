CONSTANTS
    configuration = configuration
    obsidian = obsidian
    finance = finance
    fitness = fitness
    Agents <- MCAgents
    SystemAgent = configuration
    Salvaging <- MCSalvaging
    MaxSteps <- MCMaxSteps
    Plans <- MCPlans
    MaxErrorRetries = 2
    RecursionLimit = 16
    MaxTurns = 2
    MaxAborts = 1
    MaxEdits = 1
SPECIFICATION FairSpec
INVARIANTS
    TypeOK
    RetriesAreBounded
    FinishedTurnReplies
    FinishedTurnIsClean
    OnlyWiredAgentsRun
    StepBudget
PROPERTIES
    NoUnearnedRepeat
    QueueFollowsPlan
    TurnEnds
CHECK_DEADLOCK FALSE
