CONSTANTS
    configuration = configuration
    obsidian = obsidian
    finance = finance
    fitness = fitness
    Agents <- MCAgents
    SystemAgent = configuration
    Salvaging <- MCSalvaging
    MaxSteps <- MCMaxSteps
    Plans <- MCPlans
    MaxErrorRetries = 2
    RecursionLimit = 16
    MaxTurns = 1
    MaxAborts = 0
    MaxEdits = 0
SPECIFICATION FairSpec
PROPERTY ToolErrorsAreHandedOff
CHECK_DEADLOCK FALSE
