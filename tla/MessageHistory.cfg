CONSTANTS
    a = a
    b = b
    Agents = {a, b}
    Sizes = {1, 3}
    MaxTokens = 6
    MarkerTokens = 1
    HumanTurns = 1
    MaxAsked = 2
    MaxDelegated = 2
    MaxCalls = 2
SYMMETRY Alike
SPECIFICATION HistorySpec
CHECK_DEADLOCK FALSE
INVARIANTS
    BatchesStayWhole
PROPERTIES
    OnlyOldTurnsGo
