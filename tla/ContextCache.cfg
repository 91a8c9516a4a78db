CONSTANTS
    supervisor = supervisor
    agent1 = agent1
    agent2 = agent2
    p1 = p1
    p2 = p2
    Turns = {supervisor, agent1, agent2}
    Supervisors = {supervisor}
    Prints = {p1}
    MaxCreates = 5
    MaxAged = 1
    MaxLost = 2
SPECIFICATION Spec
CHECK_DEADLOCK FALSE
INVARIANTS
    StoredIsCurrent
    MissedIsNotHandedBack
PROPERTIES
    DroppedByItsMiss
    EveryTurnEnds
