CONSTANTS
    p1 = p1
    p2 = p2
    hourly = hourly
    daily = daily
    Procs = {p1}
    Jobs = {hourly, daily}
    Slots <- MCSlots
    Tolerance = 3
    MaxTime = 3
    MaxFaults = 2
    MaxEdits = 1
SPECIFICATION FairSpec
INVARIANTS
    TypeOK
    RunsDoNotOverlap
    NoTaskLeftStopped
PROPERTIES
    DueSlotsAreServed
    ImplementsJobRuns
