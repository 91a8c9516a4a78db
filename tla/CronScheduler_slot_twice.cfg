CONSTANTS
    p1 = p1
    p2 = p2
    hourly = hourly
    daily = daily
    Procs = {p1}
    Jobs = {hourly}
    Slots <- MCSlots
    Tolerance = 3
    MaxTime = 3
    MaxFaults = 0
    MaxEdits = 0
SPECIFICATION FairSpec
PROPERTY SlotsRunOnce
