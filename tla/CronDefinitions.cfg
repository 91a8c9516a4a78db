CONSTANTS
    sync = sync
    report = report
    finance = finance
    daily = daily
    weekly = weekly
    never = never
    blank = blank
    Blank = {blank}
    Jobs = {sync, report}
    Agents = {finance}
    Schedules = {daily, weekly, never, blank}
    Valid = {daily, weekly}
    MaxEdits = 3
    MaxReconciles = 2
    MaxStarts = 2
SPECIFICATION Spec
CHECK_DEADLOCK FALSE
INVARIANTS
    ScheduleFollowsFile
PROPERTIES
    Settles
