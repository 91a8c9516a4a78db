CONSTANTS
    query1 = query1
    query2 = query2
    Calls = {query1, query2}
    MaxReconnectAttempts = 2
    BaseDelays = {0, 1}
    MaxDelay = 2
SPECIFICATION Spec
CHECK_DEADLOCK FALSE
INVARIANTS
    CurrentIsOpen
    RetriesOnAnother
    NoneLeftOpen
PROPERTIES
    Settles
