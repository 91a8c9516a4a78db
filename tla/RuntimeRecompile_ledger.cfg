CONSTANTS
    c1 = c1
    c2 = c2
    finance = finance
    obsidian = obsidian
    money = money
    shipped = shipped
    none = none
    Calls = {c1, c2}
    Agents = {finance, obsidian}
    Wirings = {money}
    Finance = {money}
    Readers = {}
    Shipped = shipped
    NoRequest = none
    MaxChain = 2
SPECIFICATION Spec
CHECK_DEADLOCK FALSE
INVARIANTS
    LedgerStaysOpen
