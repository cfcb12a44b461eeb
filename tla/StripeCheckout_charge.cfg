SPECIFICATION FairSpec
CONSTANTS
    h1 = h1
    x1 = x1
    r1 = r1
    r2 = r2
    Requests = {r1, r2}
    Hooks = {h1}
    Rivals = {x1}
    MaxSessions = 2
    Modes = {"stripe"}
    PlainCancel = FALSE
    Declines = {}
PROPERTY ChargeHonoured
CHECK_DEADLOCK FALSE
