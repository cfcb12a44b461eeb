SPECIFICATION FairSpec
CONSTANTS
    h1 = h1
    x1 = x1
    r1 = r1
    Requests = {r1}
    Hooks = {h1}
    Rivals = {x1}
    MaxSessions = 1
    Modes = {"stripe", "beta"}
    PlainCancel = TRUE
    Declines = {"payment_failed"}
PROPERTY RefundEndsBooking
CHECK_DEADLOCK FALSE
