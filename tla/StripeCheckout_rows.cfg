SPECIFICATION Spec
CONSTANTS
    h1 = h1
    x1 = x1
    r1 = r1
    Requests = {r1}
    Hooks = {h1}
    Rivals = {x1}
    MaxSessions = 2
    Modes = {"stripe", "beta"}
    PlainCancel = TRUE
    Declines = {"completed_unpaid"}
INVARIANT NoDoubleBooking ConfirmedIsCharged RefundIsReal PaidIsHonoured CodesOnlyWhileConfirmed
PROPERTY ConfirmedOnlyCancelled ImplementsLedger
CHECK_DEADLOCK FALSE
