SPECIFICATION FairSpec
CONSTANTS
    b1 = b1
    b2 = b2
    s1 = s1
    r1 = r1
    r2 = r2
    Bookings <- TwoBookings
    Spaces <- OneSpace
    SpaceOf <- SameSpace
    Start <- SameStart
    End <- SameEnd
    Free <- JustB2
    Requests <- TwoRequests
    HoldUnits = 1
    ResponseUnits <- Units1
    WorkerBatch = 2
    NoBooking = NoBooking
    NoDeadline = NoDeadline
INVARIANTS
    TypeOK NoDoubleBooking ConfirmedIsPaid PaidIsHonoured
PROPERTIES
    ImplementsLedger ConfirmedOnlyCancelled
    RefundStaysOwed DeadlineEnforced
CHECK_DEADLOCK FALSE
