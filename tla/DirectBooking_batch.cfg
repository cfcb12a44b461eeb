SPECIFICATION Spec
CONSTANTS
    b1 = b1
    b2 = b2
    s1 = s1
    r1 = r1
    r2 = r2
    Bookings <- TwoBookings
    Spaces <- OneSpace
    SpaceOf <- SameSpace
    Start <- NextStart
    End <- NextEnd
    Free <- Nobody
    Requests <- OneRequest
    HoldUnits = 1
    ResponseUnits <- Units1
    WorkerBatch = 2
    NoBooking = NoBooking
    NoDeadline = NoDeadline
PROPERTY
    ConfirmedIsFinal
CHECK_DEADLOCK FALSE
