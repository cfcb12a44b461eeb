SPECIFICATION Spec
CONSTANTS
    Sessions = {s1, s2}
    Bookings = {b1, b2, b3}
    Verifications = {v1, v2}
    Ratings = {1, 4}
    Others = {p2, p3, p4, p5}
    FreeLimit = 1
    ProLimit = 2
    MaxUnchecked = 1
    First = p1
SYMMETRY Interchangeable
INVARIANT TypeOK ActiveBookingHasSpace BadgeMatchesReview OverrunBounded AggregatesRecover AggregatesPlausible
PROPERTY VerdictIsFinal DeletedHostStops
CHECK_DEADLOCK FALSE
