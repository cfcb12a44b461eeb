SPECIFICATION Spec
CONSTANTS
    Sessions = {s1, s2}
    Bookings = {b1, b2}
    Verifications = {v1, v2}
SYMMETRY Interchangeable
PROPERTY BookedOnlyWhenActive
CHECK_DEADLOCK FALSE
