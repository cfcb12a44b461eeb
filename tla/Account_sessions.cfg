SPECIFICATION AcctSpec
CONSTANTS
    Devices = {d1}
    Calls = {c1, c2}
    MaxTokens = 2
    Links = {k1, k2}
    MaxPassword = 2
    Offline = TRUE
    Handlers = {"name", "vehicle", "booking"}
SYMMETRY Interchangeable
INVARIANT AcctTypeOK OldSessionsEnd  StoredIsUsable NoBookingOfDeleted
PROPERTY LinkUsedOnce
CHECK_DEADLOCK FALSE
