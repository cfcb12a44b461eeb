SPECIFICATION AcctSpec
CONSTANTS
    Devices = {d1}
    Calls = {c1}
    MaxTokens = 1
    Links = {k1}
    MaxPassword = 1
    Offline = FALSE
    Handlers = {"booking"}
SYMMETRY Interchangeable
PROPERTY DeletableWithoutBooking
CHECK_DEADLOCK FALSE
