SPECIFICATION FairSpec
CONSTANTS
    verification = verification
    cancelled = cancelled
    timeout = timeout
    Keys <- Mails
    Kind <- OneOfEach
    Requests = {r1, r2}
    Workers = {w1, w2}
    Limit = 2
    MaxCrashes = 1
INVARIANT MailedOncePerLife SentWasMailed
PROPERTY EventHasMail QueuedIsSettled
CHECK_DEADLOCK FALSE
