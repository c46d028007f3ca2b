CONSTANTS
    Tx = {t}
    Peer = {p, q}
    Sender = p
    Call = {c, d}
    Clue = {"x", "y", "z"}
    None = None
    Index = {0, 1, 2}
    Output = {0, 1}
    Requests <- RetryRequests
    Registrations <- MCRegistrations
    Opaque = {}
    Ttl = 1
    MaxBinds = 1
    MaxTime = 2
    MaxCalls = 2
    OneCallPerTx = FALSE
    Resends = TRUE
SPECIFICATION MCSpec
PROPERTY
    FirstWriterWins
CHECK_DEADLOCK FALSE
