CONSTANTS
    Tx = {t}
    Peer = {p, q}
    Sender = p
    Call = {c}
    Clue = {"x", "y", "z"}
    None = None
    Index = {0, 1, 2}
    Output = {0, 1}
    Requests <- AdvisedRequests
    Registrations <- MCRegistrations
    Opaque = {}
    Ttl = 1
    MaxBinds = 1
    MaxTime = 2
    MaxCalls = 2
    OneCallPerTx = TRUE
    Resends = TRUE
SPECIFICATION MCSpec
INVARIANT
    AcceptedClueKept
CHECK_DEADLOCK FALSE
