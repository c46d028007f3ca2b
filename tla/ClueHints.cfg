CONSTANTS
    Tx = {t, u}
    Peer = {p, q}
    Sender = p
    Call = {c, d}
    Clue = {"x", "y", "z"}
    None = None
    Index = {0, 1, 2}
    Output = {0, 1}
    Requests <- MCRequests
    Registrations <- MCRegistrations
    Opaque = {u}
    Ttl = 1
    MaxBinds = 1
    MaxTime = 2
    MaxCalls = 2
    OneCallPerTx = TRUE
    Resends = FALSE
SYMMETRY Symmetry
SPECIFICATION MCSpec
INVARIANTS
    TypeOK
    BindsBounded
    RejectedParksNothing
    AcceptedClueKept
    SentCluesIndexed
    RegisterFromSender
PROPERTIES
    FirstWriterWins
CHECK_DEADLOCK FALSE
