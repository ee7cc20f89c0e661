SPECIFICATION MCSpec
CONSTANTS
    Clients = {c1, c2}
    MaxConnections = 4
    Users = {u1, u2}
    MaxQmpLinks = 2
    MaxWaiting = 1
SYMMETRY Symmetry
INVARIANTS
    TypeOK
    AnswersAreOwn
    ExecResultIsReal
    ConnectionsAreReleased
    DoneIsReal
CHECK_DEADLOCK FALSE
