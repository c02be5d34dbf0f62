SPECIFICATION Spec
CONSTANTS
    Clients = {c1, c2}
    Sessions = {s1}
    r1 = r1
    r2 = r2
    Reqs <- MCReqs
    Kinds <- MCKinds
    MaxSockets = 2
    MaxAnswers = 1
    MaxChunks = 1
INVARIANTS
    TablesFollowRequests
    RoutesFollowSockets
PROPERTIES
    ImplementsRequest
\* The link goes quiet when every request is settled and no socket is left.
CHECK_DEADLOCK FALSE
