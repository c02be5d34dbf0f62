SPECIFICATION Spec
CONSTANTS
    p1 = p1  p2 = p2  d = d  s1 = s1  s2 = s2
    small = small  other = other  cloud = cloud  None = None
    Calls = {p1, p2, d}
    Sessions = {s1, s2}
    Clients <- MCClients
    SessionOf <- MCSessionOf
    Models = {small, other, cloud}
    Local = {small, other}
    Native = {cloud}
    Keyed = {cloud}
    Order <- MCOrder
    MaxConcurrency = 1
    MaxDrafts = 2
    MaxChunks = 2
INVARIANTS LockIsSafe AnsweredAndPaidOnce
PROPERTY RequestsEnd
CHECK_DEADLOCK FALSE
