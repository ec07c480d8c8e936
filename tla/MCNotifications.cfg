CONSTANTS
    a = a
    b = b
    s = s
    c1 = c1
    None = None
    Token = {0,1}
    Client = {c1}
    Api = {a, b}
    Standalone = {}
    MaxKeys = 1

SPECIFICATION MCSpec
INVARIANT NotifyTypeOK
INVARIANT ClientsMatchSockets
PROPERTY SilentClientLeaves
PROPERTY AnsweringClientStays
PROPERTY UnlockNewsArrives
