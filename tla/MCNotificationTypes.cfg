CONSTANTS
    a = a
    b = b
    s = s
    c1 = c1
    None = None
    Token = {1}
    Client = {c1}
    Api = {a, b}
    Standalone = {s}
    MaxKeys = 1

SPECIFICATION NotifySpec
PROPERTY SubscriberHearsToken
CHECK_DEADLOCK FALSE
