SPECIFICATION Spec
CONSTANTS
    t1 = t1
    t2 = t2
    h1 = h1
    h2 = h2
    a1 = a1
    a2 = a2
    r1 = r1
    r2 = r2
    b1 = b1
    b2 = b2
    b3 = b3
    b4 = b4
    k1 = k1
    k2 = k2
    s1 = s1
    s2 = s2
    w1 = w1
    w2 = w2
    fox = fox
    i1 = i1
    i2 = i2
    n1 = n1
    MaxTime = 5
    Tunnels = {t1, t2}
    Pipelines <- MCPipelines
    Traces = {"x", "y"}
    NoTrace = NoTrace
    TTL = 2
    Numbers = {}
    BatchIDs = {}
    Messages <- MCMessages
    RuleSets <- MCRuleSets
    Handlers = {h1, h2}
    Idle0 = Idle0
    Limit = 1
    Retention = 0
    MaxRows = 2
    MaxLogged = 2
    Addrs = {a1, a2}
    Callers = {r1, r2}
    Buckets = {b1, b2, b3, b4}
    Nothing = Nothing
    RPS = 2
    Burst = 2
    IdleLimit = 1
    MaxHold = 1
    TokenIDs = {k1, k2}
    SessionIDs = {s1, s2}
    Browsers = {w1, w2}
    None = None
    TokenTTL = 1
    SessionTTL = 2
    Subdomains = {fox}
    TunnelIDs = {i1, i2}
    Sessions = {n1}
    NoID = NoID
    Nobody = Nobody
    NotReading = NotReading
    MaxRequests = 1
    DefaultLimit = 2
    HostNames <- MCNames
    MaxTunnels = 1
    Words <- MCWords
    NoRequest = NoRequest
    Domain <- MCDomain
    Alphabet = {"a"}
    MaxLabel = 2
    LocalHosts <- MCLocalHosts
    d1 = d1
    d2 = d2
    d3 = d3
    q1 = q1
    q2 = q2
    u1 = u1
    u2 = u2
    f1 = f1
    f2 = f2
    f3 = f3
    c1 = c1
    c2 = c2
    x1 = x1
    x2 = x2
    v1 = v1
    Parts = {"tracker"}
    Writers = {u1, u2}
    Other = Other
    Frames = {f1, f2, f3}
    Length <- MCLength
    MaxFrame = 4
    MaxChunk = 2
    MaxRead = 2
    LastPing = 4
    Free = Free
    Garbled = Garbled
    ClientIDs = {d1, d2, d3}
    Ports = {q1, q2}
    TunnelNames = {"a", "b"}
    Wishes <- MCWishes
    NoClient = NoClient
    MaxFailures = 2
    TCPForward = TRUE
    MaxSend = 2
    Arrivals = {q1, q2}
    PasswordSet = TRUE
    MaxBody = 2
    ServerKeys = {x1, x2}
    Users = {v1}
    NoKey = NoKey
    Commands = {c1, c2}
    Accounts = {"m", "n"}
    Empty = Empty
    Corrupt = Corrupt
    Plans <- MCPlans
    Missing = Missing
    InFlight = {q1, q2}
    NoConn = NoConn
INVARIANT
    OneTracePerTunnel
CHECK_DEADLOCK FALSE
