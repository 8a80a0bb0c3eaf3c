SPECIFICATION Spec
CONSTANTS
    c1 = c1
    c2 = c2
    h1 = h1
    h2 = h2
    p1 = p1
    fox = fox
    NoConn = NoConn
    Nothing = Nothing
    Conns = {c1, c2}
    Names = {fox}
    Hooks = {h1}
    Replays = {}
    NameOf <- MCNameOf
    StoreFaults = FALSE
INVARIANT
    DeletedTunnelHasNoRequests
