SPECIFICATION Spec
CONSTANTS
    c1 = c1
    c2 = c2
    c3 = c3
    named = named
    unnamed = unnamed
    fox = fox
    foxSky = foxSky
    NoConn = NoConn
    NoName = NoName
    Conns = {c1, c2}
    Clients = {named, unnamed}
    Names = {fox, foxSky}
    Generated <- MCGenerated
    Suffixes <- MCSuffixes
    Configured <- MCConfigured
    StoreFaults = FALSE
    AdminOps = {"delete"}
PROPERTIES
    EvictedEnds
    GhostLeaves
    WelcomedIsServed
