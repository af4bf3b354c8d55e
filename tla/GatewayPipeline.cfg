\* Two classes, two gateways that may move between them, a route of both.
CONSTANTS
    Classes = {c1, c2}
    c1 = c1
    g1 = g1
    g2 = g2
    Gateways = {g1, g2}
    Routes = {r1}
    None = None
    Starts <- ClassesOf
    RouteRefs <- Refs
    MaxEvents = 3
    MaxVersion = 2
CHECK_DEADLOCK FALSE
SPECIFICATION FairSpec
INVARIANTS
    TypeOK
    SettledGatewaysAreCurrent
    SettledRoutesAreCurrent
PROPERTIES
    FollowsGateways
    ComesToRest
