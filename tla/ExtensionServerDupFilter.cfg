\* Two routes to one pool.
CONSTANTS
    p1 = p1
    p2 = p2
    Listeners = {l1}
    ProbeListeners = {}
    RouteCfgs = {c1}
    Routes = {r1, r2}
    Rules = {u1, u2}
    Pools = {p1, p2}
    ResourceLists <- OnePoolLists
    Specs <- PlainSpecs
    MetadataPresent = {TRUE}
    NoHCM = NoHCM
    NoRds = NoRds
    NoCfg = NoCfg
    Unusable = Unusable
    NoPool = NoPool
SPECIFICATION Spec
INVARIANTS
    FilterIsAddedOnce
