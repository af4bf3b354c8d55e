\* A route that arrives without metadata.
CONSTANTS
    p1 = p1
    p2 = p2
    Listeners = {l1}
    ProbeListeners = {}
    RouteCfgs = {c1}
    Routes = {r1}
    Rules = {u1}
    Pools = {p1, p2}
    ResourceLists <- OnePoolLists
    Specs <- PlainSpecs
    MetadataPresent = {TRUE, FALSE}
    NoHCM = NoHCM
    NoRds = NoRds
    NoCfg = NoCfg
    Unusable = Unusable
    NoPool = NoPool
SPECIFICATION Spec
INVARIANTS
    MissingMetadataIsInitialised
