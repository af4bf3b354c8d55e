\* Listeners that share route configurations, rules without pools, with one
\* and with two, pickers at the boundaries.
CONSTANTS
    p1 = p1
    p2 = p2
    Listeners = {l1, l2, probe}
    ProbeListeners = {probe}
    RouteCfgs = {c1, c2}
    Routes = {r1, r2}
    Rules = {u1, u2}
    Pools = {p1, p2}
    ResourceLists <- MixedLists
    Specs <- BoundarySpecs
    MetadataPresent = {TRUE}
    NoHCM = NoHCM
    NoRds = NoRds
    NoCfg = NoCfg
    Unusable = Unusable
    NoPool = NoPool
SPECIFICATION Spec
SYMMETRY Symmetric
INVARIANTS
    TypeOK
    OnlyPoolRoutesArePicked
    PickersAreAsDeclared
    HeaderRoutedIsPicked
    ChainsStayValid
