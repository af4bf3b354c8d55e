\* Two servers of two models, a count and the utilisation, and the cache info.
CONSTANTS
    Addresses = {a1, a2}
    Models = {"base", "other"}
    ModelLabels <- MCModelLabels
    Loads = {4, 17}
    Mapping = {"TotalQueuedRequests", "KVCacheUtilization", "CacheConfigInfo"}
    SpecLabels <- MCSpecLabels
    MaxSamples = 2
    MaxTime = 1
    Missing = Missing
    Unreadable = Unreadable
SPECIFICATION FairSpec
INVARIANT TypeOK
PROPERTIES
    GaugesAreScraped
    StoppedLoopEnds
    Converges
