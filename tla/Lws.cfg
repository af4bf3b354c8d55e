\* One leader, three versions, edits, evictions and status updates.
CONSTANTS
    v1 = v1
    v2 = v2
    v3 = v3
    k1 = k1
    k2 = k2
    k3 = k3
    Pods = {p1}
    Versions = {v1, v2, v3}
    Created = v1
    SizeOf <- Sizes
    Keys = {k1, k2, k3}
    Hash <- Hashes
    MaxEdits = 1
    MaxFaults = 1
    NoKey = NoKey
    Absent = Absent
SPECIFICATION FairSpec
CHECK_DEADLOCK FALSE
INVARIANTS
    TypeOK
    LeaderKeyHasRevision
    WorkersAreRecorded
PROPERTIES
    SettledLeadersHaveWorkers
    LeadersGetWorkers
