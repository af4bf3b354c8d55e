\* A pod deleted while the pool controller resyncs.
CONSTANTS
    Pods = {p1}
    Selectors = {s1, s2}
    MaxPorts = 1
    Instances = {1, 2}
    MaxEdits = 3
    EditKinds = {"podDelete"}
    NoLabel = NoLabel
    NoObj = NoObj
    NoInst = NoInst
SPECIFICATION Spec

CHECK_DEADLOCK FALSE
INVARIANT DeletedPodLeavesStore
