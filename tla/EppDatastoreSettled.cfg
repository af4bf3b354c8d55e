\* The pool is created once; pods come, get ready, fail and go.
CONSTANTS
    Pods = {p1}
    Selectors = {s1, s2}
    MaxPorts = 2
    Instances = {1, 2, 3, 4, 5, 6}
    MaxEdits = 5
    EditKinds = {"podReady", "podDelete", "unlabelled"}
    NoLabel = NoLabel
    NoObj = NoObj
    NoInst = NoInst
SPECIFICATION FairSpec
CHECK_DEADLOCK FALSE
INVARIANT QuietStoreMatchesCluster
PROPERTY ReconcilesReturn
