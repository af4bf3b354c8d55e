\* Everything may happen: both controllers, every kind of edit and fault.
CONSTANTS
    Pods = {p1, p2}
    Selectors = {s1, s2}
    MaxPorts = 2
    Instances = {1, 2, 3}
    MaxEdits = 4
    EditKinds = {"podReady", "podDelete", "relabel", "poolSelector", "poolPorts",
                 "poolDelete", "listError", "unlabelled"}
    NoLabel = NoLabel
    NoObj = NoObj
    NoInst = NoInst
SPECIFICATION Spec
SYMMETRY Symmetric
CHECK_DEADLOCK FALSE
INVARIANTS
    TypeOK
    ServedEndpointsAreLive
    NoLeakWithoutOverlap
PROPERTY ReconcilesAreBounded
