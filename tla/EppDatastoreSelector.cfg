\* The pool gets another selector.
CONSTANTS
    Pods = {p1}
    Selectors = {s1, s2}
    MaxPorts = 1
    Instances = {1, 2}
    MaxEdits = 3
    EditKinds = {"poolSelector"}
    NoLabel = NoLabel
    NoObj = NoObj
    NoInst = NoInst
SPECIFICATION Spec

CHECK_DEADLOCK FALSE
INVARIANT SelectedPodsAreServed
