\* Two readers in two namespaces, every type, three writes, one lost watch.
SPECIFICATION FairSpec
CONSTANTS
    n1 = n1
    n2 = n2
    r1 = r1
    r2 = r2
    Kinds <- MCKinds
    Namespaces <- MCNamespaces
    Readers <- MCReaders
    MaxEdits = 3
    MaxBreaks = 1
CHECK_DEADLOCK FALSE
INVARIANTS
    TablesAgree
    OneVersionOneContent
PROPERTIES
    CacheCatchesUp
