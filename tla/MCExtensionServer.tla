------------------------- MODULE MCExtensionServer -------------------------
(* Small instances of ExtensionServer for TLC. *)
EXTENDS ExtensionServer

CONSTANTS p1, p2

Picker(port, mode, override) ==
    [port |-> port, mode |-> mode, override |-> override]
Both(s1, s2) == [p \in Pools |-> IF p = p1 THEN s1 ELSE s2]

\* Every boundary of the port and every kind of annotation value.  A nil port
\* is treated as one out of range, here -1.
BoundarySpecs ==
    {Both(Picker(-1, "bogus", "yes"), Picker(65535, "buffered", "true")),
     Both(Picker(0, "absent", "false"), Picker(65536, "duplex", "absent")),
     Both(Picker(65536, "buffered", "absent"), Picker(0, "bogus", "true"))}
PlainSpecs == {Both(Picker(9003, "absent", "absent"),
                    Picker(9003, "absent", "absent"))}

OnePoolLists == {<<>>, <<p1>>, <<p2>>}
MixedLists == {<<Unusable>>, <<p1>>, <<Unusable, p2>>, <<p1, p2>>}

Symmetric == Permutations(Listeners \ ProbeListeners)
                \cup Permutations(RouteCfgs) \cup Permutations(Routes)
                \cup Permutations(Rules)
=============================================================================
