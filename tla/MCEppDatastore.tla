--------------------------- MODULE MCEppDatastore ---------------------------
(* Small instances of EppDatastore for TLC. *)
EXTENDS EppDatastore, TLC

Symmetric == Permutations(Pods) \cup Permutations(Selectors)
=============================================================================
