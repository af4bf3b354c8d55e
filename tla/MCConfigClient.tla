--------------------------- MODULE MCConfigClient ---------------------------
(* Small instances of ConfigClient; every type of the tables is tried.      *)
EXTENDS ConfigClient

CONSTANTS n1, n2, r1, r2

MCKinds == All

MCNamespaces == {n1, n2}

MCReaders == {r1, r2}
=============================================================================
