---------------------------- MODULE MCXdsStream ----------------------------
(* Small instances of XdsStream.                                            *)
EXTENDS XdsStream

CONSTANTS cds, lds

MCTypes == {cds, lds}
=============================================================================
