------------------------------- MODULE MCLws -------------------------------
(* Small instances of Lws for TLC. *)
EXTENDS Lws, TLC

CONSTANTS v1, v2, v3, k1, k2, k3

\* Two versions with workers and one without.
Sizes == (v1 :> 3) @@ (v2 :> 2) @@ (v3 :> 1)
Hashes == (v1 :> k1) @@ (v2 :> k2) @@ (v3 :> k3)
=============================================================================
