------------------------------- MODULE Follower -------------------------------
(***************************************************************************)
(* What a configuration pipeline promises for every key: the copy it       *)
(* serves was written at the source at some time, and it never goes back   *)
(* to an older one, except that a restart forgets it.  It may skip values  *)
(* and it may lag for ever; the liveness properties of the implementation  *)
(* say when it catches up.                                                 *)
(***************************************************************************)
EXTENDS Naturals

CONSTANT Keys

VARIABLES
    source,   \* the number of the newest edit of each key
    copy      \* the number of the edit that is served, 0 for none

vars == <<source, copy>>

TypeOK == source \in [Keys -> Nat] /\ copy \in [Keys -> Nat]

Init == source \in [Keys -> Nat] /\ copy = [k \in Keys |-> 0]

Write(k) ==
    /\ source'[k] \in Nat /\ source'[k] > source[k]
    /\ source' = [source EXCEPT ![k] = source'[k]]
    /\ UNCHANGED copy

(* One read of the source may bring several keys up to date.                *)
Follow ==
    /\ copy' = [k \in Keys |-> copy'[k]]
    /\ \A k \in Keys :
          /\ copy'[k] \in Nat
          /\ copy[k] <= copy'[k] /\ copy'[k] <= source[k]
    /\ UNCHANGED source

Forget == copy' = [k \in Keys |-> 0] /\ UNCHANGED source

Next == (\E k \in Keys : Write(k)) \/ Follow \/ Forget

Spec == Init /\ [][Next]_vars
=============================================================================
