-------------------------- MODULE MCGatewayPipeline --------------------------
(* A small instance of GatewayPipeline for TLC. *)
EXTENDS GatewayPipeline

CONSTANTS c1, g1, g2

\* Both gateways start in one class.
ClassesOf == {[g \in Gateways |-> c1]}

\* A route of both gateways.
Refs == {{[kind |-> "unset", key |-> g1], [kind |-> "Gateway", key |-> g2]}}
=============================================================================
