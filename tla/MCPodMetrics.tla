---------------------------- MODULE MCPodMetrics ----------------------------
(* A small instance of PodMetrics for TLC. *)
EXTENDS PodMetrics

\* Model servers label their gauges with the model's name; one gauge is
\* configured as by default, without labels, the other for one model.
MCModelLabels == [m \in {"base", "other"} |-> {m}]
MCSpecLabels == [g \in Gauges |-> IF g = "KVCacheUtilization" THEN {"base"}
                                  ELSE {}]
=============================================================================
