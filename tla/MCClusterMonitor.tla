-------------------------- MODULE MCClusterMonitor -------------------------
(* ClusterMonitor for TLC: workers come back once, monitors do not.        *)
EXTENDS ClusterMonitor

WorkersReturn == [n \in Nodes |-> IF n \in Workers THEN 1 ELSE 0]
=============================================================================
