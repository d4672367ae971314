----------------------------- MODULE MCCluster -----------------------------
(* A small instance of Cluster for TLC. *)
EXTENDS Cluster

CONSTANTS a1, v, i, j

\* A workload with two runtime configurations.
v1 == [name |-> v, agent |-> a1, id |-> i, deps |-> {}]
v2 == [name |-> v, agent |-> a1, id |-> j, deps |-> {}]
MCWorkload == {v1, v2}
MCUpdate == {[mask |-> {v}, new |-> {}], [mask |-> {v}, new |-> {v2}]}
MCStartup == {{v1}}
=============================================================================
