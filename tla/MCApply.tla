------------------------------ MODULE MCApply ------------------------------
(* A small instance of Apply for TLC. *)
EXTENDS Apply

CONSTANTS a1, v, i, j

\* A workload with two runtime configurations.
v1 == [name |-> v, agent |-> a1, id |-> i, deps |-> {}]
v2 == [name |-> v, agent |-> a1, id |-> j, deps |-> {}]
MCWorkload == {v1, v2}
MCUpdate == {[mask |-> {v}, new |-> {}], [mask |-> {v}, new |-> {v2}]}
MCManifest == {[mask |-> {v}, new |-> {v2}], None}
MCStartup == {{}, {v1}, {v2}}
=============================================================================
