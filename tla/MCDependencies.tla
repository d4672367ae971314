--------------------------- MODULE MCDependencies ---------------------------
(* A small instance of Dependencies for TLC. *)
EXTENDS Dependencies

CONSTANTS a1, a2, v, w, i, j

\* w, on another agent, depends on v.
v1 == [name |-> v, agent |-> a1, id |-> i, deps |-> {}]
v2 == [name |-> v, agent |-> a1, id |-> j, deps |-> {}]
w1 == [name |-> w, agent |-> a2, id |-> i, deps |-> {<<v, "AddCondRunning">>}]
MCWorkload == {v1, v2, w1}
MCUpdate == {[mask |-> {v, w}, new |-> {}], [mask |-> {w}, new |-> {}],
             [mask |-> {v}, new |-> {v2}]}
MCStartup == {{v1, w1}}
=============================================================================
