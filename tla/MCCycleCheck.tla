---------------------------- MODULE MCCycleCheck ----------------------------
(* An instance of CycleCheck: all graphs in which at most the workload Looping *)
(* depends on itself.                                                          *)
EXTENDS CycleCheck

Looping == 3
Graphs == {g \in [Workload -> SUBSET Workload] : \A w \in Workload : w \in g[w] => w = Looping}

=============================================================================
