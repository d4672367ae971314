--------------------------- MODULE MCRuntimeManager ---------------------------
(* Small instances of RuntimeManager for TLC. *)
EXTENDS RuntimeManager

CONSTANTS a, b, x, a1, a2, b1, x1

\* Two workloads of the agent and one of another agent.  The first has two
\* configurations: one waits for the other agent's workload, one for nothing.
MCNameOf == [c \in Config |-> IF c = b1 THEN b ELSE IF c = x1 THEN x ELSE a]
MCAddDeps ==
  [c \in Config |-> CASE c = a1 -> {<<x, "AddCondRunning">>}
                      [] c = b1 -> {<<a, "AddCondRunning">>}
                      [] OTHER -> {}]
OneOfAName == {S \in SUBSET Local : \A c, d \in S : NameOf[c] = NameOf[d] => c = d}
MCDelDeps == {{}, {<<x, "DelCondNotPendingNorRunning">>}}
=============================================================================
