-------------------------- MODULE FromServerProxy --------------------------
(* How the middleware splits the server's messages (from_server_proxy.rs). *)
EXTENDS AnkaiosServer

\* The part of a message that is for agent a: none, or one message.
ForAgent(m, a) ==
  CASE m.kind = "ServerHello" -> IF m.agent = a THEN <<m>> ELSE <<>>
    [] m.kind = "UpdateWorkload" ->
         LET A == {w \in m.added : w.agent = a}
             D == {d \in m.deleted : d.instance.agent = a}
         IN IF A \cup D = {} THEN <<>> ELSE <<UpdateWorkload(A, D)>>
    [] m.kind = "UpdateWorkloadState" -> StatesMessage({s \in m.states : s[1].agent # a})
    [] OTHER -> <<>>

=============================================================================
