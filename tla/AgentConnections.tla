-------------------------- MODULE AgentConnections --------------------------
(***************************************************************************)
(* The gRPC middleware between the server task and the agents: the         *)
(* handler of an agent's connection (grpc_agent_connection.rs), its        *)
(* forwarding of the agent's messages (to_server_proxy.rs), the            *)
(* distribution of the server's messages (from_server_proxy.rs,            *)
(* agent_senders_map.rs) and the reconnecting client (client.rs).          *)
(* The capacity of the channels is left out.                               *)
(***************************************************************************)
EXTENDS FromServerProxy, Functions

CONSTANTS
  MaxConnections  \* over all agents

VARIABLES
  agent_senders,  \* per agent: the connection whose sender is stored, or 0
  connection,     \* per connection: its two streams and the tasks at their ends
  session,        \* per agent: the connection its client uses, or 0
  astray          \* instances with a deletion or a report that did not arrive, was
                  \* not answered, or came from a connection the agent had left

connVars == <<agent_senders, connection, session, astray>>

Connection == 1 .. MaxConnections

\* task is where connect_agent, or the task it spawns, stands: "hello" between
\* storing the sender and passing on the hello, "forward", "failed" between
\* removing the sender and reporting the agent gone, "ended".
\* up: the network connection works; closed: the client has ended it.
Unused == [agent |-> NoAgent, task |-> "unused", up |-> FALSE, closed |-> FALSE,
           from_agent |-> <<>>, to_agent |-> <<>>]

\* The instances that messages to an agent delete, and those of which messages
\* from an agent tell.
Deletions(M) ==
  UNION {{d.instance : d \in m.deleted} : m \in {x \in M : x.kind = "UpdateWorkload"}}
Reports(M) ==
  UNION {{s[1] : s \in m.states} : m \in {x \in M : x.kind = "UpdateWorkloadState"}}

-----------------------------------------------------------------------------
(* The agent's client *)

\* run_internal: connect and say hello.  The sender of the new connection
\* replaces the one of an older connection of that name.
connect_agent(a) ==
  /\ session[a] = 0
  /\ \E c \in Connection :
       /\ connection[c] = Unused /\ \A d \in Connection : d < c => connection[d] # Unused
       /\ connection' = [connection EXCEPT ![c] =
            [Unused EXCEPT !.agent = a, !.task = "hello", !.up = TRUE]]
       /\ agent_senders' = [agent_senders EXCEPT ![a] = c]
       /\ session' = [session EXCEPT ![a] = c]
  /\ UNCHANGED <<serverVars, to_server, to_agents, astray>>

\* The client finds its connection interrupted, or at the end of the stream,
\* which the server ends by dropping the sender.  What it has not read is lost, and so
\* is what it will not say of the instances in Unsaid.
LeaveConnection(a, Unsaid) ==
  LET c == session[a]
  IN /\ session' = [session EXCEPT ![a] = 0]
     /\ connection' = [connection EXCEPT ![c].closed = TRUE, ![c].up = FALSE,
                                         ![c].to_agent = <<>>]
     /\ astray' = astray \cup Deletions(Range(connection[c].to_agent)) \cup Unsaid

StreamEnds(c) == agent_senders[connection[c].agent] # c /\ connection[c].to_agent = <<>>

ClientLosesConnection(a) ==
  /\ session[a] # 0
  /\ LET c == session[a]
     IN connection[c].task # "hello" /\ (~connection[c].up \/ StreamEnds(c))
  /\ LeaveConnection(a, {})

-----------------------------------------------------------------------------
(* The server's side of a connection *)

agent_hello(c) ==
  /\ connection[c].task = "hello"
  /\ connection' = [connection EXCEPT ![c].task = "forward"]
  /\ to_server' = Append(to_server, AgentHello(connection[c].agent))
  /\ UNCHANGED <<serverVars, to_agents, agent_senders, session, astray>>

\* forward_from_proto_to_ankaios of to_server_proxy.rs.
forward_to_server(c) ==
  /\ connection[c].task = "forward" /\ connection[c].from_agent # <<>>
  /\ to_server' = Append(to_server, Head(connection[c].from_agent))
  /\ connection' = [connection EXCEPT ![c].from_agent = Tail(@)]
  /\ astray' = IF connection[c].closed THEN astray \cup Reports({Head(connection[c].from_agent)}) ELSE astray
  /\ UNCHANGED <<serverVars, to_agents, agent_senders, session>>

\* The stream ends with an error: the sender stored under the agent's name is
\* removed, whichever connection it belongs to.
ForwardFails(c) ==
  /\ connection[c].task = "forward" /\ ~connection[c].up
  /\ agent_senders' = [agent_senders EXCEPT ![connection[c].agent] = 0]
  /\ connection' = [connection EXCEPT ![c].task = "failed", ![c].from_agent = <<>>]
  /\ astray' = astray \cup Reports(Range(connection[c].from_agent))
  /\ UNCHANGED <<serverVars, to_server, to_agents, session>>

agent_gone(c) ==
  /\ connection[c].task = "failed"
  /\ connection' = [connection EXCEPT ![c].task = "ended"]
  /\ to_server' = Append(to_server, AgentGone(connection[c].agent))
  /\ UNCHANGED <<serverVars, to_agents, agent_senders, session, astray>>

\* The client has ended the stream in order: no error, and nothing more to do.
ForwardEnds(c) ==
  /\ connection[c].task = "forward" /\ connection[c].closed
  /\ connection[c].from_agent = <<>>
  /\ connection' = [connection EXCEPT ![c].task = "ended"]
  /\ UNCHANGED <<serverVars, to_server, to_agents, agent_senders, session, astray>>

\* An interruption: each end finds out by itself.
NetworkFails(c) ==
  /\ connection[c].task = "forward" /\ connection[c].up
  /\ connection' = [connection EXCEPT ![c].up = FALSE]
  /\ UNCHANGED <<serverVars, to_server, to_agents, agent_senders, session, astray>>

-----------------------------------------------------------------------------
(* forward_from_ankaios_to_proto of from_server_proxy.rs *)

Reaches(a) == agent_senders[a] # 0 /\ connection[agent_senders[a]].up

\* A message for an agent that has no sender is dropped, and so is one that goes
\* into a connection that does not work any more.  The agents are served one after
\* the other; no agent can tell, as its own messages keep their order.
Deliver(m) ==
  /\ astray' = astray \cup UNION {Deletions(Range(ForAgent(m, a))) : a \in {b \in Agent : ~Reaches(b)}}
  /\ connection' = [c \in Connection |->
       LET a == connection[c].agent
       IN IF a \in Agent /\ agent_senders[a] = c /\ Reaches(a)
          THEN [connection[c] EXCEPT !.to_agent = @ \o ForAgent(m, a)]
          ELSE connection[c]]

forward_from_server ==
  /\ to_agents # <<>> /\ to_agents' = Tail(to_agents)
  /\ Deliver(Head(to_agents))
  /\ UNCHANGED <<serverVars, to_server, agent_senders, session>>

-----------------------------------------------------------------------------
ConnInit ==
  /\ agent_senders = [a \in Agent |-> 0]
  /\ connection = [c \in Connection |-> Unused]
  /\ session = [a \in Agent |-> 0]
  /\ astray = {}

\* What the tasks of a connection do by themselves.
ConnTask(c) ==
  \/ agent_hello(c) \/ forward_to_server(c) \/ ForwardFails(c) \/ agent_gone(c)
  \/ ForwardEnds(c)

=============================================================================
