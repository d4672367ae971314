-------------------------- MODULE LogCampaignStore --------------------------
(***************************************************************************)
(* The server's memory of who collects the logs of whom                    *)
(* (log_campaign_store.rs).  A request is known by its collector, a        *)
(* command line client or a workload with its agent (request_id.rs), and   *)
(* by the agents of the workloads whose logs it asks for.  Absent entries  *)
(* are empty sets; an instance that a request names twice counts once.     *)
(***************************************************************************)

CONSTANTS Agent, Name, Cli, Id

CliRequestId == [cli : Cli, id : Id]
AgentRequestId == [agent : Agent, workload : Name, id : Id]
RequestId == CliRequestId \cup AgentRequestId

\* The hash of the instance name is left out.
Instance == [name : Name, agent : Agent]

Store ==
  [agent_log_request_ids_store : [Agent -> SUBSET AgentRequestId],
   workload_name_request_id_store : [Name -> SUBSET AgentRequestId],
   log_providers_store : [Agent -> [RequestId -> SUBSET Instance]],
   cli_log_request_id_store : [Cli -> SUBSET CliRequestId]]

EmptyStore ==
  [agent_log_request_ids_store |-> [a \in Agent |-> {}],
   workload_name_request_id_store |-> [n \in Name |-> {}],
   log_providers_store |-> [a \in Agent |-> [r \in RequestId |-> {}]],
   cli_log_request_id_store |-> [c \in Cli |-> {}]]

-----------------------------------------------------------------------------
InsertRequest(s, r) ==
  IF r \in CliRequestId
  THEN [s EXCEPT !.cli_log_request_id_store[r.cli] = @ \cup {r}]
  ELSE [s EXCEPT !.workload_name_request_id_store[r.workload] = @ \cup {r},
                 !.agent_log_request_ids_store[r.agent] = @ \cup {r}]

\* Mutant: every agent is noted as a provider of all the instances.
insert_log_campaignMutant(s, r, P) ==
  [InsertRequest(s, r) EXCEPT !.log_providers_store =
     [a \in Agent |-> [s.log_providers_store[a] EXCEPT ![r] = @ \cup P]]]

insert_log_campaign(s, r, P) ==
  [InsertRequest(s, r) EXCEPT !.log_providers_store =
     [a \in Agent |-> [s.log_providers_store[a] EXCEPT ![r] = @ \cup {i \in P : i.agent = a}]]]

remove_requests_from_log_providers_store(s, R) ==
  [s EXCEPT !.log_providers_store =
     [a \in Agent |-> [r \in RequestId |-> IF r \in R THEN {} ELSE s.log_providers_store[a][r]]]]

\* Mutant: the agents of the providers still have the requests.
remove_agent_log_campaign_entryMutant(s, a) ==
  LET R == s.agent_log_request_ids_store[a]
  IN [s EXCEPT !.agent_log_request_ids_store[a] = {},
               !.workload_name_request_id_store =
                  [n \in Name |-> IF \E r \in R : r.workload = n THEN {} ELSE s.workload_name_request_id_store[n]],
               !.log_providers_store[a] = [r \in RequestId |-> {}]]

\* The requests of all workloads with the name of one that collects on agent a
\* leave the index by name, those of other agents included.
remove_agent_log_campaign_entry(s, a) ==
  LET R == s.agent_log_request_ids_store[a]
  IN [remove_requests_from_log_providers_store(s, R) EXCEPT
        !.agent_log_request_ids_store[a] = {},
        !.workload_name_request_id_store =
           [n \in Name |-> IF \E r \in R : r.workload = n THEN {} ELSE s.workload_name_request_id_store[n]],
        !.log_providers_store[a] = [r \in RequestId |-> {}]]

\* What of agent a is lost: the providers of requests that are not its own.
disconnected_log_providers(s, a) ==
  {d \in (RequestId \ s.agent_log_request_ids_store[a]) \X Instance :
     d[2] \in s.log_providers_store[a][d[1]]}

\* Mutant: the client keeps its requests.
remove_cli_log_campaign_entryMutant(s, c) ==
  remove_requests_from_log_providers_store(s, s.cli_log_request_id_store[c])

remove_cli_log_campaign_entry(s, c) ==
  [remove_requests_from_log_providers_store(s, s.cli_log_request_id_store[c])
     EXCEPT !.cli_log_request_id_store[c] = {}]

RemoveFromIndexes(s, R) ==
  [s EXCEPT
     !.cli_log_request_id_store = [c \in Cli |-> s.cli_log_request_id_store[c] \ R],
     !.agent_log_request_ids_store = [a \in Agent |-> s.agent_log_request_ids_store[a] \ R],
     !.workload_name_request_id_store = [n \in Name |-> s.workload_name_request_id_store[n] \ R]]

remove_logs_request_id(s, r) ==
  RemoveFromIndexes(remove_requests_from_log_providers_store(s, {r}), {r})

\* Mutant: the requests stay with the agents of the collectors.
remove_collector_campaign_entriesMutant(s, N) ==
  LET R == UNION {s.workload_name_request_id_store[n] : n \in N}
  IN [remove_requests_from_log_providers_store(s, R)
        EXCEPT !.workload_name_request_id_store = [n \in Name |-> @[n] \ R]]

\* For the names N of deleted workloads, one after the other.
remove_collector_campaign_entries(s, N) ==
  LET R == UNION {s.workload_name_request_id_store[n] : n \in N}
  IN RemoveFromIndexes(remove_requests_from_log_providers_store(s, R), R)

=============================================================================
