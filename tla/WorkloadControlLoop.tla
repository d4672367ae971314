------------------------- MODULE WorkloadControlLoop -------------------------
(***************************************************************************)
(* The task that owns one workload on an agent                             *)
(* (agent/src/workload/workload_control_loop.rs), with its retry manager,  *)
(* its command channel and the state checker that watches the container.   *)
(*                                                                         *)
(* The task is split at the awaits where other tasks can be seen to act:   *)
(*   "spawned"  the facade's task has not yet queued its Create command    *)
(*   "select"   waiting in tokio::select!                                  *)
(*   "delete"   Stopping is reported, the runtime is asked to delete       *)
(*   "deleted"  the runtime is done, the state checker still polls         *)
(*   "create"   Starting is reported, the runtime is asked to create       *)
(*   "ended"    run() has returned                                         *)
(* The container runtime is external: it may fail any call, and containers *)
(* exit or disappear on their own.  What the agent, the containers and the *)
(* faults may do is limited by `budget`; the control loop is never limited.*)
(***************************************************************************)
EXTENDS Naturals, Sequences

CONSTANTS
  Config,             \* workload configurations (WorkloadNamed)
  Instance,           \* workload instance names
  InstanceOf,         \* the instance name of a configuration
  RestartPolicyOf,    \* its restart policy
  Id,                 \* container ids of the runtime
  None, End,          \* "no value"; "delete and stop the loop"
  COMMAND_BUFFER_SIZE, BUFFER_SIZE,
  MaxCommands, MaxExits, MaxFaults   \* bounds on the environment

RestartPolicy == {"Never", "OnFailure", "Always"}

ASSUME ConfigAssumption ==
  /\ InstanceOf \in [Config -> Instance]
  /\ RestartPolicyOf \in [Config -> RestartPolicy]
  /\ None \notin Config \cup Id
  /\ End \notin Config \cup {None}

ASSUME BoundAssumption ==
  /\ COMMAND_BUFFER_SIZE \in Nat \ {0}
  /\ BUFFER_SIZE \in Nat \ {0}
  /\ MaxCommands \in Nat /\ MaxExits \in Nat /\ MaxFaults \in Nat

VARIABLES
  pc,               \* where the control loop's task stands
  workload_named,   \* the configuration it manages
  workload_id,      \* the container it owns, or None
  state_checker,    \* the polling task of that container, or None
  commands,         \* the command channel
  checker_states,   \* the channel from the state checker
  continuation,     \* what follows the deletion in progress
  retry_manager,    \* the token that is current, and whether it is valid
  retry_token,      \* the token of the creation in progress
  backoffs,         \* tokens whose backoff is running
  sender,           \* the agent still holds the Workload object
  container,        \* the runtime's containers
  reported,         \* the last state sent to the agent, per instance
  wanted,           \* the last request the loop has taken up
  orphans,          \* containers the loop lost track of through a fault
  budget            \* what the environment may still do

loopVars == <<pc, workload_named, workload_id, state_checker, continuation,
              retry_manager, retry_token, reported, wanted>>
vars == <<loopVars, commands, checker_states, backoffs, sender, container,
          orphans, budget>>

Status == {"running", "succeeded", "failed"}
Observed == {"Running", "Succeeded", "ExecFailed", "Lost", "Unknown"}
ReportState == Observed \cup {"Never", "Starting", "Retrying", "StartingFailed",
                              "Stopping", "DeleteFailed", "Removed"}
CheckerState == [inst : Instance, state : Observed]
Token == [gen : Nat, counter : Nat]
Command ==
  [op : {"Create", "Resume", "Delete", "StartLogFetcher"}]
    \cup [op : {"Update"}, new : Config \cup {None}]
    \cup [op : {"Retry"}, token : Token]

Inst == InstanceOf[workload_named]
Exists(i) == container[i] # None
NoToken == [gen |-> 0, counter |-> 0]

-----------------------------------------------------------------------------
(* RetryManager and RetryToken *)

\* Mutant: a token only looks at the flag, not at whose flag it is.
is_validMutant(t) == retry_manager.valid

is_valid(t) == retry_manager.valid /\ t.gen = retry_manager.gen

invalidate == [retry_manager EXCEPT !.valid = FALSE]

\* Mutant: the previous token is not invalidated.
new_tokenMutant ==
  /\ retry_manager' = [retry_manager EXCEPT !.valid = TRUE]
  /\ retry_token' = [gen |-> retry_manager.gen, counter |-> 0]

new_token ==
  /\ retry_manager' = [gen |-> retry_manager.gen + 1, valid |-> TRUE]
  /\ retry_token' = [gen |-> retry_manager.gen + 1, counter |-> 0]

-----------------------------------------------------------------------------
(* Shared steps of the handlers *)

Report(i, s) == reported' = [reported EXCEPT ![i] = s]

Fault ==
  /\ budget.faults > 0
  /\ budget' = [budget EXCEPT !.faults = @ - 1]

\* The containers that carry the name of the managed instance.
OwnContainers == {i \in Id : Exists(i) /\ container[i].inst = Inst}

Receives(op) ==
  /\ pc = "select"
  /\ commands # <<>>
  /\ Head(commands).op = op
  /\ commands' = Tail(commands)

\* The new configuration is taken over, Starting is reported and a fresh
\* token is drawn: what precedes every first creation attempt.
StartCreate(c) ==
  /\ pc' = "create"
  /\ workload_named' = c
  /\ new_token

StartDelete(next) ==
  /\ pc' = "delete"
  /\ continuation' = next
  /\ Report(Inst, "Stopping")

\* Mutant: Always forgets failures.
restart_policy_matches_execution_stateMutant(c, s) ==
  \/ RestartPolicyOf[c] = "OnFailure" /\ s = "ExecFailed"
  \/ RestartPolicyOf[c] = "Always" /\ s = "Succeeded"

restart_policy_matches_execution_state(c, s) ==
  \/ RestartPolicyOf[c] = "OnFailure" /\ s = "ExecFailed"
  \/ RestartPolicyOf[c] = "Always" /\ s \in {"ExecFailed", "Succeeded"}

-----------------------------------------------------------------------------
(* RuntimeFacade::create_workload spawns a task that first queues Create.  *)

SendCreate ==
  /\ pc = "spawned"
  /\ Len(commands) < COMMAND_BUFFER_SIZE
  /\ commands' = Append(commands, [op |-> "Create"])
  /\ pc' = "select"
  /\ UNCHANGED <<workload_named, workload_id, state_checker, continuation,
                 retry_manager, retry_token, reported, wanted, checker_states,
                 backoffs, sender, container, orphans, budget>>

-----------------------------------------------------------------------------
(* The state-checker branch of select! *)

ReceivesState ==
  /\ pc = "select"
  /\ checker_states # <<>>
  /\ checker_states' = Tail(checker_states)
  /\ UNCHANGED <<commands, backoffs, sender, container, orphans, budget, wanted>>

\* Mutant: the instance name is not compared.
IgnoreForeignStateMutant ==
  /\ ReceivesState
  /\ Head(checker_states).inst # Inst
  /\ Report(Head(checker_states).inst, Head(checker_states).state)
  /\ UNCHANGED <<pc, workload_named, workload_id, state_checker, continuation,
                 retry_manager, retry_token>>

\* A state of another instance than the managed one is dropped.
IgnoreForeignState ==
  /\ ReceivesState
  /\ Head(checker_states).inst # Inst
  /\ UNCHANGED loopVars

ForwardState ==
  /\ ReceivesState
  /\ LET s == Head(checker_states)
     IN /\ s.inst = Inst
        /\ ~restart_policy_matches_execution_state(workload_named, s.state)
        /\ Report(Inst, s.state)
  /\ UNCHANGED <<pc, workload_named, workload_id, state_checker, continuation,
                 retry_manager, retry_token>>

\* restart_workload_with_bundle_reuse: the container is kept and started again.
RestartReusingBundle ==
  /\ ReceivesState
  /\ LET s == Head(checker_states)
     IN /\ s.inst = Inst
        /\ restart_policy_matches_execution_state(workload_named, s.state)
        /\ s.state = "Succeeded" /\ workload_id # None
  /\ state_checker' = None
  /\ Report(Inst, "Starting")
  /\ StartCreate(workload_named)
  /\ UNCHANGED <<workload_id, continuation>>

\* Any other restart is an update to the configuration that is already there.
RestartByUpdate ==
  /\ ReceivesState
  /\ LET s == Head(checker_states)
     IN /\ s.inst = Inst
        /\ restart_policy_matches_execution_state(workload_named, s.state)
        /\ ~(s.state = "Succeeded" /\ workload_id # None)
  /\ StartDelete(workload_named)
  /\ UNCHANGED <<workload_named, workload_id, state_checker, retry_manager,
                 retry_token>>

-----------------------------------------------------------------------------
(* The command branch of select! *)

HandleCreate ==
  /\ Receives("Create")
  /\ Report(Inst, "Starting")
  /\ StartCreate(workload_named)
  /\ UNCHANGED <<workload_id, state_checker, continuation, wanted,
                 checker_states, backoffs, sender, container, orphans, budget>>

HandleUpdate ==
  /\ Receives("Update")
  /\ retry_manager' = invalidate
  /\ StartDelete(Head(commands).new)
  /\ wanted' = Head(commands).new
  /\ UNCHANGED <<workload_named, workload_id, state_checker, retry_token,
                 checker_states, backoffs, sender, container, orphans, budget>>

HandleDelete ==
  /\ Receives("Delete")
  /\ retry_manager' = invalidate
  /\ StartDelete(End)
  /\ wanted' = End
  /\ UNCHANGED <<workload_named, workload_id, state_checker, retry_token,
                 checker_states, backoffs, sender, container, orphans, budget>>

\* retry_create_workload_on_runtime
HandleRetry ==
  /\ Receives("Retry")
  /\ LET t == Head(commands).token
     IN IF is_valid(t)
        THEN pc' = "create" /\ retry_token' = t
        ELSE UNCHANGED <<pc, retry_token>>
  /\ UNCHANGED <<workload_named, workload_id, state_checker, continuation,
                 retry_manager, reported, wanted, checker_states, backoffs,
                 sender, container, orphans, budget>>

\* resume_workload_on_runtime: the container of the instance is looked up and
\* watched; a failing lookup leaves the loop without a container, a failing
\* checker start without a checker.
HandleResume ==
  /\ Receives("Resume")
  /\ \/ \E i \in Id :
          /\ OwnContainers = {i}
          /\ workload_id' = i
          /\ \/ /\ state_checker' = [id |-> i, inst |-> Inst, last |-> "Never"]
                /\ UNCHANGED budget
             \/ state_checker' = None /\ Fault
          /\ UNCHANGED orphans
     \/ /\ IF \E i \in Id : OwnContainers = {i} THEN Fault ELSE UNCHANGED budget
        /\ workload_id' = None
        /\ state_checker' = None
        /\ orphans' = orphans \cup OwnContainers
  /\ UNCHANGED <<pc, workload_named, continuation, retry_manager, retry_token,
                 reported, wanted, checker_states, backoffs, sender, container>>

HandleStartLogFetcher ==
  /\ Receives("StartLogFetcher")
  /\ UNCHANGED <<loopVars, checker_states, backoffs, sender, container,
                 orphans, budget>>

-----------------------------------------------------------------------------
(* delete_workload_on_runtime, and the first half of update_... *)

NothingToDelete ==
  /\ pc = "delete"
  /\ workload_id = None
  /\ pc' = "deleted"
  /\ UNCHANGED <<workload_named, workload_id, state_checker, continuation,
                 retry_manager, retry_token, reported, wanted, commands,
                 checker_states, backoffs, sender, container, orphans, budget>>

DeleteSucceeds ==
  /\ pc = "delete"
  /\ workload_id # None
  /\ container' = [container EXCEPT ![workload_id] = None]
  /\ pc' = "deleted"
  /\ UNCHANGED <<workload_named, workload_id, state_checker, continuation,
                 retry_manager, retry_token, reported, wanted, commands,
                 checker_states, backoffs, sender, orphans, budget>>

RuntimeRefusesDelete ==
  /\ pc = "delete"
  /\ workload_id # None
  /\ Fault
  /\ UNCHANGED <<workload_named, state_checker, retry_manager, retry_token,
                 wanted, commands, checker_states, backoffs, sender, container,
                 orphans>>

\* Mutant: the taken id is not put back.
DeleteFailsMutant ==
  /\ RuntimeRefusesDelete
  /\ Report(Inst, "DeleteFailed")
  /\ pc' = "select"
  /\ continuation' = None
  /\ workload_id' = None

\* Mutant: the early return is missing.
DeleteFailsGoesOn ==
  /\ RuntimeRefusesDelete
  /\ Report(Inst, "DeleteFailed")
  /\ pc' = "deleted"
  /\ UNCHANGED <<workload_id, continuation>>

\* Mutant: nothing is reported.
DeleteFailsSilently ==
  /\ RuntimeRefusesDelete
  /\ pc' = "select"
  /\ continuation' = None
  /\ UNCHANGED <<workload_id, reported>>

\* The container stays the loop's, and so does the old configuration.
DeleteFails ==
  /\ RuntimeRefusesDelete
  /\ Report(Inst, "DeleteFailed")
  /\ pc' = "select"
  /\ continuation' = None
  /\ UNCHANGED workload_id

\* Mutant: the old checker keeps running.
stop_checkerMutant == UNCHANGED state_checker

\* The checker is stopped, but only if there was a container.
stop_checker == state_checker' = IF workload_id = None THEN state_checker ELSE None

\* Removed is reported
\* for the old instance, and the loop ends, waits, or goes on to create.
FinishDelete ==
  /\ pc = "deleted"
  /\ continuation = End
  /\ pc' = "ended"
  /\ workload_id' = None
  /\ state_checker' = None
  /\ retry_manager' = invalidate
  /\ Report(Inst, "Removed")
  /\ continuation' = None
  /\ commands' = <<>>
  /\ checker_states' = <<>>
  /\ UNCHANGED <<workload_named, retry_token, wanted, backoffs, sender,
                 container, orphans, budget>>

FinishUpdate ==
  /\ pc = "deleted"
  /\ continuation # End
  /\ workload_id' = None
  /\ stop_checker
  /\ \/ /\ continuation = None
        /\ pc' = "select"
        /\ Report(Inst, "Removed")
        /\ UNCHANGED <<workload_named, retry_manager, retry_token>>
     \/ /\ continuation # None
        /\ StartCreate(continuation)
        /\ reported' = [reported EXCEPT ![Inst] = "Removed",
                                        ![InstanceOf[continuation]] = "Starting"]
  /\ continuation' = None
  /\ UNCHANGED <<wanted, commands, checker_states, backoffs,
                 sender, container, orphans, budget>>

-----------------------------------------------------------------------------
(* create_workload_on_runtime *)

\* Podman refuses a second container of the same name, and cannot start one
\* that is gone.
CreateMustFail ==
  IF workload_id = None
  THEN OwnContainers # {}
  ELSE ~Exists(workload_id)

CreateSucceeds ==
  /\ pc = "create"
  /\ ~CreateMustFail
  /\ \E i \in IF workload_id = None
              THEN {j \in Id : ~Exists(j)}
              ELSE {workload_id} :
       /\ workload_id' = i
       /\ state_checker' = [id |-> i, inst |-> Inst, last |-> "Never"]
       /\ container' = [container EXCEPT ![i] = [inst |-> Inst, status |-> "running"]]
       /\ orphans' = orphans \ {i}
  /\ pc' = "select"
  /\ retry_token' = NoToken
  /\ UNCHANGED <<workload_named, continuation, retry_manager, reported,
                 wanted, commands, checker_states, backoffs, sender,
                 budget>>

\* Workload files cannot be written, or the runtime does not support the
\* configuration: no retry, and workload_id is kept.
CreateIsRejected ==
  /\ pc = "create"
  /\ Fault
  /\ Report(Inst, "StartingFailed")
  /\ pc' = "select"
  /\ retry_token' = NoToken
  /\ UNCHANGED <<workload_named, workload_id, state_checker, continuation,
                 retry_manager, wanted, commands, checker_states,
                 backoffs, sender, container, orphans>>

\* Mutant: no backoff is started.
send_retry_for_workloadMutant ==
  /\ workload_id' = None
  /\ state_checker' = None
  /\ Report(Inst, "Retrying")
  /\ UNCHANGED backoffs

send_retry_for_workload ==
  /\ workload_id' = None
  /\ state_checker' = None
  /\ Report(Inst, "Retrying")
  /\ backoffs' = backoffs \cup {[retry_token EXCEPT !.counter = @ + 1]}

\* Any other error: the connector tries to remove what is there of the instance,
\* by name, and send_retry_for_workload starts a backoff. The removal succeeds;
\* or it fails and leaves what was there before, or what `podman run` made but
\* could not start.
CreateFails ==
  /\ pc = "create"
  /\ \/ /\ IF CreateMustFail THEN UNCHANGED budget ELSE Fault
        /\ container' = [i \in Id |-> IF i \in OwnContainers THEN None ELSE container[i]]
        /\ orphans' = orphans \ OwnContainers
     \/ /\ OwnContainers # {}
        /\ Fault
        /\ orphans' = orphans \cup OwnContainers
        /\ UNCHANGED container
     \/ /\ workload_id = None /\ ~CreateMustFail
        /\ Fault
        /\ \E i \in {j \in Id : ~Exists(j)} :
             /\ container' = [container EXCEPT ![i] = [inst |-> Inst, status |-> "failed"]]
             /\ orphans' = orphans \cup {i}
  /\ send_retry_for_workload
  /\ pc' = "select"
  /\ retry_token' = NoToken
  /\ UNCHANGED <<workload_named, continuation, retry_manager, wanted, commands, checker_states, sender>>

-----------------------------------------------------------------------------
(* RetryToken::call_with_backoff, in a task of its own *)

\* Mutant: the command channel is taken to be unbounded.
BackoffElapsesMutant(t) ==
  /\ t \in backoffs
  /\ commands' = Append(commands, [op |-> "Retry", token |-> t])
  /\ backoffs' = backoffs \ {t}
  /\ UNCHANGED <<loopVars, checker_states, sender, container, orphans, budget>>

BackoffElapses(t) ==
  /\ t \in backoffs
  /\ \/ pc = "ended" /\ UNCHANGED commands
     \/ /\ pc # "ended"
        /\ Len(commands) < COMMAND_BUFFER_SIZE
        /\ commands' = Append(commands, [op |-> "Retry", token |-> t])
  /\ backoffs' = backoffs \ {t}
  /\ UNCHANGED <<loopVars, checker_states, sender, container, orphans, budget>>

BackoffInterrupted(t) ==
  /\ t \in backoffs
  /\ ~is_valid(t)
  /\ backoffs' = backoffs \ {t}
  /\ UNCHANGED <<loopVars, commands, checker_states, sender, container,
                 orphans, budget>>

-----------------------------------------------------------------------------
(* GenericPollingStateChecker with the podman state getter *)

get_state(i) ==
  CASE container[i] = None -> "Lost"
    [] Exists(i) /\ container[i].status = "running" -> "Running"
    [] Exists(i) /\ container[i].status = "succeeded" -> "Succeeded"
    [] Exists(i) /\ container[i].status = "failed" -> "ExecFailed"

CheckerSends(s) ==
  /\ Len(checker_states) < BUFFER_SIZE
  /\ s # state_checker.last
  /\ checker_states' = Append(checker_states, [inst |-> state_checker.inst, state |-> s])
  /\ state_checker' = [state_checker EXCEPT !.last = s]

CheckerPolls ==
  /\ state_checker # None
  /\ CheckerSends(get_state(state_checker.id))
  /\ UNCHANGED <<pc, workload_named, workload_id, continuation, retry_manager,
                 retry_token, reported, wanted, commands, backoffs, sender,
                 container, orphans, budget>>

CheckerPollFails ==
  /\ state_checker # None
  /\ CheckerSends("Unknown")
  /\ Fault
  /\ UNCHANGED <<pc, workload_named, workload_id, continuation, retry_manager,
                 retry_token, reported, wanted, commands, backoffs, sender,
                 container, orphans>>

-----------------------------------------------------------------------------
(* The containers *)

ContainerExits(i) ==
  /\ Exists(i) /\ container[i].status = "running"
  /\ budget.exits > 0
  /\ budget' = [budget EXCEPT !.exits = @ - 1]
  /\ \E s \in {"succeeded", "failed"} :
       container' = [container EXCEPT ![i].status = s]
  /\ UNCHANGED <<loopVars, commands, checker_states, backoffs, sender, orphans>>

\* Somebody removes the container behind the agent's back.
ContainerVanishes(i) ==
  /\ Exists(i)
  /\ Fault
  /\ container' = [container EXCEPT ![i] = None]
  /\ UNCHANGED <<loopVars, commands, checker_states, backoffs, sender, orphans>>

-----------------------------------------------------------------------------
(* The agent, through the Workload object *)

SendCommand(c) ==
  /\ sender
  /\ budget.commands > 0
  /\ budget' = [budget EXCEPT !.commands = @ - 1]
  /\ Len(commands) < COMMAND_BUFFER_SIZE
  /\ commands' = Append(commands, c)
  /\ UNCHANGED <<loopVars, checker_states, backoffs, container, orphans>>

SendUpdate ==
  /\ \E c \in Config \cup {None} : SendCommand([op |-> "Update", new |-> c])
  /\ UNCHANGED sender

SendStartLogFetcher ==
  /\ SendCommand([op |-> "StartLogFetcher"])
  /\ UNCHANGED sender

\* Workload::delete consumes the Workload object.
SendDelete ==
  /\ SendCommand([op |-> "Delete"])
  /\ sender' = FALSE

-----------------------------------------------------------------------------
(* The facade starts the loop for a new workload, for a new workload that may *)
(* reuse an exited container, or to resume the container of a running one.    *)

OneContainer(i, s) ==
  [j \in Id |-> IF j = i THEN [inst |-> Inst, status |-> s] ELSE None]

InitCommon ==
  /\ workload_named \in Config
  /\ state_checker = None
  /\ checker_states = <<>>
  /\ continuation = None
  /\ retry_manager = [gen |-> 0, valid |-> FALSE]
  /\ retry_token = NoToken
  /\ backoffs = {}
  /\ sender = TRUE
  /\ reported = [i \in Instance |-> "Never"]
  /\ wanted = workload_named
  /\ orphans = {}
  /\ budget = [commands |-> MaxCommands, exits |-> MaxExits, faults |-> MaxFaults]

InitCreate ==
  /\ pc = "spawned"
  /\ commands = <<>>
  /\ workload_id = None
  /\ container = [i \in Id |-> None]

InitReuse ==
  /\ pc = "spawned"
  /\ commands = <<>>
  /\ \E i \in Id : /\ workload_id = i
                  /\ container = OneContainer(i, "succeeded")

InitResume ==
  /\ pc = "select"
  /\ commands = <<[op |-> "Resume"]>>
  /\ workload_id = None
  /\ \E i \in Id, s \in Status : container = OneContainer(i, s)

Init == InitCommon /\ (InitCreate \/ InitReuse \/ InitResume)

ControlLoop ==
  \/ SendCreate
  \/ IgnoreForeignState \/ ForwardState \/ RestartReusingBundle \/ RestartByUpdate
  \/ HandleCreate \/ HandleUpdate \/ HandleDelete \/ HandleRetry \/ HandleResume
  \/ HandleStartLogFetcher
  \/ NothingToDelete \/ DeleteSucceeds \/ DeleteFails \/ FinishDelete \/ FinishUpdate
  \/ CreateSucceeds \/ CreateIsRejected \/ CreateFails

Backoff == \E t \in backoffs : BackoffElapses(t) \/ BackoffInterrupted(t)

Agent == SendUpdate \/ SendStartLogFetcher \/ SendDelete

Environment ==
  \/ CheckerPolls \/ CheckerPollFails
  \/ \E i \in Id : ContainerExits(i) \/ ContainerVanishes(i)

Next == ControlLoop \/ Backoff \/ Agent \/ Environment

Spec == Init /\ [][Next]_vars

\* The tasks are scheduled by tokio and every timer runs out; nothing obliges
\* the agent to send, a container to exit, or a fault to happen.
FairSpec == Spec /\ WF_vars(ControlLoop) /\ WF_vars(Backoff) /\ WF_vars(CheckerPolls)

-----------------------------------------------------------------------------
(* Properties *)

PC == {"spawned", "select", "delete", "deleted", "create", "ended"}

\* Every variable stays in its domain, and both channels within their size.
TypeOK ==
  /\ pc \in PC
  /\ workload_named \in Config
  /\ workload_id \in Id \cup {None}
  /\ state_checker \in [id : Id, inst : Instance, last : Observed \cup {"Never"}]
                         \cup {None}
  /\ commands \in Seq(Command) /\ Len(commands) <= COMMAND_BUFFER_SIZE
  /\ checker_states \in Seq(CheckerState)
  /\ Len(checker_states) <= BUFFER_SIZE
  /\ continuation \in Config \cup {None, End}
  /\ retry_manager \in [gen : Nat, valid : BOOLEAN]
  /\ retry_token \in Token
  /\ backoffs \subseteq Token
  /\ sender \in BOOLEAN
  /\ container \in [Id -> [inst : Instance, status : Status] \cup {None}]
  /\ reported \in [Instance -> ReportState]
  /\ wanted \in Config \cup {None, End}
  /\ orphans \subseteq Id
  /\ budget \in [commands : Nat, exits : Nat, faults : Nat]

Resuming == commands # <<>> /\ Head(commands).op = "Resume"

\* The loop never loses a container: apart from those it lost to a failed
\* cleanup or a failed lookup, every container of the workload is the one in
\* workload_id, whatever the order of updates, restarts, retries and deletes.
\* So there are never two of them, and none is left when the loop has ended.
OnlyFaultsOrphan ==
  \A i \in Id : Exists(i) => i = workload_id \/ i \in orphans \/ Resuming

\* Removed is a promise to dependants: while it is the last word on an
\* instance, no container of that instance exists that the loop could know of.
RemovedMeansGone ==
  \A i \in Id : Exists(i) /\ reported[container[i].inst] = "Removed" => i \in orphans

\* After an update to another instance nothing is reported for the old one any
\* more, although states of its checker may still be queued.
OldInstancesStayRemoved ==
  \A n \in Instance \ {Inst} : reported[n] \in {"Never", "Removed"}

\* The tokens that wait for their backoff or in the command channel.
RetryCommands == {k \in DOMAIN commands : commands[k].op = "Retry"}
Outstanding == backoffs \cup {commands[k].token : k \in RetryCommands}

\* A retry that would be executed finds no container: a creation that has been
\* overtaken by a command, a restart or a newer creation is never repeated.
LiveRetryHasNoWorkload ==
  \A t \in Outstanding : is_valid(t) => workload_id = None /\ pc # "create"

\* At most one retry is alive, sleeping or queued.
AtMostOneLiveRetry ==
  /\ \A t, u \in Outstanding : is_valid(t) /\ is_valid(u) => t = u
  /\ \A j, k \in RetryCommands :
       is_valid(commands[j].token) /\ commands[j].token = commands[k].token => j = k
  /\ \A k \in RetryCommands :
       is_valid(commands[k].token) => commands[k].token \notin backoffs

\* The state checker watches the container the loop owns, under the name the
\* loop goes by: no checker outlives its container's stay in workload_id.
CheckerWatchesOwnWorkload ==
  state_checker # None => state_checker.id = workload_id /\ state_checker.inst = Inst

\* A Delete that has been queued is carried out or answered with DeleteFailed.
DeleteAnswered ==
  (\E k \in DOMAIN commands : commands[k].op = "Delete")
    ~> (pc = "ended" \/ reported[Inst] = "DeleteFailed")

\* A creation that was begun ends with a container or a rejection, through as
\* many retries as it takes, unless a command or a restart overtakes it.
CreationSettles ==
  (pc = "create") ~> \/ pc = "select" /\ workload_id # None
                     \/ reported[Inst] = "StartingFailed"
                     \/ pc \in {"delete", "ended"}

\* A workload that failed under a policy that restarts it does not stay down
\* while the loop watches it, unless the container cannot be deleted.
NeedsRestart ==
  /\ workload_id # None /\ state_checker # None
  /\ Exists(workload_id) /\ container[workload_id].status = "failed"
  /\ RestartPolicyOf[workload_named] \in {"OnFailure", "Always"}
FailedIsRestarted == NeedsRestart ~> (~NeedsRestart \/ reported[Inst] = "DeleteFailed")

-----------------------------------------------------------------------------
(* The inductive invariant behind the safety properties *)

\* Resume is the loop's first command, and nothing has happened before it.
ResumeComesFirst ==
  \A k \in DOMAIN commands :
    commands[k].op = "Resume" =>
      /\ k = 1 /\ pc = "select"
      /\ workload_id = None /\ state_checker = None /\ checker_states = <<>>
      /\ Outstanding = {}
      /\ \A n \in Instance : reported[n] = "Never"
      /\ \A i \in Id : Exists(i) => container[i].inst = Inst

TokensAreOld ==
  /\ retry_token.gen <= retry_manager.gen
  /\ \A t \in Outstanding : t.gen <= retry_manager.gen

\* A creation may be due only for an instance that was announced as Starting.
AnnouncedBeforeCreate ==
  /\ pc = "create" => reported[Inst] # "Removed"
  /\ \A t \in Outstanding : is_valid(t) => reported[Inst] # "Removed"
  /\ pc \in {"delete", "deleted"} /\ continuation \in {None, End} => ~retry_manager.valid

ContainerIsNamed ==
  /\ workload_id # None /\ Exists(workload_id) => container[workload_id].inst = Inst
  /\ pc = "deleted" /\ workload_id # None => ~Exists(workload_id)

Inv ==
  /\ TypeOK
  /\ OnlyFaultsOrphan /\ CheckerWatchesOwnWorkload /\ ContainerIsNamed
  /\ RemovedMeansGone /\ OldInstancesStayRemoved /\ AnnouncedBeforeCreate
  /\ LiveRetryHasNoWorkload /\ AtMostOneLiveRetry /\ TokensAreOld
  /\ ResumeComesFirst

-----------------------------------------------------------------------------
(* What the documentation says and the code does not keep *)

\* restart-policy.md: a workload whose deletion was requested is not restarted.
DeletedIsNeverRestarted ==
  [][RestartReusingBundle \/ RestartByUpdate => wanted # End]_vars

=============================================================================
