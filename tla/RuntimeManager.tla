---------------------------- MODULE RuntimeManager ----------------------------
(***************************************************************************)
(* The main task of an agent: the agent manager's select loop              *)
(* (agent_manager.rs), the runtime manager that turns the server's         *)
(* messages into workload operations (runtime_manager.rs), the scheduler   *)
(* that holds them back until their dependencies are fulfilled             *)
(* (workload_scheduler/) and the store of workload states they are judged  *)
(* by.  `phase` is where the task stands:                                  *)
(*   "select"   waiting in tokio::select!                                  *)
(*   "hello"    matching the existing containers with the server's hello   *)
(*   "enqueue"  filtering the new workload operations                      *)
(*   "next"     filtering the operations drained from the queue, and then  *)
(*              executing the ready ones                                   *)
(* The task sends states into a bounded channel that it alone reads.       *)
(* The control loops (WorkloadControlLoop) appear here as the senders of   *)
(* the other states in that channel.                                       *)
(***************************************************************************)
EXTENDS Naturals, FiniteSets, Sequences, Functions

CONSTANTS
  Config,        \* workload configurations, each its own instance name
  Local,         \* the ones that are assigned to this agent
  Name, NameOf,  \* workload names
  AddDeps,       \* the dependencies of a configuration
  DelDeps,       \* the delete conditions the server may attach
  Leftovers,     \* what an earlier run of the agent may have left on the runtimes
  None,
  ServerStates,  \* the states of other agents' workloads the server tells of
  BUFFER_SIZE,   \* of the channel for the agent's own workload states
  MaxUpdates, MaxHellos, MaxStates, MaxReports  \* bounds on the environment

AddCondition == {"AddCondRunning", "AddCondSucceeded", "AddCondFailed"}
DeleteCondition == {"DelCondNotPendingNorRunning", "DelCondRunning"}

LocalName == {NameOf[c] : c \in Local}

ASSUME ConfigAssumption ==
  /\ Local \subseteq Config /\ IsFiniteSet(Local) /\ NameOf \in [Config -> Name] /\ None \notin Config
  /\ AddDeps \in [Config -> SUBSET (Name \X AddCondition)]
  /\ DelDeps \subseteq SUBSET (Name \X DeleteCondition) /\ {} \in DelDeps
  /\ Leftovers \subseteq SUBSET Local

ASSUME BoundAssumption ==
  /\ BUFFER_SIZE \in Nat \ {0}
  /\ MaxUpdates \in Nat /\ MaxHellos \in Nat /\ MaxStates \in Nat /\ MaxReports \in Nat

VARIABLES
  phase,
  desired,       \* what the server wants this agent to run, per name
  existing,      \* "hello": containers found on the runtimes, not yet looked at
  added,         \* "hello": workloads of the hello that match no container so far
  new_added, deleted,  \* "hello": what is handed on to the scheduler
  ops,           \* operations to be filtered
  ready,         \* operations to be executed
  queue,         \* the scheduler's waiting queue
  workloads,     \* the Workload object of each name
  dropped,       \* configurations of Workload objects that were overwritten
  leaving,       \* deletions the control loops were told to carry out
  leftovers,     \* containers of an earlier run of the agent
  workload_state_store,
  workload_states,     \* the channel of the agent's own workload states
  executed,      \* what was carried out since the server's last word on a name
  overtaken,     \* names with an older operation or Workload object that the
                 \* server's newer word has passed
  budget

helloVars == <<existing, added, new_added, deleted, leftovers>>
loopVars == <<workloads, dropped, leaving>>
vars == <<phase, desired, helloVars, ops, ready, queue, loopVars,
          workload_state_store, workload_states, executed, overtaken, budget>>

-----------------------------------------------------------------------------
(* Workload states *)

Pending == {"WaitingToStart", "Starting"}
Stopping == {"WaitingToStop", "RequestedAtRuntime"}
Exited == {"Succeeded", "Failed"}
State == Pending \cup Stopping \cup Exited \cup {"Running"}

ASSUME StateAssumption == ServerStates \subseteq State /\ None \notin State

\* What a workload does while it is told to stop does not undo Stopping.
transition(old, incoming) ==
  IF old \in Stopping /\ incoming \in Exited \cup {"Running"} THEN old ELSE incoming

\* Mutant: Removed is stored like any other state.
process_new_stateMutant(c, s) == [workload_state_store EXCEPT ![c] = s]

\* process_new_states: Removed takes the entry away.
process_new_state(c, s) ==
  [workload_state_store EXCEPT ![c] = IF s = "Removed" THEN None ELSE s]

get_states_for_workload_name(n, db) ==
  {db[c] : c \in {x \in Config : NameOf[x] = n}} \ {None}

is_add_condition_fulfilled_by_state(cond, s) ==
  \/ cond = "AddCondRunning" /\ s = "Running"
  \/ cond = "AddCondSucceeded" /\ s = "Succeeded"
  \/ cond = "AddCondFailed" /\ s = "Failed"

is_del_condition_fulfilled_by_state(cond, s) ==
  \/ s = "WaitingToStart"
  \/ cond = "DelCondNotPendingNorRunning" /\ s \notin Pending \cup {"Running"}
  \/ cond = "DelCondRunning" /\ s = "Running"

create_fulfilled(c, db) ==
  \A d \in AddDeps[c] : \E s \in get_states_for_workload_name(d[1], db) :
    is_add_condition_fulfilled_by_state(d[2], s)

delete_fulfilled(deps, db) ==
  \A d \in deps : \A s \in get_states_for_workload_name(d[1], db) :
    is_del_condition_fulfilled_by_state(d[2], s)

\* The verdicts of the scheduler on an operation.
CanCreate(o) == create_fulfilled(o.new, workload_state_store)
CanDelete(o) == delete_fulfilled(o.deps, workload_state_store)

-----------------------------------------------------------------------------
(* Workload operations *)

Operation(op, new, old, deps) == [op |-> op, new |-> new, old |-> old, deps |-> deps]
Create(c) == Operation("Create", c, None, {})
Delete(c, deps) == Operation("Delete", None, c, deps)

WorkloadName(o) == NameOf[IF o.new # None THEN o.new ELSE o.old]

\* A workload that is deleted and also added is updated, ...
Renewed(A, d) == {a \in A : NameOf[a] = NameOf[d[1]]}

ForDeleted(A, D) ==
  {Delete(d[1], d[2]) : d \in {x \in D : Renewed(A, x) = {}}}
    \cup UNION {{Operation("Update", a, d[1], d[2]) : a \in Renewed(A, d)} : d \in D}

\* ... and so is an added one that the agent knows already.
ForAdded(A, D) ==
  {IF workloads[NameOf[a]] # None THEN Operation("Update", a, a, {}) ELSE Create(a)
     : a \in A \ UNION {Renewed(A, d) : d \in D}}

\* The elements of a hash map, one after the other in any order.
Orders(S) == Injection(1..Cardinality(S), S)

\* Deleted workloads come first.
transform_into_workload_operations(A, D) ==
  {s \o t : s \in Orders(ForDeleted(A, D)), t \in Orders(ForAdded(A, D))}

\* A state for the agent manager itself; the task waits while the channel is full.
Report(c, s) ==
  /\ Len(workload_states) < BUFFER_SIZE
  /\ workload_states' = Append(workload_states, <<c, s>>)

\* A retained entry is not reported again.
ReportNew(c, s) == IF phase = "enqueue" THEN Report(c, s) ELSE UNCHANGED workload_states

\* Mutant: an entry that waits already is not replaced.
put_on_queueMutant(o) ==
  LET n == WorkloadName(o) IN queue' = [queue EXCEPT ![n] = IF @ = None THEN o ELSE @]

put_on_queue(o) == queue' = [queue EXCEPT ![WorkloadName(o)] = o]

MakeReady(o) ==
  /\ ready' = Append(ready, o)
  /\ overtaken' = overtaken \cup {n \in {WorkloadName(o)} : queue[n] # None}

EnqueueOther == UNCHANGED <<phase, desired, helloVars, loopVars, workload_state_store,
                            executed, budget>>

enqueue_pending_create ==
  /\ phase \in {"enqueue", "next"} /\ ops # <<>> /\ ops' = Tail(ops)
  /\ LET o == Head(ops)
     IN /\ o.op = "Create"
        /\ \/ /\ CanCreate(o)
              /\ MakeReady(o) /\ UNCHANGED <<queue, workload_states>>
           \/ /\ ~CanCreate(o)
              /\ ReportNew(o.new, "WaitingToStart")
              /\ put_on_queue(o) /\ UNCHANGED <<ready, overtaken>>
  /\ EnqueueOther

enqueue_pending_delete ==
  /\ phase \in {"enqueue", "next"} /\ ops # <<>> /\ ops' = Tail(ops)
  /\ LET o == Head(ops)
     IN /\ o.op = "Delete"
        /\ \/ /\ CanDelete(o)
              /\ MakeReady(o) /\ UNCHANGED <<queue, workload_states>>
           \/ /\ ~CanDelete(o)
              /\ ReportNew(o.old, "WaitingToStop")
              /\ put_on_queue(o) /\ UNCHANGED <<ready, overtaken>>
  /\ EnqueueOther

\* Mutant: the update waits for its dependencies with the old workload kept.
enqueue_pending_updateMutant ==
  /\ phase \in {"enqueue", "next"} /\ ops # <<>> /\ ops' = Tail(ops)
  /\ LET o == Head(ops)
     IN /\ o.op \in {"Update", "UpdateDelete"}
        /\ \/ /\ CanCreate(o) /\ CanDelete(o)
              /\ MakeReady([o EXCEPT !.op = "Update"])
              /\ UNCHANGED <<queue, workload_states>>
           \/ /\ ~CanCreate(o) /\ CanDelete(o)
              /\ Report(o.new, "WaitingToStart")
              /\ put_on_queue([o EXCEPT !.op = "UpdateCreate"])
              /\ UNCHANGED <<ready, overtaken>>
           \/ /\ ~CanDelete(o)
              /\ ReportNew(o.old, "WaitingToStop")
              /\ put_on_queue([o EXCEPT !.op = "UpdateDelete"])
              /\ UNCHANGED <<ready, overtaken>>
  /\ EnqueueOther

\* With the delete conditions fulfilled the old workload is stopped at once,
\* and the new one waits for its dependencies.
enqueue_pending_update ==
  /\ phase \in {"enqueue", "next"} /\ ops # <<>> /\ ops' = Tail(ops)
  /\ LET o == Head(ops)
     IN /\ o.op \in {"Update", "UpdateDelete"}
        /\ \/ /\ CanCreate(o) /\ CanDelete(o)
              /\ MakeReady([o EXCEPT !.op = "Update"])
              /\ UNCHANGED <<queue, workload_states>>
           \/ /\ ~CanCreate(o) /\ CanDelete(o)
              /\ Report(o.new, "WaitingToStart")
              /\ put_on_queue([o EXCEPT !.op = "UpdateCreate"])
              /\ ready' = Append(ready, [o EXCEPT !.op = "UpdateDeleteOnly"])
              /\ UNCHANGED overtaken
           \/ /\ ~CanDelete(o)
              /\ ReportNew(o.old, "WaitingToStop")
              /\ put_on_queue([o EXCEPT !.op = "UpdateDelete"])
              /\ UNCHANGED <<ready, overtaken>>
  /\ EnqueueOther

\* Mutant: an entry that has to wait goes back to the list that is worked on.
next_update_createMutant ==
  /\ phase = "next" /\ ops # <<>>
  /\ LET o == Head(ops)
     IN /\ o.op = "UpdateCreate"
        /\ \/ /\ CanCreate(o) /\ ops' = Tail(ops)
              /\ MakeReady([o EXCEPT !.op = "Update"]) /\ UNCHANGED queue
           \/ /\ ~CanCreate(o) /\ ops' = Append(Tail(ops), o)
              /\ queue' = [queue EXCEPT ![WorkloadName(o)] = None]
              /\ UNCHANGED <<ready, overtaken>>
  /\ UNCHANGED workload_states
  /\ EnqueueOther

\* The second half of an update whose old workload was stopped before.
next_update_create ==
  /\ phase = "next" /\ ops # <<>> /\ ops' = Tail(ops)
  /\ LET o == Head(ops)
     IN /\ o.op = "UpdateCreate"
        /\ \/ /\ CanCreate(o)
              /\ MakeReady([o EXCEPT !.op = "Update"]) /\ UNCHANGED queue
           \/ /\ ~CanCreate(o)
              /\ put_on_queue(o) /\ UNCHANGED <<ready, overtaken>>
  /\ UNCHANGED workload_states
  /\ EnqueueOther

\* The whole queue is drained into ops, to be filtered again.
DrainQueue ==
  /\ ops' \in Orders({queue[n] : n \in LocalName} \ {None})
  /\ queue' = [n \in LocalName |-> None]
  /\ phase' = "next"

\* After the new operations the ones in the queue are filtered again.
next_workload_operations ==
  /\ phase = "enqueue" /\ ops = <<>>
  /\ DrainQueue
  /\ UNCHANGED <<desired, helloVars, ready, loopVars, workload_state_store,
                 workload_states, executed, overtaken, budget>>

-----------------------------------------------------------------------------
(* Messages of the server and states of the workloads *)

Spend(k) == budget[k] > 0 /\ budget' = [budget EXCEPT ![k] = @ - 1]

Wanted == {w \in [LocalName -> Local \cup {None}] :
             \A n \in LocalName : w[n] # None => NameOf[w[n]] = n}

\* The difference of two desired states, with the delete conditions deps.
handle_update_workload ==
  /\ phase = "select" /\ budget["hellos"] < MaxHellos /\ Spend("updates")
  /\ \E w \in Wanted, deps \in DelDeps :
       LET changed == {n \in LocalName : w[n] # desired[n]}
       IN /\ changed # {}
          /\ desired' = w
          /\ executed' = [n \in LocalName |-> IF n \in changed THEN {} ELSE executed[n]]
          /\ ops' \in transform_into_workload_operations(
                        {w[n] : n \in changed} \ {None},
                        {<<desired[n], deps>> : n \in {m \in changed : desired[m] # None}})
  /\ phase' = "enqueue"
  /\ UNCHANGED <<helloVars, ready, queue, loopVars, workload_state_store, workload_states,
                 overtaken>>

\* Containers the runtimes may list: of this agent's control loops and of an
\* earlier run of the agent.  "Other" is neither running nor reusable.
Containers ==
  leftovers \cup dropped \cup {l[1] : l \in leaving}
    \cup {workloads[n].config : n \in {m \in LocalName : workloads[m] # None}}

handle_server_hello ==
  /\ phase = "select" /\ Spend("hellos")
  /\ \E w \in Wanted, found \in SUBSET Containers :
       /\ desired' = w
       /\ executed' = [n \in LocalName |-> IF w[n] = None THEN {None} ELSE {}]
       /\ added' = {w[n] : n \in LocalName} \ {None}
       /\ existing' = found
  /\ phase' = "hello" /\ new_added' = {} /\ deleted' = {}
  /\ UNCHANGED <<leftovers, ops, ready, queue, loopVars, workload_state_store,
                 workload_states, overtaken>>

\* The deletions a control loop has in hand outlive its Workload object.
Released(n) ==
  {l \in leaving : NameOf[l[1]] # n} \cup {<<l[1], "delete">> : l \in {k \in leaving : NameOf[k[1]] = n}}

Workload(c) == [config |-> c, stopped |-> FALSE]

\* HashMap::insert: an object of the same name is dropped, not deleted.
InsertWorkload(c) ==
  LET n == NameOf[c]
  IN /\ workloads' = [workloads EXCEPT ![n] = Workload(c)]
     /\ leaving' = Released(n)
     /\ dropped' = dropped \cup
          {x \in Local : workloads[n] = Workload(x)}

DeleteWorkload(n) ==
  /\ workloads' = [workloads EXCEPT ![n] = None]
  /\ leaving' = Released(n) \cup {<<workloads[n].config, "delete">>}
  /\ UNCHANGED dropped

\* One container that was found.  The workload of its name is taken out of the
\* server's list, so that a second container of that name is not needed.
resume_and_remove_from_added_workloads ==
  /\ phase = "hello"
  /\ \E c \in existing :
       LET n == NameOf[c]
           new == {a \in added : NameOf[a] = n}
       IN /\ existing' = existing \ {c} /\ leftovers' = leftovers \ {c}
          /\ added' = added \ new
          /\ \/ /\ new = {c}           \* running: is_resumable_workload
                /\ InsertWorkload(c)
                /\ executed' = [executed EXCEPT ![n] = @ \cup {c}]
                /\ UNCHANGED <<new_added, deleted>>
             \/ /\ new = {c}           \* succeeded: is_reusable_workload
                /\ new_added' = new_added \cup new
                /\ UNCHANGED <<deleted, loopVars, executed>>
             \/ /\ new # {}
                /\ new_added' = new_added \cup new
                /\ deleted' = deleted \cup {<<c, {}>>}
                /\ IF workloads[n] = None THEN InsertWorkload(c) ELSE UNCHANGED loopVars
                /\ UNCHANGED executed
             \/ /\ new = {}
                /\ IF workloads[n] # None
                   THEN DeleteWorkload(n)
                   ELSE leaving' = leaving \cup {<<c, "delete">>} /\ UNCHANGED <<workloads, dropped>>
                /\ UNCHANGED <<new_added, deleted, executed>>
  /\ UNCHANGED <<phase, desired, ops, ready, queue, workload_state_store, workload_states,
                 overtaken, budget>>

RunsDesired(n) ==
  workloads[n] = IF desired[n] = None THEN None ELSE Workload(desired[n])

\* Only containers that were found and workloads of the hello lead to operations:
\* a Workload object without a container yet, and an operation in the queue, stay
\* as they are when the hello says nothing of their name.
PassedByHello(o) ==
  {n \in LocalName : /\ queue[n] # None \/ ~RunsDesired(n)
                     /\ \A i \in DOMAIN o : WorkloadName(o[i]) # n}

execute_hello ==
  /\ phase = "hello" /\ existing = {}
  /\ ops' \in transform_into_workload_operations(new_added \cup added, deleted)
  /\ overtaken' = overtaken \cup PassedByHello(ops')
  /\ phase' = "enqueue" /\ added' = {} /\ new_added' = {} /\ deleted' = {}
  /\ UNCHANGED <<desired, existing, leftovers, ready, queue, loopVars, workload_state_store,
                 workload_states, executed, budget>>

\* Mutant: the queue is not looked at.
update_workload_stateMutant ==
  /\ phase = "select" /\ Spend("states")
  /\ \E c \in Config \ Local, s \in ServerStates \cup {"Removed"} :
       workload_state_store' = process_new_state(c, s)
  /\ UNCHANGED <<phase, ops, queue>>
  /\ UNCHANGED <<desired, helloVars, ready, loopVars, workload_states, executed, overtaken>>

\* A state of another agent's workload, passed on by the server.
update_workload_state ==
  /\ phase = "select" /\ Spend("states")
  /\ \E c \in Config \ Local, s \in ServerStates \cup {"Removed"} :
       workload_state_store' = process_new_state(c, s)
  /\ DrainQueue
  /\ UNCHANGED <<desired, helloVars, ready, loopVars, workload_states, executed, overtaken>>

store_and_forward_own_workload_states ==
  /\ phase = "select" /\ workload_states # <<>>
  /\ LET c == Head(workload_states)[1]
         s == Head(workload_states)[2]
         old == workload_state_store[c]
     IN workload_state_store' = process_new_state(c, IF old # None THEN transition(old, s) ELSE s)
  /\ workload_states' = Tail(workload_states)
  /\ DrainQueue
  /\ UNCHANGED <<desired, helloVars, ready, loopVars, executed, overtaken, budget>>

-----------------------------------------------------------------------------
(* Execution of the ready operations *)

Executes(op) ==
  /\ phase = "next" /\ ops = <<>> /\ ready # <<>>
  /\ Head(ready).op = op /\ ready' = Tail(ready)
  /\ UNCHANGED <<phase, desired, helloVars, ops, queue, workload_state_store, overtaken, budget>>

Done(o) == executed' = [executed EXCEPT ![WorkloadName(o)] = @ \cup {o.new}]

add_workload ==
  /\ Executes("Create")
  /\ InsertWorkload(Head(ready).new)
  /\ Done(Head(ready))
  /\ UNCHANGED workload_states

\* The control loop deletes its workload, then creates the new one.
SendUpdate(n, config, stopped) ==
  /\ workloads' = [workloads EXCEPT ![n] = [config |-> config, stopped |-> stopped]]
  /\ leaving' = leaving \cup {<<workloads[n].config, "update">>}
  /\ UNCHANGED dropped

\* Mutant: a Workload object that is gone is not created again.
update_workloadMutant ==
  /\ Executes("Update")
  /\ LET o == Head(ready)
         n == WorkloadName(o)
     IN IF workloads[n] # None THEN SendUpdate(n, o.new, FALSE) ELSE UNCHANGED loopVars
  /\ Done(Head(ready))
  /\ UNCHANGED workload_states

update_workload ==
  /\ Executes("Update")
  /\ LET o == Head(ready)
         n == WorkloadName(o)
     IN IF workloads[n] # None THEN SendUpdate(n, o.new, FALSE) ELSE InsertWorkload(o.new)
  /\ Done(Head(ready))
  /\ UNCHANGED workload_states

update_delete_only ==
  /\ Executes("UpdateDeleteOnly")
  /\ LET n == WorkloadName(Head(ready))
     IN IF workloads[n] # None THEN SendUpdate(n, workloads[n].config, TRUE)
                               ELSE UNCHANGED loopVars
  /\ UNCHANGED <<executed, workload_states>>

delete_workload ==
  /\ Executes("Delete")
  /\ LET o == Head(ready)
         n == WorkloadName(o)
     IN IF workloads[n] # None
        THEN DeleteWorkload(n) /\ UNCHANGED workload_states
        ELSE Report(o.old, "Removed") /\ UNCHANGED loopVars
  /\ Done(Head(ready))

\* Back to tokio::select!.
Return ==
  /\ phase = "next" /\ ops = <<>> /\ ready = <<>>
  /\ phase' = "select"
  /\ UNCHANGED <<desired, helloVars, ops, ready, queue, loopVars, workload_state_store,
                 workload_states, executed, overtaken, budget>>

-----------------------------------------------------------------------------
(* What the control loops send: the states of the workloads they run, and  *)
(* of a deletion they carry out.  A loop that updates deletes first.       *)

Active(c) ==
  \/ c \in dropped
  \/ /\ workloads[NameOf[c]] = Workload(c)
     /\ \A l \in leaving : NameOf[l[1]] = NameOf[c] => l[2] # "update"

send_workload_state_to_agent ==
  /\ Spend("reports")
  /\ \/ \E c \in Local, s \in Exited \cup {"Starting", "Running"} :
          Active(c) /\ Report(c, s) /\ UNCHANGED leaving
     \/ \E l \in leaving :
          \/ Report(l[1], "RequestedAtRuntime") /\ UNCHANGED leaving
          \/ Report(l[1], "Removed") /\ leaving' = leaving \ {l}
  /\ UNCHANGED <<phase, desired, helloVars, ops, ready, queue, workloads, dropped,
                 workload_state_store, executed, overtaken>>

-----------------------------------------------------------------------------
Init ==
  /\ phase = "select" /\ desired = [n \in LocalName |-> None]
  /\ existing = {} /\ added = {} /\ new_added = {} /\ deleted = {}
  /\ ops = <<>> /\ ready = <<>> /\ queue = [n \in LocalName |-> None]
  /\ workloads = [n \in LocalName |-> None] /\ dropped = {} /\ leaving = {}
  /\ leftovers \in Leftovers
  /\ workload_state_store = [c \in Config |-> None] /\ workload_states = <<>>
  /\ executed = [n \in LocalName |-> {None}] /\ overtaken = {}
  /\ budget = [updates |-> MaxUpdates, hellos |-> MaxHellos, states |-> MaxStates,
               reports |-> MaxReports]

Handler ==
  \/ enqueue_pending_create \/ enqueue_pending_delete \/ enqueue_pending_update
  \/ next_update_create \/ next_workload_operations
  \/ resume_and_remove_from_added_workloads \/ execute_hello
  \/ add_workload \/ update_workload \/ update_delete_only \/ delete_workload \/ Return

Next ==
  \/ handle_update_workload \/ handle_server_hello \/ update_workload_state
  \/ store_and_forward_own_workload_states \/ Handler \/ send_workload_state_to_agent

Spec == Init /\ [][Next]_vars

\* A handler that can go on does so, and own states are received in the end.
FairSpec == Spec /\ WF_vars(Handler) /\ WF_vars(store_and_forward_own_workload_states)

-----------------------------------------------------------------------------
\* Operations of the given kinds, each with the workloads it is about.
Entries(kinds) ==
  {o \in [op : kinds, new : Local \cup {None}, old : Local \cup {None}, deps : DelDeps] :
     /\ o.op = "Delete" <=> o.new = None
     /\ o.op = "Create" <=> o.old = None
     /\ o.op \notin {"Create", "Delete"} => NameOf[o.new] = NameOf[o.old]}

NewEntry == Entries({"Create", "Delete", "Update", "UpdateCreate", "UpdateDelete"})
ReadyEntry == Entries({"Create", "Delete", "Update", "UpdateDeleteOnly"})
PendingEntry == Entries({"Create", "Delete", "UpdateCreate", "UpdateDelete"})

ASSUME NoneAssumption == None \notin NewEntry \cup ReadyEntry

\* Types: no UpdateDeleteOnly is ever enqueued, a whole update never waits as it
\* is, only an operation with a workload to create or delete is executed, and
\* the queue holds each operation under its name.
TypeOK ==
  /\ phase \in {"select", "hello", "enqueue", "next"}
  /\ desired \in [LocalName -> Local \cup {None}]
  /\ existing \subseteq Local /\ added \subseteq Local /\ new_added \subseteq Local
  /\ deleted \subseteq Local \X DelDeps /\ leftovers \subseteq Local
  /\ ops \in Seq(NewEntry) /\ ready \in Seq(ReadyEntry)
  /\ queue \in [LocalName -> PendingEntry \cup {None}]
  /\ \A n \in LocalName : queue[n] # None => WorkloadName(queue[n]) = n
  /\ workloads \in [LocalName -> [config : Local, stopped : BOOLEAN] \cup {None}]
  /\ dropped \subseteq Local /\ leaving \subseteq Local \X {"update", "delete"}
  /\ workload_state_store \in [Config -> State \cup {None}]
  /\ workload_states \in Seq(Local \X (State \cup {"Removed"}))
  /\ Len(workload_states) <= BUFFER_SIZE
  /\ executed \in [LocalName -> SUBSET (Local \cup {None})] /\ overtaken \subseteq LocalName

\* The conditions an operation in the queue waits for.
Fulfilled(o, db) ==
  CASE o.op \in {"Create", "UpdateCreate"} -> create_fulfilled(o.new, db)
    [] o.op \in {"Delete", "UpdateDelete"} -> delete_fulfilled(o.deps, db)

\* No operation waits whose dependencies are fulfilled in the store: whatever
\* changes the store has the scheduler look at the whole queue again.
NothingReadyWaits ==
  \A n \in LocalName : queue[n] # None => ~Fulfilled(queue[n], workload_state_store)

\* o is what the server last asked for the name n.
IsNewest(o, n) ==
  o # None /\ WorkloadName(o) = n /\ o.new = desired[n] /\ o.op # "UpdateDeleteOnly"

\* The newest operation on a name is never lost: it is carried out, or it is
\* on its way, or it is the one that waits in the queue.
NewestIsKept ==
  phase # "hello" =>
    \A n \in LocalName : \/ desired[n] \in executed[n]
                         \/ \E o \in Range(ops) \cup Range(ready) \cup {queue[n]} : IsNewest(o, n)

Settled(n) == phase = "select" /\ queue[n] = None

\* With nothing on its way, the agent runs what the server last asked for,
\* unless the server's newer word overtook an operation in the queue, or a hello
\* passed over a workload the agent was about to create.
OnlyOvertakenDiverge == \A n \in LocalName \ overtaken : Settled(n) => RunsDesired(n)

\* The new workload of an update waits for its dependencies only with the old
\* one told to stop (update strategy AT_MOST_ONCE), unless it was overtaken.
WaitingUpdateIsStopped ==
  phase = "select" =>
    \A n \in LocalName \ overtaken :
      queue[n] # None /\ queue[n].op = "UpdateCreate" /\ workloads[n] # None
        => workloads[n].stopped

\* A handler comes to its end, and the agent manager back to its select, unless
\* the channel it sends states to, and alone reads, is full.
OnlyFullChannelBlocks ==
  (phase # "select") ~> (phase = "select" \/ Len(workload_states) = BUFFER_SIZE)
=============================================================================
