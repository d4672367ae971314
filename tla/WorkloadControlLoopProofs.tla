---------------------- MODULE WorkloadControlLoopProofs ----------------------
(***************************************************************************)
(* Proofs of the safety properties of WorkloadControlLoop, for every set   *)
(* of configurations, instances and container ids and for all bounds:      *)
(* types and the retries of a creation that failed; resuming, and what     *)
(* becomes of the containers; what the reported states promise.            *)
(***************************************************************************)
EXTENDS WorkloadControlLoop, TLAPS

USE DEF Inst, Exists

\* The commands the handlers build and take apart are well formed.
LEMMA CommandFacts ==
  /\ \A o \in {"Create", "Resume", "Delete", "StartLogFetcher"} : [op |-> o] \in Command
  /\ \A c \in Config \cup {None} : [op |-> "Update", new |-> c] \in Command
  /\ \A t \in Token : [op |-> "Retry", token |-> t] \in Command
  /\ \A x \in Command : x.op = "Update" => x.new \in Config \cup {None}
  /\ \A x \in Command : x.op = "Retry" => x.token \in Token
  BY DEF Command

\* The states the handlers report and the checker sends.
LEMMA StateFacts ==
  /\ Observed \subseteq ReportState
  /\ {"Starting", "Retrying", "StartingFailed", "Stopping", "DeleteFailed",
      "Removed", "Never"} \subseteq ReportState
  /\ "Unknown" \in Observed
  /\ \A i \in Id : TypeOK => get_state(i) \in Observed
  BY DEF Observed, ReportState, get_state, TypeOK, Status

\* The head and the tail of a channel.
LEMMA TailFacts ==
  ASSUME NEW S, NEW s \in Seq(S), s # <<>>
  PROVE  /\ Head(s) \in S /\ Head(s) = s[1]
         /\ Tail(s) \in Seq(S)
         /\ Len(Tail(s)) = Len(s) - 1 /\ Len(s) \in Nat
         /\ \A k \in DOMAIN Tail(s) : k + 1 \in DOMAIN s /\ Tail(s)[k] = s[k + 1]
  OBVIOUS

\* What is spent of the budget leaves a budget.
LEMMA BudgetType ==
  ASSUME TypeOK
  PROVE  LET B == [commands : Nat, exits : Nat, faults : Nat]
         IN /\ budget.commands > 0 => [budget EXCEPT !.commands = @ - 1] \in B
            /\ budget.exits > 0 => [budget EXCEPT !.exits = @ - 1] \in B
            /\ Fault => budget' \in B
<1>1. budget \in [commands : Nat, exits : Nat, faults : Nat]
  BY DEF TypeOK
<1>2. QED
  BY <1>1 DEF Fault

\* Reporting a state to the agent keeps the type of the reports.
LEMMA ReportType ==
  ASSUME TypeOK, NEW i \in Instance, NEW s \in ReportState, Report(i, s)
  PROVE  reported' \in [Instance -> ReportState]
  BY DEF TypeOK, Report

\* Invalidating the retry manager keeps its generation and clears its flag.
LEMMA InvalidateType ==
  TypeOK => /\ invalidate \in [gen : Nat, valid : BOOLEAN]
            /\ invalidate.gen = retry_manager.gen
            /\ ~invalidate.valid
  BY Zenon DEF TypeOK, invalidate

\* A new token, and the retry manager that hands it out, are well typed.
LEMMA NewTokenType ==
  TypeOK /\ new_token => /\ retry_manager' \in [gen : Nat, valid : BOOLEAN]
                         /\ retry_token' \in Token
  BY DEF TypeOK, new_token, Token

\* What taking an element off a channel leaves, and what it yields.
LEMMA ReceiveType ==
  ASSUME TypeOK
  PROVE  /\ commands # <<>> => /\ Head(commands) \in Command
                               /\ Tail(commands) \in Seq(Command)
                               /\ Len(Tail(commands)) <= COMMAND_BUFFER_SIZE
         /\ checker_states # <<>> =>
              /\ Head(checker_states).inst \in Instance
              /\ Head(checker_states).state \in Observed
              /\ Tail(checker_states) \in Seq(CheckerState)
              /\ Len(Tail(checker_states)) <= BUFFER_SIZE
<1>1. commands \in Seq(Command) /\ Len(commands) <= COMMAND_BUFFER_SIZE
  BY DEF TypeOK
<1>2. /\ checker_states \in Seq(CheckerState)
      /\ Len(checker_states) <= BUFFER_SIZE
  BY DEF TypeOK
<1>3. COMMAND_BUFFER_SIZE \in Nat /\ BUFFER_SIZE \in Nat
  BY BoundAssumption
<1>4. ASSUME commands # <<>>
      PROVE  /\ Head(commands) \in Command
             /\ Tail(commands) \in Seq(Command)
             /\ Len(Tail(commands)) = Len(commands) - 1 /\ Len(commands) \in Nat
  BY <1>1, <1>4, TailFacts
<1>5. ASSUME checker_states # <<>>
      PROVE  /\ Head(checker_states) \in CheckerState
             /\ Tail(checker_states) \in Seq(CheckerState)
             /\ Len(Tail(checker_states)) = Len(checker_states) - 1
             /\ Len(checker_states) \in Nat
  BY <1>2, <1>5, TailFacts
<1>6. \A x \in CheckerState : x.inst \in Instance /\ x.state \in Observed
  BY DEF CheckerState
<1>7. QED
  BY <1>1, <1>2, <1>3, <1>4, <1>5, <1>6

\* Every step keeps every variable in its domain.
LEMMA TypeOKStep == TypeOK /\ [Next]_vars => TypeOK'
<1> SUFFICES ASSUME TypeOK, [Next]_vars
             PROVE  TypeOK'
  OBVIOUS
<1> USE ConfigAssumption, BoundAssumption
<1> DEFINE Reports == reported' \in [Instance -> ReportState]
           Commands == commands' \in Seq(Command) /\ Len(commands') <= COMMAND_BUFFER_SIZE
           States == checker_states' \in Seq(CheckerState)
                       /\ Len(checker_states') <= BUFFER_SIZE
           Budget == budget' \in [commands : Nat, exits : Nat, faults : Nat]
<1>0. /\ Inst \in Instance
      /\ \A s \in ReportState : Report(Inst, s) => Reports
      /\ \A op : Receives(op) => Commands /\ Head(commands) \in Command
      /\ ReceivesState => States /\ Head(checker_states).state \in ReportState
      /\ Fault => Budget
      /\ budget.exits > 0 /\ budget' = [budget EXCEPT !.exits = @ - 1] => Budget
      /\ budget.commands > 0 /\ budget' = [budget EXCEPT !.commands = @ - 1] => Budget
      /\ \A x \in Command :
           Len(commands) < COMMAND_BUFFER_SIZE /\ commands' = Append(commands, x) => Commands
  <2>1. Inst \in Instance
    BY DEF TypeOK
  <2>2. \A x \in Command :
          Len(commands) < COMMAND_BUFFER_SIZE /\ commands' = Append(commands, x) => Commands
    <3>1. commands \in Seq(Command)
      BY DEF TypeOK
    <3>2. QED
      BY <3>1
  <2>3. QED
    BY <2>1, <2>2, ReportType, ReceiveType, BudgetType, StateFacts, Zenon
       DEF Receives, ReceivesState
<1> HIDE DEF Reports, Commands, States, Budget
<1>a. Reports /\ Commands /\ States /\ Budget
        /\ pc' \in PC
        /\ workload_named' \in Config
        /\ workload_id' \in Id \cup {None}
        /\ state_checker' \in [id : Id, inst : Instance, last : Observed \cup {"Never"}]
                                \cup {None}
        /\ continuation' \in Config \cup {None, End}
        /\ retry_manager' \in [gen : Nat, valid : BOOLEAN]
        /\ retry_token' \in Token
        /\ backoffs' \subseteq Token
        /\ sender' \in BOOLEAN
        /\ container' \in [Id -> [inst : Instance, status : Status] \cup {None}]
        /\ wanted' \in Config \cup {None, End}
        /\ orphans' \subseteq Id
      => TypeOK'
  BY DEF TypeOK, Reports, Commands, States, Budget
<1>b. /\ UNCHANGED reported => Reports
      /\ UNCHANGED commands => Commands
      /\ UNCHANGED checker_states => States
      /\ UNCHANGED budget => Budget
  BY DEF TypeOK, Reports, Commands, States, Budget
<1> USE <1>0, <1>a, <1>b DEF PC
<1>1. CASE SendCreate
  BY <1>1, CommandFacts DEF SendCreate, TypeOK
<1>2. CASE IgnoreForeignState
  BY <1>2 DEF IgnoreForeignState, ReceivesState, loopVars, TypeOK
<1>3. CASE ForwardState
  BY <1>3 DEF ForwardState, ReceivesState, TypeOK
<1>4. CASE RestartReusingBundle
  BY <1>4, StateFacts, NewTokenType
     DEF RestartReusingBundle, ReceivesState, StartCreate, TypeOK
<1>5. CASE RestartByUpdate
  BY <1>5, StateFacts DEF RestartByUpdate, ReceivesState, StartDelete, TypeOK
<1>6. CASE HandleCreate
  BY <1>6, StateFacts, NewTokenType DEF HandleCreate, StartCreate, TypeOK
<1>7. CASE HandleUpdate
  BY <1>7, StateFacts, CommandFacts, InvalidateType
     DEF HandleUpdate, Receives, StartDelete, TypeOK
<1>8. CASE HandleDelete
  BY <1>8, StateFacts, InvalidateType DEF HandleDelete, StartDelete, TypeOK
<1>9. CASE HandleRetry
  BY <1>9, CommandFacts DEF HandleRetry, Receives, TypeOK
<1>10. CASE HandleResume
  <2>1. /\ Budget
        /\ workload_id' \in Id \cup {None}
        /\ state_checker' \in [id : Id, inst : Instance, last : Observed \cup {"Never"}]
                                \cup {None}
    BY <1>10 DEF HandleResume
  <2>2. orphans' \subseteq Id
    BY <1>10 DEF HandleResume, OwnContainers, TypeOK
  <2>3. QED
    BY <1>10, <2>1, <2>2 DEF HandleResume, TypeOK
<1>11. CASE HandleStartLogFetcher
  BY <1>11 DEF HandleStartLogFetcher, loopVars, TypeOK
<1>12. CASE NothingToDelete
  BY <1>12 DEF NothingToDelete, TypeOK
<1>13. CASE DeleteSucceeds
  BY <1>13 DEF DeleteSucceeds, TypeOK
<1>14. CASE DeleteFails
  BY <1>14, StateFacts DEF DeleteFails, RuntimeRefusesDelete, TypeOK
<1>15. CASE FinishDelete
  BY <1>15, StateFacts, InvalidateType DEF FinishDelete, TypeOK, Commands, States
<1>16. CASE FinishUpdate
  <2>1. Reports
    BY <1>16, StateFacts DEF FinishUpdate, TypeOK, Reports, Report
  <2>2. QED
    <3>1. CASE continuation = None
      BY <1>16, <2>1, <3>1 DEF FinishUpdate, stop_checker, TypeOK
    <3>2. CASE continuation # None
      <4>1. continuation \in Config
        BY <1>16, <3>2 DEF FinishUpdate, TypeOK
      <4>2. QED
        <5>1. /\ retry_manager' \in [gen : Nat, valid : BOOLEAN]
              /\ retry_token' \in Token
          BY <1>16, <3>2, NewTokenType DEF FinishUpdate, StartCreate
        <5>2. /\ pc' = "create" /\ workload_named' = continuation
              /\ workload_id' = None
              /\ state_checker' \in {None, state_checker}
              /\ continuation' = None
              /\ UNCHANGED <<wanted, commands, checker_states, backoffs,
                             sender, container, orphans, budget>>
          BY <1>16, <3>2 DEF FinishUpdate, StartCreate, stop_checker
        <5>3. QED
          BY <2>1, <4>1, <5>1, <5>2 DEF TypeOK
    <3>3. QED
      BY <3>1, <3>2
<1>17. CASE CreateSucceeds
  BY <1>17 DEF CreateSucceeds, NoToken, Token, Status, TypeOK
<1>18. CASE CreateIsRejected
  BY <1>18, StateFacts DEF CreateIsRejected, NoToken, Token, TypeOK
<1>19. CASE CreateFails
  <2>1. Reports /\ Budget
    BY <1>19, StateFacts DEF CreateFails, send_retry_for_workload
  <2>2. /\ container' \in [Id -> [inst : Instance, status : Status] \cup {None}]
        /\ orphans' \subseteq Id
    BY <1>19 DEF CreateFails, OwnContainers, Status, TypeOK
  <2>3. backoffs' \subseteq Token /\ retry_token' \in Token
    <3>1. retry_token \in Token /\ backoffs \subseteq Token
      BY DEF TypeOK
    <3>2. QED
      BY <1>19, <3>1 DEF CreateFails, send_retry_for_workload, NoToken, Token
  <2>4. QED
    BY <1>19, <2>1, <2>2, <2>3 DEF CreateFails, send_retry_for_workload, TypeOK
<1>20. CASE Backoff
  BY <1>20, CommandFacts DEF Backoff, BackoffElapses, BackoffInterrupted, loopVars, TypeOK
<1>21. CASE Agent
  <2>1. ASSUME NEW x \in Command, SendCommand(x)
        PROVE  Commands /\ Budget
    BY <2>1 DEF SendCommand
  <2>2. QED
    BY <1>21, <2>1, CommandFacts, Zenon
       DEF Agent, SendUpdate, SendDelete, SendStartLogFetcher, SendCommand, loopVars, TypeOK
<1>22. CASE CheckerPolls \/ CheckerPollFails
  <2>1. ASSUME NEW s \in Observed, CheckerSends(s), state_checker # None
        PROVE  /\ States
               /\ state_checker' \in
                    [id : Id, inst : Instance, last : Observed \cup {"Never"}] \cup {None}
    <3>1. state_checker \in [id : Id, inst : Instance, last : Observed \cup {"Never"}]
      BY <2>1 DEF TypeOK
    <3>2. checker_states \in Seq(CheckerState)
      BY DEF TypeOK
    <3>3. [inst |-> state_checker.inst, state |-> s] \in CheckerState
      BY <3>1 DEF CheckerState
    <3>4. States
      BY <2>1, <3>2, <3>3 DEF CheckerSends, States
    <3>5. QED
      BY <2>1, <3>1, <3>4 DEF CheckerSends
  <2>2. QED
    BY <1>22, <2>1, StateFacts DEF CheckerPolls, CheckerPollFails, TypeOK
<1>23. CASE \E i \in Id : ContainerExits(i) \/ ContainerVanishes(i)
  <2>1. PICK i \in Id : ContainerExits(i) \/ ContainerVanishes(i)
    BY <1>23
  <2>2. Budget
    BY <2>1 DEF ContainerExits, ContainerVanishes
  <2>3. container' \in [Id -> [inst : Instance, status : Status] \cup {None}]
    <3>1. container \in [Id -> [inst : Instance, status : Status] \cup {None}]
      BY DEF TypeOK
    <3>2. QED
      BY <2>1, <3>1 DEF ContainerExits, ContainerVanishes, Status
  <2>4. QED
    BY <2>1, <2>2, <2>3 DEF ContainerExits, ContainerVanishes, loopVars, TypeOK
<1>24. CASE UNCHANGED vars
  BY <1>24 DEF vars, loopVars, TypeOK
<1>25. QED
  BY <1>1, <1>2, <1>3, <1>4, <1>5, <1>6, <1>7, <1>8, <1>9, <1>10, <1>11, <1>12,
     <1>13, <1>14, <1>15, <1>16, <1>17, <1>18, <1>19, <1>20, <1>21, <1>22, <1>23,
     <1>24 DEF Next, ControlLoop, Environment

-----------------------------------------------------------------------------
(* Retries.  Tokens only enter circulation when a creation fails; every other *)
(* step moves or removes them.                                               *)

Shrinks(d) ==
  /\ backoffs' \subseteq backoffs
  /\ \A k \in RetryCommands' :
       k + d \in RetryCommands /\ commands[k + d].token = commands'[k].token

Dead == \A t \in Outstanding : ~is_valid(t)

\* Only tokens are outstanding.
LEMMA OutstandingType == TypeOK => Outstanding \subseteq Token
<1>1. TypeOK => backoffs \subseteq Token /\ \A k \in DOMAIN commands : commands[k] \in Command
  BY DEF TypeOK
<1>2. QED
  BY <1>1, CommandFacts DEF Outstanding, RetryCommands

\* Taking a command, queueing one that is no Retry, clearing the channel and
\* ending a backoff bring no new retry.
LEMMA ShrinkFacts ==
  ASSUME TypeOK, TypeOK'
  PROVE  /\ commands # <<>> /\ commands' = Tail(commands) /\ UNCHANGED backoffs => Shrinks(1)
         /\ \A x \in Command : x.op # "Retry" /\ commands' = Append(commands, x)
                                 /\ UNCHANGED backoffs => Shrinks(0)
         /\ commands' = <<>> /\ UNCHANGED backoffs => Shrinks(0)
         /\ UNCHANGED commands /\ backoffs' \subseteq backoffs => Shrinks(0)
<1>1. commands \in Seq(Command)
  BY DEF TypeOK
<1>2. ASSUME commands # <<>>, commands' = Tail(commands), UNCHANGED backoffs
      PROVE  Shrinks(1)
  BY <1>1, <1>2, TailFacts DEF Shrinks, RetryCommands
<1>3. ASSUME NEW x \in Command, x.op # "Retry", commands' = Append(commands, x),
             UNCHANGED backoffs
      PROVE  Shrinks(0)
  BY <1>1, <1>3 DEF Shrinks, RetryCommands
<1>4. ASSUME commands' = <<>>, UNCHANGED backoffs
      PROVE  Shrinks(0)
  BY <1>4 DEF Shrinks, RetryCommands
<1>5. ASSUME UNCHANGED commands, backoffs' \subseteq backoffs
      PROVE  Shrinks(0)
  BY <1>1, <1>5 DEF Shrinks, RetryCommands
<1>6. QED
  BY <1>2, <1>3, <1>4, <1>5

\* Where no retry is brought, at most one stays alive.
LEMMA ShrinkKeeps ==
  ASSUME TypeOK, TypeOK', NEW d \in {0, 1}, Shrinks(d)
  PROVE  /\ Outstanding' \subseteq Outstanding
         /\ AtMostOneLiveRetry /\ UNCHANGED retry_manager => AtMostOneLiveRetry'
<1>1. Outstanding' \subseteq Outstanding
  BY DEF Shrinks, Outstanding
<1>2. \A j \in RetryCommands : j \in Nat
  BY DEF RetryCommands, TypeOK
<1>2a. \A j \in RetryCommands' : j \in Nat
  BY DEF RetryCommands, TypeOK
<1>3. ASSUME AtMostOneLiveRetry, UNCHANGED retry_manager
      PROVE  AtMostOneLiveRetry'
  <2>1. \A t : is_valid(t)' <=> is_valid(t)
    BY <1>3 DEF is_valid
  <2>2. QED
    BY <1>1, <1>2, <1>2a, <1>3, <2>1 DEF AtMostOneLiveRetry, Shrinks
<1>4. QED
  BY <1>1, <1>3

\* Invalidating, or drawing a new token, leaves no retry alive.
LEMMA NoneAlive ==
  ASSUME TypeOK, TypeOK', TokensAreOld, Outstanding' \subseteq Outstanding,
         retry_manager' = invalidate \/ new_token
  PROVE  Dead'
<1>1. CASE retry_manager' = invalidate
  BY <1>1, InvalidateType DEF Dead, is_valid
<1>2. CASE new_token
  <2>1. \A t \in Outstanding' : t.gen <= retry_manager.gen /\ t \in Token
    BY OutstandingType DEF TokensAreOld
  <2>2. retry_manager.gen \in Nat /\ \A t \in Token : t.gen \in Nat
    BY DEF TypeOK, Token
  <2>3. QED
    BY <1>2, <2>1, <2>2 DEF Dead, is_valid, new_token
<1>3. QED
  BY <1>1, <1>2

\* A step that leaves the retry manager alone and only removes tokens keeps
\* what is known of them, if it keeps a live retry without a workload.
LEMMA QuietStep ==
  ASSUME Inv, TypeOK', NEW d \in {0, 1}, Shrinks(d),
         UNCHANGED retry_manager, retry_token' \in {retry_token, NoToken},
         Dead \/ Dead' \/ ((workload_id = None => workload_id' = None) /\ (pc # "create" => pc' # "create"))
  PROVE  LiveRetryHasNoWorkload' /\ AtMostOneLiveRetry' /\ TokensAreOld'
<1>1. Outstanding' \subseteq Outstanding /\ AtMostOneLiveRetry'
  BY ShrinkKeeps DEF Inv
<1>2. \A t : is_valid(t)' <=> is_valid(t)
  BY DEF is_valid
<1>3. LiveRetryHasNoWorkload'
  BY <1>1, <1>2 DEF Inv, LiveRetryHasNoWorkload, Dead
<1>4. TokensAreOld'
  <2>1. retry_manager.gen \in Nat
    BY DEF Inv, TypeOK
  <2>2. QED
    BY <1>1, <2>1 DEF Inv, TokensAreOld, NoToken
<1>5. QED
  BY <1>1, <1>3, <1>4

\* A step that invalidates the current token, or replaces it, settles the matter.
LEMMA ResetStep ==
  ASSUME Inv, TypeOK', NEW d \in {0, 1}, Shrinks(d),
         (retry_manager' = invalidate /\ UNCHANGED retry_token) \/ new_token
  PROVE  LiveRetryHasNoWorkload' /\ AtMostOneLiveRetry' /\ TokensAreOld'
<1>1. Outstanding' \subseteq Outstanding
  BY ShrinkKeeps DEF Inv
<1>2. Dead'
  BY <1>1, NoneAlive DEF Inv
<1>3. LiveRetryHasNoWorkload' /\ AtMostOneLiveRetry'
  BY <1>2 DEF Dead, LiveRetryHasNoWorkload, AtMostOneLiveRetry, Outstanding
<1>4. TokensAreOld'
  <2>1. retry_manager.gen \in Nat /\ \A t \in Outstanding : t.gen \in Nat
    BY OutstandingType, SMTT(30) DEF Inv, TypeOK, Token
  <2>2. retry_manager'.gen \in {retry_manager.gen, retry_manager.gen + 1}
    BY InvalidateType DEF Inv, new_token
  <2>3. retry_token'.gen <= retry_manager'.gen
    <3>1. CASE new_token
      BY <2>1, <3>1 DEF new_token
    <3>2. CASE retry_manager' = invalidate /\ UNCHANGED retry_token
      BY <3>2, InvalidateType DEF Inv, TokensAreOld
    <3>3. QED
      BY <3>1, <3>2
  <2>4. QED
    BY <1>1, <2>1, <2>2, <2>3 DEF Inv, TokensAreOld
<1>5. QED
  BY <1>3, <1>4

\* While a creation is in progress no retry is alive.
LEMMA DeadWhileCreating == Inv /\ pc = "create" => Dead
  BY DEF Inv, LiveRetryHasNoWorkload, Dead

\* Every step keeps the three facts about retries.
LEMMA RetryStep ==
  ASSUME Inv, TypeOK', [Next]_vars
  PROVE  LiveRetryHasNoWorkload' /\ AtMostOneLiveRetry' /\ TokensAreOld'
<1> DEFINE Goal == LiveRetryHasNoWorkload' /\ AtMostOneLiveRetry' /\ TokensAreOld'
<1> USE DEF Inv
<1>a. /\ \A op : Receives(op) /\ UNCHANGED backoffs => Shrinks(1)
      /\ UNCHANGED commands /\ backoffs' \subseteq backoffs => Shrinks(0)
      /\ \A x \in Command : x.op # "Retry" /\ commands' = Append(commands, x)
                              /\ UNCHANGED backoffs => Shrinks(0)
  BY ShrinkFacts DEF Receives
<1>b. ASSUME Shrinks(0) \/ Shrinks(1)
      PROVE  /\ retry_manager' = invalidate /\ UNCHANGED retry_token => Goal
             /\ new_token => Goal
             /\ /\ UNCHANGED retry_manager
                /\ retry_token' = retry_token \/ retry_token' = NoToken
                /\ \/ Dead
                   \/ /\ workload_id = None => workload_id' = None
                      /\ pc # "create" => pc' # "create"
                => Goal
  <2>1. CASE Shrinks(0)
    BY <2>1, QuietStep, ResetStep
  <2>2. CASE Shrinks(1)
    BY <2>2, QuietStep, ResetStep
  <2>3. QED
    BY <1>b, <2>1, <2>2
<1> HIDE DEF Inv
<1> SUFFICES Goal
  OBVIOUS
<1> HIDE DEF Goal
<1>1. CASE SendCreate
  BY <1>1, <1>a, <1>b, CommandFacts DEF SendCreate
<1>2. CASE IgnoreForeignState \/ ForwardState
  BY <1>2, <1>a, <1>b DEF IgnoreForeignState, ForwardState, ReceivesState, loopVars
<1>3. CASE RestartReusingBundle
  BY <1>3, <1>a, <1>b DEF RestartReusingBundle, ReceivesState, StartCreate
<1>4. CASE RestartByUpdate
  BY <1>4, <1>a, <1>b DEF RestartByUpdate, ReceivesState, StartDelete
<1>5. CASE HandleCreate
  BY <1>5, <1>a, <1>b DEF HandleCreate, StartCreate
<1>6. CASE HandleUpdate \/ HandleDelete
  BY <1>6, <1>a, <1>b DEF HandleUpdate, HandleDelete
<1>7. CASE HandleRetry
  <2>1. Shrinks(1)
    BY <1>7, <1>a DEF HandleRetry
  <2>2. CASE ~is_valid(Head(commands).token)
    BY <1>7, <2>1, <2>2, <1>b DEF HandleRetry, Receives
  <2>3. CASE is_valid(Head(commands).token)
    <3>1. 1 \in RetryCommands /\ commands[1] = Head(commands)
      BY <1>7 DEF HandleRetry, Receives, RetryCommands, Inv, TypeOK
    <3>2. \A t : is_valid(t)' <=> is_valid(t)
      BY <1>7 DEF HandleRetry, is_valid
    <3>3. \A k \in RetryCommands' : k \in Nat /\ k # 0
      BY DEF RetryCommands, TypeOK
    <3>4. Dead'
      <4>1. SUFFICES ASSUME NEW t \in Outstanding', is_valid(t)
                     PROVE  FALSE
        BY <3>2 DEF Dead
      <4>2. t = commands[1].token
        BY <2>1, <2>3, <3>1, <4>1, ShrinkKeeps
           DEF Inv, AtMostOneLiveRetry, Outstanding
      <4>3. CASE t \in backoffs'
        BY <2>1, <2>3, <3>1, <4>2, <4>3 DEF Shrinks, Inv, AtMostOneLiveRetry
      <4>4. CASE \E k \in RetryCommands' : t = commands'[k].token
        BY <2>1, <2>3, <3>1, <3>3, <4>2, <4>4 DEF Shrinks, Inv, AtMostOneLiveRetry
      <4>5. QED
        BY <4>1, <4>3, <4>4 DEF Outstanding
    <3>5. AtMostOneLiveRetry' /\ Outstanding' \subseteq Outstanding
      BY <1>7, <2>1, ShrinkKeeps DEF HandleRetry, Inv
    <3>6. TokensAreOld'
      BY <1>7, <2>3, <3>1, <3>5 DEF HandleRetry, Inv, TokensAreOld, Outstanding
    <3>7. QED
      BY <3>4, <3>5, <3>6 DEF Goal, Dead, LiveRetryHasNoWorkload
  <2>4. QED
    BY <2>2, <2>3
<1>8. CASE HandleResume
  <2>1. Dead
    BY <1>8 DEF HandleResume, Receives, Inv, ResumeComesFirst, TypeOK, Dead
  <2>2. QED
    BY <1>8, <2>1, <1>a, <1>b DEF HandleResume
<1>9. CASE HandleStartLogFetcher
  BY <1>9, <1>a, <1>b DEF HandleStartLogFetcher, loopVars
<1>10. CASE NothingToDelete \/ DeleteSucceeds
  BY <1>10, <1>a, <1>b DEF NothingToDelete, DeleteSucceeds
<1>11. CASE DeleteFails
  BY <1>11, <1>a, <1>b DEF DeleteFails, RuntimeRefusesDelete
<1>12. CASE FinishDelete
  BY <1>12, <1>b, ShrinkFacts DEF FinishDelete, Inv
<1>13. CASE FinishUpdate
  BY <1>13, <1>a, <1>b DEF FinishUpdate, StartCreate
<1>14. CASE CreateSucceeds \/ CreateIsRejected
  BY <1>14, <1>a, <1>b, DeadWhileCreating DEF CreateSucceeds, CreateIsRejected
<1>15. CASE CreateFails
  <2>1. Dead
    BY <1>15, DeadWhileCreating DEF CreateFails
  <2>2. \A t : is_valid(t)' <=> is_valid(t)
    BY <1>15 DEF CreateFails, is_valid
  <2>3. RetryCommands' = RetryCommands
    BY <1>15 DEF CreateFails, RetryCommands
  <2> DEFINE u == [retry_token EXCEPT !.counter = @ + 1]
  <2>4. Outstanding' = Outstanding \cup {u}
    BY <1>15, <2>3 DEF CreateFails, send_retry_for_workload, Outstanding
  <2>5. \A k \in RetryCommands : ~is_valid(commands[k].token)
    BY <2>1 DEF Dead, Outstanding
  <2>6. AtMostOneLiveRetry'
    BY <1>15, <2>1, <2>2, <2>3, <2>4, <2>5 DEF CreateFails, AtMostOneLiveRetry, Dead
  <2>7. LiveRetryHasNoWorkload'
    BY <1>15 DEF CreateFails, send_retry_for_workload, LiveRetryHasNoWorkload
  <2>8. TokensAreOld'
    <3>1. u.gen = retry_token.gen /\ NoToken.gen <= retry_manager.gen
      BY DEF Inv, TypeOK, Token, NoToken
    <3>2. retry_token' = NoToken /\ UNCHANGED retry_manager /\ TokensAreOld
      BY <1>15 DEF CreateFails, Inv
    <3> HIDE DEF u
    <3>3. QED
      BY <2>4, <3>1, <3>2 DEF TokensAreOld
  <2>9. QED
    BY <2>6, <2>7, <2>8 DEF Goal
<1>16. ASSUME NEW t \in backoffs, BackoffElapses(t)
       PROVE  Goal
  <2>1. CASE UNCHANGED commands
    BY <1>16, <2>1, <1>a, <1>b DEF BackoffElapses, loopVars
  <2>2. CASE commands' = Append(commands, [op |-> "Retry", token |-> t])
    <3>1. \A u : is_valid(u)' <=> is_valid(u)
      BY <1>16 DEF BackoffElapses, loopVars, is_valid
    <3> DEFINE n == Len(commands) + 1
    <3>2. /\ RetryCommands' = RetryCommands \cup {n} /\ n \notin RetryCommands
          /\ \A k \in RetryCommands : commands'[k] = commands[k]
          /\ commands'[n].token = t
      <4>1. commands \in Seq(Command)
        BY DEF Inv, TypeOK
      <4>2. QED
        BY <2>2, <4>1 DEF RetryCommands
    <3>3. backoffs' = backoffs \ {t}
      BY <1>16 DEF BackoffElapses
    <3> HIDE DEF n
    <3>4. Outstanding' = Outstanding
      BY <1>16, <3>2, <3>3 DEF Outstanding
    <3>5. AtMostOneLiveRetry'
      BY <1>16, <3>1, <3>2, <3>3, <3>4 DEF Inv, AtMostOneLiveRetry
    <3>6. LiveRetryHasNoWorkload' /\ TokensAreOld'
      BY <1>16, <3>1, <3>4 DEF BackoffElapses, loopVars, Inv, LiveRetryHasNoWorkload, TokensAreOld
    <3>7. QED
      BY <3>5, <3>6 DEF Goal
  <2>3. QED
    BY <1>16, <2>1, <2>2 DEF BackoffElapses
<1>17. ASSUME NEW t \in backoffs, BackoffInterrupted(t)
       PROVE  Goal
  BY <1>17, <1>a, <1>b DEF BackoffInterrupted, loopVars
<1>18. CASE Agent
  BY <1>18, <1>a, <1>b, CommandFacts, Zenon
     DEF Agent, SendUpdate, SendDelete, SendStartLogFetcher, SendCommand, loopVars
<1>19. CASE Environment
  BY <1>19, <1>a, <1>b
     DEF Environment, CheckerPolls, CheckerPollFails, ContainerExits, ContainerVanishes, loopVars
<1>20. CASE UNCHANGED vars
  BY <1>20, <1>a, <1>b DEF vars, loopVars
<1>21. QED
  BY <1>1, <1>2, <1>3, <1>4, <1>5, <1>6, <1>7, <1>8, <1>9, <1>10, <1>11, <1>12, <1>13,
     <1>14, <1>15, <1>16, <1>17, <1>18, <1>19, <1>20 DEF Goal, Next, ControlLoop, Backoff

-----------------------------------------------------------------------------
(* Resume.  While the command waits, the loop has done nothing yet; once it   *)
(* is taken there never is another.                                           *)

NoResume == \A k \in DOMAIN commands : commands[k].op # "Resume"

\* A loop that has done anything has no Resume left in its channel.
LEMMA ResumeFacts ==
  ASSUME Inv
  PROVE  /\ pc # "select" \/ state_checker # None \/ checker_states # <<>>
              \/ Outstanding # {} => NoResume
         /\ NoResume => ~Resuming
  BY DEF Inv, TypeOK, NoResume, Resuming, ResumeComesFirst

\* No command that is queued or taken brings a Resume back.
LEMMA NoResumeKept ==
  ASSUME TypeOK
  PROVE  /\ NoResume /\ UNCHANGED commands => NoResume'
         /\ \A x : NoResume /\ commands' = Append(commands, x) /\ x.op # "Resume" => NoResume'
         /\ ResumeComesFirst /\ commands # <<>> /\ commands' = Tail(commands) => NoResume'
<1>1. commands \in Seq(Command)
  BY DEF TypeOK
<1>2. NoResume /\ UNCHANGED commands => NoResume'
  BY DEF NoResume
<1>3. ASSUME NEW x, NoResume, commands' = Append(commands, x), x.op # "Resume"
      PROVE  NoResume'
  BY <1>1, <1>3 DEF NoResume
<1>4. ASSUME ResumeComesFirst, commands # <<>>, commands' = Tail(commands)
      PROVE  NoResume'
  BY <1>1, <1>4, TailFacts DEF NoResume, ResumeComesFirst
<1>5. QED
  BY <1>2, <1>3, <1>4

\* Every step keeps Resume the first command of its loop.
LEMMA ResumeStep ==
  ASSUME Inv, TypeOK', [Next]_vars
  PROVE  ResumeComesFirst'
<1>a. TypeOK /\ ResumeComesFirst
  BY DEF Inv
<1>b. NoResume' => ResumeComesFirst'
  BY DEF NoResume, ResumeComesFirst
<1>c. \A op : Receives(op) => ResumeComesFirst'
  BY <1>a, <1>b, NoResumeKept DEF Receives
<1> DEFINE Goal == ResumeComesFirst'
<1>d. /\ pc # "select" => NoResume
      /\ state_checker # None => NoResume
      /\ checker_states # <<>> => NoResume
      /\ Outstanding # {} => NoResume
  BY ResumeFacts
<1>e. /\ NoResume /\ commands' = commands => Goal
      /\ \A x : NoResume /\ commands' = Append(commands, x) /\ x.op # "Resume" => Goal
      /\ \A op : Receives(op) => Goal
  BY <1>a, <1>b, <1>c, NoResumeKept
<1> SUFFICES Goal
  BY Zenon
<1> HIDE DEF Goal
<1> USE <1>d, <1>e
<1>1. CASE pc # "select" /\ ControlLoop
  <2>1. NoResume /\ \A op : ~Receives(op)
    BY <1>1 DEF Receives
  <2>2. CASE SendCreate
    BY <2>1, <2>2 DEF SendCreate
  <2>3. CASE commands' = <<>>
    BY <1>b, <2>3 DEF NoResume, Goal
  <2>4. CASE UNCHANGED commands
    BY <2>1, <2>4
  <2>5. QED
    BY <1>1, <2>1, <2>2, <2>3, <2>4, Zenon
       DEF ControlLoop, IgnoreForeignState, ForwardState, RestartReusingBundle,
           RestartByUpdate, ReceivesState, HandleCreate, HandleUpdate, HandleDelete,
           HandleRetry, HandleResume, HandleStartLogFetcher, NothingToDelete,
           DeleteSucceeds, DeleteFails, RuntimeRefusesDelete, FinishDelete, FinishUpdate,
           CreateSucceeds, CreateIsRejected, CreateFails
<1>2. CASE pc = "select" /\ ControlLoop
  BY <1>2, Zenon
     DEF ControlLoop, SendCreate, IgnoreForeignState, ForwardState, RestartReusingBundle,
         RestartByUpdate, ReceivesState, HandleCreate, HandleUpdate, HandleDelete,
         HandleRetry, HandleResume, HandleStartLogFetcher, NothingToDelete,
         DeleteSucceeds, DeleteFails, RuntimeRefusesDelete, FinishDelete, FinishUpdate,
         CreateSucceeds, CreateIsRejected, CreateFails
<1>3. CASE Backoff
  <2>1. NoResume
    BY <1>3, Zenon DEF Backoff, Outstanding
  <2>2. QED
    BY <1>3, <2>1 DEF Backoff, BackoffElapses, BackoffInterrupted
<1>4. CASE Agent
  <2>1. PICK x \in Command : SendCommand(x) /\ x.op # "Resume" /\ x.op # "Retry"
    BY <1>4, CommandFacts, Zenon DEF Agent, SendUpdate, SendStartLogFetcher, SendDelete
  <2>2. Outstanding' \subseteq Outstanding
    BY <1>a, <2>1, ShrinkFacts, ShrinkKeeps DEF SendCommand
  <2>3. \A k \in DOMAIN commands' :
          commands'[k].op = "Resume" => k \in DOMAIN commands /\ commands[k].op = "Resume"
    <3>1. commands \in Seq(Command)
      BY <1>a DEF TypeOK
    <3>2. QED
      BY <2>1, <3>1 DEF SendCommand
  <2>4. UNCHANGED <<pc, workload_named, workload_id, state_checker, checker_states,
                    reported, container>>
    BY <2>1 DEF SendCommand, loopVars
  <2>5. QED
    BY <1>a, <2>2, <2>3, <2>4 DEF ResumeComesFirst, Goal
<1>5. CASE CheckerPolls \/ CheckerPollFails
  BY <1>5 DEF CheckerPolls, CheckerPollFails
<1>6. ASSUME NEW i \in Id, ContainerExits(i) \/ ContainerVanishes(i)
      PROVE  Goal
  <2>1. \A j \in Id : Exists(j)' => Exists(j) /\ container'[j].inst = container[j].inst
    <3>1. container \in [Id -> [inst : Instance, status : Status] \cup {None}]
      BY <1>a DEF TypeOK
    <3>2. QED
      BY <1>6, <3>1 DEF ContainerExits, ContainerVanishes
  <2>2. UNCHANGED <<loopVars, commands, checker_states, backoffs>>
    BY <1>6 DEF ContainerExits, ContainerVanishes
  <2>3. Outstanding' = Outstanding
    BY <2>2, ZenonT(30) DEF Outstanding, RetryCommands
  <2>4. QED
    BY <1>a, <2>1, <2>2, <2>3 DEF ResumeComesFirst, loopVars, Goal
<1>7. CASE UNCHANGED vars
  BY <1>a, <1>7 DEF vars, loopVars, ResumeComesFirst, Outstanding, RetryCommands, Goal
<1>8. QED
  BY <1>1, <1>2, <1>3, <1>4, <1>5, <1>6, <1>7 DEF Next, Environment

-----------------------------------------------------------------------------
(* Containers *)

ContainerInv == OnlyFaultsOrphan /\ CheckerWatchesOwnWorkload /\ ContainerIsNamed

\* A step that keeps the loop's container, its checker and the runtime keeps
\* what relates them, provided that Resume, if it waited, still does.
LEMMA SameContainers ==
  ASSUME Inv, UNCHANGED <<workload_named, workload_id, container, orphans>>,
         Resuming => Resuming',
         state_checker' = None \/ UNCHANGED state_checker,
         pc' = "deleted" => pc = "deleted" \/ workload_id = None
  PROVE  ContainerInv'
  BY DEF Inv, ContainerInv, OnlyFaultsOrphan, CheckerWatchesOwnWorkload, ContainerIsNamed

\* Every step keeps track of the containers and of the state checker.
LEMMA ContainerStep ==
  ASSUME Inv, TypeOK', [Next]_vars
  PROVE  ContainerInv'
<1> USE ConfigAssumption, BoundAssumption
<1>a. TypeOK /\ ContainerInv
  BY DEF Inv, ContainerInv
<1>b. /\ \A op : Receives(op) /\ op # "Resume" => ~Resuming
      /\ pc # "select" => ~Resuming
      /\ ReceivesState => ~Resuming
      /\ UNCHANGED commands => (Resuming => Resuming')
      /\ \A x : commands' = Append(commands, x) => (Resuming => Resuming')
  <2>1. \A x : commands' = Append(commands, x) => (Resuming => Resuming')
    BY DEF Inv, TypeOK, Resuming
  <2>2. QED
    BY <2>1, ResumeFacts DEF Receives, ReceivesState, Resuming
<1> DEFINE Waits == Resuming => Resuming'
           Goal == ContainerInv'
<1>c. /\ \A op : Receives(op) /\ op # "Resume" => Waits
      /\ pc # "select" => Waits
      /\ ReceivesState => Waits
      /\ UNCHANGED commands => Waits
      /\ \A x : commands' = Append(commands, x) => Waits
  BY <1>b
<1>d. /\ Waits /\ workload_named' = workload_named /\ workload_id' = workload_id
      /\ container' = container /\ orphans' = orphans
      /\ state_checker' = None \/ state_checker' = state_checker
      /\ pc' = "deleted" => pc = "deleted" \/ workload_id = None
      => Goal
  BY SameContainers
<1> SUFFICES Goal
  OBVIOUS
<1> HIDE DEF Waits, Goal
<1> USE <1>c, <1>d
<1>1. CASE SendCreate
  BY <1>1 DEF SendCreate
<1>2. CASE IgnoreForeignState \/ ForwardState
  BY <1>2 DEF IgnoreForeignState, ForwardState, ReceivesState, loopVars
<1>3. CASE RestartReusingBundle \/ RestartByUpdate
  BY <1>3
     DEF RestartReusingBundle, RestartByUpdate, ReceivesState, StartCreate, StartDelete
<1>4. CASE HandleCreate
  BY <1>4 DEF HandleCreate, StartCreate
<1>5. CASE HandleUpdate \/ HandleDelete
  BY <1>5 DEF HandleUpdate, HandleDelete, StartDelete
<1>6. CASE HandleRetry
  BY <1>6 DEF HandleRetry, Receives
<1>7. CASE HandleResume
  <2>1. \A i \in Id : Exists(i) => i \in OwnContainers
    BY <1>7 DEF HandleResume, Receives, Inv, ResumeComesFirst, OwnContainers, TypeOK
  <2>2. pc' = "select" /\ UNCHANGED <<workload_named, container>>
    BY <1>7 DEF HandleResume, Receives
  <2>3. CASE \E i \in Id :
               /\ OwnContainers = {i} /\ workload_id' = i /\ UNCHANGED orphans
               /\ \/ state_checker' = [id |-> i, inst |-> Inst, last |-> "Never"]
                  \/ state_checker' = None
    BY <2>1, <2>2, <2>3
       DEF ContainerInv, OnlyFaultsOrphan, CheckerWatchesOwnWorkload, ContainerIsNamed,
           OwnContainers, Goal
  <2>4. CASE /\ workload_id' = None /\ state_checker' = None
             /\ orphans' = orphans \cup OwnContainers
    BY <2>1, <2>2, <2>4
       DEF ContainerInv, OnlyFaultsOrphan, CheckerWatchesOwnWorkload, ContainerIsNamed, Goal
  <2>5. QED
    BY <1>7, <2>3, <2>4, Zenon DEF HandleResume
<1>8. CASE HandleStartLogFetcher
  BY <1>8 DEF HandleStartLogFetcher, loopVars, Receives
<1>9. CASE NothingToDelete
  BY <1>9 DEF NothingToDelete
<1>10. CASE DeleteSucceeds
  <2>1. /\ workload_id \in Id /\ UNCHANGED <<workload_named, workload_id, state_checker, orphans, commands>>
        /\ pc # "select"
    BY <1>10, <1>a DEF DeleteSucceeds, TypeOK
  <2>2. \A i \in Id : /\ i # workload_id => container'[i] = container[i]
                      /\ i = workload_id => container'[i] = None
    BY <1>10, <1>a DEF DeleteSucceeds, TypeOK
  <2>3. QED
    BY <1>a, <1>b, <2>1, <2>2
       DEF ContainerInv, OnlyFaultsOrphan, CheckerWatchesOwnWorkload, ContainerIsNamed, Goal
<1>11. CASE DeleteFails
  BY <1>11 DEF DeleteFails, RuntimeRefusesDelete
<1>12. CASE FinishDelete \/ FinishUpdate
  <2>1. /\ pc = "deleted" /\ workload_id' = None /\ pc' # "deleted"
        /\ UNCHANGED <<container, orphans>>
    BY <1>12 DEF FinishDelete, FinishUpdate, StartCreate
  <2>2. state_checker' = None
    <3>1. state_checker # None => workload_id # None
      BY <1>a, ZenonT(30) DEF TypeOK, ContainerInv, CheckerWatchesOwnWorkload
    <3>2. QED
      BY <1>12, <3>1, Zenon DEF FinishDelete, FinishUpdate, stop_checker
  <2>3. QED
    BY <1>a, <1>b, <2>1, <2>2
       DEF ContainerInv, OnlyFaultsOrphan, CheckerWatchesOwnWorkload, ContainerIsNamed, Goal
<1>13. CASE CreateSucceeds
  <2>1. PICK i \in Id : /\ i = workload_id \/ (workload_id = None /\ ~Exists(i))
                        /\ workload_id' = i
                        /\ state_checker' = [id |-> i, inst |-> Inst, last |-> "Never"]
                        /\ container' = [container EXCEPT ![i] =
                                           [inst |-> Inst, status |-> "running"]]
                        /\ orphans' = orphans \ {i}
    BY <1>13, <1>a, Zenon DEF CreateSucceeds, TypeOK
  <2>2. pc = "create" /\ pc' = "select" /\ UNCHANGED <<workload_named, commands>>
    BY <1>13 DEF CreateSucceeds
  <2>a. DOMAIN container = Id
    BY <1>a DEF TypeOK
  <2>3. \A j \in Id : j # i => container'[j] = container[j]
    BY <2>1, <2>a
  <2>4. container'[i].inst = Inst
    BY <2>1, <2>a, Zenon
  <2>5. OnlyFaultsOrphan'
    BY <1>a, <1>b, <2>1, <2>2, <2>3, Zenon DEF ContainerInv, OnlyFaultsOrphan
  <2>6. CheckerWatchesOwnWorkload' /\ ContainerIsNamed'
    BY <2>1, <2>2, <2>4 DEF CheckerWatchesOwnWorkload, ContainerIsNamed
  <2>7. QED
    BY <2>5, <2>6 DEF ContainerInv, Goal
<1>14. CASE CreateIsRejected
  BY <1>14 DEF CreateIsRejected
<1>15. CASE CreateFails
  <2>1. /\ workload_id' = None /\ state_checker' = None /\ pc = "create" /\ pc' = "select"
    BY <1>15 DEF CreateFails, send_retry_for_workload
  <2>2. \A i \in Id : i = workload_id /\ Exists(i) => i \in OwnContainers
    BY <1>a DEF TypeOK, ContainerInv, ContainerIsNamed, OwnContainers
  <2>3. OnlyFaultsOrphan'
    <3>1. \A i \in Id : Exists(i)' =>
            i \in orphans' \/ (Exists(i) /\ i \notin OwnContainers)
      BY <1>15, <1>a DEF CreateFails, CreateMustFail, TypeOK
    <3>2. \A i \in orphans : i \notin OwnContainers => i \in orphans'
      BY <1>15 DEF CreateFails
    <3>3. QED
      BY <1>a, <1>b, <2>1, <2>2, <3>1, <3>2, Zenon DEF ContainerInv, OnlyFaultsOrphan
  <2>4. QED
    BY <2>1, <2>3 DEF ContainerInv, CheckerWatchesOwnWorkload, ContainerIsNamed, Goal
<1>16. CASE Backoff
  BY <1>16 DEF Backoff, BackoffElapses, BackoffInterrupted, loopVars
<1>17. CASE Agent
  BY <1>17, Zenon
     DEF Agent, SendUpdate, SendDelete, SendStartLogFetcher, SendCommand, loopVars
<1>18. CASE CheckerPolls \/ CheckerPollFails
  <2>1. /\ state_checker'.id = state_checker.id /\ state_checker'.inst = state_checker.inst
        /\ state_checker # None
    <3>1. state_checker \in [id : Id, inst : Instance, last : Observed \cup {"Never"}]
      BY <1>18, <1>a, Zenon DEF CheckerPolls, CheckerPollFails, TypeOK
    <3>2. PICK s : state_checker' = [state_checker EXCEPT !.last = s]
      BY <1>18 DEF CheckerPolls, CheckerPollFails, CheckerSends
    <3>3. QED
      BY <1>18, <3>1, <3>2 DEF CheckerPolls, CheckerPollFails
  <2>2. UNCHANGED <<pc, workload_named, workload_id, commands, container, orphans>>
    BY <1>18 DEF CheckerPolls, CheckerPollFails
  <2>3. QED
    <3>1. Resuming' <=> Resuming
      BY <2>2 DEF Resuming
    <3>2. QED
      BY <1>a, <2>1, <2>2, <3>1
         DEF ContainerInv, OnlyFaultsOrphan, CheckerWatchesOwnWorkload, ContainerIsNamed, Goal
<1>19. ASSUME NEW i \in Id, ContainerExits(i) \/ ContainerVanishes(i)
       PROVE  Goal
  <2>1. \A j \in Id : Exists(j)' => Exists(j) /\ container'[j].inst = container[j].inst
    <3>1. container \in [Id -> [inst : Instance, status : Status] \cup {None}]
      BY <1>a DEF TypeOK
    <3>2. QED
      BY <1>19, <3>1 DEF ContainerExits, ContainerVanishes
  <2>2. UNCHANGED <<pc, workload_named, workload_id, state_checker, commands, orphans>>
    BY <1>19 DEF ContainerExits, ContainerVanishes, loopVars
  <2>3. workload_id \in Id \cup {None}
    BY <1>a DEF TypeOK
  <2>4. Resuming' <=> Resuming
    BY <2>2 DEF Resuming
  <2>5. QED
    BY <1>a, <2>1, <2>2, <2>3, <2>4
       DEF ContainerInv, OnlyFaultsOrphan, CheckerWatchesOwnWorkload, ContainerIsNamed, Goal
<1>20. CASE UNCHANGED vars
  BY <1>20 DEF vars, loopVars
<1>21. QED
  BY <1>1, <1>2, <1>3, <1>4, <1>5, <1>6, <1>7, <1>8, <1>9, <1>10, <1>11, <1>12, <1>13,
     <1>14, <1>15, <1>16, <1>17, <1>18, <1>19, <1>20 DEF Next, ControlLoop, Environment

-----------------------------------------------------------------------------
(* Reports *)

ReportInv == RemovedMeansGone /\ OldInstancesStayRemoved

\* No report, or one for the managed instance other than Removed, by a step
\* that makes no container but orphans and hides none, keeps what the reports say.
LEMMA SameReports ==
  ASSUME Inv, UNCHANGED workload_named,
         UNCHANGED reported \/ \E s \in ReportState : Report(Inst, s) /\ s # "Removed",
         \A i \in Id : Exists(i)' =>
           i \in orphans' \/ (Exists(i) /\ container'[i].inst = container[i].inst),
         \A i \in Id : Exists(i)' /\ i \in orphans => i \in orphans'
  PROVE  /\ ReportInv'
         /\ reported[Inst] # "Removed" => reported'[Inst] # "Removed"
<1>1. reported \in [Instance -> ReportState] /\ Inst \in Instance
  BY ConfigAssumption DEF Inv, TypeOK
<1>2. \A i \in Id : Exists(i) => container[i].inst \in Instance
  BY Zenon DEF Inv, TypeOK
<1>3. \A n \in Instance : \/ reported'[n] = reported[n]
                          \/ n = Inst /\ reported'[n] # "Removed"
  BY <1>1 DEF Report
<1>4. RemovedMeansGone'
  BY <1>2, <1>3 DEF Inv, RemovedMeansGone
<1>5. OldInstancesStayRemoved'
  BY <1>3 DEF Inv, OldInstancesStayRemoved
<1>6. QED
  BY <1>1, <1>3, <1>4, <1>5 DEF ReportInv

\* Every step keeps what the reported states promise: Removed means gone, and
\* replaced instances stay removed.
LEMMA ReportStep ==
  ASSUME Inv, TypeOK', [Next]_vars
  PROVE  ReportInv'
<1> USE ConfigAssumption
<1>a. /\ Inst \in Instance /\ TypeOK /\ ReportInv
      /\ container \in [Id -> [inst : Instance, status : Status] \cup {None}]
      /\ reported \in [Instance -> ReportState]
  BY DEF Inv, TypeOK, ReportInv
<1> DEFINE Told == UNCHANGED reported \/ \E s \in ReportState : Report(Inst, s) /\ s # "Removed"
           Goal == ReportInv'
<1>b. workload_named' = workload_named /\ Told /\ container' = container
        /\ orphans' = orphans => Goal
  BY SameReports
<1>c. /\ UNCHANGED reported => Told
      /\ Report(Inst, "Starting") => Told
      /\ Report(Inst, "Stopping") => Told
      /\ Report(Inst, "Retrying") => Told
      /\ Report(Inst, "StartingFailed") => Told
      /\ Report(Inst, "DeleteFailed") => Told
  BY StateFacts
<1> SUFFICES Goal
  OBVIOUS
<1> HIDE DEF Told, Goal
<1> USE <1>b, <1>c
<1>1. CASE SendCreate
  BY <1>1 DEF SendCreate
<1>2. CASE IgnoreForeignState
  BY <1>2 DEF IgnoreForeignState, ReceivesState, loopVars
<1>3. CASE ForwardState
  <2>1. /\ Head(checker_states).state \in ReportState
        /\ Head(checker_states).state # "Removed"
    BY <1>3, <1>a, ReceiveType, StateFacts DEF ForwardState, ReceivesState, Observed
  <2>2. Told
    BY <1>3, <2>1 DEF ForwardState, Told
  <2>3. QED
    BY <1>3, <2>2 DEF ForwardState, ReceivesState
<1>4. CASE RestartReusingBundle \/ RestartByUpdate
  BY <1>4
     DEF RestartReusingBundle, RestartByUpdate, ReceivesState, StartCreate, StartDelete
<1>5. CASE HandleCreate
  BY <1>5 DEF HandleCreate, StartCreate
<1>6. CASE HandleUpdate \/ HandleDelete
  BY <1>6 DEF HandleUpdate, HandleDelete, StartDelete
<1>7. CASE HandleRetry
  BY <1>7 DEF HandleRetry
<1>7a. CASE HandleResume
  <2>1. \A i \in orphans : i \in orphans'
    BY <1>7a DEF HandleResume
  <2>2. UNCHANGED <<workload_named, reported, container>>
    BY <1>7a DEF HandleResume
  <2>3. QED
    BY <2>1, <2>2, SameReports DEF Goal
<1>8. CASE HandleStartLogFetcher
  BY <1>8 DEF HandleStartLogFetcher, loopVars
<1>9. CASE NothingToDelete
  BY <1>9 DEF NothingToDelete
<1>10. CASE DeleteSucceeds
  <2>1. \A i \in Id : Exists(i)' => Exists(i) /\ container'[i] = container[i]
    BY <1>10, <1>a DEF DeleteSucceeds
  <2>2. UNCHANGED <<workload_named, reported, orphans>>
    BY <1>10 DEF DeleteSucceeds
  <2>3. QED
    BY <2>1, <2>2, SameReports DEF Goal
<1>11. CASE DeleteFails
  BY <1>11 DEF DeleteFails, RuntimeRefusesDelete
<1>12. CASE FinishDelete \/ FinishUpdate
  <2>1. \A i \in Id : Exists(i) => i \in orphans
    BY <1>12, ResumeFacts
       DEF FinishDelete, FinishUpdate, Inv, OnlyFaultsOrphan, ContainerIsNamed
  <2>2. UNCHANGED <<container, orphans>>
    BY <1>12 DEF FinishDelete, FinishUpdate
  <2>3. RemovedMeansGone'
    BY <2>1, <2>2 DEF RemovedMeansGone
  <2>4. OldInstancesStayRemoved'
    <3>1. \A n \in Instance : n # Inst => reported[n] \in {"Never", "Removed"}
      BY <1>a DEF ReportInv, OldInstancesStayRemoved
    <3>2. CASE workload_named' = workload_named /\ Report(Inst, "Removed")
      BY <3>1, <3>2, <1>a DEF Report, OldInstancesStayRemoved
    <3>3. CASE FinishUpdate /\ continuation # None
      <4>1. /\ workload_named' = continuation
            /\ reported' = [reported EXCEPT ![Inst] = "Removed",
                                            ![InstanceOf[continuation]] = "Starting"]
        BY <3>3 DEF FinishUpdate, StartCreate
      <4>2. QED
        BY <1>a, <3>1, <4>1 DEF OldInstancesStayRemoved
    <3>4. QED
      BY <1>12, <3>2, <3>3 DEF FinishDelete, FinishUpdate
  <2>5. QED
    BY <2>3, <2>4, Zenon DEF ReportInv, Goal
<1>13. CASE CreateSucceeds
  <2>1. PICK i \in Id : /\ container' = [container EXCEPT ![i] =
                                           [inst |-> Inst, status |-> "running"]]
                        /\ orphans' = orphans \ {i}
    BY <1>13, <1>a, Zenon DEF CreateSucceeds, TypeOK
  <2>2. reported[Inst] # "Removed" /\ UNCHANGED <<reported, workload_named>>
    BY <1>13, Zenon DEF CreateSucceeds, Inv, AnnouncedBeforeCreate
  <2>3. \A j \in Id : j # i => container'[j] = container[j]
    BY <1>a, <2>1, Zenon
  <2>4. container'[i].inst = Inst
    BY <1>a, <2>1
  <2>5. RemovedMeansGone'
    BY <1>a, <2>1, <2>2, <2>3, <2>4 DEF ReportInv, RemovedMeansGone
  <2>6. QED
    BY <1>a, <2>2, <2>5 DEF ReportInv, OldInstancesStayRemoved, Goal
<1>14. CASE CreateIsRejected
  BY <1>14, Zenon DEF CreateIsRejected
<1>15. CASE CreateFails
  <2>1. \A i \in Id : Exists(i)' =>
          i \in orphans' \/ (Exists(i) /\ container'[i] = container[i])
    BY <1>15, <1>a, Zenon DEF CreateFails
  <2>2. \A i \in Id : Exists(i)' /\ i \in orphans => i \in orphans'
    BY <1>15, <1>a, Zenon DEF CreateFails
  <2>3. UNCHANGED workload_named /\ Report(Inst, "Retrying")
    BY <1>15 DEF CreateFails, send_retry_for_workload
  <2>4. QED
    BY <2>1, <2>2, <2>3, SameReports DEF Goal, Told
<1>16. CASE Backoff
  BY <1>16 DEF Backoff, BackoffElapses, BackoffInterrupted, loopVars
<1>17. CASE Agent
  BY <1>17, Zenon
     DEF Agent, SendUpdate, SendDelete, SendStartLogFetcher, SendCommand, loopVars
<1>18. CASE CheckerPolls \/ CheckerPollFails
  BY <1>18 DEF CheckerPolls, CheckerPollFails
<1>19. ASSUME NEW i \in Id, ContainerExits(i) \/ ContainerVanishes(i)
       PROVE  Goal
  <2>1. \A j \in Id : Exists(j)' => Exists(j) /\ container'[j].inst = container[j].inst
    BY <1>19, <1>a DEF ContainerExits, ContainerVanishes
  <2>2. UNCHANGED <<workload_named, reported, orphans>>
    BY <1>19 DEF ContainerExits, ContainerVanishes, loopVars
  <2>3. QED
    BY <2>1, <2>2, SameReports, Zenon DEF Goal
<1>20. CASE UNCHANGED vars
  BY <1>20, Zenon DEF vars, loopVars
<1>21. QED
  BY <1>1, <1>2, <1>3, <1>4, <1>5, <1>6, <1>7, <1>7a, <1>8, <1>9, <1>10, <1>11, <1>12, <1>13,
     <1>14, <1>15, <1>16, <1>17, <1>18, <1>19, <1>20, ZenonT(30) DEF Next, ControlLoop, Environment

\* A step that keeps the managed instance and its last report from becoming
\* Removed keeps creations announced.
LEMMA SameAnnouncement ==
  ASSUME Inv, TypeOK', UNCHANGED <<workload_named, retry_manager>>,
         Outstanding' \subseteq Outstanding,
         UNCHANGED reported \/ \E s \in ReportState : Report(Inst, s) /\ s # "Removed",
         pc' = "create" => pc = "create" \/ reported[Inst] # "Removed",
         \/ pc' \notin {"delete", "deleted"}
         \/ pc \in {"delete", "deleted"} /\ UNCHANGED continuation
         \/ continuation' \notin {None, End}
  PROVE  AnnouncedBeforeCreate'
<1>1. reported \in [Instance -> ReportState] /\ Inst \in Instance
  BY ConfigAssumption, Zenon DEF Inv, TypeOK
<1>2. reported[Inst] # "Removed" => reported'[Inst] # "Removed"
  BY <1>1 DEF Report
<1>3. \A t : is_valid(t)' <=> is_valid(t)
  BY DEF is_valid
<1>4. QED
  BY <1>2, <1>3 DEF Inv, AnnouncedBeforeCreate

\* A step after which no retry is alive has only the creation it begins to
\* announce.
LEMMA DeadAnnouncement ==
  ASSUME Dead', pc' = "create" => reported'[InstanceOf[workload_named']] # "Removed",
         pc' \in {"delete", "deleted"} => ~retry_manager'.valid
  PROVE  AnnouncedBeforeCreate'
  BY DEF AnnouncedBeforeCreate, Dead

\* Every step keeps a creation, due now or by retry, announced to the agent.
LEMMA AnnounceStep ==
  ASSUME Inv, TypeOK', [Next]_vars
  PROVE  AnnouncedBeforeCreate'
<1> USE ConfigAssumption
<1>a. /\ Inst \in Instance /\ TypeOK /\ reported \in [Instance -> ReportState]
      /\ ~invalidate.valid
  BY InvalidateType, Zenon DEF Inv, TypeOK
<1>b. /\ \A op : Receives(op) /\ UNCHANGED backoffs => Outstanding' \subseteq Outstanding
      /\ UNCHANGED commands /\ UNCHANGED backoffs => Outstanding' \subseteq Outstanding
      /\ \A x \in Command : x.op # "Retry" /\ commands' = Append(commands, x)
                              /\ UNCHANGED backoffs => Outstanding' \subseteq Outstanding
  BY <1>a, ShrinkFacts, ShrinkKeeps DEF Receives
<1>d. Outstanding' \subseteq Outstanding /\ (retry_manager' = invalidate \/ new_token) => Dead'
  BY <1>a, NoneAlive DEF Inv
<1> DEFINE Shrunk == Outstanding' \subseteq Outstanding
           Told == UNCHANGED reported \/ \E s \in ReportState : Report(Inst, s) /\ s # "Removed"
           Goal == AnnouncedBeforeCreate'
<1>c. /\ UNCHANGED reported => Told
      /\ Report(Inst, "Starting") => Told
      /\ Report(Inst, "Stopping") => Told
      /\ Report(Inst, "StartingFailed") => Told
      /\ Report(Inst, "DeleteFailed") => Told
  BY StateFacts
<1>e. /\ \A op : Receives(op) /\ UNCHANGED backoffs => Shrunk
      /\ UNCHANGED commands /\ UNCHANGED backoffs => Shrunk
      /\ \A x \in Command : x.op # "Retry" /\ commands' = Append(commands, x)
                              /\ UNCHANGED backoffs => Shrunk
  BY <1>b
<1>f. /\ Shrunk /\ Told /\ workload_named' = workload_named
      /\ retry_manager' = retry_manager
      /\ pc' = "create" => pc = "create" \/ reported[Inst] # "Removed"
      /\ \/ pc' # "delete" /\ pc' # "deleted"
         \/ (pc = "delete" \/ pc = "deleted") /\ continuation' = continuation
         \/ continuation' # None /\ continuation' # End
      => Goal
  BY SameAnnouncement
<1> SUFFICES Goal
  OBVIOUS
<1> HIDE DEF Shrunk, Told, Goal
<1> USE <1>c, <1>e, <1>f
<1>1. CASE SendCreate
  BY <1>1, CommandFacts, Zenon DEF SendCreate
<1>2. CASE IgnoreForeignState
  BY <1>2, Zenon DEF IgnoreForeignState, ReceivesState, loopVars
<1>3. CASE ForwardState
  <2>1. /\ Head(checker_states).state \in ReportState
        /\ Head(checker_states).state # "Removed"
    BY <1>3, <1>a, ReceiveType, StateFacts, Zenon DEF ForwardState, ReceivesState, Observed
  <2>2. Told
    BY <1>3, <2>1, Zenon DEF ForwardState, Told
  <2>3. QED
    BY <1>3, <2>2, Zenon DEF ForwardState, ReceivesState
<1>4. CASE RestartByUpdate
  <2>1. workload_named # None /\ workload_named # End
    BY <1>a DEF TypeOK
  <2>2. QED
    BY <1>4, <2>1, ZenonT(30) DEF RestartByUpdate, ReceivesState, StartDelete
<1>5. CASE RestartReusingBundle \/ HandleCreate
  <2>1. /\ workload_named' = workload_named /\ Report(Inst, "Starting") /\ new_token
        /\ pc' = "create"
    BY <1>5, Zenon DEF RestartReusingBundle, HandleCreate, StartCreate
  <2>2. Dead'
    BY <1>5, <1>d, <2>1 DEF RestartReusingBundle, HandleCreate, ReceivesState, Shrunk
  <2>3. reported'[InstanceOf[workload_named']] # "Removed"
    BY <1>a, <2>1 DEF Report
  <2>4. QED
    BY <2>1, <2>2, <2>3, DeadAnnouncement DEF Goal
<1>6. CASE HandleUpdate \/ HandleDelete
  <2>1. retry_manager' = invalidate /\ pc' = "delete" /\ Shrunk
    BY <1>6 DEF HandleUpdate, HandleDelete, StartDelete
  <2>2. QED
    BY <1>a, <1>d, <2>1, DeadAnnouncement DEF Goal, Shrunk
<1>7. CASE HandleRetry
  <2>1. is_valid(Head(commands).token) => reported[Inst] # "Removed"
    <3>1. Head(commands).token \in Outstanding
      <4>1. commands \in Seq(Command)
        BY <1>a, Zenon DEF TypeOK
      <4>2. 1 \in DOMAIN commands /\ commands[1] = Head(commands)
        BY <1>7, <4>1 DEF HandleRetry, Receives
      <4>3. Head(commands).op = "Retry"
        BY <1>7 DEF HandleRetry, Receives
      <4>4. QED
        BY <4>2, <4>3 DEF Outstanding, RetryCommands
    <3>2. QED
      BY <3>1 DEF Inv, AnnouncedBeforeCreate
  <2>2. QED
    BY <1>7, <2>1, ZenonT(30) DEF HandleRetry, Receives
<1>8. CASE HandleResume
  BY <1>8 DEF HandleResume, Receives
<1>9. CASE HandleStartLogFetcher
  BY <1>9 DEF HandleStartLogFetcher, loopVars
<1>10. CASE NothingToDelete \/ DeleteSucceeds
  BY <1>10 DEF NothingToDelete, DeleteSucceeds
<1>11. CASE DeleteFails
  BY <1>11 DEF DeleteFails, RuntimeRefusesDelete
<1>12. CASE FinishDelete
  <2>1. Outstanding' \subseteq Outstanding /\ retry_manager' = invalidate /\ pc' = "ended"
    BY <1>12, <1>a, ShrinkFacts, ShrinkKeeps DEF FinishDelete
  <2>2. QED
    BY <1>d, <2>1, DeadAnnouncement, Zenon DEF Goal
<1>13. CASE FinishUpdate
  <2>1. Shrunk
    BY <1>13 DEF FinishUpdate
  <2>2. CASE continuation = None
    <3>1. ~retry_manager.valid /\ UNCHANGED retry_manager /\ pc' = "select"
      BY <1>13, <2>2 DEF FinishUpdate, Inv, AnnouncedBeforeCreate
    <3>2. QED
      BY <3>1, Zenon DEF AnnouncedBeforeCreate, is_valid, Goal
  <2>3. CASE continuation # None
    <3>1. /\ workload_named' = continuation /\ new_token /\ pc' = "create"
          /\ reported' = [reported EXCEPT ![Inst] = "Removed",
                                          ![InstanceOf[continuation]] = "Starting"]
      BY <1>13, <2>3 DEF FinishUpdate, StartCreate
    <3>2. InstanceOf[continuation] \in Instance
      BY <1>a, <3>1, Zenon DEF TypeOK
    <3>3. Dead' /\ reported'[InstanceOf[workload_named']] # "Removed"
      BY <1>a, <1>d, <2>1, <3>1, <3>2, ZenonT(30) DEF Shrunk
    <3>4. QED
      BY <3>1, <3>3, DeadAnnouncement DEF Goal
  <2>4. QED
    BY <2>2, <2>3
<1>14. CASE CreateSucceeds \/ CreateIsRejected
  BY <1>14 DEF CreateSucceeds, CreateIsRejected
<1>15. CASE CreateFails
  <2>1. pc' = "select" /\ reported'[InstanceOf[workload_named']] # "Removed"
    BY <1>15, <1>a DEF CreateFails, send_retry_for_workload, Report
  <2>2. QED
    BY <2>1 DEF AnnouncedBeforeCreate, Goal
<1>16. ASSUME NEW t \in backoffs, BackoffElapses(t) \/ BackoffInterrupted(t)
       PROVE  Goal
  <2>1. Shrunk
    <3>1. backoffs' \subseteq backoffs /\ t \in Outstanding
      BY <1>16, Zenon DEF BackoffElapses, BackoffInterrupted, Outstanding
    <3>2. CASE UNCHANGED commands
      BY <3>1, <3>2, <1>a, ShrinkFacts, ShrinkKeeps DEF Shrunk
    <3>3. CASE commands' = Append(commands, [op |-> "Retry", token |-> t])
      <4>1. commands \in Seq(Command)
        BY <1>a, Zenon DEF TypeOK
      <4>2. ASSUME NEW k \in RetryCommands'
            PROVE  commands'[k].token \in Outstanding
        <5>1. k \in 1..(Len(commands) + 1) /\ commands'[k].op = "Retry"
          BY <3>3, <4>1 DEF RetryCommands
        <5>2. CASE k = Len(commands) + 1
          BY <3>1, <3>3, <4>1, <5>2, SMTT(30)
        <5>3. CASE k \in 1..Len(commands)
          <6>1. commands'[k] = commands[k]
            BY <3>3, <4>1, <5>3, SMTT(30)
          <6>2. k \in RetryCommands
            BY <4>1, <5>1, <5>3, <6>1 DEF RetryCommands
          <6>3. QED
            BY <6>1, <6>2 DEF Outstanding
        <5>4. QED
          BY <4>1, <5>1, <5>2, <5>3, SMTT(30)
      <4>3. backoffs' \subseteq Outstanding
        BY <3>1, Zenon DEF Outstanding
      <4>4. Outstanding' = backoffs' \cup {commands'[k].token : k \in RetryCommands'}
        BY DEF Outstanding
      <4>5. QED
        BY <4>2, <4>3, <4>4, Zenon DEF Shrunk
    <3>4. QED
      BY <1>16, <3>2, <3>3 DEF BackoffElapses, BackoffInterrupted
  <2>2. QED
    BY <1>16, <2>1 DEF BackoffElapses, BackoffInterrupted, loopVars
<1>17. CASE Agent
  BY <1>17, CommandFacts, Zenon
     DEF Agent, SendUpdate, SendDelete, SendStartLogFetcher, SendCommand, loopVars
<1>18. CASE Environment
  BY <1>18
     DEF Environment, CheckerPolls, CheckerPollFails, ContainerExits, ContainerVanishes, loopVars
<1>19. CASE UNCHANGED vars
  BY <1>19 DEF vars, loopVars
<1>20. QED
  BY <1>1, <1>2, <1>3, <1>4, <1>5, <1>6, <1>7, <1>8, <1>9, <1>10, <1>11, <1>12, <1>13,
     <1>14, <1>15, <1>16, <1>17, <1>18, <1>19 DEF Next, ControlLoop, Backoff

-----------------------------------------------------------------------------
(* The theorems *)

\* The three ways to start a loop (new, reusing a container, resuming one)
\* satisfy the inductive invariant.
LEMMA InitInv == Init => Inv
<1> SUFFICES ASSUME Init
             PROVE  Inv
  BY SMTT(30)
<1> USE ConfigAssumption, BoundAssumption
<1>1. /\ Inst \in Instance /\ workload_named \in Config
      /\ container \in [Id -> [inst : Instance, status : Status] \cup {None}]
      /\ workload_id \in Id \cup {None}
      /\ \A i \in Id : Exists(i) => container[i].inst = Inst
  BY SMTT(30) DEF Init, InitCommon, InitCreate, InitReuse, InitResume, OneContainer, Status
<1>2. commands = <<>> \/ commands = <<[op |-> "Resume"]>>
  BY DEF Init, InitCreate, InitReuse, InitResume
<1>3. commands \in Seq(Command) /\ Len(commands) <= COMMAND_BUFFER_SIZE
  <2>1. [op |-> "Resume"] \in Command
    BY CommandFacts, Zenon
  <2>2. \A x \in Command : <<x>> \in Seq(Command) /\ Len(<<x>>) = 1
    OBVIOUS
  <2>3. COMMAND_BUFFER_SIZE >= 1 /\ COMMAND_BUFFER_SIZE >= 0
    OBVIOUS
  <2>4. CASE commands = <<>>
    BY <2>3, <2>4
  <2>5. CASE commands = <<[op |-> "Resume"]>>
    BY <2>1, <2>2, <2>3, <2>5
  <2>6. QED
    BY <1>2, <2>4, <2>5
<1>4. TypeOK
  <2>1. reported \in [Instance -> ReportState]
    BY StateFacts, Zenon DEF Init, InitCommon
  <2>2. retry_token \in Token
    BY DEF Init, InitCommon, Token, NoToken
  <2>3. pc \in PC
    BY DEF Init, InitCreate, InitReuse, InitResume, PC
  <2>4. checker_states \in Seq(CheckerState) /\ Len(checker_states) <= BUFFER_SIZE
    BY DEF Init, InitCommon
  <2>5. QED
    BY <1>1, <1>3, <2>1, <2>2, <2>3, <2>4, Zenon DEF Init, InitCommon, TypeOK
<1>5. RetryCommands = {}
  BY <1>2, SMTT(30) DEF RetryCommands
<1>6. Outstanding = {}
  BY <1>5 DEF Init, InitCommon, Outstanding
<1>7. LiveRetryHasNoWorkload /\ AtMostOneLiveRetry /\ TokensAreOld
  BY <1>5, <1>6, SMTT(30)
     DEF LiveRetryHasNoWorkload, AtMostOneLiveRetry, TokensAreOld, Init, InitCommon, NoToken
<1>8. ResumeComesFirst
  BY <1>1, <1>2, <1>6, SMTT(30)
     DEF Init, InitCommon, InitCreate, InitReuse, InitResume, ResumeComesFirst
<1>9. AnnouncedBeforeCreate /\ OldInstancesStayRemoved
  BY <1>6, Zenon
     DEF Init, InitCommon, InitCreate, InitReuse, InitResume, AnnouncedBeforeCreate,
         OldInstancesStayRemoved
<1>10. OnlyFaultsOrphan
  BY SMTT(30) DEF Init, InitCreate, InitReuse, InitResume, OneContainer, OnlyFaultsOrphan, Resuming
<1>11. CheckerWatchesOwnWorkload /\ ContainerIsNamed /\ RemovedMeansGone
  BY <1>1, Zenon
     DEF Init, InitCommon, InitCreate, InitReuse, InitResume, CheckerWatchesOwnWorkload,
         ContainerIsNamed, RemovedMeansGone
<1>12. QED
  BY <1>4, <1>7, <1>8, <1>9, <1>10, <1>11 DEF Inv

\* The invariant behind everything else is inductive.
THEOREM Invariance == Spec => []Inv
<1>1. Inv /\ [Next]_vars => Inv'
  <2> SUFFICES ASSUME Inv, [Next]_vars
               PROVE  Inv'
    OBVIOUS
  <2>1. TypeOK'
    BY TypeOKStep DEF Inv
  <2>2. QED
    BY <2>1, RetryStep, ResumeStep, ContainerStep, ReportStep, AnnounceStep
       DEF Inv, ContainerInv, ReportInv
<1>2. QED
  BY <1>1, InitInv, PTL DEF Spec

\* Every variable of a control loop stays in its domain and neither channel
\* ever holds more than its capacity, for every capacity.
THEOREM TypeCorrect == Spec => []TypeOK
<1>1. Inv => TypeOK
  BY DEF Inv
<1>2. QED
  BY <1>1, Invariance, PTL

\* The control loop never loses a container except through a failed cleanup or
\* lookup, for any number of commands, exits and faults.
THEOREM ContainersAreKept == Spec => []OnlyFaultsOrphan
<1>1. Inv => OnlyFaultsOrphan
  BY DEF Inv
<1>2. QED
  BY <1>1, Invariance, PTL

\* What the loop reports as Removed has no container left, except those lost to
\* a failed cleanup or lookup.
THEOREM RemovedIsGone == Spec => []RemovedMeansGone
<1>1. Inv => RemovedMeansGone
  BY DEF Inv
<1>2. QED
  BY <1>1, Invariance, PTL

\* Nothing is reported for an instance once an update has replaced it.
THEOREM ReplacedStayRemoved == Spec => []OldInstancesStayRemoved
<1>1. Inv => OldInstancesStayRemoved
  BY DEF Inv
<1>2. QED
  BY <1>1, Invariance, PTL

\* No retry that would be executed can meet a workload or a creation.
THEOREM RetriesAreSafe == Spec => []LiveRetryHasNoWorkload
<1>1. Inv => LiveRetryHasNoWorkload
  BY DEF Inv
<1>2. QED
  BY <1>1, Invariance, PTL

\* Of the retries that wait for their backoff or in the command channel at most
\* one would be executed, however often the workload was updated meanwhile.
THEOREM RetriesDoNotPileUp == Spec => []AtMostOneLiveRetry
<1>1. Inv => AtMostOneLiveRetry
  BY DEF Inv
<1>2. QED
  BY <1>1, Invariance, PTL

\* The state checker never watches anything but the container the loop owns.
THEOREM CheckerIsOurs == Spec => []CheckerWatchesOwnWorkload
<1>1. Inv => CheckerWatchesOwnWorkload
  BY DEF Inv
<1>2. QED
  BY <1>1, Invariance, PTL

=============================================================================
