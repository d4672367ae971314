------------------------------ MODULE MCEvents ------------------------------
(* A small instance of Events for TLC. *)
EXTENDS Events

Config(n) == Single(<<"desiredState", "configs", "x">>, n)
W == <<"desiredState", "workloads", "w">>
WorkloadAt(T) ==
  T \cup Single(W \o <<"agent">>, Scalar("a")) \cup Single(W \o <<"tags", "k">>, Scalar("t"))
\* The workload comes and goes; the configuration item changes its kind.
MCDesiredState ==
  {WorkloadAt(Config(Scalar("v"))), Config(Seqn(0)), WorkloadAt(Config(Seqn(1))),
   Single(<<"desiredState", "configs", "x", "y">>, Scalar("v"))}

MCSubscriber == {[agent |-> "a", workload |-> "w"], [cli |-> "c"]}
MCFieldMasks ==
  {{}, {<<"agents">>}, {<<"agents", "*", "tags">>}, {<<"agents", "a", "tags", "k">>, <<"workloadStates", "*", "w">>},
   {W \o <<"tags">>, <<"desiredState", "configs", "x", "y">>}, {<<"desiredState", "workloads", "*", "*">>},
   {<<"desiredState", "configs">>}}
=============================================================================
