------------------------ MODULE MCWorkloadControlLoop ------------------------
(* Small instances of WorkloadControlLoop for TLC. *)
EXTENDS WorkloadControlLoop, TLC

CONSTANTS v1, v1b, v2, c1, c2, n1, n2

\* Two instance names; v1 and v1b differ in the restart policy only.
MCInstanceOf == [c \in Config |-> IF c = v2 THEN n2 ELSE n1]
MCRestartPolicyOf ==
  [c \in Config |-> IF c = v1 THEN "Always" ELSE IF c = v2 THEN "OnFailure" ELSE "Never"]

Symmetry == Permutations(Id)
=============================================================================
