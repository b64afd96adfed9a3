--------------------------- MODULE MCSubagentTasks ---------------------------
(* SubagentTasks on small instances: all tasks go to one subagent, where     *)
(* they meet at the gate, the queue and the binding.                         *)
EXTENDS SubagentTasks, TLC

CONSTANTS t1, t2, s1

OwnerSame == [t \in Tasks |-> s1]

\* Tasks of one subagent are interchangeable.
TaskSymmetry == Permutations(Tasks)

=============================================================================
