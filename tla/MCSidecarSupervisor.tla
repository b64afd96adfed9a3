------------------------- MODULE MCSidecarSupervisor -------------------------
(* Constants of the TLC runs of SidecarSupervisor.                           *)
EXTENDS SidecarSupervisor

CONSTANTS t1, t2, w1, w2

OneWorker  == [t \in Tasks |-> w1]
TwoWorkers == [t \in Tasks |-> IF t = t1 THEN w1 ELSE w2]

=============================================================================
