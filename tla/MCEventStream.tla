---------------------------- MODULE MCEventStream ----------------------------
(* EventStream with a bus of two events.                                      *)
EXTENDS EventStream

=============================================================================
