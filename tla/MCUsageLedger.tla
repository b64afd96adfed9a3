---------------------------- MODULE MCUsageLedger ----------------------------
(* The instances TLC checks for UsageLedger. *)
EXTENDS UsageLedger
==============================================================================
