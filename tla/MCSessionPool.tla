---------------------------- MODULE MCSessionPool ----------------------------
(* SessionPool on small instances.                                           *)
EXTENDS SessionPool, TLC

CONSTANTS t1, t2, t3, t4, t5, s1, s2, s3

\* t1, t2 and t3 are turns of one subagent, t4 and t5 of two others.
OwnerSplit ==
    [t \in Turns |-> CASE t = t4 -> s2 [] t = t5 -> s3 [] OTHER -> s1]

\* t3 overrides the model, so that its hit is a forced miss.
ModelOverride == [t \in Turns |-> IF t = t3 THEN "override" ELSE "bound"]

=============================================================================
