---------------------------- MODULE MCHotSessions ----------------------------
(* The instances TLC checks for HotSessions. *)
EXTENDS HotSessions

CONSTANTS s1, s2, p1, p2

OneProvider == [s \in Subagents |-> p1]
TwoProviders == [s \in Subagents |-> IF s = s1 THEN p1 ELSE p2]

(* With one provider the subagents are interchangeable. *)
Interchangeable == Permutations(Subagents)

(* What a state is compared by: everything, of the history only the entries *)
(* that can still matter.  A session that is gone and in no row and in no   *)
(* execution's hands comes back to none of them, so the properties ask for  *)
(* it in lost, shed and late no more. *)
Rows == {hot[s] : s \in Subagents}
Held == {exec[s].on : s \in Subagents}
Alives == {x \in DOMAIN sess : Live(x)}
Relevant ==
    <<poolVars, carVars, dbVars, exec, ev, faults, diverged,
      lost \cap (Alives \cup Rows \cup Held), shed \cap (Alives \cup Rows \cup Held),
      late \cap (Alives \cup Held)>>
==============================================================================
