---------------------------- MODULE TaskLifecycle ----------------------------
(***************************************************************************)
(* What a caller of the control interface may rely on about delegated      *)
(* tasks, as the abstract specification that SubagentTasks implements: the *)
(* status a task shows, and whether an execution may still write to it.    *)
(* Gates, signals, registries, bindings and program counters are not seen. *)
(***************************************************************************)
CONSTANTS Tasks,     \* task ids
          Owner      \* the subagent a task is delegated to

VARIABLES status,    \* what task_status shows
          active     \* the tasks that an execution works on

vars == <<status, active>>

Settled == {"completed", "failed", "cancelled"}

Init ==
    /\ status = [t \in Tasks |-> "absent"]
    /\ active = {}

(* A task of the subagent of t is shown as running. *)
Busy(t) == \E u \in Tasks : Owner[u] = Owner[t] /\ status[u] = "running"

Submit(t) ==
    /\ status[t] = "absent"
    /\ \/ status' = [status EXCEPT ![t] = "queued"] /\ active' = active
       \/ /\ ~Busy(t)
          /\ status' = [status EXCEPT ![t] = "running"]
          /\ active' = active \cup {t}

Start(t) ==
    /\ status[t] = "queued" /\ t \notin active /\ ~Busy(t)
    /\ status' = [status EXCEPT ![t] = "running"]
    /\ active' = active \cup {t}

(* The execution writes its outcome.  It may have been declared dead by     *)
(* then, or write more than once; a cancelled task is beyond its reach. *)
Settle(t) ==
    /\ t \in active /\ status[t] \in {"running", "completed", "failed"}
    /\ \E outcome \in {"completed", "failed"} : status' = [status EXCEPT ![t] = outcome]
    /\ active' \in {active, active \ {t}}

(* There was no session to be had: back to the queue. *)
PutBack(t) ==
    /\ t \in active /\ status[t] \in {"running", "completed", "failed"}
    /\ status' = [status EXCEPT ![t] = "queued"]
    /\ active' = active \ {t}

(* The execution ends.  It never leaves the task running or queued behind. *)
End(t) ==
    /\ t \in active /\ status[t] \in Settled \cup {"gone"}
    /\ active' = active \ {t}
    /\ status' = status

Cancel(t) ==
    /\ status[t] \in {"queued", "running"}
    /\ status' = [status EXCEPT ![t] = "cancelled"]
    /\ active' = active

(* Running tasks are given up by the reaper or after a crash. *)
GiveUp(S) ==
    /\ \A t \in S : status[t] = "running"
    /\ status' = [t \in Tasks |-> IF t \in S THEN "failed" ELSE status[t]]
    /\ active' = active

(* Every task of the subagent goes with it. *)
Remove(s) ==
    /\ status' = [t \in Tasks |-> IF Owner[t] = s /\ status[t] # "absent"
                                  THEN "gone" ELSE status[t]]
    /\ active' = active

(* The service restarts: every execution is lost. *)
Restart ==
    /\ active' = {}
    /\ status' = status

Next ==
    \/ \E t \in Tasks : Submit(t) \/ Start(t) \/ Settle(t) \/ PutBack(t) \/ End(t) \/ Cancel(t)
    \/ \E S \in SUBSET Tasks : GiveUp(S)
    \/ \E t \in Tasks : Remove(Owner[t])
    \/ Restart

Spec == Init /\ [][Next]_vars
==============================================================================
