---------------------------- MODULE SubagentTasks ----------------------------
(***************************************************************************)
(* The task lifecycle of Busytok's logical subagents, as SubagentManager    *)
(* runs it (crates/busytok-subagent/src/manager.rs) over the rows of        *)
(* subagent_tasks, subagent_logical_subagents and the hot bindings          *)
(* (crates/busytok-store/src/subagent_queries.rs).                          *)
(*                                                                         *)
(* Actors: callers of `delegate`, the background executions they spawn, the *)
(* single task dispatcher, callers of `cancel_task`, callers of `hibernate` *)
(* and `delete`, the reaper, the sidecar (which may crash, shut down or     *)
(* evict a session) and the service process (which may stop and restart).   *)
(* An action is one critical section of the database mutex, or one step on  *)
(* an in-memory registry.  A task id stands for one future call of          *)
(* `delegate` for the subagent Owner[t].                                    *)
(*                                                                         *)
(* Wall-clock time is left to the scheduler: whether a running row is       *)
(* overdue, or a task is past its retry deadline, is a free choice, and     *)
(* fairness says that time does pass.                                       *)
(***************************************************************************)
EXTENDS Naturals

CONSTANTS
    Tasks,          \* task ids, one for each call of delegate
    Subagents,      \* ids of logical subagents
    Owner,          \* the subagent a task is delegated to
    HotExecutor,    \* TRUE: turns return a session id; FALSE: mock executor
    NoTask,         \* nobody: a free gate, an idle dispatcher
    Control,        \* the holder of a gate when it is hibernate
    Cancellable,    \* the tasks somebody may cancel
    RequestedOps,   \* the control operations callers issue
    MaxRestarts     \* bound: restarts of the service process

ASSUME OwnerAssumption == Owner \in [Tasks -> Subagents]
ASSUME HotExecutorAssumption == HotExecutor \in BOOLEAN
ASSUME HolderAssumption ==
    NoTask \notin Tasks /\ Control \notin Tasks /\ NoTask # Control
ASSUME CallersAssumption ==
    /\ Cancellable \subseteq Tasks
    /\ RequestedOps \subseteq {"hibernate", "soft_delete", "hard_delete"}
ASSUME RestartsAssumption == MaxRestarts \in Nat

VARIABLES
    row,        \* subagent_tasks.status
    started,    \* subagent_tasks.started_at_ms IS NOT NULL
    reason,     \* subagent_tasks.queue_reason
    born,       \* subagent_tasks.created_at_ms
    clock,      \* the time `delegate` stamps rows with
    sub,        \* subagent_logical_subagents.status, warm and cold as one
    hot,        \* a binding of the subagent has is_hot = 1
    del,        \* progress of the call of delegate for a task
    pc,         \* progress of execute_and_persist for a task
    res,        \* the DelegateResult status execute_task is about to return
    sig,        \* the cancel signal of a task: absent, registered or sent
    cpc,        \* progress of the call of cancel_task for a task
    gate,       \* holder of the subagent's lifecycle gate
    ctl,        \* progress of the subagent's hibernate or delete call
    disp,       \* the task the dispatcher is working on
    paused,     \* PressureGate.is_paused
    restarts    \* restarts of the service so far

rowVars  == <<row, started, reason, born, clock>>
subVars  == <<sub, hot>>
execVars == <<pc, res, gate, disp>>
vars     == <<rowVars, subVars, execVars, del, sig, cpc, ctl, paused, restarts>>

-----------------------------------------------------------------------------
(* The values of the columns and the program counters.                      *)

Terminal  == {"completed", "failed", "cancelled"}
RowStates == {"absent", "queued", "running", "gone"} \cup Terminal
Reasons   == {"none", "pressure_gate_paused", "subagent_busy",
              "hot_session_limit"}
SubStates == {"absent", "idle", "hot", "deleted", "gone"}

\* execute_task runs between these points, with the lifecycle gate held.
Holding == {"start", "armed", "build", "turn", "persist", "activate", "final"}
PCs == {"none", "picked", "resolved", "gate", "report", "post_fail",
        "post_limit"} \cup Holding

ControlOps == {"hibernate", "soft_delete", "hard_delete"}

Live(s) == sub[s] \in {"idle", "hot"}
Exists(s) == sub[s] \in {"idle", "hot", "deleted"}
TasksOf(s) == {t \in Tasks : Owner[t] = s}
HasRow(t) == row[t] \notin {"absent", "gone"}
HasRunningTask(s) == \E t \in TasksOf(s) : row[t] = "running"

Init ==
    /\ row = [t \in Tasks |-> "absent"]
    /\ started = [t \in Tasks |-> FALSE]
    /\ reason = [t \in Tasks |-> "none"]
    /\ born = [t \in Tasks |-> 0]
    /\ clock = 0
    /\ sub = [s \in Subagents |-> "absent"]
    /\ hot = [s \in Subagents |-> FALSE]
    /\ del = [t \in Tasks |-> "none"]
    /\ pc = [t \in Tasks |-> "none"]
    /\ res = [t \in Tasks |-> "none"]
    /\ sig = [t \in Tasks |-> "none"]
    /\ cpc = [t \in Tasks |-> "none"]
    /\ gate = [s \in Subagents |-> NoTask]
    /\ ctl = [s \in Subagents |-> "none"]
    /\ disp = NoTask
    /\ paused = FALSE
    /\ restarts = 0

-----------------------------------------------------------------------------
(* Writes to a task row.  A write to a row that hard delete has removed     *)
(* changes nothing.                                                         *)

\* set_task_status_if_not_cancelled: only a cancelled row is protected, and
\* a transition to queued clears started_at_ms.
SetStatusIfNotCancelled(t, status) ==
    IF HasRow(t) /\ row[t] # "cancelled"
    THEN /\ row' = [row EXCEPT ![t] = status]
         /\ started' = [started EXCEPT ![t] = status # "queued" /\ @]
    ELSE UNCHANGED <<row, started>>

\* set_task_queue_reason does not look at the status.
SetQueueReason(t, why) ==
    reason' = [reason EXCEPT ![t] = IF HasRow(t) THEN why ELSE @]

\* Mutant: the binding is released, the logical status is forgotten.
CoolBindingOnly(S) ==
    /\ hot' = [s \in Subagents |-> hot[s] /\ s \notin S]
    /\ UNCHANGED sub

\* Release a binding and roll the logical status back to warm or cold,
\* leaving a tombstone alone (commit_eviction, commit_hibernate, ...).
Cool(S) ==
    /\ hot' = [s \in Subagents |-> hot[s] /\ s \notin S]
    /\ sub' = [s \in Subagents |->
                  IF s \in S /\ Exists(s) /\ sub[s] # "deleted"
                  THEN "idle" ELSE sub[s]]

\* commit_hot_binding_and_status and restore_hot_binding_and_status: the
\* status becomes hot whatever it was.
CommitHotBinding(s) ==
    /\ hot' = [hot EXCEPT ![s] = TRUE]
    /\ sub' = [sub EXCEPT ![s] = "hot"]

-----------------------------------------------------------------------------
(* delegate                                                                 *)

\* Resolve the subagent, creating it when no row has its identity; then the
\* reuse policy and the bound resources are checked (a rejected request
\* leaves no task behind).
DelegateResolve(t) ==
    LET s == Owner[t]
    IN  /\ del[t] = "none" /\ row[t] = "absent"
        /\ sub[s] = "absent" \/ Live(s)
        /\ sub' = [sub EXCEPT ![s] = IF @ = "absent" THEN "idle" ELSE @]
        /\ \E outcome \in {"resolved", "rejected"} :
              del' = [del EXCEPT ![t] = outcome]
        /\ UNCHANGED <<rowVars, hot, execVars, sig, cpc, ctl, paused, restarts>>

\* The pressure gate is read before the database lock is taken.
DelegateReadGate(t) ==
    /\ del[t] = "resolved"
    /\ del' = [del EXCEPT ![t] = IF paused THEN "queue" ELSE "run"]
    /\ UNCHANGED <<rowVars, subVars, execVars, sig, cpc, ctl, paused, restarts>>

\* One critical section: has_running_task and the insert.  The foreign key
\* refuses a task whose subagent was hard-deleted in between.
DelegateInsert(t) ==
    LET s == Owner[t]
        queue == del[t] = "queue" \/ HasRunningTask(s)
    IN  /\ del[t] \in {"queue", "run"}
        /\ del' = [del EXCEPT ![t] = IF Exists(s) THEN "done" ELSE "rejected"]
        /\ IF Exists(s)
           THEN /\ row' = [row EXCEPT ![t] = IF queue THEN "queued" ELSE "running"]
                /\ started' = [started EXCEPT ![t] = ~queue]
                /\ reason' = [reason EXCEPT ![t] =
                      IF del[t] = "queue" THEN "pressure_gate_paused"
                      ELSE IF queue THEN "subagent_busy" ELSE "none"]
                /\ born' = [born EXCEPT ![t] = clock]
                /\ clock' \in {clock, clock + 1}
                /\ pc' = [pc EXCEPT ![t] = IF queue THEN "none" ELSE "gate"]
           ELSE UNCHANGED <<rowVars, pc>>
        /\ UNCHANGED <<subVars, res, gate, disp, sig, cpc, ctl, paused, restarts>>

-----------------------------------------------------------------------------
(* The dispatcher: one loop, which executes the task it picked inline.      *)

\* Mutant: the NOT IN subquery of pick_oldest_queued_task is dropped.
EligibleIgnoringRunning == {t \in Tasks : row[t] = "queued"}

Eligible == {t \in Tasks : row[t] = "queued" /\ ~HasRunningTask(Owner[t])}

\* pick_oldest_queued_task, on a tick that finds the pressure gate open.
DispatchPick(t) ==
    /\ disp = NoTask /\ ~paused
    /\ t \in Eligible /\ \A u \in Eligible : born[t] <= born[u]
    /\ row' = [row EXCEPT ![t] = "running"]
    /\ started' = [started EXCEPT ![t] = TRUE]
    /\ reason' = [reason EXCEPT ![t] = "none"]
    /\ pc' = [pc EXCEPT ![t] = "picked"]
    /\ disp' = t
    /\ UNCHANGED <<born, clock, subVars, res, gate, del, sig, cpc, ctl, paused,
                   restarts>>

\* execute_and_persist, or the dispatcher's work on a task, is over.
Finish(t) ==
    /\ pc' = [pc EXCEPT ![t] = "none"]
    /\ res' = [res EXCEPT ![t] = "none"]
    /\ disp' = IF disp = t THEN NoTask ELSE disp

\* The picked task's subagent is read; without it the task fails.
DispatchResolve(t) ==
    /\ pc[t] = "picked"
    /\ IF Exists(Owner[t])
       THEN /\ pc' = [pc EXCEPT ![t] = "resolved"]
            /\ UNCHANGED <<row, started, res, disp>>
       ELSE SetStatusIfNotCancelled(t, "failed") /\ Finish(t)
    /\ UNCHANGED <<reason, born, clock, subVars, gate, del, sig, cpc, ctl,
                   paused, restarts>>

\* The row is read again: cancelled, or gone, means skip.
DispatchRecheck(t) ==
    /\ pc[t] = "resolved"
    /\ IF row[t] = "cancelled" \/ ~HasRow(t)
       THEN Finish(t)
       ELSE pc' = [pc EXCEPT ![t] = "gate"] /\ UNCHANGED <<res, disp>>
    /\ UNCHANGED <<rowVars, subVars, gate, del, sig, cpc, ctl, paused, restarts>>

-----------------------------------------------------------------------------
(* execute_and_persist and execute_task                                     *)

\* Mutant: execute_and_persist does not wait for the lifecycle gate.
AcquireGateBusy(t) ==
    /\ pc[t] = "gate"
    /\ gate' = [gate EXCEPT ![Owner[t]] = t]
    /\ pc' = [pc EXCEPT ![t] = "start"]
    /\ UNCHANGED <<rowVars, subVars, res, disp, del, sig, cpc, ctl, paused,
                   restarts>>

\* execute_and_persist waits for the subagent's gate, without a timeout.
AcquireGate(t) ==
    /\ pc[t] = "gate" /\ gate[Owner[t]] = NoTask
    /\ gate' = [gate EXCEPT ![Owner[t]] = t]
    /\ pc' = [pc EXCEPT ![t] = "start"]
    /\ UNCHANGED <<rowVars, subVars, res, disp, del, sig, cpc, ctl, paused,
                   restarts>>

\* execute_task returns: the guards drop the cancel signal and the gate.
ReturnFromExecute(t, next, result) ==
    /\ pc' = [pc EXCEPT ![t] = next]
    /\ res' = [res EXCEPT ![t] = result]
    /\ gate' = [gate EXCEPT ![Owner[t]] = NoTask]
    /\ sig' = [sig EXCEPT ![t] = "none"]

RegisterSignal(t) ==
    /\ pc[t] = "start"
    /\ sig' = [sig EXCEPT ![t] = "registered"]
    /\ pc' = [pc EXCEPT ![t] = "armed"]
    /\ UNCHANGED <<rowVars, subVars, res, gate, disp, del, cpc, ctl, paused,
                   restarts>>

\* Mutant: no pre-execute check.
SkipCheckCancelled(t) ==
    /\ pc[t] = "armed"
    /\ pc' = [pc EXCEPT ![t] = "build"]
    /\ UNCHANGED <<rowVars, subVars, res, gate, sig, disp, del, cpc, ctl, paused,
                   restarts>>

\* The row is read after the signal is registered, never before.
CheckCancelled(t) ==
    /\ pc[t] = "armed"
    /\ IF row[t] = "cancelled"
       THEN ReturnFromExecute(t, "report", "cancelled")
       ELSE pc' = [pc EXCEPT ![t] = "build"] /\ UNCHANGED <<res, gate, sig>>
    /\ UNCHANGED <<rowVars, subVars, disp, del, cpc, ctl, paused, restarts>>

\* Bound resources are validated again and the context is built; both may
\* fail, and the latter must when the logical row is gone.
BuildContext(t) ==
    /\ pc[t] = "build"
    /\ \/ /\ Exists(Owner[t])
          /\ pc' = [pc EXCEPT ![t] = "turn"] /\ UNCHANGED <<res, gate, sig>>
       \/ ReturnFromExecute(t, "post_fail", "none")
    /\ UNCHANGED <<rowVars, subVars, disp, del, cpc, ctl, paused, restarts>>

\* The biased select: a signal that was sent wins over the executor.
TurnCancelled(t) ==
    /\ pc[t] = "turn" /\ sig[t] = "sent"
    /\ ReturnFromExecute(t, "report", "cancelled")
    /\ UNCHANGED <<rowVars, subVars, disp, del, cpc, ctl, paused, restarts>>

TurnReturns(t) ==
    /\ pc[t] = "turn" /\ sig[t] # "sent"
    /\ pc' = [pc EXCEPT ![t] = "persist"]
    /\ UNCHANGED <<rowVars, subVars, res, gate, disp, del, sig, cpc, ctl, paused,
                   restarts>>

\* The executor returned an error other than HotSessionLimit.
PersistError(t) ==
    /\ pc[t] = "persist"
    /\ SetStatusIfNotCancelled(t, "failed")
    /\ ReturnFromExecute(t, "post_fail", "none")
    /\ UNCHANGED <<reason, born, clock, subVars, disp, del, cpc, ctl, paused,
                   restarts>>

\* HotSessionLimit: nothing is written here, the caller decides.
PersistHotLimit(t) ==
    /\ pc[t] = "persist" /\ HotExecutor
    /\ ReturnFromExecute(t, "post_limit", "none")
    /\ UNCHANGED <<rowVars, subVars, disp, del, cpc, ctl, paused, restarts>>

\* Mutant: the status string of the sidecar is stored as it came.
StatusAsReported(reported) == reported

\* parse_turn_auto_result: a timeout is a failure.
ParsedStatus(reported) == IF reported = "completed" THEN "completed" ELSE "failed"

\* A turn result: task row, usage, memory and binding in one critical
\* section.  A turn may report failure and still leave a session behind.
PersistOutput(t, status) ==
    /\ pc[t] = "persist"
    /\ SetStatusIfNotCancelled(t, status)
    /\ res' = [res EXCEPT ![t] = status]
    /\ IF HotExecutor
       THEN /\ CommitHotBinding(Owner[t])
            /\ pc' = [pc EXCEPT ![t] = "activate"]
       ELSE /\ sub' = [sub EXCEPT ![Owner[t]] = "idle"]
            /\ pc' = [pc EXCEPT ![t] = "final"]
            /\ UNCHANGED hot
    /\ UNCHANGED <<reason, born, clock, gate, disp, del, sig, cpc, ctl, paused,
                   restarts>>

\* A turn result whose usage, memory or status cannot be saved: the row may
\* carry the turn's status already; the pending session is closed.
PersistFails(t, status) ==
    /\ pc[t] = "persist"
    /\ SetStatusIfNotCancelled(t, status) \/ UNCHANGED <<row, started>>
    /\ ReturnFromExecute(t, "post_fail", "none")
    /\ UNCHANGED <<reason, born, clock, subVars, disp, del, cpc, ctl, paused,
                   restarts>>

\* The hot binding cannot be committed: the row is failed before the lock is
\* released and the pending session is closed.
BindingCommitFails(t) ==
    /\ pc[t] = "persist" /\ HotExecutor
    /\ SetStatusIfNotCancelled(t, "failed")
    /\ ReturnFromExecute(t, "post_fail", "none")
    /\ UNCHANGED <<reason, born, clock, subVars, disp, del, cpc, ctl, paused,
                   restarts>>

\* session.activate succeeds, or fails and the binding is rolled back (there
\* may be none any more).
Activate(t) ==
    /\ pc[t] = "activate"
    /\ pc' = [pc EXCEPT ![t] = "final"]
    /\ UNCHANGED subVars \/ Cool({Owner[t]} \cap {s \in Subagents : hot[s]})
    /\ UNCHANGED <<rowVars, res, gate, disp, del, sig, cpc, ctl, paused, restarts>>

\* Mutant: the turn's own status is returned, the row is not read back.
FinalWithoutRead(t) ==
    /\ pc[t] = "final"
    /\ ReturnFromExecute(t, "report", res[t])
    /\ UNCHANGED <<rowVars, subVars, disp, del, cpc, ctl, paused, restarts>>

\* The status is read back, so that a late cancel shows in the result.
FinalRead(t) ==
    /\ pc[t] = "final"
    /\ ReturnFromExecute(t, "report",
                         IF row[t] = "cancelled" THEN "cancelled" ELSE res[t])
    /\ UNCHANGED <<rowVars, subVars, disp, del, cpc, ctl, paused, restarts>>

\* The completion hook gets the result (the usage bridge).
Hook(t) ==
    /\ pc[t] = "report"
    /\ Finish(t)
    /\ UNCHANGED <<rowVars, subVars, gate, del, sig, cpc, ctl, paused, restarts>>

PostFail(t) ==
    /\ pc[t] = "post_fail"
    /\ SetStatusIfNotCancelled(t, "failed")
    /\ Finish(t)
    /\ UNCHANGED <<reason, born, clock, subVars, gate, del, sig, cpc, ctl,
                   paused, restarts>>

\* HotSessionLimit within the retry deadline: back to the queue.
Requeue(t) ==
    /\ pc[t] = "post_limit"
    /\ SetStatusIfNotCancelled(t, "queued")
    /\ SetQueueReason(t, "hot_session_limit")
    /\ Finish(t)
    /\ UNCHANGED <<born, clock, subVars, gate, del, sig, cpc, ctl, paused,
                   restarts>>

\* Mutant: no deadline, the task is re-queued for ever.
GiveUpNever(t) == Requeue(t)

\* HotSessionLimit past the retry deadline.
GiveUp(t) ==
    /\ pc[t] = "post_limit"
    /\ SetStatusIfNotCancelled(t, "failed")
    /\ Finish(t)
    /\ UNCHANGED <<reason, born, clock, subVars, gate, del, sig, cpc, ctl,
                   paused, restarts>>

-----------------------------------------------------------------------------
(* cancel_task                                                              *)

CancelRead(t) ==
    /\ t \in Cancellable /\ cpc[t] = "none"
    /\ row[t] \in {"queued", "running"}
    /\ cpc' = [cpc EXCEPT ![t] = "read"]
    /\ UNCHANGED <<rowVars, subVars, execVars, del, sig, ctl, paused, restarts>>

\* Mutant: cancel_task_if_not_terminal without its condition on the status.
CancelFlipAny(t) ==
    /\ cpc[t] = "read"
    /\ IF HasRow(t)
       THEN /\ row' = [row EXCEPT ![t] = "cancelled"]
            /\ cpc' = [cpc EXCEPT ![t] = "signal"]
       ELSE UNCHANGED row /\ cpc' = [cpc EXCEPT ![t] = "none"]
    /\ UNCHANGED <<started, reason, born, clock, subVars, execVars, del, sig, ctl,
                   paused, restarts>>

\* cancel_task_if_not_terminal; a lost race ends the call.
CancelFlip(t) ==
    /\ cpc[t] = "read"
    /\ IF row[t] \in {"queued", "running"}
       THEN /\ row' = [row EXCEPT ![t] = "cancelled"]
            /\ cpc' = [cpc EXCEPT ![t] = "signal"]
       ELSE UNCHANGED row /\ cpc' = [cpc EXCEPT ![t] = "none"]
    /\ UNCHANGED <<started, reason, born, clock, subVars, execVars, del, sig, ctl,
                   paused, restarts>>

\* The sender is taken from the registry and fired, if there is one.
CancelSignal(t) ==
    /\ cpc[t] = "signal"
    /\ sig' = [sig EXCEPT ![t] = IF @ = "registered" THEN "sent" ELSE @]
    /\ cpc' = [cpc EXCEPT ![t] = "none"]
    /\ UNCHANGED <<rowVars, subVars, execVars, del, ctl, paused, restarts>>

-----------------------------------------------------------------------------
(* hibernate and delete: resolve, wait for the gate for a bounded time, act *)

ControlRequest(s, op) ==
    /\ ctl[s] = "none"
    /\ IF op = "hibernate" THEN Live(s) ELSE Exists(s)
    /\ ctl' = [ctl EXCEPT ![s] = op]
    /\ UNCHANGED <<rowVars, subVars, execVars, del, sig, cpc, paused, restarts>>

\* LIFECYCLE_CONTROL_WAIT elapses while the gate is held by someone else.
ControlTimeout(s) ==
    /\ ctl[s] \in ControlOps /\ gate[s] # NoTask
    /\ ctl' = [ctl EXCEPT ![s] = "none"]
    /\ UNCHANGED <<rowVars, subVars, execVars, del, sig, cpc, paused, restarts>>

\* With the gate: resolve again, release the binding, keep the gate for the
\* close RPC.  Without a hot binding only the status is written.
HibernateCommit(s) ==
    /\ ctl[s] = "hibernate" /\ gate[s] = NoTask
    /\ IF Live(s) /\ hot[s]
       THEN /\ ctl' = [ctl EXCEPT ![s] = "closing"]
            /\ gate' = [gate EXCEPT ![s] = Control]
       ELSE ctl' = [ctl EXCEPT ![s] = "none"] /\ UNCHANGED gate
    /\ IF Live(s) THEN Cool({s}) ELSE UNCHANGED subVars
    /\ UNCHANGED <<rowVars, pc, res, disp, del, sig, cpc, paused, restarts>>

HibernateDone(s) ==
    /\ ctl' = [ctl EXCEPT ![s] = "none"]
    /\ gate' = [gate EXCEPT ![s] = NoTask]
    /\ UNCHANGED <<rowVars, pc, res, disp, del, sig, cpc, paused, restarts>>

\* session.close was acknowledged, or the request was dropped by the control
\* server's dispatch timeout while it waited.
HibernateClosed(s) ==
    /\ ctl[s] = "closing"
    /\ HibernateDone(s)
    /\ UNCHANGED subVars

\* session.close failed: the binding is restored.
HibernateCloseFails(s) ==
    /\ ctl[s] = "closing"
    /\ HibernateDone(s)
    /\ CommitHotBinding(s)

\* A tombstone; tasks, binding and sidecar session are left alone.
SoftDelete(s) ==
    /\ ctl[s] = "soft_delete" /\ gate[s] = NoTask
    /\ sub' = [sub EXCEPT ![s] = IF Exists(s) THEN "deleted" ELSE @]
    /\ ctl' = [ctl EXCEPT ![s] = "none"]
    /\ UNCHANGED <<rowVars, hot, execVars, del, sig, cpc, paused, restarts>>

\* Mutant: delete does not take the lifecycle gate.
HardDeleteUngated(s) ==
    /\ ctl[s] = "hard_delete" /\ Exists(s)
    /\ ctl' = [ctl EXCEPT ![s] = "none"]
    /\ sub' = [sub EXCEPT ![s] = "gone"]
    /\ hot' = [hot EXCEPT ![s] = FALSE]
    /\ row' = [t \in Tasks |->
                  IF Owner[t] = s /\ HasRow(t) THEN "gone" ELSE row[t]]
    /\ UNCHANGED <<started, reason, born, clock, execVars, del, sig, cpc, paused,
                   restarts>>

\* hard_delete_logical_subagent: the row and everything that refers to it.
HardDelete(s) ==
    /\ ctl[s] = "hard_delete" /\ gate[s] = NoTask
    /\ ctl' = [ctl EXCEPT ![s] = "none"]
    /\ IF Exists(s)
       THEN /\ sub' = [sub EXCEPT ![s] = "gone"]
            /\ hot' = [hot EXCEPT ![s] = FALSE]
            /\ row' = [t \in Tasks |->
                          IF Owner[t] = s /\ HasRow(t) THEN "gone" ELSE row[t]]
       ELSE UNCHANGED <<sub, hot, row>>
    /\ UNCHANGED <<started, reason, born, clock, execVars, del, sig, cpc, paused,
                   restarts>>

-----------------------------------------------------------------------------
(* The reaper, which shares the dispatcher's loop; the sidecar; the process *)

FailRows(S) == row' = [t \in Tasks |-> IF t \in S THEN "failed" ELSE row[t]]

\* reap_orphaned_running_tasks: S is the set of overdue running rows.
Reap(S) ==
    /\ disp = NoTask
    /\ S # {} /\ \A t \in S : row[t] = "running" /\ started[t]
    /\ FailRows(S)
    /\ UNCHANGED <<started, reason, born, clock, subVars, execVars, del, sig, cpc,
                   ctl, paused, restarts>>

HotSubagents == {s \in Subagents : hot[s]}

\* reconcile_sidecar_crash
SidecarCrash ==
    /\ HotSubagents # {}
    /\ FailRows({t \in Tasks : row[t] = "running" /\ hot[Owner[t]]})
    /\ Cool(HotSubagents)
    /\ UNCHANGED <<started, reason, born, clock, execVars, del, sig, cpc, ctl,
                   paused, restarts>>

\* release_hot_bindings_for_shutdown
SidecarShutdown ==
    /\ HotSubagents # {}
    /\ Cool(HotSubagents)
    /\ UNCHANGED <<rowVars, execVars, del, sig, cpc, ctl, paused, restarts>>

\* commit_eviction by the execution of another subagent's task, or by the
\* pressure responder.
Evict(s) ==
    /\ hot[s]
    /\ Cool({s})
    /\ UNCHANGED <<rowVars, execVars, del, sig, cpc, ctl, paused, restarts>>

\* PressureGate.set_action
SetPaused(p) ==
    /\ paused # p
    /\ paused' = p
    /\ UNCHANGED <<rowVars, subVars, execVars, del, sig, cpc, ctl, restarts>>

\* The process stops at any point: what is in memory is lost, the database
\* stays as it is.
ServiceRestart ==
    /\ restarts < MaxRestarts
    /\ restarts' = restarts + 1
    /\ pc' = [t \in Tasks |-> "none"]
    /\ res' = [t \in Tasks |-> "none"]
    /\ sig' = [t \in Tasks |-> "none"]
    /\ cpc' = [t \in Tasks |-> "none"]
    /\ del' = [t \in Tasks |-> IF del[t] \in {"resolved", "queue", "run"}
                               THEN "rejected" ELSE del[t]]
    /\ gate' = [s \in Subagents |-> NoTask]
    /\ ctl' = [s \in Subagents |-> "none"]
    /\ disp' = NoTask
    /\ paused' = FALSE
    /\ UNCHANGED <<rowVars, subVars>>

-----------------------------------------------------------------------------
Delegate(t) == DelegateResolve(t) \/ DelegateReadGate(t) \/ DelegateInsert(t)

Dispatch(t) == DispatchPick(t) \/ DispatchResolve(t) \/ DispatchRecheck(t)

Persist(t) ==
    \/ PersistError(t)
    \/ PersistHotLimit(t)
    \/ BindingCommitFails(t)
    \/ \E reported \in {"completed", "failed", "timeout"} :
          \/ PersistOutput(t, ParsedStatus(reported))
          \/ PersistFails(t, ParsedStatus(reported))

Execute(t) ==
    \/ AcquireGate(t)
    \/ RegisterSignal(t)
    \/ CheckCancelled(t)
    \/ BuildContext(t)
    \/ TurnCancelled(t)
    \/ TurnReturns(t)
    \/ Persist(t)
    \/ Activate(t)
    \/ FinalRead(t)
    \/ Hook(t)
    \/ PostFail(t)
    \/ Requeue(t)
    \/ GiveUp(t)

Cancel(t) == CancelRead(t) \/ CancelFlip(t) \/ CancelSignal(t)

ControlStep(s) ==
    \/ \E op \in RequestedOps : ControlRequest(s, op)
    \/ ControlTimeout(s)
    \/ HibernateCommit(s)
    \/ HibernateClosed(s)
    \/ HibernateCloseFails(s)
    \/ SoftDelete(s)
    \/ HardDelete(s)

Next ==
    \/ \E t \in Tasks : Delegate(t) \/ Dispatch(t) \/ Execute(t) \/ Cancel(t)
    \/ \E s \in Subagents : ControlStep(s) \/ Evict(s)
    \/ \E S \in SUBSET Tasks : Reap(S)
    \/ SidecarCrash
    \/ SidecarShutdown
    \/ \E p \in BOOLEAN : SetPaused(p)
    \/ ServiceRestart

Spec == Init /\ [][Next]_vars

-----------------------------------------------------------------------------
(* Fairness: tokio polls every spawned future and every loop again, the     *)
(* lifecycle gate is a FIFO mutex, an executor turn ends (its RPC has a      *)
(* timeout), and time passes: a row that stays running becomes overdue, and *)
(* a task that keeps meeting the session limit passes its retry deadline.   *)
(* Nothing is assumed of the pressure gate.                                 *)

Progress(t) ==
    \/ DispatchResolve(t) \/ DispatchRecheck(t)
    \/ RegisterSignal(t) \/ CheckCancelled(t) \/ BuildContext(t)
    \/ TurnCancelled(t) \/ TurnReturns(t) \/ Persist(t) \/ Activate(t)
    \/ FinalRead(t) \/ Hook(t) \/ PostFail(t) \/ Requeue(t) \/ GiveUp(t)

Fairness ==
    /\ \A t \in Tasks : WF_vars(Progress(t)) /\ SF_vars(AcquireGate(t))
    /\ \A t \in Tasks : SF_vars(GiveUp(t)) /\ WF_vars(CancelSignal(t))
    /\ \A t \in Tasks : SF_vars(\E S \in SUBSET Tasks : t \in S /\ Reap(S))
    /\ SF_vars(\E t \in Tasks : DispatchPick(t))
    /\ \A s \in Subagents : WF_vars(HibernateClosed(s))

LiveSpec == Spec /\ Fairness

\* Only what ends a cancelled turn is fair: the executor may never return.
CancelFairness ==
    \A t \in Tasks : WF_vars(CancelSignal(t)) /\ WF_vars(TurnCancelled(t))

CancelSpec == Spec /\ CancelFairness

-----------------------------------------------------------------------------
(* Properties                                                               *)

TypeOK ==
    /\ row \in [Tasks -> RowStates]
    /\ started \in [Tasks -> BOOLEAN]
    /\ reason \in [Tasks -> Reasons]
    /\ born \in [Tasks -> Nat]
    /\ clock \in Nat
    /\ sub \in [Subagents -> SubStates]
    /\ hot \in [Subagents -> BOOLEAN]
    /\ del \in [Tasks -> {"none", "resolved", "queue", "run", "done", "rejected"}]
    /\ pc \in [Tasks -> PCs]
    /\ res \in [Tasks -> {"none"} \cup Terminal]
    /\ sig \in [Tasks -> {"none", "registered", "sent"}]
    /\ cpc \in [Tasks -> {"none", "read", "signal"}]
    /\ gate \in [Subagents -> Tasks \cup {NoTask, Control}]
    /\ ctl \in [Subagents -> {"none", "closing"} \cup ControlOps]
    /\ disp \in Tasks \cup {NoTask}
    /\ paused \in BOOLEAN
    /\ restarts \in Nat

\* Executions of one subagent's tasks are serialised, and none overlaps a
\* hibernate that is closing the session, even after the row of the earlier
\* task was reaped, cancelled or failed under it and a new task was started.
OneExecutionPerSubagent ==
    /\ \A t, u \in Tasks :
          Owner[t] = Owner[u] /\ pc[t] \in Holding /\ pc[u] \in Holding => t = u
    /\ \A t \in Tasks : pc[t] \in Holding => ctl[Owner[t]] # "closing"

\* At most one row of a subagent is running, whoever started it: delegate or
\* the dispatcher.
AtMostOneRunning ==
    \A t, u \in Tasks :
        Owner[t] = Owner[u] /\ row[t] = "running" /\ row[u] = "running" => t = u

\* What pollers read is consistent: a queued row has not started, says why it
\* waits and is not being executed; a running row has started and waits for
\* nothing.
QueuedNotStarted ==
    \A t \in Tasks :
        /\ row[t] = "queued" => ~started[t] /\ reason[t] # "none" /\ pc[t] = "none"
        /\ row[t] = "running" => started[t] /\ reason[t] = "none"

\* A cancel that arrives after the pre-execute check is never lost: while the
\* executor is about to run or runs a cancelled task, the signal that stops it
\* is on its way or has arrived.
CancelNotLost ==
    \A t \in Tasks :
        pc[t] \in {"build", "turn"} /\ row[t] = "cancelled"
            => cpc[t] = "signal" \/ sig[t] = "sent"

\* The status handed to the completion hook is the status in the database.
ResultAgreesWithRow ==
    \A t \in Tasks : pc[t] = "report" /\ row[t] # "gone" => res[t] = row[t]

\* Spec 3.3: status is hot exactly when a hot binding exists; a tombstone may
\* keep its binding.
HotIffBound ==
    \A s \in Subagents :
        /\ sub[s] = "hot" => hot[s]
        /\ hot[s] => sub[s] \in {"hot", "deleted"}

\* A turn in flight, and everything it writes, has its logical subagent: hard
\* delete never pulls the rows from under it.
TurnHasSubagent ==
    \A t \in Tasks :
        pc[t] \in {"turn", "persist", "activate", "final"} => Exists(Owner[t])

\* What callers see of a task: its row, and whether execute_and_persist still
\* works on it.
Active == {t \in Tasks : pc[t] # "none"}

Lifecycle == INSTANCE TaskLifecycle WITH status <- row, active <- Active

\* The manager implements the lifecycle it promises: at most one running task
\* per subagent; an outcome is written only by the task's own execution, or by
\* the reaper and the crash reconciliation on a running row; an execution that
\* ends leaves neither a running nor a queued row of its own behind, except
\* for a requeue; a settled task without an execution, or a cancelled one,
\* never comes back to life.
ImplementsLifecycle == Lifecycle!Spec

\* A cancelled task stays cancelled (until its subagent is hard-deleted).
CancelledIsFinal ==
    [][\A t \in Tasks :
          row[t] = "cancelled" => row'[t] \in {"cancelled", "gone"}]_vars

\* The dispatcher takes the tasks of one subagent in the order of their
\* creation, a re-queued one before the younger ones.
DispatcherIsFifo ==
    [][\A t, u \in Tasks :
          /\ row[t] = "queued" /\ row'[t] = "running"
          /\ Owner[u] = Owner[t] /\ row[u] = "queued"
          => born[t] <= born[u]]_vars

\* As long as the pressure gate keeps opening, every accepted task reaches a
\* terminal status, or is removed with its subagent: orphans of a restart are
\* reaped, requeues end.  Whether the gate opens is up to the supervisor of the
\* sidecar, so it is a hypothesis here.
EveryTaskSettles ==
    []<>~paused =>
        \A t \in Tasks :
            row[t] \in {"queued", "running"} ~> row[t] \in Terminal \cup {"gone"}

\* Cancelling stops a turn even when the executor never answers, so the
\* lifecycle gate is released.
CancelStopsTurn ==
    \A t \in Tasks : row[t] = "cancelled" /\ pc[t] = "turn" ~> pc[t] # "turn"

\* A hot-session requeue or a restart aside, spec 6.4 promises one FIFO queue
\* per subagent: a task may not start while an older one of the same subagent
\* is still queued.
FifoPerSubagent ==
    [][\A t, u \in Tasks :
          /\ row[t] # "running" /\ row'[t] = "running"
          /\ Owner[u] = Owner[t] /\ row[u] = "queued"
          => born'[t] <= born[u]]_vars

\* "ordinary read/write paths cannot revive" a tombstone.
TombstonesStay ==
    [][\A s \in Subagents :
          sub[s] = "deleted" => sub'[s] \in {"deleted", "gone"}]_vars

=============================================================================
