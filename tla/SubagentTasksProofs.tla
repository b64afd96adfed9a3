------------------------- MODULE SubagentTasksProofs -------------------------
(***************************************************************************)
(* Proofs about SubagentTasks, for every set of tasks and subagents, every   *)
(* assignment of tasks to subagents and any number of restarts.             *)
(*                                                                         *)
(* The inductive invariant is built in layers.  The step lemma of a layer   *)
(* uses the layers below it:                                                *)
(*                                                                         *)
(*   TypeOK      the types                                                  *)
(*   ExecInv     which rows have an execution                               *)
(*   GateInv     who holds the lifecycle gate                               *)
(*   AtMostOneRunning, QueuedNotStarted     the rows                        *)
(*   SignalInv, CancelNotLost               the cancel signal               *)
(*   SubInv      which logical subagents exist                              *)
(*   HotInv      the hot bindings                                           *)
(*   ResultInv   the result between its saving and its report               *)
(***************************************************************************)
EXTENDS SubagentTasks, TLAPS

\* A row is inserted once, and a row that waits is not being executed.
ExecInv ==
    \A t \in Tasks :
        /\ row[t] \in {"absent", "queued"} => pc[t] = "none"
        /\ del[t] \in {"none", "resolved", "queue", "run"} => row[t] = "absent"

\* The gate and the program counters agree on who holds it.
GateInv ==
    /\ \A t \in Tasks : pc[t] \in Holding <=> gate[Owner[t]] = t
    /\ \A s \in Subagents : gate[s] = Control <=> ctl[s] = "closing"

\* A signal is registered from the start of execute_task to its end, and is
\* only sent for a cancelled task.
SignalInv ==
    \A t \in Tasks :
        /\ sig[t] # "none" <=> pc[t] \in Holding \ {"start"}
        /\ sig[t] = "sent" => row[t] \in {"cancelled", "gone"}
        /\ cpc[t] = "signal" => row[t] \in {"cancelled", "gone"}

\* Who needs the logical row has it, and hard delete takes the tasks along.
SubInv ==
    /\ TurnHasSubagent
    /\ \A s \in Subagents : ctl[s] = "closing" => Exists(s)
    /\ \A t \in Tasks : row[t] = "gone" => sub[Owner[t]] = "gone"

\* Without sessions there is nothing hot and nothing to close.
MockInv ==
    ~HotExecutor => \A s \in Subagents : ~hot[s] /\ ctl[s] # "closing"

HotInv == MockInv /\ HotIffBound

\* From the moment a result is saved until it is reported, the row holds it,
\* unless somebody cancelled the task or deleted the subagent.
ResultInv ==
    \A t \in Tasks :
        /\ pc[t] \in {"activate", "final"} =>
              /\ res[t] \in {"completed", "failed"}
              /\ row[t] \in {res[t], "cancelled"}
        /\ pc[t] = "report" => res[t] \in Terminal /\ row[t] \in {res[t], "gone"}

-----------------------------------------------------------------------------
Reported == {"completed", "failed", "timeout"}

\* Cool and SetStatusIfNotCancelled keep the columns they write in range.
LEMMA CoolType ==
    ASSUME TypeOK, NEW S, Cool(S)
    PROVE  /\ hot' \in [Subagents -> BOOLEAN]
           /\ sub' \in [Subagents -> SubStates]
<1>1. hot' \in [Subagents -> BOOLEAN]
  BY DEF Cool, TypeOK
<1>2. sub' \in [Subagents -> SubStates]
  BY DEF Cool, TypeOK, SubStates
<1> QED
  BY <1>1, <1>2

LEMMA SetStatusType ==
    ASSUME TypeOK, NEW t \in Tasks, NEW status \in RowStates,
           SetStatusIfNotCancelled(t, status)
    PROVE  /\ row' \in [Tasks -> RowStates]
           /\ started' \in [Tasks -> BOOLEAN]
  BY DEF SetStatusIfNotCancelled, TypeOK

\* Every step keeps the types.
LEMMA TypeStep == TypeOK /\ [Next]_vars => TypeOK'
<1> SUFFICES ASSUME TypeOK, [Next]_vars PROVE TypeOK'
  OBVIOUS
<1> USE OwnerAssumption, HotExecutorAssumption, CallersAssumption
    DEF TypeOK, RowStates, Terminal, Reasons, SubStates, PCs, Holding, ControlOps,
        rowVars, subVars, execVars, TasksOf, HasRow, Exists, Live
<1>1. ASSUME NEW t \in Tasks, DelegateResolve(t)
      PROVE  TypeOK'
  BY <1>1 DEF DelegateResolve
<1>2. ASSUME NEW t \in Tasks, DelegateReadGate(t)
      PROVE  TypeOK'
  BY <1>2 DEF DelegateReadGate
<1>3. ASSUME NEW t \in Tasks, DelegateInsert(t)
      PROVE  TypeOK'
  <2>1. CASE Exists(Owner[t])
    <3>1. row' \in [Tasks -> RowStates]
      BY <1>3, <2>1 DEF DelegateInsert
    <3>5. started' \in [Tasks -> BOOLEAN]
      <4> DEFINE b == ~(del[t] = "queue" \/ HasRunningTask(Owner[t]))
      <4>1. started' = [started EXCEPT ![t] = b]
        BY <1>3, <2>1 DEF DelegateInsert
      <4>2. b \in BOOLEAN
        OBVIOUS
      <4> HIDE DEF b
      <4> QED
        BY <4>1, <4>2
    <3>2. reason' \in [Tasks -> Reasons] /\ pc' \in [Tasks -> PCs]
      BY <1>3, <2>1 DEF DelegateInsert
    <3>3. born' \in [Tasks -> Nat] /\ clock' \in Nat
      BY <1>3, <2>1 DEF DelegateInsert
    <3>4. del' \in [Tasks -> {"none", "resolved", "queue", "run", "done", "rejected"}]
      BY <1>3, <2>1 DEF DelegateInsert
    <3> QED
      BY <1>3, <3>1, <3>2, <3>3, <3>4, <3>5 DEF DelegateInsert
  <2>2. CASE ~Exists(Owner[t])
    BY <1>3, <2>2 DEF DelegateInsert
  <2> QED
    BY <2>1, <2>2
<1>4. ASSUME NEW t \in Tasks, DispatchPick(t)
      PROVE  TypeOK'
  BY <1>4 DEF DispatchPick, Eligible
<1>5. ASSUME NEW t \in Tasks, DispatchResolve(t)
      PROVE  TypeOK'
  BY <1>5 DEF DispatchResolve, SetStatusIfNotCancelled, Finish
<1>6. ASSUME NEW t \in Tasks, DispatchRecheck(t)
      PROVE  TypeOK'
  BY <1>6 DEF DispatchRecheck, Finish
<1>7. ASSUME NEW t \in Tasks, AcquireGate(t)
      PROVE  TypeOK'
  BY <1>7 DEF AcquireGate
<1>8. ASSUME NEW t \in Tasks, RegisterSignal(t)
      PROVE  TypeOK'
  BY <1>8 DEF RegisterSignal
<1>9. ASSUME NEW t \in Tasks, CheckCancelled(t)
      PROVE  TypeOK'
  <2>1. CASE row[t] = "cancelled"
    <3>1. ReturnFromExecute(t, "report", "cancelled")
      BY <1>9, <2>1 DEF CheckCancelled
    <3>2. pc' \in [Tasks -> PCs] /\ res' \in [Tasks -> {"none"} \cup Terminal]
      BY <3>1 DEF ReturnFromExecute
    <3>3. gate' \in [Subagents -> Tasks \cup {NoTask, Control}]
      BY <3>1 DEF ReturnFromExecute
    <3>4. sig' \in [Tasks -> {"none", "registered", "sent"}]
      BY <3>1 DEF ReturnFromExecute
    <3> QED
      BY <1>9, <3>2, <3>3, <3>4 DEF CheckCancelled
  <2>2. CASE row[t] # "cancelled"
    BY <1>9, <2>2 DEF CheckCancelled
  <2> QED
    BY <2>1, <2>2
<1>10. ASSUME NEW t \in Tasks, BuildContext(t)
      PROVE  TypeOK'
  BY <1>10 DEF BuildContext, ReturnFromExecute
<1>11. ASSUME NEW t \in Tasks, TurnCancelled(t)
      PROVE  TypeOK'
  BY <1>11 DEF TurnCancelled, ReturnFromExecute
<1>12. ASSUME NEW t \in Tasks, TurnReturns(t)
      PROVE  TypeOK'
  BY <1>12 DEF TurnReturns
<1>13. ASSUME NEW t \in Tasks, PersistError(t)
      PROVE  TypeOK'
  BY <1>13 DEF PersistError, SetStatusIfNotCancelled, ReturnFromExecute
<1>14. ASSUME NEW t \in Tasks, PersistHotLimit(t)
      PROVE  TypeOK'
  BY <1>14 DEF PersistHotLimit, ReturnFromExecute
<1>15. ASSUME NEW t \in Tasks, BindingCommitFails(t)
      PROVE  TypeOK'
  BY <1>15 DEF BindingCommitFails, SetStatusIfNotCancelled, ReturnFromExecute
<1>16. ASSUME NEW t \in Tasks, NEW r \in Reported, PersistOutput(t, ParsedStatus(r))
      PROVE  TypeOK'
  <2>1. ParsedStatus(r) \in {"completed", "failed"}
    BY DEF ParsedStatus
  <2>2. row' \in [Tasks -> RowStates] /\ started' \in [Tasks -> BOOLEAN]
    BY <1>16, <2>1, SetStatusType DEF PersistOutput
  <2>3. sub' \in [Subagents -> SubStates]
    BY <1>16 DEF PersistOutput, CommitHotBinding
  <2>5. hot' \in [Subagents -> BOOLEAN]
    <3>1. hot' = [hot EXCEPT ![Owner[t]] = TRUE] \/ hot' = hot
      BY <1>16 DEF PersistOutput, CommitHotBinding
    <3> QED
      BY ZenonT(30), <3>1
  <2>4. pc' \in [Tasks -> PCs] /\ res' \in [Tasks -> {"none"} \cup Terminal]
    BY <1>16, <2>1 DEF PersistOutput
  <2> QED
    BY <1>16, <2>2, <2>3, <2>4, <2>5 DEF PersistOutput
<1>17. ASSUME NEW t \in Tasks, NEW r \in Reported, PersistFails(t, ParsedStatus(r))
      PROVE  TypeOK'
  BY <1>17 DEF PersistFails, SetStatusIfNotCancelled, ReturnFromExecute, ParsedStatus
<1>18. ASSUME NEW t \in Tasks, Activate(t)
      PROVE  TypeOK'
  <2>1. sub' \in [Subagents -> SubStates] /\ hot' \in [Subagents -> BOOLEAN]
    BY <1>18, CoolType DEF Activate
  <2> QED
    BY <1>18, <2>1 DEF Activate
<1>19. ASSUME NEW t \in Tasks, FinalRead(t)
      PROVE  TypeOK'
  BY <1>19 DEF FinalRead, ReturnFromExecute
<1>20. ASSUME NEW t \in Tasks, Hook(t)
      PROVE  TypeOK'
  BY <1>20 DEF Hook, Finish
<1>21. ASSUME NEW t \in Tasks, PostFail(t)
      PROVE  TypeOK'
  BY <1>21 DEF PostFail, SetStatusIfNotCancelled, Finish
<1>22. ASSUME NEW t \in Tasks, Requeue(t)
      PROVE  TypeOK'
  <2>1. row' \in [Tasks -> RowStates] /\ started' \in [Tasks -> BOOLEAN]
    BY <1>22, SetStatusType DEF Requeue
  <2> QED
    BY <1>22, <2>1 DEF Requeue, SetQueueReason, Finish
<1>23. ASSUME NEW t \in Tasks, GiveUp(t)
      PROVE  TypeOK'
  BY <1>23 DEF GiveUp, SetStatusIfNotCancelled, Finish
<1>24. ASSUME NEW t \in Tasks, CancelRead(t)
      PROVE  TypeOK'
  BY <1>24 DEF CancelRead
<1>25. ASSUME NEW t \in Tasks, CancelFlip(t)
      PROVE  TypeOK'
  BY <1>25 DEF CancelFlip
<1>26. ASSUME NEW t \in Tasks, CancelSignal(t)
      PROVE  TypeOK'
  BY <1>26 DEF CancelSignal
<1>27. ASSUME NEW s \in Subagents, NEW op \in RequestedOps, ControlRequest(s, op)
      PROVE  TypeOK'
  BY <1>27 DEF ControlRequest
<1>28. ASSUME NEW s \in Subagents, ControlTimeout(s)
      PROVE  TypeOK'
  BY <1>28 DEF ControlTimeout
<1>29. ASSUME NEW s \in Subagents, HibernateCommit(s)
      PROVE  TypeOK'
  <2>1. sub' \in [Subagents -> SubStates] /\ hot' \in [Subagents -> BOOLEAN]
    BY <1>29, CoolType DEF HibernateCommit
  <2>2. ctl' \in [Subagents -> {"none", "closing"} \cup ControlOps]
    BY <1>29 DEF HibernateCommit
  <2>3. gate' \in [Subagents -> Tasks \cup {NoTask, Control}]
    BY <1>29 DEF HibernateCommit
  <2> QED
    BY <1>29, <2>1, <2>2, <2>3 DEF HibernateCommit
<1>30. ASSUME NEW s \in Subagents, HibernateClosed(s)
      PROVE  TypeOK'
  BY <1>30 DEF HibernateClosed, HibernateDone
<1>31. ASSUME NEW s \in Subagents, HibernateCloseFails(s)
      PROVE  TypeOK'
  BY <1>31 DEF HibernateCloseFails, HibernateDone, CommitHotBinding
<1>32. ASSUME NEW s \in Subagents, SoftDelete(s)
      PROVE  TypeOK'
  BY <1>32 DEF SoftDelete
<1>33. ASSUME NEW s \in Subagents, HardDelete(s)
      PROVE  TypeOK'
  <2>1. row' \in [Tasks -> RowStates]
    BY <1>33 DEF HardDelete
  <2>2. sub' \in [Subagents -> SubStates]
    BY <1>33 DEF HardDelete
  <2>3. hot' \in [Subagents -> BOOLEAN]
    <3>1. hot' = [hot EXCEPT ![s] = FALSE] \/ hot' = hot
      BY <1>33 DEF HardDelete
    <3> QED
      BY ZenonT(30), <3>1
  <2> QED
    BY <1>33, <2>1, <2>2, <2>3 DEF HardDelete
<1>34. ASSUME NEW s \in Subagents, Evict(s)
      PROVE  TypeOK'
  BY <1>34 DEF Evict, Cool
<1>35. ASSUME NEW S \in SUBSET Tasks, Reap(S)
      PROVE  TypeOK'
  BY <1>35 DEF Reap, FailRows
<1>36. CASE SidecarCrash
  BY <1>36 DEF SidecarCrash, FailRows, Cool, HotSubagents
<1>37. CASE SidecarShutdown
  BY <1>37 DEF SidecarShutdown, Cool, HotSubagents
<1>38. ASSUME NEW p \in BOOLEAN, SetPaused(p)
      PROVE  TypeOK'
  BY <1>38 DEF SetPaused
<1>39. CASE ServiceRestart
  <2>1. del' \in [Tasks -> {"none", "resolved", "queue", "run", "done", "rejected"}]
    BY <1>39 DEF ServiceRestart
  <2>2. /\ pc' \in [Tasks -> PCs] /\ res' \in [Tasks -> {"none"} \cup Terminal]
        /\ sig' \in [Tasks -> {"none", "registered", "sent"}]
        /\ cpc' \in [Tasks -> {"none", "read", "signal"}]
    BY <1>39 DEF ServiceRestart
  <2>3. /\ gate' \in [Subagents -> Tasks \cup {NoTask, Control}]
        /\ ctl' \in [Subagents -> {"none", "closing"} \cup ControlOps]
        /\ restarts' \in Nat
    BY <1>39, RestartsAssumption DEF ServiceRestart
  <2> QED
    BY <1>39, <2>1, <2>2, <2>3 DEF ServiceRestart

<1>90. CASE UNCHANGED vars
  BY <1>90 DEF vars
<1> QED
  BY ZenonT(30), <1>1, <1>2, <1>3, <1>4, <1>5, <1>6, <1>7, <1>8, <1>9, <1>10, <1>11, <1>12,
     <1>13, <1>14, <1>15, <1>16, <1>17, <1>18, <1>19, <1>20, <1>21, <1>22, <1>23,
     <1>24, <1>25, <1>26, <1>27, <1>28, <1>29, <1>30, <1>31, <1>32, <1>33, <1>34,
     <1>35, <1>36, <1>37, <1>38, <1>39, <1>90
     DEF Next, Delegate, Dispatch, Execute, Persist, Cancel, ControlStep, Reported

\* Every reachable state is well typed: the columns and registries of the task
\* lifecycle only ever hold the values the code gives them.
THEOREM TypeCorrect == Spec => []TypeOK
<1>1. Init => TypeOK
  <2> SUFFICES ASSUME Init PROVE TypeOK
    OBVIOUS
  <2> USE DEF Init, RowStates, Terminal, Reasons, SubStates, PCs, ControlOps
  <2>1. /\ row \in [Tasks -> RowStates] /\ started \in [Tasks -> BOOLEAN]
        /\ reason \in [Tasks -> Reasons] /\ born \in [Tasks -> Nat] /\ clock \in Nat
    OBVIOUS
  <2>2. sub \in [Subagents -> SubStates] /\ hot \in [Subagents -> BOOLEAN]
    OBVIOUS
  <2>3. /\ del \in [Tasks -> {"none", "resolved", "queue", "run", "done", "rejected"}]
        /\ pc \in [Tasks -> PCs] /\ res \in [Tasks -> {"none"} \cup Terminal]
    OBVIOUS
  <2>4. /\ sig \in [Tasks -> {"none", "registered", "sent"}]
        /\ cpc \in [Tasks -> {"none", "read", "signal"}]
    OBVIOUS
  <2>5. /\ gate \in [Subagents -> Tasks \cup {NoTask, Control}]
        /\ ctl \in [Subagents -> {"none", "closing"} \cup ControlOps]
        /\ disp \in Tasks \cup {NoTask} /\ paused \in BOOLEAN /\ restarts \in Nat
    OBVIOUS
  <2> QED
    BY <2>1, <2>2, <2>3, <2>4, <2>5 DEF TypeOK
<1> QED
  BY <1>1, TypeStep, PTL DEF Spec

-----------------------------------------------------------------------------
\* Every step keeps ExecInv.
LEMMA ExecStep ==
    TypeOK /\ ExecInv /\ [Next]_vars => ExecInv'
<1> SUFFICES ASSUME TypeOK, ExecInv, [Next]_vars PROVE ExecInv'
  OBVIOUS
<1> USE OwnerAssumption DEF TypeOK, ExecInv, RowStates, Terminal, Holding,
        PCs, rowVars, subVars, execVars, HasRow
<1>1. ASSUME NEW t \in Tasks, DelegateResolve(t)
      PROVE  ExecInv'
  BY <1>1 DEF DelegateResolve
<1>2. ASSUME NEW t \in Tasks, DelegateReadGate(t)
      PROVE  ExecInv'
  BY <1>2 DEF DelegateReadGate
<1>3. ASSUME NEW t \in Tasks, DelegateInsert(t)
      PROVE  ExecInv'
  BY <1>3 DEF DelegateInsert
<1>4. ASSUME NEW t \in Tasks, DispatchPick(t)
      PROVE  ExecInv'
  BY <1>4 DEF DispatchPick, Eligible
<1>5. ASSUME NEW t \in Tasks, DispatchResolve(t)
      PROVE  ExecInv'
  BY <1>5 DEF DispatchResolve, SetStatusIfNotCancelled, Finish
<1>6. ASSUME NEW t \in Tasks, DispatchRecheck(t)
      PROVE  ExecInv'
  BY <1>6 DEF DispatchRecheck, Finish
<1>7. ASSUME NEW t \in Tasks, AcquireGate(t)
      PROVE  ExecInv'
  BY <1>7 DEF AcquireGate
<1>8. ASSUME NEW t \in Tasks, RegisterSignal(t)
      PROVE  ExecInv'
  BY <1>8 DEF RegisterSignal
<1>9. ASSUME NEW t \in Tasks, CheckCancelled(t)
      PROVE  ExecInv'
  BY <1>9 DEF CheckCancelled, ReturnFromExecute
<1>10. ASSUME NEW t \in Tasks, BuildContext(t)
      PROVE  ExecInv'
  BY <1>10 DEF BuildContext, ReturnFromExecute
<1>11. ASSUME NEW t \in Tasks, TurnCancelled(t)
      PROVE  ExecInv'
  BY <1>11 DEF TurnCancelled, ReturnFromExecute
<1>12. ASSUME NEW t \in Tasks, TurnReturns(t)
      PROVE  ExecInv'
  BY <1>12 DEF TurnReturns
<1>13. ASSUME NEW t \in Tasks, PersistError(t)
      PROVE  ExecInv'
  BY <1>13 DEF PersistError, SetStatusIfNotCancelled, ReturnFromExecute
<1>14. ASSUME NEW t \in Tasks, PersistHotLimit(t)
      PROVE  ExecInv'
  BY <1>14 DEF PersistHotLimit, ReturnFromExecute
<1>15. ASSUME NEW t \in Tasks, BindingCommitFails(t)
      PROVE  ExecInv'
  BY <1>15 DEF BindingCommitFails, SetStatusIfNotCancelled, ReturnFromExecute
<1>16. ASSUME NEW t \in Tasks, NEW r \in Reported, PersistOutput(t, ParsedStatus(r))
      PROVE  ExecInv'
  BY <1>16 DEF PersistOutput, SetStatusIfNotCancelled, CommitHotBinding,
     ParsedStatus
<1>17. ASSUME NEW t \in Tasks, NEW r \in Reported, PersistFails(t, ParsedStatus(r))
      PROVE  ExecInv'
  BY <1>17 DEF PersistFails, SetStatusIfNotCancelled, ReturnFromExecute,
     ParsedStatus
<1>18. ASSUME NEW t \in Tasks, Activate(t)
      PROVE  ExecInv'
  BY <1>18 DEF Activate, Cool
<1>19. ASSUME NEW t \in Tasks, FinalRead(t)
      PROVE  ExecInv'
  BY <1>19 DEF FinalRead, ReturnFromExecute
<1>20. ASSUME NEW t \in Tasks, Hook(t)
      PROVE  ExecInv'
  BY <1>20 DEF Hook, Finish
<1>21. ASSUME NEW t \in Tasks, PostFail(t)
      PROVE  ExecInv'
  BY <1>21 DEF PostFail, SetStatusIfNotCancelled, Finish
<1>22. ASSUME NEW t \in Tasks, Requeue(t)
      PROVE  ExecInv'
  BY <1>22 DEF Requeue, SetStatusIfNotCancelled, SetQueueReason, Finish
<1>23. ASSUME NEW t \in Tasks, GiveUp(t)
      PROVE  ExecInv'
  BY <1>23 DEF GiveUp, SetStatusIfNotCancelled, Finish
<1>24. ASSUME NEW t \in Tasks, CancelFlip(t)
      PROVE  ExecInv'
  BY <1>24 DEF CancelFlip
<1>25. ASSUME NEW s \in Subagents, HardDelete(s)
      PROVE  ExecInv'
  BY <1>25 DEF HardDelete
<1>26. ASSUME NEW S \in SUBSET Tasks, Reap(S)
      PROVE  ExecInv'
  BY <1>26 DEF Reap, FailRows
<1>27. CASE SidecarCrash
  BY <1>27 DEF SidecarCrash, FailRows, Cool, HotSubagents
<1>28. CASE ServiceRestart
  BY <1>28 DEF ServiceRestart
<1>29. CASE UNCHANGED <<row, del, pc>>
  BY <1>29
<1>30. ASSUME NEW t \in Tasks, CancelRead(t) \/ CancelSignal(t)
      PROVE  UNCHANGED <<row, del, pc>>
  BY <1>30 DEF CancelRead, CancelSignal
<1>31. ASSUME NEW s \in Subagents, NEW op \in RequestedOps,
             ControlRequest(s, op)
      PROVE  UNCHANGED <<row, del, pc>>
  BY <1>31 DEF ControlRequest
<1>32. ASSUME NEW s \in Subagents, ControlTimeout(s) \/ HibernateCommit(s) \/
             HibernateClosed(s) \/ HibernateCloseFails(s) \/ SoftDelete(s) \/
             Evict(s)
      PROVE  UNCHANGED <<row, del, pc>>
  BY <1>32 DEF ControlTimeout, HibernateCommit, Cool, HibernateClosed,
     HibernateDone, HibernateCloseFails, CommitHotBinding, SoftDelete, Evict
<1>33. ASSUME SidecarShutdown
      PROVE  UNCHANGED <<row, del, pc>>
  BY <1>33 DEF SidecarShutdown, Cool, HotSubagents
<1>34. ASSUME NEW p \in BOOLEAN, SetPaused(p)
      PROVE  UNCHANGED <<row, del, pc>>
  BY <1>34 DEF SetPaused
<1>35. CASE UNCHANGED vars
  BY <1>35 DEF vars
<1> QED
  BY <1>1, <1>2, <1>3, <1>4, <1>5, <1>6, <1>7, <1>8, <1>9, <1>10, <1>11,
     <1>12, <1>13, <1>14, <1>15, <1>16, <1>17, <1>18, <1>19, <1>20, <1>21,
     <1>22, <1>23, <1>24, <1>25, <1>26, <1>27, <1>28, <1>29, <1>30, <1>31,
     <1>32, <1>33, <1>34, <1>35
     DEF Next, Delegate, Dispatch, Execute, Persist, Cancel, ControlStep, Reported

\* A step takes the gate only when it is free and gives it up only when the
\* execution leaves execute_task.
LEMMA GateStep ==
    TypeOK /\ ExecInv /\ GateInv /\ [Next]_vars => GateInv'
<1> SUFFICES ASSUME TypeOK, ExecInv, GateInv, [Next]_vars PROVE GateInv'
  OBVIOUS
<1> USE OwnerAssumption, HolderAssumption, CallersAssumption DEF TypeOK,
        ExecInv, GateInv, ControlOps, RowStates, Terminal, Holding, PCs,
        rowVars, subVars, execVars, HasRow
<1>1. ASSUME NEW t \in Tasks, DelegateInsert(t)
      PROVE  GateInv'
  BY <1>1 DEF DelegateInsert
<1>2. ASSUME NEW t \in Tasks, DispatchPick(t)
      PROVE  GateInv'
  BY <1>2 DEF DispatchPick, Eligible
<1>3. ASSUME NEW t \in Tasks, DispatchResolve(t)
      PROVE  GateInv'
  BY <1>3 DEF DispatchResolve, SetStatusIfNotCancelled, Finish
<1>4. ASSUME NEW t \in Tasks, DispatchRecheck(t)
      PROVE  GateInv'
  BY <1>4 DEF DispatchRecheck, Finish
<1>5. ASSUME NEW t \in Tasks, AcquireGate(t)
      PROVE  GateInv'
  BY <1>5 DEF AcquireGate
<1>6. ASSUME NEW t \in Tasks, RegisterSignal(t)
      PROVE  GateInv'
  BY <1>6 DEF RegisterSignal
<1>7. ASSUME NEW t \in Tasks, CheckCancelled(t)
      PROVE  GateInv'
  BY <1>7 DEF CheckCancelled, ReturnFromExecute
<1>8. ASSUME NEW t \in Tasks, BuildContext(t)
      PROVE  GateInv'
  BY <1>8 DEF BuildContext, ReturnFromExecute
<1>9. ASSUME NEW t \in Tasks, TurnCancelled(t)
      PROVE  GateInv'
  BY <1>9 DEF TurnCancelled, ReturnFromExecute
<1>10. ASSUME NEW t \in Tasks, TurnReturns(t)
      PROVE  GateInv'
  BY <1>10 DEF TurnReturns
<1>11. ASSUME NEW t \in Tasks, PersistError(t)
      PROVE  GateInv'
  BY <1>11 DEF PersistError, SetStatusIfNotCancelled, ReturnFromExecute
<1>12. ASSUME NEW t \in Tasks, PersistHotLimit(t)
      PROVE  GateInv'
  BY <1>12 DEF PersistHotLimit, ReturnFromExecute
<1>13. ASSUME NEW t \in Tasks, BindingCommitFails(t)
      PROVE  GateInv'
  BY <1>13 DEF BindingCommitFails, SetStatusIfNotCancelled, ReturnFromExecute
<1>14. ASSUME NEW t \in Tasks, NEW r \in Reported, PersistOutput(t, ParsedStatus(r))
      PROVE  GateInv'
  BY <1>14 DEF PersistOutput, SetStatusIfNotCancelled, CommitHotBinding,
     ParsedStatus
<1>15. ASSUME NEW t \in Tasks, NEW r \in Reported, PersistFails(t, ParsedStatus(r))
      PROVE  GateInv'
  BY <1>15 DEF PersistFails, SetStatusIfNotCancelled, ReturnFromExecute,
     ParsedStatus
<1>16. ASSUME NEW t \in Tasks, Activate(t)
      PROVE  GateInv'
  BY <1>16 DEF Activate, Cool
<1>17. ASSUME NEW t \in Tasks, FinalRead(t)
      PROVE  GateInv'
  BY <1>17 DEF FinalRead, ReturnFromExecute
<1>18. ASSUME NEW t \in Tasks, Hook(t)
      PROVE  GateInv'
  BY <1>18 DEF Hook, Finish
<1>19. ASSUME NEW t \in Tasks, PostFail(t)
      PROVE  GateInv'
  BY <1>19 DEF PostFail, SetStatusIfNotCancelled, Finish
<1>20. ASSUME NEW t \in Tasks, Requeue(t)
      PROVE  GateInv'
  BY <1>20 DEF Requeue, SetStatusIfNotCancelled, SetQueueReason, Finish
<1>21. ASSUME NEW t \in Tasks, GiveUp(t)
      PROVE  GateInv'
  BY <1>21 DEF GiveUp, SetStatusIfNotCancelled, Finish
<1>22. ASSUME NEW s \in Subagents, NEW op \in RequestedOps, ControlRequest(s, op)
      PROVE  GateInv'
  BY <1>22 DEF ControlRequest
<1>23. ASSUME NEW s \in Subagents, ControlTimeout(s)
      PROVE  GateInv'
  BY <1>23 DEF ControlTimeout
<1>24. ASSUME NEW s \in Subagents, HibernateCommit(s)
      PROVE  GateInv'
  BY <1>24 DEF HibernateCommit, Cool
<1>25. ASSUME NEW s \in Subagents, HibernateClosed(s)
      PROVE  GateInv'
  BY <1>25 DEF HibernateClosed, HibernateDone
<1>26. ASSUME NEW s \in Subagents, HibernateCloseFails(s)
      PROVE  GateInv'
  BY <1>26 DEF HibernateCloseFails, HibernateDone, CommitHotBinding
<1>27. ASSUME NEW s \in Subagents, SoftDelete(s)
      PROVE  GateInv'
  BY <1>27 DEF SoftDelete
<1>28. ASSUME NEW s \in Subagents, HardDelete(s)
      PROVE  GateInv'
  BY <1>28 DEF HardDelete
<1>29. CASE ServiceRestart
  BY <1>29 DEF ServiceRestart
<1>30. CASE UNCHANGED <<pc, gate, ctl>>
  BY <1>30
<1>31. ASSUME NEW t \in Tasks, DelegateResolve(t) \/ DelegateReadGate(t) \/
             CancelRead(t) \/ CancelFlip(t) \/ CancelSignal(t)
      PROVE  UNCHANGED <<pc, gate, ctl>>
  BY <1>31 DEF DelegateResolve, DelegateReadGate, CancelRead, CancelFlip,
     CancelSignal
<1>32. ASSUME NEW s \in Subagents, Evict(s)
      PROVE  UNCHANGED <<pc, gate, ctl>>
  BY <1>32 DEF Evict, Cool
<1>33. ASSUME NEW S \in SUBSET Tasks, Reap(S)
      PROVE  UNCHANGED <<pc, gate, ctl>>
  BY <1>33 DEF Reap, FailRows
<1>34. ASSUME SidecarCrash \/ SidecarShutdown
      PROVE  UNCHANGED <<pc, gate, ctl>>
  BY <1>34 DEF SidecarCrash, FailRows, Cool, HotSubagents, SidecarShutdown
<1>35. ASSUME NEW p \in BOOLEAN, SetPaused(p)
      PROVE  UNCHANGED <<pc, gate, ctl>>
  BY <1>35 DEF SetPaused
<1>36. CASE UNCHANGED vars
  BY <1>36 DEF vars
<1> QED
  BY <1>1, <1>2, <1>3, <1>4, <1>5, <1>6, <1>7, <1>8, <1>9, <1>10, <1>11,
     <1>12, <1>13, <1>14, <1>15, <1>16, <1>17, <1>18, <1>19, <1>20, <1>21,
     <1>22, <1>23, <1>24, <1>25, <1>26, <1>27, <1>28, <1>29, <1>30, <1>31,
     <1>32, <1>33, <1>34, <1>35, <1>36
     DEF Next, Delegate, Dispatch, Execute, Persist, Cancel, ControlStep, Reported

LEMMA GateCorrect == Spec => [](TypeOK /\ ExecInv /\ GateInv)
<1>1. Init => ExecInv /\ GateInv
  BY OwnerAssumption, HolderAssumption DEF Init, ExecInv, GateInv, Holding
<1> QED
  BY <1>1, TypeCorrect, ExecStep, GateStep, PTL DEF Spec

\* Executions of one subagent are serialised and never overlap a hibernate
\* that is closing its session, for any number of tasks and restarts.
THEOREM ExecutionsSerialised == Spec => []OneExecutionPerSubagent
<1>1. TypeOK /\ GateInv => OneExecutionPerSubagent
  BY OwnerAssumption, HolderAssumption
     DEF TypeOK, GateInv, OneExecutionPerSubagent, Holding
<1> QED
  BY <1>1, GateCorrect, PTL

-----------------------------------------------------------------------------
\* What a step may do to a cancelled row, and which row a step may start.
CancelledStays ==
    \A t \in Tasks : row[t] = "cancelled" => row'[t] \in {"cancelled", "gone"}

OldestStarts ==
    \A t, u \in Tasks :
        /\ row[t] = "queued" /\ row'[t] = "running"
        /\ Owner[u] = Owner[t] /\ row[u] = "queued"
        => born[t] <= born[u]

\* No write to a row gets past a cancel.
LEMMA CancelledStep ==
    TypeOK /\ ExecInv /\ [Next]_vars => CancelledStays
<1> SUFFICES ASSUME TypeOK, ExecInv, [Next]_vars PROVE CancelledStays
  OBVIOUS
<1> USE OwnerAssumption DEF TypeOK, ExecInv, CancelledStays, RowStates,
        Terminal, Holding, PCs, rowVars, subVars, execVars, HasRow
<1>1. ASSUME NEW t \in Tasks, DelegateInsert(t)
      PROVE  CancelledStays
  BY <1>1 DEF DelegateInsert
<1>2. ASSUME NEW t \in Tasks, DispatchPick(t)
      PROVE  CancelledStays
  BY <1>2 DEF DispatchPick, Eligible
<1>3. ASSUME NEW t \in Tasks, DispatchResolve(t)
      PROVE  CancelledStays
  BY <1>3 DEF DispatchResolve, SetStatusIfNotCancelled, Finish
<1>4. ASSUME NEW t \in Tasks, PersistError(t)
      PROVE  CancelledStays
  BY <1>4 DEF PersistError, SetStatusIfNotCancelled, ReturnFromExecute
<1>5. ASSUME NEW t \in Tasks, BindingCommitFails(t)
      PROVE  CancelledStays
  BY <1>5 DEF BindingCommitFails, SetStatusIfNotCancelled, ReturnFromExecute
<1>6. ASSUME NEW t \in Tasks, NEW r \in Reported, PersistOutput(t, ParsedStatus(r))
      PROVE  CancelledStays
  BY <1>6 DEF PersistOutput, SetStatusIfNotCancelled, CommitHotBinding,
     ParsedStatus
<1>7. ASSUME NEW t \in Tasks, NEW r \in Reported, PersistFails(t, ParsedStatus(r))
      PROVE  CancelledStays
  BY <1>7 DEF PersistFails, SetStatusIfNotCancelled, ReturnFromExecute,
     ParsedStatus
<1>8. ASSUME NEW t \in Tasks, PostFail(t)
      PROVE  CancelledStays
  BY <1>8 DEF PostFail, SetStatusIfNotCancelled, Finish
<1>9. ASSUME NEW t \in Tasks, Requeue(t)
      PROVE  CancelledStays
  BY <1>9 DEF Requeue, SetStatusIfNotCancelled, SetQueueReason, Finish
<1>10. ASSUME NEW t \in Tasks, GiveUp(t)
      PROVE  CancelledStays
  BY <1>10 DEF GiveUp, SetStatusIfNotCancelled, Finish
<1>11. ASSUME NEW t \in Tasks, CancelFlip(t)
      PROVE  CancelledStays
  BY <1>11 DEF CancelFlip
<1>12. ASSUME NEW s \in Subagents, HardDelete(s)
      PROVE  CancelledStays
  BY <1>12 DEF HardDelete
<1>13. ASSUME NEW S \in SUBSET Tasks, Reap(S)
      PROVE  CancelledStays
  BY <1>13 DEF Reap, FailRows
<1>14. CASE SidecarCrash
  BY <1>14 DEF SidecarCrash, FailRows, Cool, HotSubagents
<1>15. CASE UNCHANGED <<row>>
  BY <1>15
<1>16. ASSUME NEW t \in Tasks, DelegateResolve(t) \/ DelegateReadGate(t) \/
             DispatchRecheck(t) \/ AcquireGate(t) \/ RegisterSignal(t) \/
             CheckCancelled(t) \/ BuildContext(t) \/ TurnCancelled(t) \/
             TurnReturns(t) \/ PersistHotLimit(t) \/ Activate(t) \/
             FinalRead(t) \/ Hook(t) \/ CancelRead(t) \/ CancelSignal(t)
      PROVE  UNCHANGED <<row>>
  BY <1>16 DEF DelegateResolve, DelegateReadGate, DispatchRecheck, Finish,
     AcquireGate, RegisterSignal, CheckCancelled, ReturnFromExecute,
     BuildContext, TurnCancelled, TurnReturns, PersistHotLimit, Activate,
     Cool, FinalRead, Hook, CancelRead, CancelSignal
<1>17. ASSUME NEW s \in Subagents, NEW op \in RequestedOps,
             ControlRequest(s, op)
      PROVE  UNCHANGED <<row>>
  BY <1>17 DEF ControlRequest
<1>18. ASSUME NEW s \in Subagents, ControlTimeout(s) \/ HibernateCommit(s) \/
             HibernateClosed(s) \/ HibernateCloseFails(s) \/ SoftDelete(s) \/
             Evict(s)
      PROVE  UNCHANGED <<row>>
  BY <1>18 DEF ControlTimeout, HibernateCommit, Cool, HibernateClosed,
     HibernateDone, HibernateCloseFails, CommitHotBinding, SoftDelete, Evict
<1>19. ASSUME SidecarShutdown \/ ServiceRestart
      PROVE  UNCHANGED <<row>>
  BY <1>19 DEF SidecarShutdown, Cool, HotSubagents, ServiceRestart
<1>20. ASSUME NEW p \in BOOLEAN, SetPaused(p)
      PROVE  UNCHANGED <<row>>
  BY <1>20 DEF SetPaused
<1>21. CASE UNCHANGED vars
  BY <1>21 DEF vars
<1> QED
  BY <1>1, <1>2, <1>3, <1>4, <1>5, <1>6, <1>7, <1>8, <1>9, <1>10, <1>11,
     <1>12, <1>13, <1>14, <1>15, <1>16, <1>17, <1>18, <1>19, <1>20, <1>21
     DEF Next, Delegate, Dispatch, Execute, Persist, Cancel, ControlStep, Reported

\* A cancelled task stays cancelled, whatever is still being executed for it.
THEOREM CancelledForGood == Spec => CancelledIsFinal
<1>1. TypeOK /\ ExecInv /\ [Next]_vars => [CancelledStays]_vars
  BY CancelledStep
<1>2. Spec => [][CancelledStays]_vars
  BY <1>1, GateCorrect, PTL DEF Spec
<1> QED
  BY <1>2 DEF CancelledIsFinal, CancelledStays

\* Only the dispatcher starts a queued row, and it picks the oldest.
LEMMA FifoStep ==
    TypeOK /\ ExecInv /\ [Next]_vars => OldestStarts
<1> SUFFICES ASSUME TypeOK, ExecInv, [Next]_vars PROVE OldestStarts
  OBVIOUS
<1> USE OwnerAssumption DEF TypeOK, ExecInv, OldestStarts, HasRunningTask,
        TasksOf, RowStates, Terminal, Holding, PCs, rowVars, subVars,
        execVars, HasRow
<1>1. ASSUME NEW t \in Tasks, DelegateInsert(t)
      PROVE  OldestStarts
  BY <1>1 DEF DelegateInsert
<1>2. ASSUME NEW t \in Tasks, DispatchPick(t)
      PROVE  OldestStarts
  BY <1>2 DEF DispatchPick, Eligible
<1>3. ASSUME NEW t \in Tasks, DispatchResolve(t)
      PROVE  OldestStarts
  BY <1>3 DEF DispatchResolve, SetStatusIfNotCancelled, Finish
<1>4. ASSUME NEW t \in Tasks, PersistError(t)
      PROVE  OldestStarts
  BY <1>4 DEF PersistError, SetStatusIfNotCancelled, ReturnFromExecute
<1>5. ASSUME NEW t \in Tasks, BindingCommitFails(t)
      PROVE  OldestStarts
  BY <1>5 DEF BindingCommitFails, SetStatusIfNotCancelled, ReturnFromExecute
<1>6. ASSUME NEW t \in Tasks, NEW r \in Reported, PersistOutput(t, ParsedStatus(r))
      PROVE  OldestStarts
  BY <1>6 DEF PersistOutput, SetStatusIfNotCancelled, CommitHotBinding,
     ParsedStatus
<1>7. ASSUME NEW t \in Tasks, NEW r \in Reported, PersistFails(t, ParsedStatus(r))
      PROVE  OldestStarts
  BY <1>7 DEF PersistFails, SetStatusIfNotCancelled, ReturnFromExecute,
     ParsedStatus
<1>8. ASSUME NEW t \in Tasks, PostFail(t)
      PROVE  OldestStarts
  BY <1>8 DEF PostFail, SetStatusIfNotCancelled, Finish
<1>9. ASSUME NEW t \in Tasks, Requeue(t)
      PROVE  OldestStarts
  BY <1>9 DEF Requeue, SetStatusIfNotCancelled, SetQueueReason, Finish
<1>10. ASSUME NEW t \in Tasks, GiveUp(t)
      PROVE  OldestStarts
  BY <1>10 DEF GiveUp, SetStatusIfNotCancelled, Finish
<1>11. ASSUME NEW t \in Tasks, CancelFlip(t)
      PROVE  OldestStarts
  BY <1>11 DEF CancelFlip
<1>12. ASSUME NEW s \in Subagents, HardDelete(s)
      PROVE  OldestStarts
  BY <1>12 DEF HardDelete
<1>13. ASSUME NEW S \in SUBSET Tasks, Reap(S)
      PROVE  OldestStarts
  BY <1>13 DEF Reap, FailRows
<1>14. CASE SidecarCrash
  BY <1>14 DEF SidecarCrash, FailRows, Cool, HotSubagents
<1>15. CASE UNCHANGED <<row>>
  BY <1>15
<1>16. ASSUME NEW t \in Tasks, DelegateResolve(t) \/ DelegateReadGate(t) \/
             DispatchRecheck(t) \/ AcquireGate(t) \/ RegisterSignal(t) \/
             CheckCancelled(t) \/ BuildContext(t) \/ TurnCancelled(t) \/
             TurnReturns(t) \/ PersistHotLimit(t) \/ Activate(t) \/
             FinalRead(t) \/ Hook(t) \/ CancelRead(t) \/ CancelSignal(t)
      PROVE  UNCHANGED <<row>>
  BY <1>16 DEF DelegateResolve, DelegateReadGate, DispatchRecheck, Finish,
     AcquireGate, RegisterSignal, CheckCancelled, ReturnFromExecute,
     BuildContext, TurnCancelled, TurnReturns, PersistHotLimit, Activate,
     Cool, FinalRead, Hook, CancelRead, CancelSignal
<1>17. ASSUME NEW s \in Subagents, NEW op \in RequestedOps,
             ControlRequest(s, op)
      PROVE  UNCHANGED <<row>>
  BY <1>17 DEF ControlRequest
<1>18. ASSUME NEW s \in Subagents, ControlTimeout(s) \/ HibernateCommit(s) \/
             HibernateClosed(s) \/ HibernateCloseFails(s) \/ SoftDelete(s) \/
             Evict(s)
      PROVE  UNCHANGED <<row>>
  BY <1>18 DEF ControlTimeout, HibernateCommit, Cool, HibernateClosed,
     HibernateDone, HibernateCloseFails, CommitHotBinding, SoftDelete, Evict
<1>19. ASSUME SidecarShutdown \/ ServiceRestart
      PROVE  UNCHANGED <<row>>
  BY <1>19 DEF SidecarShutdown, Cool, HotSubagents, ServiceRestart
<1>20. ASSUME NEW p \in BOOLEAN, SetPaused(p)
      PROVE  UNCHANGED <<row>>
  BY <1>20 DEF SetPaused
<1>21. CASE UNCHANGED vars
  BY <1>21 DEF vars
<1> QED
  BY <1>1, <1>2, <1>3, <1>4, <1>5, <1>6, <1>7, <1>8, <1>9, <1>10, <1>11,
     <1>12, <1>13, <1>14, <1>15, <1>16, <1>17, <1>18, <1>19, <1>20, <1>21
     DEF Next, Delegate, Dispatch, Execute, Persist, Cancel, ControlStep, Reported

\* The dispatcher starts the queued tasks of a subagent in creation order.
THEOREM DispatcherFifo == Spec => DispatcherIsFifo
<1>1. TypeOK /\ ExecInv /\ [Next]_vars => [OldestStarts]_vars
  BY FifoStep
<1>2. Spec => [][OldestStarts]_vars
  BY <1>1, GateCorrect, PTL DEF Spec
<1> QED
  BY <1>2 DEF DispatcherIsFifo, OldestStarts

-----------------------------------------------------------------------------
\* A row starts running only where no other row of its subagent runs.
LEMMA RunStep ==
    TypeOK /\ AtMostOneRunning /\ [Next]_vars => AtMostOneRunning'
<1> SUFFICES ASSUME TypeOK, AtMostOneRunning, [Next]_vars PROVE AtMostOneRunning'
  OBVIOUS
<1> USE OwnerAssumption DEF TypeOK, AtMostOneRunning, TasksOf, HasRunningTask,
        Exists, RowStates, Terminal, Holding, PCs, rowVars, subVars, execVars,
        HasRow
<1>1. ASSUME NEW t \in Tasks, DelegateInsert(t)
      PROVE  AtMostOneRunning'
  BY <1>1 DEF DelegateInsert
<1>2. ASSUME NEW t \in Tasks, DispatchPick(t)
      PROVE  AtMostOneRunning'
  BY <1>2 DEF DispatchPick, Eligible
<1>3. ASSUME NEW t \in Tasks, DispatchResolve(t)
      PROVE  AtMostOneRunning'
  BY <1>3 DEF DispatchResolve, SetStatusIfNotCancelled, Finish
<1>4. ASSUME NEW t \in Tasks, PersistError(t)
      PROVE  AtMostOneRunning'
  BY <1>4 DEF PersistError, SetStatusIfNotCancelled, ReturnFromExecute
<1>5. ASSUME NEW t \in Tasks, BindingCommitFails(t)
      PROVE  AtMostOneRunning'
  BY <1>5 DEF BindingCommitFails, SetStatusIfNotCancelled, ReturnFromExecute
<1>6. ASSUME NEW t \in Tasks, NEW r \in Reported, PersistOutput(t, ParsedStatus(r))
      PROVE  AtMostOneRunning'
  BY <1>6 DEF PersistOutput, SetStatusIfNotCancelled, CommitHotBinding,
     ParsedStatus
<1>7. ASSUME NEW t \in Tasks, NEW r \in Reported, PersistFails(t, ParsedStatus(r))
      PROVE  AtMostOneRunning'
  BY <1>7 DEF PersistFails, SetStatusIfNotCancelled, ReturnFromExecute,
     ParsedStatus
<1>8. ASSUME NEW t \in Tasks, PostFail(t)
      PROVE  AtMostOneRunning'
  BY <1>8 DEF PostFail, SetStatusIfNotCancelled, Finish
<1>9. ASSUME NEW t \in Tasks, Requeue(t)
      PROVE  AtMostOneRunning'
  BY <1>9 DEF Requeue, SetStatusIfNotCancelled, SetQueueReason, Finish
<1>10. ASSUME NEW t \in Tasks, GiveUp(t)
      PROVE  AtMostOneRunning'
  BY <1>10 DEF GiveUp, SetStatusIfNotCancelled, Finish
<1>11. ASSUME NEW t \in Tasks, CancelFlip(t)
      PROVE  AtMostOneRunning'
  BY <1>11 DEF CancelFlip
<1>12. ASSUME NEW s \in Subagents, HardDelete(s)
      PROVE  AtMostOneRunning'
  BY <1>12 DEF HardDelete
<1>13. ASSUME NEW S \in SUBSET Tasks, Reap(S)
      PROVE  AtMostOneRunning'
  BY <1>13 DEF Reap, FailRows
<1>14. CASE SidecarCrash
  BY <1>14 DEF SidecarCrash, FailRows, Cool, HotSubagents
<1>15. CASE UNCHANGED <<row>>
  BY <1>15
<1>16. ASSUME NEW t \in Tasks, DelegateResolve(t) \/ DelegateReadGate(t) \/
             DispatchRecheck(t) \/ AcquireGate(t) \/ RegisterSignal(t) \/
             CheckCancelled(t) \/ BuildContext(t) \/ TurnCancelled(t) \/
             TurnReturns(t) \/ PersistHotLimit(t) \/ Activate(t) \/
             FinalRead(t) \/ Hook(t) \/ CancelRead(t) \/ CancelSignal(t)
      PROVE  UNCHANGED <<row>>
  BY <1>16 DEF DelegateResolve, DelegateReadGate, DispatchRecheck, Finish,
     AcquireGate, RegisterSignal, CheckCancelled, ReturnFromExecute,
     BuildContext, TurnCancelled, TurnReturns, PersistHotLimit, Activate,
     Cool, FinalRead, Hook, CancelRead, CancelSignal
<1>17. ASSUME NEW s \in Subagents, NEW op \in RequestedOps,
             ControlRequest(s, op)
      PROVE  UNCHANGED <<row>>
  BY <1>17 DEF ControlRequest
<1>18. ASSUME NEW s \in Subagents, ControlTimeout(s) \/ HibernateCommit(s) \/
             HibernateClosed(s) \/ HibernateCloseFails(s) \/ SoftDelete(s) \/
             Evict(s)
      PROVE  UNCHANGED <<row>>
  BY <1>18 DEF ControlTimeout, HibernateCommit, Cool, HibernateClosed,
     HibernateDone, HibernateCloseFails, CommitHotBinding, SoftDelete, Evict
<1>19. ASSUME SidecarShutdown \/ ServiceRestart
      PROVE  UNCHANGED <<row>>
  BY <1>19 DEF SidecarShutdown, Cool, HotSubagents, ServiceRestart
<1>20. ASSUME NEW p \in BOOLEAN, SetPaused(p)
      PROVE  UNCHANGED <<row>>
  BY <1>20 DEF SetPaused
<1>21. CASE UNCHANGED vars
  BY <1>21 DEF vars
<1> QED
  BY <1>1, <1>2, <1>3, <1>4, <1>5, <1>6, <1>7, <1>8, <1>9, <1>10, <1>11,
     <1>12, <1>13, <1>14, <1>15, <1>16, <1>17, <1>18, <1>19, <1>20, <1>21
     DEF Next, Delegate, Dispatch, Execute, Persist, Cancel, ControlStep, Reported

\* At most one row of a subagent is running.
THEOREM OneRunning == Spec => []AtMostOneRunning
<1>1. Init => AtMostOneRunning
  BY DEF Init, AtMostOneRunning
<1> QED
  BY <1>1, TypeCorrect, RunStep, PTL DEF Spec

\* started_at_ms and queue_reason follow the status.
LEMMA QueueStep ==
    TypeOK /\ ExecInv /\ QueuedNotStarted /\ [Next]_vars => QueuedNotStarted'
<1> SUFFICES ASSUME TypeOK, ExecInv, QueuedNotStarted, [Next]_vars PROVE QueuedNotStarted'
  OBVIOUS
<1> USE OwnerAssumption DEF TypeOK, ExecInv, QueuedNotStarted, Reasons,
        RowStates, Terminal, Holding, PCs, rowVars, subVars, execVars, HasRow
<1>1. ASSUME NEW t \in Tasks, DelegateInsert(t)
      PROVE  QueuedNotStarted'
  <2>1. CASE ~Exists(Owner[t])
    BY <1>1, <2>1 DEF DelegateInsert
  <2>2. CASE Exists(Owner[t])
    <3> DEFINE queue == del[t] = "queue" \/ HasRunningTask(Owner[t])
    <3>1. /\ row' = [row EXCEPT ![t] = IF queue THEN "queued" ELSE "running"]
          /\ started' = [started EXCEPT ![t] = ~queue]
          /\ reason' = [reason EXCEPT ![t] =
                IF del[t] = "queue" THEN "pressure_gate_paused"
                ELSE IF queue THEN "subagent_busy" ELSE "none"]
          /\ pc' = [pc EXCEPT ![t] = IF queue THEN "none" ELSE "gate"]
      BY <1>1, <2>2 DEF DelegateInsert
    <3>2. del[t] = "queue" => queue
      OBVIOUS
    <3> HIDE DEF queue
    <3>3. CASE queue
      BY ZenonT(30), <3>1, <3>3
    <3>4. CASE ~queue
      BY ZenonT(30), <3>1, <3>2, <3>4
    <3> QED
      BY <3>3, <3>4
  <2> QED
    BY <2>1, <2>2
<1>2. ASSUME NEW t \in Tasks, DispatchPick(t)
      PROVE  QueuedNotStarted'
  BY <1>2 DEF DispatchPick, Eligible
<1>3. ASSUME NEW t \in Tasks, DispatchResolve(t)
      PROVE  QueuedNotStarted'
  BY <1>3 DEF DispatchResolve, SetStatusIfNotCancelled, Finish
<1>4. ASSUME NEW t \in Tasks, DispatchRecheck(t)
      PROVE  QueuedNotStarted'
  BY <1>4 DEF DispatchRecheck, Finish
<1>5. ASSUME NEW t \in Tasks, AcquireGate(t)
      PROVE  QueuedNotStarted'
  BY <1>5 DEF AcquireGate
<1>6. ASSUME NEW t \in Tasks, RegisterSignal(t)
      PROVE  QueuedNotStarted'
  BY <1>6 DEF RegisterSignal
<1>7. ASSUME NEW t \in Tasks, CheckCancelled(t)
      PROVE  QueuedNotStarted'
  BY <1>7 DEF CheckCancelled, ReturnFromExecute
<1>8. ASSUME NEW t \in Tasks, BuildContext(t)
      PROVE  QueuedNotStarted'
  BY <1>8 DEF BuildContext, ReturnFromExecute
<1>9. ASSUME NEW t \in Tasks, TurnCancelled(t)
      PROVE  QueuedNotStarted'
  BY <1>9 DEF TurnCancelled, ReturnFromExecute
<1>10. ASSUME NEW t \in Tasks, TurnReturns(t)
      PROVE  QueuedNotStarted'
  BY <1>10 DEF TurnReturns
<1>11. ASSUME NEW t \in Tasks, PersistError(t)
      PROVE  QueuedNotStarted'
  BY <1>11 DEF PersistError, SetStatusIfNotCancelled, ReturnFromExecute
<1>12. ASSUME NEW t \in Tasks, PersistHotLimit(t)
      PROVE  QueuedNotStarted'
  BY <1>12 DEF PersistHotLimit, ReturnFromExecute
<1>13. ASSUME NEW t \in Tasks, BindingCommitFails(t)
      PROVE  QueuedNotStarted'
  BY <1>13 DEF BindingCommitFails, SetStatusIfNotCancelled, ReturnFromExecute
<1>14. ASSUME NEW t \in Tasks, NEW r \in Reported, PersistOutput(t, ParsedStatus(r))
      PROVE  QueuedNotStarted'
  BY <1>14 DEF PersistOutput, SetStatusIfNotCancelled, CommitHotBinding,
     ParsedStatus
<1>15. ASSUME NEW t \in Tasks, NEW r \in Reported, PersistFails(t, ParsedStatus(r))
      PROVE  QueuedNotStarted'
  BY <1>15 DEF PersistFails, SetStatusIfNotCancelled, ReturnFromExecute,
     ParsedStatus
<1>16. ASSUME NEW t \in Tasks, Activate(t)
      PROVE  QueuedNotStarted'
  BY <1>16 DEF Activate, Cool
<1>17. ASSUME NEW t \in Tasks, FinalRead(t)
      PROVE  QueuedNotStarted'
  BY <1>17 DEF FinalRead, ReturnFromExecute
<1>18. ASSUME NEW t \in Tasks, Hook(t)
      PROVE  QueuedNotStarted'
  BY <1>18 DEF Hook, Finish
<1>19. ASSUME NEW t \in Tasks, PostFail(t)
      PROVE  QueuedNotStarted'
  BY <1>19 DEF PostFail, SetStatusIfNotCancelled, Finish
<1>20. ASSUME NEW t \in Tasks, Requeue(t)
      PROVE  QueuedNotStarted'
  <2>1. pc' = [pc EXCEPT ![t] = "none"]
    BY <1>20 DEF Requeue, Finish
  <2>2. CASE HasRow(t) /\ row[t] # "cancelled"
    <3>1. /\ row' = [row EXCEPT ![t] = "queued"]
          /\ started' = [started EXCEPT ![t] = FALSE]
          /\ reason' = [reason EXCEPT ![t] = "hot_session_limit"]
      BY <1>20, <2>2 DEF Requeue, SetStatusIfNotCancelled, SetQueueReason
    <3> QED
      BY <2>1, <3>1
  <2>3. CASE ~(HasRow(t) /\ row[t] # "cancelled")
    <3>1. UNCHANGED <<row, started>>
      BY <1>20, <2>3 DEF Requeue, SetStatusIfNotCancelled
    <3>2. \A u \in Tasks : u # t => reason'[u] = reason[u] /\ pc'[u] = pc[u]
      BY <1>20, <2>1 DEF Requeue, SetQueueReason
    <3>3. row[t] \notin {"queued", "running"}
      BY <2>3
    <3> QED
      BY <3>1, <3>2, <3>3
  <2> QED
    BY <2>2, <2>3
<1>21. ASSUME NEW t \in Tasks, GiveUp(t)
      PROVE  QueuedNotStarted'
  BY <1>21 DEF GiveUp, SetStatusIfNotCancelled, Finish
<1>22. ASSUME NEW t \in Tasks, CancelFlip(t)
      PROVE  QueuedNotStarted'
  BY <1>22 DEF CancelFlip
<1>23. ASSUME NEW s \in Subagents, HardDelete(s)
      PROVE  QueuedNotStarted'
  BY <1>23 DEF HardDelete
<1>24. ASSUME NEW S \in SUBSET Tasks, Reap(S)
      PROVE  QueuedNotStarted'
  BY <1>24 DEF Reap, FailRows
<1>25. CASE SidecarCrash
  BY <1>25 DEF SidecarCrash, FailRows, Cool, HotSubagents
<1>26. CASE ServiceRestart
  BY <1>26 DEF ServiceRestart
<1>27. CASE UNCHANGED <<row, started, reason, pc>>
  BY <1>27
<1>28. ASSUME NEW t \in Tasks, DelegateResolve(t) \/ DelegateReadGate(t) \/
             CancelRead(t) \/ CancelSignal(t)
      PROVE  UNCHANGED <<row, started, reason, pc>>
  BY <1>28 DEF DelegateResolve, DelegateReadGate, CancelRead, CancelSignal
<1>29. ASSUME NEW s \in Subagents, NEW op \in RequestedOps,
             ControlRequest(s, op)
      PROVE  UNCHANGED <<row, started, reason, pc>>
  BY <1>29 DEF ControlRequest
<1>30. ASSUME NEW s \in Subagents, ControlTimeout(s) \/ HibernateCommit(s) \/
             HibernateClosed(s) \/ HibernateCloseFails(s) \/ SoftDelete(s) \/
             Evict(s)
      PROVE  UNCHANGED <<row, started, reason, pc>>
  BY <1>30 DEF ControlTimeout, HibernateCommit, Cool, HibernateClosed,
     HibernateDone, HibernateCloseFails, CommitHotBinding, SoftDelete, Evict
<1>31. ASSUME SidecarShutdown
      PROVE  UNCHANGED <<row, started, reason, pc>>
  BY <1>31 DEF SidecarShutdown, Cool, HotSubagents
<1>32. ASSUME NEW p \in BOOLEAN, SetPaused(p)
      PROVE  UNCHANGED <<row, started, reason, pc>>
  BY <1>32 DEF SetPaused
<1>33. CASE UNCHANGED vars
  BY <1>33 DEF vars
<1> QED
  BY <1>1, <1>2, <1>3, <1>4, <1>5, <1>6, <1>7, <1>8, <1>9, <1>10, <1>11,
     <1>12, <1>13, <1>14, <1>15, <1>16, <1>17, <1>18, <1>19, <1>20, <1>21,
     <1>22, <1>23, <1>24, <1>25, <1>26, <1>27, <1>28, <1>29, <1>30, <1>31,
     <1>32, <1>33
     DEF Next, Delegate, Dispatch, Execute, Persist, Cancel, ControlStep, Reported

\* What pollers read of a queued or running task is consistent.
THEOREM PollersSeeConsistentRows == Spec => []QueuedNotStarted
<1>1. Init => QueuedNotStarted
  BY ZenonT(30) DEF Init, QueuedNotStarted
<1> QED
  BY <1>1, GateCorrect, QueueStep, PTL DEF Spec

-----------------------------------------------------------------------------
\* The signal lives as long as execute_task.
LEMMA SignalStep ==
    TypeOK /\ ExecInv /\ SignalInv /\ [Next]_vars => SignalInv'
<1> SUFFICES ASSUME TypeOK, ExecInv, SignalInv, [Next]_vars PROVE SignalInv'
  OBVIOUS
<1> USE OwnerAssumption DEF TypeOK, ExecInv, SignalInv, RowStates, Terminal,
        Holding, PCs, rowVars, subVars, execVars, HasRow
<1>1. ASSUME NEW t \in Tasks, DelegateInsert(t)
      PROVE  SignalInv'
  BY <1>1 DEF DelegateInsert
<1>2. ASSUME NEW t \in Tasks, DispatchPick(t)
      PROVE  SignalInv'
  BY <1>2 DEF DispatchPick, Eligible
<1>3. ASSUME NEW t \in Tasks, DispatchResolve(t)
      PROVE  SignalInv'
  BY <1>3 DEF DispatchResolve, SetStatusIfNotCancelled, Finish
<1>4. ASSUME NEW t \in Tasks, DispatchRecheck(t)
      PROVE  SignalInv'
  BY <1>4 DEF DispatchRecheck, Finish
<1>5. ASSUME NEW t \in Tasks, AcquireGate(t)
      PROVE  SignalInv'
  BY <1>5 DEF AcquireGate
<1>6. ASSUME NEW t \in Tasks, RegisterSignal(t)
      PROVE  SignalInv'
  BY <1>6 DEF RegisterSignal
<1>7. ASSUME NEW t \in Tasks, CheckCancelled(t)
      PROVE  SignalInv'
  BY <1>7 DEF CheckCancelled, ReturnFromExecute
<1>8. ASSUME NEW t \in Tasks, BuildContext(t)
      PROVE  SignalInv'
  BY <1>8 DEF BuildContext, ReturnFromExecute
<1>9. ASSUME NEW t \in Tasks, TurnCancelled(t)
      PROVE  SignalInv'
  BY <1>9 DEF TurnCancelled, ReturnFromExecute
<1>10. ASSUME NEW t \in Tasks, TurnReturns(t)
      PROVE  SignalInv'
  BY <1>10 DEF TurnReturns
<1>11. ASSUME NEW t \in Tasks, PersistError(t)
      PROVE  SignalInv'
  BY <1>11 DEF PersistError, SetStatusIfNotCancelled, ReturnFromExecute
<1>12. ASSUME NEW t \in Tasks, PersistHotLimit(t)
      PROVE  SignalInv'
  BY <1>12 DEF PersistHotLimit, ReturnFromExecute
<1>13. ASSUME NEW t \in Tasks, BindingCommitFails(t)
      PROVE  SignalInv'
  BY <1>13 DEF BindingCommitFails, SetStatusIfNotCancelled, ReturnFromExecute
<1>14. ASSUME NEW t \in Tasks, NEW r \in Reported, PersistOutput(t, ParsedStatus(r))
      PROVE  SignalInv'
  BY <1>14 DEF PersistOutput, SetStatusIfNotCancelled, CommitHotBinding,
     ParsedStatus
<1>15. ASSUME NEW t \in Tasks, NEW r \in Reported, PersistFails(t, ParsedStatus(r))
      PROVE  SignalInv'
  BY <1>15 DEF PersistFails, SetStatusIfNotCancelled, ReturnFromExecute,
     ParsedStatus
<1>16. ASSUME NEW t \in Tasks, Activate(t)
      PROVE  SignalInv'
  BY <1>16 DEF Activate, Cool
<1>17. ASSUME NEW t \in Tasks, FinalRead(t)
      PROVE  SignalInv'
  BY <1>17 DEF FinalRead, ReturnFromExecute
<1>18. ASSUME NEW t \in Tasks, Hook(t)
      PROVE  SignalInv'
  BY <1>18 DEF Hook, Finish
<1>19. ASSUME NEW t \in Tasks, PostFail(t)
      PROVE  SignalInv'
  BY <1>19 DEF PostFail, SetStatusIfNotCancelled, Finish
<1>20. ASSUME NEW t \in Tasks, Requeue(t)
      PROVE  SignalInv'
  BY <1>20 DEF Requeue, SetStatusIfNotCancelled, SetQueueReason, Finish
<1>21. ASSUME NEW t \in Tasks, GiveUp(t)
      PROVE  SignalInv'
  BY <1>21 DEF GiveUp, SetStatusIfNotCancelled, Finish
<1>22. ASSUME NEW t \in Tasks, CancelRead(t)
      PROVE  SignalInv'
  BY <1>22 DEF CancelRead
<1>23. ASSUME NEW t \in Tasks, CancelFlip(t)
      PROVE  SignalInv'
  BY <1>23 DEF CancelFlip
<1>24. ASSUME NEW t \in Tasks, CancelSignal(t)
      PROVE  SignalInv'
  BY <1>24 DEF CancelSignal
<1>25. ASSUME NEW s \in Subagents, HardDelete(s)
      PROVE  SignalInv'
  BY <1>25 DEF HardDelete
<1>26. ASSUME NEW S \in SUBSET Tasks, Reap(S)
      PROVE  SignalInv'
  BY <1>26 DEF Reap, FailRows
<1>27. CASE SidecarCrash
  BY <1>27 DEF SidecarCrash, FailRows, Cool, HotSubagents
<1>28. CASE ServiceRestart
  BY <1>28 DEF ServiceRestart
<1>29. CASE UNCHANGED <<row, pc, sig, cpc>>
  BY <1>29
<1>30. ASSUME NEW t \in Tasks, DelegateResolve(t) \/ DelegateReadGate(t)
      PROVE  UNCHANGED <<row, pc, sig, cpc>>
  BY <1>30 DEF DelegateResolve, DelegateReadGate
<1>31. ASSUME NEW s \in Subagents, NEW op \in RequestedOps,
             ControlRequest(s, op)
      PROVE  UNCHANGED <<row, pc, sig, cpc>>
  BY <1>31 DEF ControlRequest
<1>32. ASSUME NEW s \in Subagents, ControlTimeout(s) \/ HibernateCommit(s) \/
             HibernateClosed(s) \/ HibernateCloseFails(s) \/ SoftDelete(s) \/
             Evict(s)
      PROVE  UNCHANGED <<row, pc, sig, cpc>>
  BY <1>32 DEF ControlTimeout, HibernateCommit, Cool, HibernateClosed,
     HibernateDone, HibernateCloseFails, CommitHotBinding, SoftDelete, Evict
<1>33. ASSUME SidecarShutdown
      PROVE  UNCHANGED <<row, pc, sig, cpc>>
  BY <1>33 DEF SidecarShutdown, Cool, HotSubagents
<1>34. ASSUME NEW p \in BOOLEAN, SetPaused(p)
      PROVE  UNCHANGED <<row, pc, sig, cpc>>
  BY <1>34 DEF SetPaused
<1>35. CASE UNCHANGED vars
  BY <1>35 DEF vars
<1> QED
  BY <1>1, <1>2, <1>3, <1>4, <1>5, <1>6, <1>7, <1>8, <1>9, <1>10, <1>11,
     <1>12, <1>13, <1>14, <1>15, <1>16, <1>17, <1>18, <1>19, <1>20, <1>21,
     <1>22, <1>23, <1>24, <1>25, <1>26, <1>27, <1>28, <1>29, <1>30, <1>31,
     <1>32, <1>33, <1>34, <1>35
     DEF Next, Delegate, Dispatch, Execute, Persist, Cancel, ControlStep, Reported

\* Between the pre-execute check and the end of the turn a cancel either has
\* sent its signal or is about to.
LEMMA CancelStep ==
    TypeOK /\ ExecInv /\ SignalInv /\ CancelNotLost /\ [Next]_vars => CancelNotLost'
<1> SUFFICES ASSUME TypeOK, ExecInv, SignalInv, CancelNotLost, [Next]_vars PROVE CancelNotLost'
  OBVIOUS
<1> USE OwnerAssumption DEF TypeOK, ExecInv, SignalInv, CancelNotLost,
        RowStates, Terminal, Holding, PCs, rowVars, subVars, execVars, HasRow
<1>1. ASSUME NEW t \in Tasks, DelegateInsert(t)
      PROVE  CancelNotLost'
  BY <1>1 DEF DelegateInsert
<1>2. ASSUME NEW t \in Tasks, DispatchPick(t)
      PROVE  CancelNotLost'
  BY <1>2 DEF DispatchPick, Eligible
<1>3. ASSUME NEW t \in Tasks, DispatchResolve(t)
      PROVE  CancelNotLost'
  BY <1>3 DEF DispatchResolve, SetStatusIfNotCancelled, Finish
<1>4. ASSUME NEW t \in Tasks, DispatchRecheck(t)
      PROVE  CancelNotLost'
  BY <1>4 DEF DispatchRecheck, Finish
<1>5. ASSUME NEW t \in Tasks, AcquireGate(t)
      PROVE  CancelNotLost'
  BY <1>5 DEF AcquireGate
<1>6. ASSUME NEW t \in Tasks, RegisterSignal(t)
      PROVE  CancelNotLost'
  BY <1>6 DEF RegisterSignal
<1>7. ASSUME NEW t \in Tasks, CheckCancelled(t)
      PROVE  CancelNotLost'
  BY <1>7 DEF CheckCancelled, ReturnFromExecute
<1>8. ASSUME NEW t \in Tasks, BuildContext(t)
      PROVE  CancelNotLost'
  BY <1>8 DEF BuildContext, ReturnFromExecute
<1>9. ASSUME NEW t \in Tasks, TurnCancelled(t)
      PROVE  CancelNotLost'
  BY <1>9 DEF TurnCancelled, ReturnFromExecute
<1>10. ASSUME NEW t \in Tasks, TurnReturns(t)
      PROVE  CancelNotLost'
  BY <1>10 DEF TurnReturns
<1>11. ASSUME NEW t \in Tasks, PersistError(t)
      PROVE  CancelNotLost'
  BY <1>11 DEF PersistError, SetStatusIfNotCancelled, ReturnFromExecute
<1>12. ASSUME NEW t \in Tasks, PersistHotLimit(t)
      PROVE  CancelNotLost'
  BY <1>12 DEF PersistHotLimit, ReturnFromExecute
<1>13. ASSUME NEW t \in Tasks, BindingCommitFails(t)
      PROVE  CancelNotLost'
  BY <1>13 DEF BindingCommitFails, SetStatusIfNotCancelled, ReturnFromExecute
<1>14. ASSUME NEW t \in Tasks, NEW r \in Reported, PersistOutput(t, ParsedStatus(r))
      PROVE  CancelNotLost'
  BY <1>14 DEF PersistOutput, SetStatusIfNotCancelled, CommitHotBinding,
     ParsedStatus
<1>15. ASSUME NEW t \in Tasks, NEW r \in Reported, PersistFails(t, ParsedStatus(r))
      PROVE  CancelNotLost'
  BY <1>15 DEF PersistFails, SetStatusIfNotCancelled, ReturnFromExecute,
     ParsedStatus
<1>16. ASSUME NEW t \in Tasks, Activate(t)
      PROVE  CancelNotLost'
  BY <1>16 DEF Activate, Cool
<1>17. ASSUME NEW t \in Tasks, FinalRead(t)
      PROVE  CancelNotLost'
  BY <1>17 DEF FinalRead, ReturnFromExecute
<1>18. ASSUME NEW t \in Tasks, Hook(t)
      PROVE  CancelNotLost'
  BY <1>18 DEF Hook, Finish
<1>19. ASSUME NEW t \in Tasks, PostFail(t)
      PROVE  CancelNotLost'
  BY <1>19 DEF PostFail, SetStatusIfNotCancelled, Finish
<1>20. ASSUME NEW t \in Tasks, Requeue(t)
      PROVE  CancelNotLost'
  BY <1>20 DEF Requeue, SetStatusIfNotCancelled, SetQueueReason, Finish
<1>21. ASSUME NEW t \in Tasks, GiveUp(t)
      PROVE  CancelNotLost'
  BY <1>21 DEF GiveUp, SetStatusIfNotCancelled, Finish
<1>22. ASSUME NEW t \in Tasks, CancelRead(t)
      PROVE  CancelNotLost'
  BY <1>22 DEF CancelRead
<1>23. ASSUME NEW t \in Tasks, CancelFlip(t)
      PROVE  CancelNotLost'
  BY <1>23 DEF CancelFlip
<1>24. ASSUME NEW t \in Tasks, CancelSignal(t)
      PROVE  CancelNotLost'
  BY <1>24 DEF CancelSignal
<1>25. ASSUME NEW s \in Subagents, HardDelete(s)
      PROVE  CancelNotLost'
  BY <1>25 DEF HardDelete
<1>26. ASSUME NEW S \in SUBSET Tasks, Reap(S)
      PROVE  CancelNotLost'
  BY <1>26 DEF Reap, FailRows
<1>27. CASE SidecarCrash
  BY <1>27 DEF SidecarCrash, FailRows, Cool, HotSubagents
<1>28. CASE ServiceRestart
  BY <1>28 DEF ServiceRestart
<1>29. CASE UNCHANGED <<row, pc, sig, cpc>>
  BY <1>29
<1>30. ASSUME NEW t \in Tasks, DelegateResolve(t) \/ DelegateReadGate(t)
      PROVE  UNCHANGED <<row, pc, sig, cpc>>
  BY <1>30 DEF DelegateResolve, DelegateReadGate
<1>31. ASSUME NEW s \in Subagents, NEW op \in RequestedOps,
             ControlRequest(s, op)
      PROVE  UNCHANGED <<row, pc, sig, cpc>>
  BY <1>31 DEF ControlRequest
<1>32. ASSUME NEW s \in Subagents, ControlTimeout(s) \/ HibernateCommit(s) \/
             HibernateClosed(s) \/ HibernateCloseFails(s) \/ SoftDelete(s) \/
             Evict(s)
      PROVE  UNCHANGED <<row, pc, sig, cpc>>
  BY <1>32 DEF ControlTimeout, HibernateCommit, Cool, HibernateClosed,
     HibernateDone, HibernateCloseFails, CommitHotBinding, SoftDelete, Evict
<1>33. ASSUME SidecarShutdown
      PROVE  UNCHANGED <<row, pc, sig, cpc>>
  BY <1>33 DEF SidecarShutdown, Cool, HotSubagents
<1>34. ASSUME NEW p \in BOOLEAN, SetPaused(p)
      PROVE  UNCHANGED <<row, pc, sig, cpc>>
  BY <1>34 DEF SetPaused
<1>35. CASE UNCHANGED vars
  BY <1>35 DEF vars
<1> QED
  BY <1>1, <1>2, <1>3, <1>4, <1>5, <1>6, <1>7, <1>8, <1>9, <1>10, <1>11,
     <1>12, <1>13, <1>14, <1>15, <1>16, <1>17, <1>18, <1>19, <1>20, <1>21,
     <1>22, <1>23, <1>24, <1>25, <1>26, <1>27, <1>28, <1>29, <1>30, <1>31,
     <1>32, <1>33, <1>34, <1>35
     DEF Next, Delegate, Dispatch, Execute, Persist, Cancel, ControlStep, Reported

LEMMA SignalCorrect == Spec => []SignalInv
<1>1. Init => SignalInv
  BY DEF Init, SignalInv, Holding
<1> QED
  BY <1>1, GateCorrect, SignalStep, PTL DEF Spec

\* A cancel that arrives after the pre-execute check is never lost.
THEOREM CancelDelivered == Spec => []CancelNotLost
<1>1. Init => CancelNotLost
  BY DEF Init, CancelNotLost
<1> QED
  BY <1>1, GateCorrect, SignalCorrect, CancelStep, PTL DEF Spec

-----------------------------------------------------------------------------
\* The gate keeps hard delete away from executions and from hibernate.
LEMMA SubStep ==
    TypeOK /\ ExecInv /\ GateInv /\ SubInv /\ [Next]_vars => SubInv'
<1> SUFFICES ASSUME TypeOK, ExecInv, GateInv, SubInv, [Next]_vars PROVE SubInv'
  OBVIOUS
<1> USE OwnerAssumption, HolderAssumption, CallersAssumption DEF TypeOK,
        ExecInv, GateInv, SubInv, TurnHasSubagent, Exists, Live, SubStates,
        ControlOps, RowStates, Terminal, Holding, PCs, rowVars, subVars,
        execVars, HasRow
<1>1. ASSUME NEW t \in Tasks, DelegateResolve(t)
      PROVE  SubInv'
  BY <1>1 DEF DelegateResolve
<1>2. ASSUME NEW t \in Tasks, DelegateInsert(t)
      PROVE  SubInv'
  BY <1>2 DEF DelegateInsert
<1>3. ASSUME NEW t \in Tasks, DispatchPick(t)
      PROVE  SubInv'
  BY <1>3 DEF DispatchPick, Eligible
<1>4. ASSUME NEW t \in Tasks, DispatchResolve(t)
      PROVE  SubInv'
  BY <1>4 DEF DispatchResolve, SetStatusIfNotCancelled, Finish
<1>5. ASSUME NEW t \in Tasks, DispatchRecheck(t)
      PROVE  SubInv'
  BY <1>5 DEF DispatchRecheck, Finish
<1>6. ASSUME NEW t \in Tasks, AcquireGate(t)
      PROVE  SubInv'
  BY <1>6 DEF AcquireGate
<1>7. ASSUME NEW t \in Tasks, RegisterSignal(t)
      PROVE  SubInv'
  BY <1>7 DEF RegisterSignal
<1>8. ASSUME NEW t \in Tasks, CheckCancelled(t)
      PROVE  SubInv'
  BY <1>8 DEF CheckCancelled, ReturnFromExecute
<1>9. ASSUME NEW t \in Tasks, BuildContext(t)
      PROVE  SubInv'
  BY <1>9 DEF BuildContext, ReturnFromExecute
<1>10. ASSUME NEW t \in Tasks, TurnCancelled(t)
      PROVE  SubInv'
  BY <1>10 DEF TurnCancelled, ReturnFromExecute
<1>11. ASSUME NEW t \in Tasks, TurnReturns(t)
      PROVE  SubInv'
  BY <1>11 DEF TurnReturns
<1>12. ASSUME NEW t \in Tasks, PersistError(t)
      PROVE  SubInv'
  BY <1>12 DEF PersistError, SetStatusIfNotCancelled, ReturnFromExecute
<1>13. ASSUME NEW t \in Tasks, PersistHotLimit(t)
      PROVE  SubInv'
  BY <1>13 DEF PersistHotLimit, ReturnFromExecute
<1>14. ASSUME NEW t \in Tasks, BindingCommitFails(t)
      PROVE  SubInv'
  BY <1>14 DEF BindingCommitFails, SetStatusIfNotCancelled, ReturnFromExecute
<1>15. ASSUME NEW t \in Tasks, NEW r \in Reported, PersistOutput(t, ParsedStatus(r))
      PROVE  SubInv'
  BY <1>15 DEF PersistOutput, SetStatusIfNotCancelled, CommitHotBinding,
     ParsedStatus
<1>16. ASSUME NEW t \in Tasks, NEW r \in Reported, PersistFails(t, ParsedStatus(r))
      PROVE  SubInv'
  BY <1>16 DEF PersistFails, SetStatusIfNotCancelled, ReturnFromExecute,
     ParsedStatus
<1>17. ASSUME NEW t \in Tasks, Activate(t)
      PROVE  SubInv'
  BY <1>17 DEF Activate, Cool
<1>18. ASSUME NEW t \in Tasks, FinalRead(t)
      PROVE  SubInv'
  BY <1>18 DEF FinalRead, ReturnFromExecute
<1>19. ASSUME NEW t \in Tasks, Hook(t)
      PROVE  SubInv'
  BY <1>19 DEF Hook, Finish
<1>20. ASSUME NEW t \in Tasks, PostFail(t)
      PROVE  SubInv'
  BY <1>20 DEF PostFail, SetStatusIfNotCancelled, Finish
<1>21. ASSUME NEW t \in Tasks, Requeue(t)
      PROVE  SubInv'
  BY <1>21 DEF Requeue, SetStatusIfNotCancelled, SetQueueReason, Finish
<1>22. ASSUME NEW t \in Tasks, GiveUp(t)
      PROVE  SubInv'
  BY <1>22 DEF GiveUp, SetStatusIfNotCancelled, Finish
<1>23. ASSUME NEW t \in Tasks, CancelFlip(t)
      PROVE  SubInv'
  BY <1>23 DEF CancelFlip
<1>24. ASSUME NEW s \in Subagents, NEW op \in RequestedOps, ControlRequest(s, op)
      PROVE  SubInv'
  BY <1>24 DEF ControlRequest
<1>25. ASSUME NEW s \in Subagents, ControlTimeout(s)
      PROVE  SubInv'
  BY <1>25 DEF ControlTimeout
<1>26. ASSUME NEW s \in Subagents, HibernateCommit(s)
      PROVE  SubInv'
  BY <1>26 DEF HibernateCommit, Cool
<1>27. ASSUME NEW s \in Subagents, HibernateClosed(s)
      PROVE  SubInv'
  BY <1>27 DEF HibernateClosed, HibernateDone
<1>28. ASSUME NEW s \in Subagents, HibernateCloseFails(s)
      PROVE  SubInv'
  BY <1>28 DEF HibernateCloseFails, HibernateDone, CommitHotBinding
<1>29. ASSUME NEW s \in Subagents, SoftDelete(s)
      PROVE  SubInv'
  BY <1>29 DEF SoftDelete
<1>30. ASSUME NEW s \in Subagents, HardDelete(s)
      PROVE  SubInv'
  BY <1>30 DEF HardDelete
<1>31. ASSUME NEW s \in Subagents, Evict(s)
      PROVE  SubInv'
  BY <1>31 DEF Evict, Cool
<1>32. ASSUME NEW S \in SUBSET Tasks, Reap(S)
      PROVE  SubInv'
  BY <1>32 DEF Reap, FailRows
<1>33. CASE SidecarCrash
  BY <1>33 DEF SidecarCrash, FailRows, Cool, HotSubagents
<1>34. CASE SidecarShutdown
  BY <1>34 DEF SidecarShutdown, Cool, HotSubagents
<1>35. CASE ServiceRestart
  BY <1>35 DEF ServiceRestart
<1>36. CASE UNCHANGED <<row, sub, pc, ctl>>
  BY <1>36
<1>37. ASSUME NEW t \in Tasks, DelegateReadGate(t) \/ CancelRead(t) \/
             CancelSignal(t)
      PROVE  UNCHANGED <<row, sub, pc, ctl>>
  BY <1>37 DEF DelegateReadGate, CancelRead, CancelSignal
<1>38. ASSUME NEW p \in BOOLEAN, SetPaused(p)
      PROVE  UNCHANGED <<row, sub, pc, ctl>>
  BY <1>38 DEF SetPaused
<1>39. CASE UNCHANGED vars
  BY <1>39 DEF vars
<1> QED
  BY <1>1, <1>2, <1>3, <1>4, <1>5, <1>6, <1>7, <1>8, <1>9, <1>10, <1>11,
     <1>12, <1>13, <1>14, <1>15, <1>16, <1>17, <1>18, <1>19, <1>20, <1>21,
     <1>22, <1>23, <1>24, <1>25, <1>26, <1>27, <1>28, <1>29, <1>30, <1>31,
     <1>32, <1>33, <1>34, <1>35, <1>36, <1>37, <1>38, <1>39
     DEF Next, Delegate, Dispatch, Execute, Persist, Cancel, ControlStep, Reported

LEMMA SubCorrect == Spec => []SubInv
<1>1. Init => SubInv
  BY DEF Init, SubInv, TurnHasSubagent
<1> QED
  BY <1>1, GateCorrect, SubStep, PTL DEF Spec

\* A turn in flight has its logical subagent: hard delete waits for it.
THEOREM TurnsOutliveDelete == Spec => []TurnHasSubagent
  BY SubCorrect, PTL DEF SubInv

\* Cool leaves status and binding consistent and makes nothing hot.
LEMMA CoolHot ==
    ASSUME TypeOK, HotIffBound, NEW S, Cool(S)
    PROVE  HotIffBound' /\ \A s \in Subagents : hot'[s] => hot[s]
<1> USE DEF TypeOK, HotIffBound, SubStates, Exists
<1>1. ASSUME NEW s \in Subagents PROVE hot'[s] => hot[s] /\ s \notin S
  BY <1>1 DEF Cool
<1>2. ASSUME NEW s \in Subagents, s \in S
      PROVE  ~hot'[s] /\ sub'[s] # "hot"
  BY <1>2 DEF Cool
<1>3. ASSUME NEW s \in Subagents, s \notin S
      PROVE  hot'[s] = hot[s] /\ sub'[s] = sub[s]
  BY <1>3 DEF Cool
<1> QED
  BY <1>1, <1>2, <1>3

\* Status and binding are written together, or both stay.
LEMMA HotStep ==
    TypeOK /\ GateInv /\ SubInv /\ HotInv /\ [Next]_vars => HotInv'
<1> SUFFICES ASSUME TypeOK, GateInv, SubInv, HotInv, [Next]_vars PROVE HotInv'
  OBVIOUS
<1> USE OwnerAssumption, HolderAssumption, CallersAssumption DEF TypeOK,
        GateInv, SubInv, HotInv, MockInv, HotIffBound, TurnHasSubagent,
        Exists, Live, SubStates, ControlOps, RowStates, Terminal, Holding,
        PCs, rowVars, subVars, execVars, HasRow
<1>1. ASSUME NEW t \in Tasks, DelegateResolve(t)
      PROVE  HotInv'
  BY <1>1 DEF DelegateResolve
<1>2. ASSUME NEW t \in Tasks, NEW r \in Reported, PersistOutput(t, ParsedStatus(r))
      PROVE  HotInv'
  BY <1>2 DEF PersistOutput, SetStatusIfNotCancelled, CommitHotBinding,
     ParsedStatus
<1>3. ASSUME NEW t \in Tasks, Activate(t)
      PROVE  HotInv'
  <2>1. CASE UNCHANGED subVars
    BY <1>3, <2>1 DEF Activate
  <2>2. CASE Cool({Owner[t]} \cap {s \in Subagents : hot[s]})
    <3>1. UNCHANGED ctl
      BY <1>3 DEF Activate
    <3> QED
      BY <2>2, <3>1, CoolHot
  <2> QED
    BY <1>3, <2>1, <2>2 DEF Activate
<1>4. ASSUME NEW s \in Subagents, NEW op \in RequestedOps, ControlRequest(s, op)
      PROVE  HotInv'
  BY <1>4 DEF ControlRequest
<1>5. ASSUME NEW s \in Subagents, ControlTimeout(s)
      PROVE  HotInv'
  BY <1>5 DEF ControlTimeout
<1>6. ASSUME NEW s \in Subagents, HibernateCommit(s)
      PROVE  HotInv'
  <2>1. CASE Live(s)
    <3>1. HotExecutor \/ ctl' = [ctl EXCEPT ![s] = "none"]
      BY <1>6 DEF HibernateCommit
    <3>2. Cool({s})
      BY <1>6, <2>1 DEF HibernateCommit
    <3>3. HotIffBound'
      BY <3>2, CoolHot
    <3>4. MockInv'
      BY <3>1, <3>2, CoolHot
    <3> QED
      BY <3>3, <3>4
  <2>2. CASE ~Live(s)
    BY <1>6, <2>2 DEF HibernateCommit
  <2> QED
    BY <2>1, <2>2
<1>7. ASSUME NEW s \in Subagents, HibernateClosed(s)
      PROVE  HotInv'
  BY <1>7 DEF HibernateClosed, HibernateDone
<1>8. ASSUME NEW s \in Subagents, HibernateCloseFails(s)
      PROVE  HotInv'
  BY <1>8 DEF HibernateCloseFails, HibernateDone, CommitHotBinding
<1>9. ASSUME NEW s \in Subagents, SoftDelete(s)
      PROVE  HotInv'
  BY <1>9 DEF SoftDelete
<1>10. ASSUME NEW s \in Subagents, HardDelete(s)
      PROVE  HotInv'
  BY <1>10 DEF HardDelete
<1>11. ASSUME NEW s \in Subagents, Evict(s)
      PROVE  HotInv'
  BY <1>11 DEF Evict, Cool
<1>12. CASE SidecarCrash
  BY <1>12 DEF SidecarCrash, FailRows, Cool, HotSubagents
<1>13. CASE SidecarShutdown
  BY <1>13 DEF SidecarShutdown, Cool, HotSubagents
<1>14. CASE ServiceRestart
  BY <1>14 DEF ServiceRestart
<1>15. CASE UNCHANGED <<sub, hot, ctl>>
  BY <1>15
<1>16. ASSUME NEW t \in Tasks, DelegateReadGate(t) \/ DelegateInsert(t) \/
             DispatchPick(t) \/ DispatchResolve(t) \/ DispatchRecheck(t) \/
             AcquireGate(t) \/ RegisterSignal(t) \/ CheckCancelled(t) \/
             BuildContext(t) \/ TurnCancelled(t) \/ TurnReturns(t) \/
             PersistError(t) \/ PersistHotLimit(t) \/ BindingCommitFails(t) \/
             FinalRead(t) \/ Hook(t) \/ PostFail(t) \/ Requeue(t) \/
             GiveUp(t) \/ CancelRead(t) \/ CancelFlip(t) \/ CancelSignal(t)
      PROVE  UNCHANGED <<sub, hot, ctl>>
  BY <1>16 DEF DelegateReadGate, DelegateInsert, DispatchPick, Eligible,
     DispatchResolve, SetStatusIfNotCancelled, Finish, DispatchRecheck,
     AcquireGate, RegisterSignal, CheckCancelled, ReturnFromExecute,
     BuildContext, TurnCancelled, TurnReturns, PersistError, PersistHotLimit,
     BindingCommitFails, FinalRead, Hook, PostFail, Requeue, SetQueueReason,
     GiveUp, CancelRead, CancelFlip, CancelSignal
<1>17. ASSUME NEW t \in Tasks, NEW r \in Reported,
             PersistFails(t, ParsedStatus(r))
      PROVE  UNCHANGED <<sub, hot, ctl>>
  BY <1>17 DEF PersistFails, SetStatusIfNotCancelled, ReturnFromExecute,
     ParsedStatus
<1>18. ASSUME NEW S \in SUBSET Tasks, Reap(S)
      PROVE  UNCHANGED <<sub, hot, ctl>>
  BY <1>18 DEF Reap, FailRows
<1>19. ASSUME NEW p \in BOOLEAN, SetPaused(p)
      PROVE  UNCHANGED <<sub, hot, ctl>>
  BY <1>19 DEF SetPaused
<1>20. CASE UNCHANGED vars
  BY <1>20 DEF vars
<1> QED
  BY <1>1, <1>2, <1>3, <1>4, <1>5, <1>6, <1>7, <1>8, <1>9, <1>10, <1>11,
     <1>12, <1>13, <1>14, <1>15, <1>16, <1>17, <1>18, <1>19, <1>20
     DEF Next, Delegate, Dispatch, Execute, Persist, Cancel, ControlStep, Reported

\* The status is hot exactly when a hot binding exists, tombstones aside.
THEOREM HotStatusAgrees == Spec => []HotIffBound
<1>1. Init => HotInv
  BY DEF Init, HotInv, MockInv, HotIffBound
<1>2. Spec => []HotInv
  BY <1>1, GateCorrect, SubCorrect, HotStep, PTL DEF Spec
<1> QED
  BY <1>2, PTL DEF HotInv

-----------------------------------------------------------------------------
\* Nothing but a cancel or a hard delete touches a row whose result is saved.
LEMMA ResultStep ==
    TypeOK /\ ExecInv /\ GateInv /\ SubInv /\ SignalInv /\ ResultInv /\ [Next]_vars => ResultInv'
<1> SUFFICES ASSUME TypeOK, ExecInv, GateInv, SubInv, SignalInv, ResultInv, [Next]_vars PROVE ResultInv'
  OBVIOUS
<1> USE OwnerAssumption, HolderAssumption DEF TypeOK, ExecInv, GateInv,
        SubInv, SignalInv, ResultInv, TurnHasSubagent, Exists, RowStates,
        Terminal, Holding, PCs, rowVars, subVars, execVars, HasRow
<1>1. ASSUME NEW t \in Tasks, DelegateInsert(t)
      PROVE  ResultInv'
  BY <1>1 DEF DelegateInsert
<1>2. ASSUME NEW t \in Tasks, DispatchPick(t)
      PROVE  ResultInv'
  BY <1>2 DEF DispatchPick, Eligible
<1>3. ASSUME NEW t \in Tasks, DispatchResolve(t)
      PROVE  ResultInv'
  BY <1>3 DEF DispatchResolve, SetStatusIfNotCancelled, Finish
<1>4. ASSUME NEW t \in Tasks, DispatchRecheck(t)
      PROVE  ResultInv'
  BY <1>4 DEF DispatchRecheck, Finish
<1>5. ASSUME NEW t \in Tasks, AcquireGate(t)
      PROVE  ResultInv'
  BY <1>5 DEF AcquireGate
<1>6. ASSUME NEW t \in Tasks, RegisterSignal(t)
      PROVE  ResultInv'
  BY <1>6 DEF RegisterSignal
<1>7. ASSUME NEW t \in Tasks, CheckCancelled(t)
      PROVE  ResultInv'
  BY <1>7 DEF CheckCancelled, ReturnFromExecute
<1>8. ASSUME NEW t \in Tasks, BuildContext(t)
      PROVE  ResultInv'
  BY <1>8 DEF BuildContext, ReturnFromExecute
<1>9. ASSUME NEW t \in Tasks, TurnCancelled(t)
      PROVE  ResultInv'
  BY <1>9 DEF TurnCancelled, ReturnFromExecute
<1>10. ASSUME NEW t \in Tasks, TurnReturns(t)
      PROVE  ResultInv'
  BY <1>10 DEF TurnReturns
<1>11. ASSUME NEW t \in Tasks, PersistError(t)
      PROVE  ResultInv'
  BY <1>11 DEF PersistError, SetStatusIfNotCancelled, ReturnFromExecute
<1>12. ASSUME NEW t \in Tasks, PersistHotLimit(t)
      PROVE  ResultInv'
  BY <1>12 DEF PersistHotLimit, ReturnFromExecute
<1>13. ASSUME NEW t \in Tasks, BindingCommitFails(t)
      PROVE  ResultInv'
  BY <1>13 DEF BindingCommitFails, SetStatusIfNotCancelled, ReturnFromExecute
<1>14. ASSUME NEW t \in Tasks, NEW r \in Reported, PersistOutput(t, ParsedStatus(r))
      PROVE  ResultInv'
  BY <1>14 DEF PersistOutput, SetStatusIfNotCancelled, CommitHotBinding,
     ParsedStatus
<1>15. ASSUME NEW t \in Tasks, NEW r \in Reported, PersistFails(t, ParsedStatus(r))
      PROVE  ResultInv'
  BY <1>15 DEF PersistFails, SetStatusIfNotCancelled, ReturnFromExecute,
     ParsedStatus
<1>16. ASSUME NEW t \in Tasks, Activate(t)
      PROVE  ResultInv'
  BY <1>16 DEF Activate, Cool
<1>17. ASSUME NEW t \in Tasks, FinalRead(t)
      PROVE  ResultInv'
  BY <1>17 DEF FinalRead, ReturnFromExecute
<1>18. ASSUME NEW t \in Tasks, Hook(t)
      PROVE  ResultInv'
  BY <1>18 DEF Hook, Finish
<1>19. ASSUME NEW t \in Tasks, PostFail(t)
      PROVE  ResultInv'
  BY <1>19 DEF PostFail, SetStatusIfNotCancelled, Finish
<1>20. ASSUME NEW t \in Tasks, Requeue(t)
      PROVE  ResultInv'
  BY <1>20 DEF Requeue, SetStatusIfNotCancelled, SetQueueReason, Finish
<1>21. ASSUME NEW t \in Tasks, GiveUp(t)
      PROVE  ResultInv'
  BY <1>21 DEF GiveUp, SetStatusIfNotCancelled, Finish
<1>22. ASSUME NEW t \in Tasks, CancelFlip(t)
      PROVE  ResultInv'
  BY <1>22 DEF CancelFlip
<1>23. ASSUME NEW s \in Subagents, HardDelete(s)
      PROVE  ResultInv'
  BY <1>23 DEF HardDelete
<1>24. ASSUME NEW S \in SUBSET Tasks, Reap(S)
      PROVE  ResultInv'
  BY <1>24 DEF Reap, FailRows
<1>25. CASE SidecarCrash
  BY <1>25 DEF SidecarCrash, FailRows, Cool, HotSubagents
<1>26. CASE ServiceRestart
  BY <1>26 DEF ServiceRestart
<1>27. CASE UNCHANGED <<row, pc, res>>
  BY <1>27
<1>28. ASSUME NEW t \in Tasks, DelegateResolve(t) \/ DelegateReadGate(t) \/
             CancelRead(t) \/ CancelSignal(t)
      PROVE  UNCHANGED <<row, pc, res>>
  BY <1>28 DEF DelegateResolve, DelegateReadGate, CancelRead, CancelSignal
<1>29. ASSUME NEW s \in Subagents, NEW op \in RequestedOps,
             ControlRequest(s, op)
      PROVE  UNCHANGED <<row, pc, res>>
  BY <1>29 DEF ControlRequest
<1>30. ASSUME NEW s \in Subagents, ControlTimeout(s) \/ HibernateCommit(s) \/
             HibernateClosed(s) \/ HibernateCloseFails(s) \/ SoftDelete(s) \/
             Evict(s)
      PROVE  UNCHANGED <<row, pc, res>>
  BY <1>30 DEF ControlTimeout, HibernateCommit, Cool, HibernateClosed,
     HibernateDone, HibernateCloseFails, CommitHotBinding, SoftDelete, Evict
<1>31. ASSUME SidecarShutdown
      PROVE  UNCHANGED <<row, pc, res>>
  BY <1>31 DEF SidecarShutdown, Cool, HotSubagents
<1>32. ASSUME NEW p \in BOOLEAN, SetPaused(p)
      PROVE  UNCHANGED <<row, pc, res>>
  BY <1>32 DEF SetPaused
<1>33. CASE UNCHANGED vars
  BY <1>33 DEF vars
<1> QED
  BY <1>1, <1>2, <1>3, <1>4, <1>5, <1>6, <1>7, <1>8, <1>9, <1>10, <1>11,
     <1>12, <1>13, <1>14, <1>15, <1>16, <1>17, <1>18, <1>19, <1>20, <1>21,
     <1>22, <1>23, <1>24, <1>25, <1>26, <1>27, <1>28, <1>29, <1>30, <1>31,
     <1>32, <1>33
     DEF Next, Delegate, Dispatch, Execute, Persist, Cancel, ControlStep, Reported

\* The status handed to the completion hook is the status in the database.
THEOREM HookSeesRow == Spec => []ResultAgreesWithRow
<1>1. Init => ResultInv
  BY DEF Init, ResultInv
<1>2. ResultInv => ResultAgreesWithRow
  BY DEF ResultInv, ResultAgreesWithRow
<1> QED
  BY <1>1, <1>2, GateCorrect, SubCorrect, SignalCorrect, ResultStep, PTL DEF Spec


-----------------------------------------------------------------------------
(* SubagentTasks implements TaskLifecycle, for every set of tasks and       *)
(* subagents: the initial states map to initial states, and a step of the   *)
(* manager is a step of the lifecycle or changes nothing a caller sees.     *)
(*                                                                         *)
(* An execution exists only for a row that is neither absent nor queued     *)
(* (ExecInv), and one that is about to report has a settled row             *)
(* (ResultInv); without these two facts an execution could end and leave a  *)
(* running row, or settle a row that waits in the queue.                    *)

\* What a step of a program counter does to the set of active tasks.
LEMMA ActiveBegins ==
    ASSUME TypeOK, NEW t \in Tasks, NEW x \in PCs, x # "none", pc' = [pc EXCEPT ![t] = x]
    PROVE  Active' = Active \cup {t}
  BY DEF TypeOK, Active

LEMMA ActiveStays ==
    ASSUME TypeOK, NEW t \in Tasks, NEW x \in PCs, x # "none", pc[t] # "none",
           pc' = [pc EXCEPT ![t] = x]
    PROVE  Active' = Active
  BY DEF TypeOK, Active

LEMMA ActiveEnds ==
    ASSUME TypeOK, NEW t \in Tasks, pc' = [pc EXCEPT ![t] = "none"]
    PROVE  Active' = Active \ {t}
  BY DEF TypeOK, Active

\* The guarded write of an outcome by an execution that goes on or ends.
LEMMA OutcomeWritten ==
    ASSUME TypeOK, ExecInv, NEW t \in Tasks, pc[t] # "none",
           NEW outcome \in {"completed", "failed"},
           SetStatusIfNotCancelled(t, outcome),
           Active' = Active \/ Active' = Active \ {t}
    PROVE  [Lifecycle!Next]_(Lifecycle!vars)
<1>1. t \in Active
  BY DEF Active
<1>2. CASE HasRow(t) /\ row[t] # "cancelled"
  <2>1. row[t] \in {"running", "completed", "failed"}
    BY <1>2 DEF TypeOK, ExecInv, HasRow, RowStates, Terminal
  <2>2. row' = [row EXCEPT ![t] = outcome]
    BY <1>2 DEF SetStatusIfNotCancelled
  <2>3. Lifecycle!Settle(t)
    BY <1>1, <2>1, <2>2 DEF Lifecycle!Settle
  <2> QED
    BY <2>3 DEF Lifecycle!Next
<1>3. CASE ~(HasRow(t) /\ row[t] # "cancelled")
  <2>1. row' = row
    BY <1>3 DEF SetStatusIfNotCancelled
  <2>2. row[t] \in {"cancelled", "gone"}
    BY <1>3 DEF TypeOK, ExecInv, HasRow, RowStates, Terminal
  <2>3. CASE Active' = Active
    BY <2>1, <2>3 DEF Lifecycle!vars
  <2>4. CASE Active' = Active \ {t}
    <3>1. Lifecycle!End(t)
      BY <1>1, <2>1, <2>2, <2>4 DEF Lifecycle!End, Lifecycle!Settled
    <3> QED
      BY <3>1 DEF Lifecycle!Next
  <2> QED
    BY <2>3, <2>4
<1> QED
  BY <1>2, <1>3

-----------------------------------------------------------------------------
\* Every step of the manager is a step of the lifecycle.
LEMMA LifecycleStep ==
    TypeOK /\ ExecInv /\ ResultInv /\ [Next]_vars => [Lifecycle!Next]_(Lifecycle!vars)
<1> SUFFICES ASSUME TypeOK, ExecInv, ResultInv, [Next]_vars
             PROVE  [Lifecycle!Next]_(Lifecycle!vars)
  OBVIOUS
<1> DEFINE Goal == [Lifecycle!Next]_(Lifecycle!vars)
<1>1. ASSUME row' = row, Active' = Active
      PROVE  Goal
  BY <1>1 DEF Lifecycle!vars
<1>2. ASSUME pc' = pc
      PROVE  Active' = Active
  BY <1>2 DEF Active
<1>3. ASSUME NEW t \in Tasks, DelegateInsert(t)
      PROVE  Goal
  <2>1. CASE ~Exists(Owner[t])
    BY <1>1, <1>2, <1>3, <2>1 DEF DelegateInsert, rowVars
  <2>2. CASE Exists(Owner[t]) /\ (del[t] = "queue" \/ HasRunningTask(Owner[t]))
    <3>1. row[t] = "absent" /\ pc[t] = "none"
      BY <1>3 DEF DelegateInsert, ExecInv
    <3>2. row' = [row EXCEPT ![t] = "queued"] /\ pc' = [pc EXCEPT ![t] = "none"]
      BY <1>3, <2>2 DEF DelegateInsert
    <3>3. Active' = Active
      BY <3>1, <3>2, ActiveEnds DEF Active
    <3>4. Lifecycle!Submit(t)
      BY <3>1, <3>2, <3>3 DEF Lifecycle!Submit
    <3> QED
      BY <3>4 DEF Lifecycle!Next
  <2>3. CASE Exists(Owner[t]) /\ ~(del[t] = "queue" \/ HasRunningTask(Owner[t]))
    <3>1. row[t] = "absent"
      BY <1>3 DEF DelegateInsert, ExecInv
    <3>2. row' = [row EXCEPT ![t] = "running"] /\ pc' = [pc EXCEPT ![t] = "gate"]
      BY <1>3, <2>3 DEF DelegateInsert
    <3>3. Active' = Active \cup {t}
      BY <3>2, ActiveBegins DEF PCs
    <3>4. ~Lifecycle!Busy(t)
      BY <2>3 DEF Lifecycle!Busy, HasRunningTask, TasksOf
    <3>5. Lifecycle!Submit(t)
      BY <3>1, <3>2, <3>3, <3>4 DEF Lifecycle!Submit
    <3> QED
      BY <3>5 DEF Lifecycle!Next
  <2> QED
    BY <2>1, <2>2, <2>3
<1>4. ASSUME NEW t \in Tasks, DispatchPick(t)
      PROVE  Goal
  <2>1. row[t] = "queued" /\ pc[t] = "none"
    BY <1>4 DEF DispatchPick, Eligible, ExecInv
  <2>2. row' = [row EXCEPT ![t] = "running"] /\ pc' = [pc EXCEPT ![t] = "picked"]
    BY <1>4 DEF DispatchPick
  <2>3. Active' = Active \cup {t}
    BY <2>2, ActiveBegins DEF PCs
  <2>4. ~Lifecycle!Busy(t)
    BY <1>4 DEF Lifecycle!Busy, DispatchPick, Eligible, HasRunningTask, TasksOf
  <2>5. Lifecycle!Start(t)
    BY <2>1, <2>2, <2>3, <2>4 DEF Lifecycle!Start, Active
  <2> QED
    BY <2>5 DEF Lifecycle!Next
\* An execution moves on and writes no row.
<1>5. ASSUME NEW t \in Tasks, NEW x \in PCs, x # "none", pc[t] # "none",
             pc' = [pc EXCEPT ![t] = x], row' = row
      PROVE  Goal
  BY <1>1, <1>5, ActiveStays
\* An execution ends and writes no row.
<1>6. ASSUME NEW t \in Tasks, pc[t] # "none", row[t] \in {"completed", "failed", "cancelled", "gone"},
             pc' = [pc EXCEPT ![t] = "none"], row' = row
      PROVE  Goal
  <2>1. Lifecycle!End(t)
    BY <1>6, ActiveEnds DEF Lifecycle!End, Lifecycle!Settled, Active
  <2> QED
    BY <2>1 DEF Lifecycle!Next
<1>7. ASSUME NEW t \in Tasks, DispatchResolve(t)
      PROVE  Goal
  <2>1. CASE Exists(Owner[t])
    BY <1>5, <1>7, <2>1 DEF DispatchResolve, PCs
  <2>2. CASE ~Exists(Owner[t])
    BY <1>7, <2>2, ActiveEnds, OutcomeWritten DEF DispatchResolve, Finish
  <2> QED
    BY <2>1, <2>2
<1>8. ASSUME NEW t \in Tasks, DispatchRecheck(t)
      PROVE  Goal
  <2>1. CASE row[t] = "cancelled" \/ ~HasRow(t)
    <3>1. row[t] \in {"cancelled", "gone"}
      BY <1>8, <2>1 DEF DispatchRecheck, HasRow, ExecInv
    <3> QED
      BY <1>6, <1>8, <2>1, <3>1 DEF DispatchRecheck, Finish, rowVars
  <2>2. CASE ~(row[t] = "cancelled" \/ ~HasRow(t))
    BY <1>5, <1>8, <2>2 DEF DispatchRecheck, rowVars, PCs
  <2> QED
    BY <2>1, <2>2
<1>9. ASSUME NEW t \in Tasks, AcquireGate(t) \/ RegisterSignal(t) \/ TurnReturns(t) \/ Activate(t)
      PROVE  Goal
  BY <1>5, <1>9 DEF AcquireGate, RegisterSignal, TurnReturns, Activate, rowVars, PCs, Holding
<1>10. ASSUME NEW t \in Tasks, CheckCancelled(t)
      PROVE  Goal
  BY <1>5, <1>10 DEF CheckCancelled, ReturnFromExecute, rowVars, PCs, Holding
<1>11. ASSUME NEW t \in Tasks, BuildContext(t)
      PROVE  Goal
  BY <1>5, <1>11 DEF BuildContext, ReturnFromExecute, rowVars, PCs, Holding
<1>12. ASSUME NEW t \in Tasks, TurnCancelled(t) \/ PersistHotLimit(t) \/ FinalRead(t)
      PROVE  Goal
  BY <1>5, <1>12 DEF TurnCancelled, PersistHotLimit, FinalRead, ReturnFromExecute, rowVars,
     PCs, Holding
<1>13. ASSUME NEW t \in Tasks, PersistError(t) \/ BindingCommitFails(t)
      PROVE  Goal
  <2>1. pc[t] # "none" /\ pc' = [pc EXCEPT ![t] = "post_fail"]
    BY <1>13 DEF PersistError, BindingCommitFails, ReturnFromExecute
  <2>2. SetStatusIfNotCancelled(t, "failed")
    BY <1>13 DEF PersistError, BindingCommitFails
  <2>3. Active' = Active
    BY <2>1, ActiveStays DEF PCs
  <2> QED
    BY <2>1, <2>2, <2>3, OutcomeWritten
<1>14. ASSUME NEW t \in Tasks, NEW r \in Reported, PersistOutput(t, ParsedStatus(r))
      PROVE  Goal
  <2>1. pc[t] # "none" /\ SetStatusIfNotCancelled(t, ParsedStatus(r))
    BY <1>14 DEF PersistOutput
  <2>2. \E x \in PCs \ {"none"} : pc' = [pc EXCEPT ![t] = x]
    BY <1>14 DEF PersistOutput, PCs, Holding
  <2>3. Active' = Active
    BY <2>1, <2>2, ActiveStays
  <2>4. ParsedStatus(r) \in {"completed", "failed"}
    BY DEF ParsedStatus
  <2> QED
    BY <2>1, <2>3, <2>4, OutcomeWritten
<1>15. ASSUME NEW t \in Tasks, NEW r \in Reported, PersistFails(t, ParsedStatus(r))
      PROVE  Goal
  <2>1. pc[t] # "none" /\ pc' = [pc EXCEPT ![t] = "post_fail"]
    BY <1>15 DEF PersistFails, ReturnFromExecute
  <2>2. Active' = Active
    BY <2>1, ActiveStays DEF PCs
  <2>3. ParsedStatus(r) \in {"completed", "failed"}
    BY DEF ParsedStatus
  <2>4. CASE SetStatusIfNotCancelled(t, ParsedStatus(r))
    BY <2>1, <2>2, <2>3, <2>4, OutcomeWritten
  <2>5. CASE row' = row
    BY <1>1, <2>2, <2>5
  <2> QED
    BY <1>15, <2>4, <2>5 DEF PersistFails
<1>16. ASSUME NEW t \in Tasks, Hook(t)
      PROVE  Goal
  <2>1. row[t] \in {"completed", "failed", "cancelled", "gone"}
    BY <1>16 DEF Hook, ResultInv, Terminal
  <2> QED
    BY <1>6, <1>16, <2>1 DEF Hook, Finish, rowVars
<1>17. ASSUME NEW t \in Tasks, PostFail(t) \/ GiveUp(t)
      PROVE  Goal
  <2>1. pc[t] # "none" /\ pc' = [pc EXCEPT ![t] = "none"]
    BY <1>17 DEF PostFail, GiveUp, Finish
  <2>2. SetStatusIfNotCancelled(t, "failed")
    BY <1>17 DEF PostFail, GiveUp
  <2> QED
    BY <2>1, <2>2, ActiveEnds, OutcomeWritten
<1>18. ASSUME NEW t \in Tasks, Requeue(t)
      PROVE  Goal
  <2>1. pc[t] # "none" /\ pc' = [pc EXCEPT ![t] = "none"]
    BY <1>18 DEF Requeue, Finish
  <2>2. SetStatusIfNotCancelled(t, "queued")
    BY <1>18 DEF Requeue
  <2>3. CASE HasRow(t) /\ row[t] # "cancelled"
    <3>1. row[t] \in {"running", "completed", "failed"}
      BY <2>1, <2>3 DEF TypeOK, ExecInv, HasRow, RowStates, Terminal
    <3>2. Lifecycle!PutBack(t)
      BY <2>1, <2>2, <2>3, <3>1, ActiveEnds DEF Lifecycle!PutBack, Active, SetStatusIfNotCancelled
    <3> QED
      BY <3>2 DEF Lifecycle!Next
  <2>4. CASE ~(HasRow(t) /\ row[t] # "cancelled")
    <3>1. row' = row /\ row[t] \in {"cancelled", "gone"}
      BY <2>1, <2>2, <2>4 DEF SetStatusIfNotCancelled, TypeOK, ExecInv, HasRow, RowStates, Terminal
    <3> QED
      BY <1>6, <2>1, <3>1
  <2> QED
    BY <2>3, <2>4
<1>19. ASSUME NEW t \in Tasks, CancelFlip(t)
      PROVE  Goal
  <2>1. Active' = Active
    BY <1>2, <1>19 DEF CancelFlip, execVars
  <2>2. CASE row[t] \in {"queued", "running"}
    <3>1. Lifecycle!Cancel(t)
      BY <1>19, <2>1, <2>2 DEF CancelFlip, Lifecycle!Cancel
    <3> QED
      BY <3>1 DEF Lifecycle!Next
  <2>3. CASE row[t] \notin {"queued", "running"}
    BY <1>1, <1>19, <2>1, <2>3 DEF CancelFlip
  <2> QED
    BY <2>2, <2>3
<1>20. ASSUME NEW s \in Subagents, HardDelete(s)
      PROVE  Goal
  <2>1. Active' = Active
    BY <1>2, <1>20 DEF HardDelete, execVars
  <2>2. CASE Exists(s) /\ \E t \in Tasks : Owner[t] = s
    <3>1. PICK t \in Tasks : Owner[t] = s
      BY <2>2
    <3>2. row' = [u \in Tasks |-> IF Owner[u] = s /\ row[u] # "absent" THEN "gone" ELSE row[u]]
      BY <1>20, <2>2 DEF HardDelete, HasRow, TypeOK
    <3>3. Lifecycle!Remove(Owner[t])
      BY <2>1, <3>1, <3>2 DEF Lifecycle!Remove
    <3> QED
      BY <3>3 DEF Lifecycle!Next
  <2>3. CASE ~(Exists(s) /\ \E t \in Tasks : Owner[t] = s)
    <3>1. row' = row
      BY <1>20, <2>3 DEF HardDelete, TypeOK
    <3> QED
      BY <1>1, <2>1, <3>1
  <2> QED
    BY <2>2, <2>3
<1>21. ASSUME NEW S \in SUBSET Tasks, \A t \in S : row[t] = "running", FailRows(S), pc' = pc
      PROVE  Goal
  <2>1. Lifecycle!GiveUp(S)
    BY <1>2, <1>21 DEF Lifecycle!GiveUp, FailRows
  <2> QED
    BY <2>1 DEF Lifecycle!Next
<1>22. ASSUME NEW S \in SUBSET Tasks, Reap(S)
      PROVE  Goal
  BY <1>21, <1>22 DEF Reap, execVars
<1>23. ASSUME SidecarCrash
      PROVE  Goal
  <2> DEFINE S == {t \in Tasks : row[t] = "running" /\ hot[Owner[t]]}
  <2>1. FailRows(S) /\ pc' = pc
    BY <1>23 DEF SidecarCrash, execVars
  <2> QED
    BY <1>21, <2>1
<1>24. ASSUME ServiceRestart
      PROVE  Goal
  <2>1. Lifecycle!Restart
    BY <1>24 DEF ServiceRestart, Lifecycle!Restart, Active, rowVars
  <2> QED
    BY <2>1 DEF Lifecycle!Next
<1>25. ASSUME NEW t \in Tasks, DelegateResolve(t) \/ DelegateReadGate(t) \/
             CancelRead(t) \/ CancelSignal(t)
      PROVE  Goal
  BY <1>1, <1>2, <1>25 DEF DelegateResolve, DelegateReadGate, CancelRead, CancelSignal, rowVars, execVars
<1>26. ASSUME NEW s \in Subagents, NEW op \in RequestedOps, ControlRequest(s, op)
      PROVE  Goal
  BY <1>1, <1>2, <1>26 DEF ControlRequest, rowVars, execVars
<1>27. ASSUME NEW s \in Subagents, ControlTimeout(s) \/ HibernateCommit(s) \/
             HibernateClosed(s) \/ HibernateCloseFails(s) \/ SoftDelete(s) \/ Evict(s)
      PROVE  Goal
  BY <1>1, <1>2, <1>27 DEF ControlTimeout, HibernateCommit, HibernateClosed, HibernateDone,
     HibernateCloseFails, SoftDelete, Evict, rowVars, execVars
<1>28. ASSUME SidecarShutdown
      PROVE  Goal
  BY <1>1, <1>2, <1>28 DEF SidecarShutdown, rowVars, execVars
<1>29. ASSUME NEW p \in BOOLEAN, SetPaused(p)
      PROVE  Goal
  BY <1>1, <1>2, <1>29 DEF SetPaused, rowVars, execVars
<1>30. ASSUME UNCHANGED vars
      PROVE  Goal
  BY <1>1, <1>2, <1>30 DEF vars, rowVars, execVars
<1> HIDE DEF Goal
<1>31. Goal
  BY <1>3, <1>4, <1>7, <1>8, <1>9, <1>10, <1>11, <1>12, <1>13, <1>14, <1>15, <1>16, <1>17,
     <1>18, <1>19, <1>20, <1>22, <1>23, <1>24, <1>25, <1>26, <1>27, <1>28, <1>29, <1>30
     DEF Next, Delegate, Dispatch, Execute, Persist, Cancel, ControlStep, Reported
<1> QED
  BY <1>31 DEF Goal

\* The manager implements the lifecycle that callers rely on.
THEOREM ManagerImplementsLifecycle == Spec => ImplementsLifecycle
<1>1. Init => Lifecycle!Init
  BY DEF Init, Lifecycle!Init, Active
<1>2. Spec => []ResultInv
  <2>1. Init => ResultInv
    BY DEF Init, ResultInv
  <2> QED
    BY <2>1, GateCorrect, SubCorrect, SignalCorrect, ResultStep, PTL DEF Spec
<1> QED
  BY <1>1, <1>2, GateCorrect, LifecycleStep, PTL DEF Spec, ImplementsLifecycle, Lifecycle!Spec
=============================================================================
