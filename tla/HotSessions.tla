----------------------------- MODULE HotSessions -----------------------------
(***************************************************************************)
(* The hot sessions of the subagents, as three parties keep them: the      *)
(* binding rows of the database, the session pools of the sidecar          *)
(* processes, and the worker pool that knows the processes.  No lock spans *)
(* two of them.  The executor runs turns and evicts sessions, the manager  *)
(* commits, activates and rolls back, control requests hibernate and       *)
(* delete, the pressure responder evicts, providers are changed and        *)
(* processes die, each in steps that interleave.                           *)
(*                                                                         *)
(* A subagent has one lifecycle gate (SubagentTasks), so one execution or  *)
(* control request at a time.  The inside of a sidecar's pool is           *)
(* SessionPool, of a supervisor SidecarSupervisor; here a call is answered *)
(* in one step, or fails.  All workers have the same harness name.         *)
(***************************************************************************)
EXTENDS Integers, Sequences, FiniteSets, SequencesExt

CONSTANTS Subagents,
          Providers,
          ProviderOf,   \* the provider a subagent is bound to
          MaxHot,       \* sessions a sidecar holds at most
          Pressure,     \* the pressure responder, as an evictor
          Retries,      \* EVICT_WAIT_MAX_RETRIES and ALL_BUSY_MAX_RETRIES
          MaxSessions,  \* bound: sessions created
          MaxWorkers,   \* bound: supervisors created
          MaxFaults,    \* bound: crashes, failed calls and dropped requests
          Deletable     \* subagents that may be hard-deleted

ASSUME HotAssumption ==
    /\ ProviderOf \in [Subagents -> Providers] /\ Pressure \notin Subagents
    /\ Retries \in Nat \ {0} /\ {MaxSessions, MaxWorkers, MaxFaults} \subseteq Nat
    /\ MaxHot \in Nat \ {0} /\ Deletable \subseteq Subagents

Workers == 1..MaxWorkers
Evictors == Subagents \cup {Pressure}

VARIABLES
    workers,    \* WorkerPool.workers: the supervisor of a provider, or 0
    made,       \* supervisors created so far
    run,        \* the live process of a supervisor, or 0
    spawned,    \* processes spawned so far
    orphaned,   \* supervisors whose process ended and was not reconciled
    sess,       \* sessions ever asked for, in the sidecars: one is "new" while the
                \* factory and the turn that asked for it run
    lru,        \* activated sessions, most recently used first
    hot,        \* session of the subagent's hot binding row, or 0
    closed,     \* sessions named by binding rows with is_hot = 0
    exec,       \* the subagent's execution or control request: its step, the
                \* supervisor it got and then the process its calls go to, its
                \* session, and the retries of turn_auto left
    ev,         \* evictions under way: step, session, process
    faults,     \* history: faults so far
    lost,       \* history: sessions whose release was dropped, failed, skipped,
                \* or done on one side only
    shed,       \* history: sessions the sidecar closed of its own accord, for
                \* another model or after a cancel
    late,       \* history: sessions whose reservation ran out under an eviction
    deleted,    \* subagents that were hard-deleted
    diverged    \* history: subagents whose activated session was found
                \* without a row

poolVars == <<workers, made, run, spawned, orphaned>>
carVars  == <<sess, lru>>
dbVars   == <<hot, closed, deleted>>
histVars == <<faults, lost, shed, late, diverged>>
vars == <<poolVars, carVars, dbVars, exec, ev, histVars>>

NoEviction == [at |-> "none", sid |-> 0, h |-> 0]
Idle == [at |-> "idle", h |-> 0, on |-> 0, tries |-> 0]

Live(x) == sess[x].at # "gone"
On(h) == {x \in DOMAIN sess : Live(x) /\ sess[x].h = h}
SessionOf(s, h) == {x \in On(h) : sess[x].sub = s}
Alive(h) == h # 0 /\ \E w \in Workers : run[w] = h
RunningOf(w) == IF w = 0 THEN 0 ELSE run[w]

HasRow(x) == x \in closed \/ \E s \in Subagents : hot[s] = x

----------------------------------------------------------------------------
(* The sidecar's side of a call                                             *)

Gone(X) == [x \in DOMAIN sess |->
               IF x \notin X THEN sess[x]
               ELSE [sub |-> sess[x].sub, h |-> 0, at |-> "gone", busy |-> FALSE, evicting |-> FALSE]]

CloseIn(X) ==
    /\ sess' = Gone(X)
    /\ lru' = SelectSeq(lru, LAMBDA x : x \notin X)

(* ensure_started of a supervisor: a process is spawned if there is none. *)
Started(w) ==
    IF w # 0 /\ run[w] = 0
    THEN spawned' = spawned + 1 /\ run' = [run EXCEPT ![w] = spawned']
    ELSE UNCHANGED <<run, spawned>>

(* The process of a supervisor ends, and its sessions with it. *)
Ended(w) ==
    IF w # 0 /\ run[w] # 0
    THEN /\ run' = [run EXCEPT ![w] = 0] /\ orphaned' = orphaned \cup {w}
         /\ CloseIn(On(run[w]))
    ELSE /\ orphaned' = IF w = 0 THEN orphaned ELSE orphaned \cup {w}
         /\ UNCHANGED <<run, sess, lru>>

(* The sessions a pool may name for eviction (a pending one is not in the   *)
(* list), and the least recently used of them. *)
Candidates(h) ==
    {x \in On(h) : sess[x].at = "active" /\ ~sess[x].busy /\ ~sess[x].evicting}

getLruCandidate(h, x) ==
    /\ x \in Candidates(h)
    /\ \E i \in DOMAIN lru :
          lru[i] = x /\ \A j \in DOMAIN lru : lru[j] \in Candidates(h) => j <= i

\* Bug: an eviction does not respect a turn.
MutPrepareBusy(x) == Live(x)

prepare_hibernate_allowed(x) == sess[x].at = "active" /\ ~sess[x].busy

----------------------------------------------------------------------------
(* SidecarTaskExecutor::execute                                             *)

Goto(s, where) ==
    exec' = [exec EXCEPT ![s] =
        IF where = "idle" THEN Idle
        ELSE [exec[s] EXCEPT !.at = where,
                             !.h = IF where = "persist" THEN 0 ELSE exec[s].h]]

(* turn_auto is tried again, or given up. *)
TryAgain(s) == IF exec[s].tries > 1 THEN exec' = [exec EXCEPT ![s].tries = @ - 1]
               ELSE Goto(s, "idle")

Fault == faults < MaxFaults /\ faults' = faults + 1

(* The supervisor of the provider, created when there is none. *)
ensure_worker(s) ==
    LET p == ProviderOf[s]
    IN  /\ exec[s].at = "idle" /\ s \notin deleted
        /\ IF workers[p] # 0 THEN UNCHANGED <<workers, made>>
           ELSE /\ made < MaxWorkers
                /\ made' = made + 1 /\ workers' = [workers EXCEPT ![p] = made']
        /\ exec' = [exec EXCEPT ![s].at = "start", ![s].h = workers'[p],
                                ![s].tries = Retries]
        /\ UNCHANGED <<run, spawned, orphaned, carVars, dbVars, ev, histVars>>

(* The process is spawned when it is not there, whether or not the          *)
(* supervisor is still the one of its provider. *)
ensure_started(s) ==
    /\ exec[s].at = "start"
    /\ Started(exec[s].h)
    /\ exec' = [exec EXCEPT ![s].at = "call", ![s].h = run'[exec[s].h]]
    /\ UNCHANGED <<workers, made, orphaned, carVars, dbVars, ev, histVars>>

(* A full pool names the session to evict and reserves it, or has none.     *)
(* Only the first call evicts; a later one is tried again, except that one  *)
(* that waited for busy sessions gives up when there is a candidate. *)
LimitReached(s, h) ==
    \/ /\ Candidates(h) = {}
       /\ IF exec[s].at = "call" THEN Goto(s, "busy") ELSE TryAgain(s)
       /\ UNCHANGED <<sess, ev>>
    \/ \E x \in DOMAIN sess :
          /\ getLruCandidate(h, x)
          /\ sess' = [sess EXCEPT ![x].evicting = TRUE]
          /\ \/ /\ exec[s].at = "call" /\ Goto(s, "evict")
                /\ ev' = [ev EXCEPT ![s] = [at |-> "lookup", sid |-> x, h |-> 0]]
             \/ exec[s].at = "busy" /\ Goto(s, "idle") /\ UNCHANGED ev
             \/ exec[s].at = "retry" /\ TryAgain(s) /\ UNCHANGED ev

(* turn_auto up to its first await: a session is reused, unless it is in    *)
(* use or the turn asks for another model, which closes it; or a new one is *)
(* asked for, which holds its slot from here on; or the pool is full. *)
turn_auto(s, other_model) ==
    LET h    == exec[s].h
        mine == SessionOf(s, h)
        used == \E x \in mine : sess[x].busy \/ sess[x].evicting
        Turn(x) == exec' = [exec EXCEPT ![s].at = "turn", ![s].on = x, ![s].tries = 0]
    IN  /\ exec[s].at \in {"call", "retry", "busy"} /\ Alive(h)
        /\ \/ /\ mine # {} /\ used       \* answered like a full pool of busy sessions
              /\ IF exec[s].at = "call" THEN Goto(s, "busy") ELSE TryAgain(s)
              /\ UNCHANGED <<carVars, ev, shed>>
           \/ \E x \in mine :
                 /\ ~used /\ ~other_model
                 /\ sess' = [sess EXCEPT ![x].busy = TRUE]
                 /\ lru' = IF x \in ToSet(lru)
                           THEN <<x>> \o SelectSeq(lru, LAMBDA y : y # x) ELSE lru
                 /\ Turn(x) /\ UNCHANGED <<ev, shed>>
           \/ /\ ~used /\ (mine = {} \/ other_model)
              /\ Cardinality(On(h) \ mine) < MaxHot /\ Len(sess) < MaxSessions
              /\ sess' = Append(Gone(mine), [sub |-> s, h |-> h, at |-> "new",
                                             busy |-> TRUE, evicting |-> FALSE])
              /\ lru' = SelectSeq(lru, LAMBDA x : x \notin mine)
              /\ shed' = shed \cup mine
              /\ Turn(Len(sess')) /\ UNCHANGED ev
           \/ /\ mine = {} /\ Cardinality(On(h)) >= MaxHot
              /\ LimitReached(s, h) /\ UNCHANGED <<lru, shed>>
        /\ UNCHANGED <<poolVars, dbVars, faults, lost, late, diverged>>

(* The process is gone: the call fails. *)
CallFails(s) ==
    /\ exec[s].at \in {"call", "retry", "busy", "turn"} /\ ~Alive(exec[s].h)
    /\ Goto(s, "idle")
    /\ UNCHANGED <<poolVars, carVars, dbVars, ev, histVars>>

(* The turn on the session ends in the sidecar, well or badly.  A new       *)
(* session becomes pending, or is closed: its turn failed, or its factory   *)
(* did, or a cancel came while it was created. *)
SessionTurnEnds(x, well) ==
    IF sess[x].at = "new" /\ ~well THEN CloseIn({x})
    ELSE /\ sess' = [sess EXCEPT ![x].busy = FALSE,
                                 ![x].at = IF @ = "new" THEN "pending" ELSE @]
         /\ UNCHANGED lru

(* The execution gets the outcome; a bad credential costs the worker. *)
TurnEnds(s, how) ==
    /\ exec[s].at = "turn" /\ Alive(exec[s].h)
    /\ SessionTurnEnds(exec[s].on, how = "ok")
    /\ Goto(s, CASE how = "ok" -> "persist" [] how = "auth" -> "auth" [] OTHER -> "idle")
    /\ IF how = "auth" THEN Fault ELSE UNCHANGED faults
    /\ UNCHANGED <<poolVars, dbVars, ev, lost, shed, late, diverged>>

(* A cancel drops the execution wherever it waits; the sidecar goes on. *)
ExecutionDropped(s) ==
    /\ exec[s].at \in {"start", "call", "retry", "busy", "turn", "evict"} /\ Fault
    /\ lost' = IF ev[s].at = "close" THEN lost \cup {ev[s].sid} ELSE lost
    /\ ev' = [ev EXCEPT ![s] = NoEviction]
    /\ Goto(s, "idle")
    /\ UNCHANGED <<poolVars, carVars, dbVars, shed, late, diverged>>

(* A turn nobody waits for. *)
Abandoned(x) ==
    /\ Live(x) /\ sess[x].busy
    /\ ~(exec[sess[x].sub].at = "turn" /\ exec[sess[x].sub].on = x)

AbandonedTurnEnds(x, well) ==
    /\ Abandoned(x) /\ SessionTurnEnds(x, well)
    /\ UNCHANGED <<poolVars, dbVars, exec, ev, histVars>>

(* The turn does not settle within the grace after session.cancel: its      *)
(* session is closed, an activated one as well. *)
CancelFallback(x) ==
    /\ Abandoned(x) /\ CloseIn({x})
    /\ shed' = shed \cup {x}
    /\ UNCHANGED <<poolVars, dbVars, exec, ev, faults, lost, late, diverged>>

(* remove_worker_and_kill after an authentication failure. *)
AuthKill(s) ==
    LET p == ProviderOf[s]
    IN  /\ exec[s].at = "auth"
        /\ workers' = [workers EXCEPT ![p] = 0]
        /\ Ended(workers[p])
        /\ Goto(s, "idle")
        /\ UNCHANGED <<made, spawned, dbVars, ev, histVars>>

----------------------------------------------------------------------------
(* SubagentManager::execute_task after the turn                             *)

(* The hot row of the subagent names the session from now on.  A session    *)
(* that was reused may have been evicted since its turn ended, up to the    *)
(* close. *)
commit_hot_binding_and_status(s) ==
    /\ exec[s].at = "persist" /\ s \notin deleted
    /\ hot' = [hot EXCEPT ![s] = exec[s].on]
    /\ lost' = IF \E a \in Evictors : ev[a].at = "close" /\ ev[a].sid = exec[s].on
               THEN lost \cup {exec[s].on} ELSE lost
    /\ Goto(s, "activate")
    /\ UNCHANGED <<poolVars, carVars, closed, deleted, ev, faults, shed, late, diverged>>

(* The session is closed; the row a reused session already had stays hot. *)
PersistFails(s) ==
    /\ exec[s].at = "persist" /\ Fault /\ Goto(s, "close")
    /\ lost' = IF hot[s] = exec[s].on THEN lost \cup {exec[s].on} ELSE lost
    /\ UNCHANGED <<poolVars, carVars, dbVars, ev, shed, late, diverged>>

(* The call goes to the worker the provider has now; a worker without a     *)
(* process gets one, which does not know the session. *)
activate_session(s) ==
    LET w == workers[ProviderOf[s]]
        x == exec[s].on
        there == w # 0 /\ x \in On(run[w])
    IN  /\ exec[s].at = "activate"
        /\ Started(w)
        /\ IF there /\ sess[x].at # "active"
           THEN sess' = [sess EXCEPT ![x].at = "active"] /\ lru' = <<x>> \o lru
           ELSE UNCHANGED carVars
        /\ Goto(s, IF there THEN "idle" ELSE "rollback")
        /\ UNCHANGED <<workers, made, orphaned, dbVars, ev, histVars>>

ActivateFails(s) ==
    /\ exec[s].at = "activate" /\ Fault /\ Goto(s, "rollback")
    /\ UNCHANGED <<poolVars, carVars, dbVars, ev, lost, shed, late, diverged>>

\* Bug: the row is removed and not closed.
MutCoolForgets(s) ==
    /\ hot' = [hot EXCEPT ![s] = 0]
    /\ UNCHANGED closed

Cool(s) ==
    /\ hot' = [hot EXCEPT ![s] = 0]
    /\ closed' = closed \cup {hot[s]}

\* Bug: the binding stays hot.
MutNoRollback(s) ==
    /\ exec[s].at = "rollback"
    /\ Goto(s, "close")
    /\ UNCHANGED <<poolVars, carVars, dbVars, ev, histVars>>

activate_rollback(s) ==
    /\ exec[s].at = "rollback"
    /\ IF hot[s] = exec[s].on THEN Cool(s) ELSE UNCHANGED <<hot, closed>>
    /\ Goto(s, "close")
    /\ UNCHANGED <<poolVars, carVars, deleted, ev, histVars>>

(* The database fails: the task ends with the row hot and the session open. *)
RollbackFails(s) ==
    /\ exec[s].at = "rollback" /\ Fault
    /\ lost' = lost \cup {exec[s].on}
    /\ Goto(s, "idle")
    /\ UNCHANGED <<poolVars, carVars, dbVars, ev, shed, late, diverged>>

(* close_session of the session x of s: nothing to do without a worker or a *)
(* process; the session may be unknown. *)
close_session_rpc(s, x) ==
    IF Live(x) /\ sess[x].h = RunningOf(workers[ProviderOf[s]])
    THEN CloseIn({x}) ELSE UNCHANGED carVars

CloseAfterFailure(s) ==
    /\ exec[s].at = "close"
    /\ close_session_rpc(s, exec[s].on)
    /\ Goto(s, "idle")
    /\ UNCHANGED <<poolVars, dbVars, ev, histVars>>

(* The call fails, or is left out because the lock of the supervisor's      *)
(* state is taken at that moment (try_is_running). *)
CloseSkipped(s) ==
    /\ exec[s].at = "close" /\ Fault
    /\ lost' = lost \cup {exec[s].on}
    /\ Goto(s, "idle")
    /\ UNCHANGED <<poolVars, carVars, dbVars, ev, shed, late, diverged>>

----------------------------------------------------------------------------
(* evict_session, by an execution that met the limit or the responder       *)

Evict(a, where) == ev' = [ev EXCEPT ![a] = IF where = "none" THEN NoEviction
                                           ELSE [@ EXCEPT !.at = where]]

(* What the execution does when its eviction has come to an end. *)
EvictionOver(a, ok) ==
    /\ Evict(a, "none")
    /\ IF a \in Subagents THEN Goto(a, IF ok THEN "retry" ELSE "idle") ELSE UNCHANGED exec

(* evict_lru picks from the hot rows; which is oldest is left open. *)
evict_lru(s) ==
    /\ ev[Pressure].at = "none" /\ hot[s] # 0 /\ \E p \in Providers : workers[p] # 0
    /\ ev' = [ev EXCEPT ![Pressure] = [at |-> "lookup", sid |-> hot[s], h |-> 0]]
    /\ UNCHANGED <<poolVars, carVars, dbVars, exec, histVars>>

(* Any worker will do: the rows do not name the provider and all workers    *)
(* have one harness name.  The process is started when it is not there. *)
supervisor_for_session(a, p) ==
    /\ ev[a].at = "lookup" /\ workers[p] # 0 /\ HasRow(ev[a].sid)
    /\ Started(workers[p])
    /\ ev' = [ev EXCEPT ![a].at = "prepare", ![a].h = run'[workers[p]]]
    /\ UNCHANGED <<workers, made, orphaned, carVars, dbVars, exec, histVars>>

(* No row names the session, or there is no worker. *)
NoBinding(a) ==
    /\ ev[a].at = "lookup"
    /\ ~HasRow(ev[a].sid) \/ \A p \in Providers : workers[p] = 0
    /\ diverged' = diverged \cup IF ~HasRow(ev[a].sid) /\ sess[ev[a].sid].at = "active"
                                 THEN {sess[ev[a].sid].sub} ELSE {}
    /\ EvictionOver(a, FALSE)
    /\ UNCHANGED <<poolVars, carVars, dbVars, faults, lost, shed, late>>

prepare_hibernate(a) ==
    LET x == ev[a].sid
    IN  /\ ev[a].at = "prepare" /\ Alive(ev[a].h)
        /\ CASE x \notin On(ev[a].h) ->                   \* SESSION_NOT_FOUND
                  EvictionOver(a, TRUE) /\ UNCHANGED sess
             [] x \in On(ev[a].h) /\ ~prepare_hibernate_allowed(x) ->
                  EvictionOver(a, FALSE) /\ UNCHANGED sess
             [] OTHER ->
                  /\ sess' = [sess EXCEPT ![x].evicting = TRUE]
                  /\ Evict(a, "commit") /\ UNCHANGED exec
        /\ UNCHANGED <<poolVars, lru, dbVars, histVars>>

\* Bug: the row is cooled without looking at the session it names.
MutCommitAny(a) ==
    LET s == sess[ev[a].sid].sub
    IN  /\ ev[a].at = "commit"
        /\ IF hot[s] # 0 THEN Cool(s) ELSE UNCHANGED <<hot, closed>>
        /\ Evict(a, "close")
        /\ UNCHANGED <<poolVars, carVars, deleted, exec, histVars>>

(* The hot row that names the session is cooled; without one, another       *)
(* evictor was faster, or the row was deleted. *)
commit_eviction(a) ==
    LET x == ev[a].sid
        s == sess[x].sub
    IN  /\ ev[a].at = "commit"
        /\ IF hot[s] = x THEN Cool(s) /\ Evict(a, "close") /\ UNCHANGED <<exec, diverged>>
           ELSE /\ EvictionOver(a, x \in closed)
                /\ diverged' = IF HasRow(x) \/ sess[x].at # "active" THEN diverged ELSE diverged \cup {s}
                /\ UNCHANGED <<hot, closed>>
        /\ UNCHANGED <<poolVars, carVars, deleted, faults, lost, shed, late>>

EvictClose(a) ==
    /\ ev[a].at = "close" /\ Alive(ev[a].h)
    /\ CloseIn(On(ev[a].h) \cap {ev[a].sid})
    /\ EvictionOver(a, ev[a].sid \in On(ev[a].h))
    /\ UNCHANGED <<poolVars, dbVars, histVars>>

(* A step of the eviction fails: the process is gone or does not answer, or *)
(* the database fails (a failed read of a row is taken for a missing row,   *)
(* which ends the eviction as well). *)
EvictFails(a) ==
    /\ ev[a].at # "none"
    /\ IF ev[a].at \in {"prepare", "close"} /\ ~Alive(ev[a].h) THEN UNCHANGED faults ELSE Fault
    /\ lost' = IF ev[a].at = "close" THEN lost \cup {ev[a].sid} ELSE lost
    /\ EvictionOver(a, FALSE)
    /\ UNCHANGED <<poolVars, carVars, dbVars, shed, late, diverged>>

(* A reservation is released when it is two minutes old, whether or not its *)
(* evictor is done: one that was taken over is not renewed by its taker. *)
ReservationExpires(x) ==
    /\ Live(x) /\ sess[x].evicting
    /\ sess' = [sess EXCEPT ![x].evicting = FALSE]
    /\ late' = late \cup {ev[a].sid : a \in {b \in Evictors : ev[b].at \in {"commit", "close"}
                                                         /\ ev[b].sid = x}}
    /\ UNCHANGED <<poolVars, lru, dbVars, exec, ev, faults, lost, shed, diverged>>

(* A pending session is closed when it is a minute old and no turn runs on  *)
(* it, whether or not its commit and activation are under way. *)
PendingExpires(x) ==
    /\ sess[x].at = "pending" /\ ~sess[x].busy
    /\ CloseIn({x})
    /\ UNCHANGED <<poolVars, dbVars, exec, ev, histVars>>

----------------------------------------------------------------------------
(* hibernate and hard delete, under the lifecycle gate                      *)

hibernate(s) ==
    /\ exec[s].at = "idle" /\ s \notin deleted /\ hot[s] # 0
    /\ Cool(s)
    /\ exec' = [exec EXCEPT ![s].at = "hib_close", ![s].on = hot[s]]
    /\ UNCHANGED <<poolVars, carVars, deleted, ev, histVars>>

HibernateClose(s) ==
    /\ exec[s].at = "hib_close"
    /\ close_session_rpc(s, exec[s].on)
    /\ Goto(s, "idle")
    /\ UNCHANGED <<poolVars, dbVars, ev, histVars>>

(* The call fails, before or after the sidecar closed the session: the      *)
(* binding is restored.  (The row was closed a moment ago and nothing else  *)
(* of the subagent runs.) *)
restore_hot_binding_and_status(s) ==
    /\ exec[s].at = "hib_close" /\ RunningOf(workers[ProviderOf[s]]) # 0 /\ Fault
    /\ UNCHANGED carVars \/ close_session_rpc(s, exec[s].on)
    /\ hot' = [hot EXCEPT ![s] = exec[s].on] /\ closed' = closed \ {exec[s].on}
    /\ lost' = lost \cup {exec[s].on}
    /\ Goto(s, "idle")
    /\ UNCHANGED <<poolVars, deleted, ev, shed, late, diverged>>

(* The dispatch timeout drops the request, or the lock of the supervisor's  *)
(* state is taken and the call is left out. *)
HibernateDropped(s) ==
    /\ exec[s].at = "hib_close" /\ Fault
    /\ lost' = lost \cup {exec[s].on}
    /\ Goto(s, "idle")
    /\ UNCHANGED <<poolVars, carVars, dbVars, ev, shed, late, diverged>>

(* Rows go, sessions stay. *)
hard_delete(s) ==
    /\ exec[s].at = "idle" /\ s \in Deletable \ deleted
    /\ deleted' = deleted \cup {s}
    /\ hot' = [hot EXCEPT ![s] = 0]
    /\ closed' = {x \in closed : sess[x].sub # s}
    /\ UNCHANGED <<poolVars, carVars, exec, ev, histVars>>

----------------------------------------------------------------------------
(* Providers and processes                                                  *)

(* update_provider_and_kill_old takes the worker out of the map, then kills *)
(* its process. *)
update_provider_and_kill_old(p) ==
    /\ workers[p] # 0 /\ Fault
    /\ workers' = [workers EXCEPT ![p] = 0]
    /\ Ended(workers[p])
    /\ UNCHANGED <<made, spawned, dbVars, exec, ev, lost, shed, late, diverged>>

Crash(w) ==
    /\ run[w] # 0 /\ Fault
    /\ Ended(w)
    /\ UNCHANGED <<workers, made, spawned, dbVars, exec, ev, lost, shed, late, diverged>>

(* Rows are released by harness, and every worker has the same: the hot     *)
(* rows of sessions that live on other workers go as well. *)
reconcile_sidecar_crash(w) ==
    /\ w \in orphaned
    /\ orphaned' = orphaned \ {w}
    /\ hot' = [s \in Subagents |-> 0]
    /\ closed' = closed \cup {hot[s] : s \in {t \in Subagents : hot[t] # 0}}
    /\ lost' = lost \cup {hot[s] : s \in {t \in Subagents : hot[t] # 0 /\ Live(hot[t])}}
    /\ UNCHANGED <<workers, made, run, spawned, carVars, deleted, exec, ev, faults,
                   shed, late, diverged>>

(* The database fails: the error is logged and the rows stay as they are.   *)
(* Only the end of a process counts as a fault here. *)
ReconcileFails(w) ==
    /\ w \in orphaned
    /\ orphaned' = orphaned \ {w}
    /\ lost' = lost \cup {hot[s] : s \in {t \in Subagents : hot[t] # 0}}
    /\ UNCHANGED <<workers, made, run, spawned, carVars, dbVars, exec, ev, faults,
                   shed, late, diverged>>

----------------------------------------------------------------------------
Init ==
    /\ workers = [p \in Providers |-> 0] /\ made = 0 /\ orphaned = {}
    /\ run = [w \in Workers |-> 0] /\ spawned = 0
    /\ sess = <<>> /\ lru = <<>>
    /\ hot = [s \in Subagents |-> 0] /\ closed = {} /\ deleted = {}
    /\ exec = [s \in Subagents |-> Idle]
    /\ ev = [a \in Evictors |-> NoEviction]
    /\ faults = 0 /\ lost = {} /\ shed = {} /\ late = {} /\ diverged = {}

Execution(s) ==
    \/ ensure_worker(s) \/ ensure_started(s) \/ CallFails(s)
    \/ \E other_model \in BOOLEAN : turn_auto(s, other_model)
    \/ \E how \in {"ok", "failed", "auth"} : TurnEnds(s, how)
    \/ ExecutionDropped(s) \/ AuthKill(s)
    \/ commit_hot_binding_and_status(s) \/ PersistFails(s)
    \/ activate_session(s) \/ ActivateFails(s) \/ activate_rollback(s)
    \/ RollbackFails(s) \/ CloseAfterFailure(s) \/ CloseSkipped(s)

Control(s) ==
    \/ hibernate(s) \/ HibernateClose(s) \/ restore_hot_binding_and_status(s)
    \/ HibernateDropped(s) \/ hard_delete(s)

Eviction(a) ==
    \/ \E p \in Providers : supervisor_for_session(a, p)
    \/ NoBinding(a) \/ prepare_hibernate(a) \/ commit_eviction(a)
    \/ EvictClose(a) \/ EvictFails(a)

Sidecar(x) ==
    \/ \E well \in BOOLEAN : AbandonedTurnEnds(x, well)
    \/ CancelFallback(x) \/ ReservationExpires(x) \/ PendingExpires(x)

Next ==
    \/ \E s \in Subagents : Execution(s) \/ Control(s) \/ evict_lru(s)
    \/ \E a \in Evictors : Eviction(a)
    \/ \E x \in DOMAIN sess : Sidecar(x)
    \/ \E p \in Providers : update_provider_and_kill_old(p)
    \/ \E w \in Workers : Crash(w) \/ reconcile_sidecar_crash(w) \/ ReconcileFails(w)

Spec == Init /\ [][Next]_vars

----------------------------------------------------------------------------
Sessions == [sub : Subagents, h : Nat, at : {"new", "pending", "active", "gone"},
             busy : BOOLEAN, evicting : BOOLEAN]

ExecStates == {"idle", "start", "call", "retry", "busy", "evict", "turn", "auth", "persist",
               "activate", "rollback", "close", "hib_close"}

Executions == [at : ExecStates, h : Nat, on : Nat, tries : 0..Retries]

Evictions == [at : {"none", "lookup", "prepare", "commit", "close"}, sid : Nat, h : Nat]

(* The states the variables range over; a row names a session that was      *)
(* created, and a supervisor in the pool is one that was made. *)
TypeOK ==
    /\ made \in 0..MaxWorkers /\ spawned \in Nat /\ faults \in Nat
    /\ workers \in [Providers -> 0..made]
    /\ run \in [Workers -> 0..spawned] /\ orphaned \subseteq Workers
    /\ sess \in Seq(Sessions)
    /\ hot \in [Subagents -> {0} \cup DOMAIN sess] /\ closed \subseteq DOMAIN sess
    /\ deleted \subseteq Subagents /\ diverged \subseteq Subagents
    /\ lost \subseteq DOMAIN sess /\ shed \subseteq DOMAIN sess /\ late \subseteq DOMAIN sess
    /\ exec \in [Subagents -> Executions]
    /\ ev \in [Evictors -> Evictions]

(* The list of a sidecar's recently used sessions holds the activated ones, *)
(* each once. *)
ListedIsActive ==
    /\ ToSet(lru) = {x \in DOMAIN sess : sess[x].at = "active"}
    /\ IsInjective(lru)

Closing(x) ==
    \/ \E a \in Evictors : ev[a].at = "close" /\ ev[a].sid = x
    \/ \E s \in Subagents : exec[s].at \in {"rollback", "close", "hib_close"} /\ exec[s].on = x

Reachable(h) == \E p \in Providers : RunningOf(workers[p]) = h

(* A session that takes up a slot of a worker in the pool is one that the   *)
(* database knows to be hot, or one whose execution has yet to commit it,   *)
(* or somebody is about to close it, or it will expire; unless its subagent *)
(* was deleted or its release was lost (evict_session, hibernate,           *)
(* execute_task). *)
SlotAccounted ==
    \A x \in DOMAIN sess :
        sess[x].at = "active" /\ Reachable(sess[x].h) =>
            \/ hot[sess[x].sub] = x \/ Closing(x)
            \/ sess[x].sub \in deleted \/ x \in lost

(* A hot row names a live session of its subagent; or a process ended and   *)
(* is not reconciled, or the subagent's own execution is under way, or the  *)
(* session's release failed or was partial, or the sidecar closed it of its *)
(* own accord, for another model or after a cancel, and the next turn of    *)
(* the subagent has yet to commit its session. *)
HotRowHasSession ==
    \A s \in Subagents : hot[s] # 0 =>
        \/ Live(hot[s]) /\ sess[hot[s]].sub = s
        \/ orphaned # {} \/ exec[s].at # "idle" \/ hot[s] \in lost \cup shed

(* What activate promises (no false is_hot=1 binding without a session      *)
(* behind it): the same without the exception of a lost release. *)
HotRowBacked ==
    \A s \in Subagents : hot[s] # 0 =>
        Live(hot[s]) \/ orphaned # {} \/ exec[s].at # "idle" \/ hot[s] \in shed

(* What cancel.ts says of a session (NOT closed or evicted, it stays in the *)
(* hot pool), here of a turn with another model as well: no hot row is left *)
(* with a session the sidecar closed of its own accord. *)
HotSessionStays ==
    \A s \in Subagents : hot[s] \in shed => exec[s].at # "idle"

(* A turn keeps its session: nothing but the end of its process closes a    *)
(* session under a running turn, unless an eviction of the session outlived *)
(* its reservation. *)
TurnKeepsSession ==
    \A s \in Subagents :
        exec[s].at = "turn" /\ Alive(exec[s].h) => Live(exec[s].on) \/ exec[s].on \in late

(* The same without the exception. *)
TurnOutlivesEviction ==
    \A s \in Subagents : exec[s].at = "turn" /\ Alive(exec[s].h) => Live(exec[s].on)

(* A candidate the sidecar names has a binding row, unless its subagent was *)
(* hard-deleted (evict_session calls anything else impossible). *)
DivergenceNeedsDelete == diverged \subseteq deleted
==============================================================================
