----------------------------- MODULE SessionPool -----------------------------
(***************************************************************************)
(* The hot session pool of the Pi sidecar: SessionPool                      *)
(* (apps/pi-sidecar/src/session_pool.ts) with the handlers that drive it    *)
(* (handlers/*.ts) and the turn state of PiSdkSession (pi_session.ts).      *)
(*                                                                         *)
(* The sidecar is one Node.js event loop: an action is what runs between    *)
(* two awaits.  A handler of turn_auto awaits the session factory and then  *)
(* the SDK's prompt; between ensureForTurn and the start of the turn other  *)
(* requests of the same input chunk may run.  The service side may prepare,  *)
(* close and cancel in any order.                                           *)
(*                                                                         *)
(* A turn id stands for one turn_auto request, that is one task.  A turn    *)
(* that misses creates a session, which is named after it, so t is both a   *)
(* turn and the session it may have created: "newly created" is on[t] = t.   *)
(* A turn's generation is the turn itself.  close() disposes of a session   *)
(* when it takes it out of the pool: a session that is not in the pool is   *)
(* closed.                                                                  *)
(*                                                                         *)
(* Clocks are abstracted: a timestamp is fresh until it ages, at any time.  *)
(***************************************************************************)
EXTENDS Naturals, FiniteSets, Sequences

CONSTANTS
    Turns,          \* turn_auto requests, and the sessions they create
    Subagents,      \* logical subagent ids
    Owner,          \* the subagent of a turn
    Model,          \* the effective model of a turn
    MaxHot,         \* max_hot_sessions
    Cancellable,    \* the turns for which session.cancel is sent
    NoTurn

ASSUME PoolOwnerAssumption == Owner \in [Turns -> Subagents]
ASSUME MaxHotAssumption == MaxHot \in Nat \ {0}
ASSUME PoolCancellableAssumption == Cancellable \subseteq Turns
ASSUME NoTurnAssumption == NoTurn \notin Turns

VARIABLES
    pool,           \* the maps and sets of SessionPool
    pc,             \* progress of the turn_auto handler
    on,             \* the session the handler got from ensureForTurn
    res,            \* the response to turn_auto
    candidate,      \* data.candidate of a HOT_SESSION_LIMIT response
    gen,            \* PiSdkSession.turnGeneration
    cancelledGen,   \* PiSdkSession.cancelledTurnGeneration
    active,         \* PiSdkSession.activeTaskId while turnInFlight
    cancelPending,  \* the sessions with PiSdkSession.cancellationPending
    cancelled       \* what session.cancel answered for a turn

sdkVars  == <<gen, cancelledGen, active, cancelPending>>
turnVars == <<pc, on, res, candidate>>
vars     == <<pool, turnVars, sdkVars, cancelled>>

SomeTurn == Turns \cup {NoTurn}
NoLease  == [task |-> NoTurn, state |-> "none"]
Running  == {"leased", "prompt"}

Elements(seq) == {seq[i] : i \in DOMAIN seq}
Creating(p) == {s \in Subagents : p.creating[s] # NoTurn}

Init ==
    /\ pool = [sessions      |-> {},
               subagentMap   |-> [s \in Subagents |-> NoTurn],
               lru           |-> << >>,
               busy          |-> {},
               lease         |-> [x \in Turns |-> NoLease],
               pending       |-> {},
               creating      |-> [s \in Subagents |-> NoTurn],
               cancelledCreations |-> {},
               agedPending   |-> {},      \* pendingSince beyond PENDING_TTL_MS
               cancelCleanup |-> {},      \* armed pendingCancelCleanup timers
               evicting      |-> {},
               agedEvictions |-> {}]      \* reservations beyond their TTL
    /\ pc = [t \in Turns |-> "none"]
    /\ on = [t \in Turns |-> NoTurn]
    /\ res = [t \in Turns |-> "none"]
    /\ candidate = [t \in Turns |-> NoTurn]
    /\ gen = [x \in Turns |-> NoTurn]
    /\ cancelledGen = [x \in Turns |-> NoTurn]
    /\ active = [x \in Turns |-> NoTurn]
    /\ cancelPending = {}
    /\ cancelled = [t \in Turns |-> "none"]

-----------------------------------------------------------------------------
(* Methods of SessionPool, as functions from a pool to a pool               *)

\* Splice out of the LRU list the first session of C that is in it.  Sessions are
\* listed once, and only pending ones, which are not listed, are closed several
\* at a time.
Unlist(list, C) ==
    LET at == {i \in DOMAIN list : list[i] \in C}
        idx == CHOOSE i \in at : \A j \in at : i <= j
    IN  IF at = {} THEN list
        ELSE SubSeq(list, 1, idx - 1) \o SubSeq(list, idx + 1, Len(list))

\* close(), for each of the sessions X that is in the pool.
CloseSessions(p, X) ==
    LET C == X \cap p.sessions
    IN  [p EXCEPT
            !.sessions = @ \ C,
            !.subagentMap = [s \in Subagents |->
                IF \E x \in C : Owner[x] = s THEN NoTurn ELSE @[s]],
            !.lru = Unlist(@, C),
            !.busy = @ \ C,
            !.lease = [x \in Turns |-> IF x \in C THEN NoLease ELSE @[x]],
            !.evicting = @ \ C, !.agedEvictions = @ \ C, !.cancelCleanup = @ \ C,
            !.pending = @ \ C,  !.agedPending = @ \ C]

ReleaseExpiredEvictions(p) ==
    [p EXCEPT !.evicting = @ \ p.agedEvictions, !.agedEvictions = {}]

\* Mutant: an in-flight turn does not protect its pending session.
EvictExpiredPendingBusy(p) == CloseSessions(p, p.agedPending)

EvictExpiredPending(p) == CloseSessions(p, p.agedPending \ p.busy)

\* Move to the front of the LRU list, if it is in it.
Touch(p, x) ==
    IF x \in Elements(p.lru)
    THEN [p EXCEPT !.lru = <<x>> \o Unlist(@, {x})]
    ELSE p

AcquireTurn(p, x, t) ==
    [p EXCEPT !.busy = @ \cup {x},
              !.lease[x] = [task |-> t, state |-> "admitted"]]

\* A pending session gets a full TTL from the end of its turn.
EndTurn(p, x) ==
    [p EXCEPT !.busy = @ \ {x}, !.lease[x] = NoLease, !.agedPending = @ \ {x}]

\* Where getLruCandidate finds a session it may return, and the least recently
\* used of them.
Evictable(p) == {i \in DOMAIN p.lru : p.lru[i] \notin p.busy \cup p.evicting}
LruCandidate(p) == p.lru[CHOOSE i \in Evictable(p) : \A j \in Evictable(p) : j <= i]

\* reserveForEviction refuses a session that is pending or runs a turn.
CanReserve(p, x) == x \in p.sessions \ (p.pending \cup p.busy)

-----------------------------------------------------------------------------
(* turn_auto                                                                *)

Answer(t, answer) ==
    /\ res' = [res EXCEPT ![t] = answer]
    /\ pc' = [pc EXCEPT ![t] = "done"]

\* Mutant: the capacity check does not count the sessions being created.
EnsureMissUncounted(t, p) ==
    /\ pc' = [pc EXCEPT ![t] = "creating"]
    /\ p.creating[Owner[t]] = NoTurn
    /\ Cardinality(p.sessions) < MaxHot
    /\ pool' = [p EXCEPT !.creating[Owner[t]] = t]
    /\ UNCHANGED <<on, res, candidate>>

\* Mutant: a second creation for the same subagent is let through.
EnsureMissDuplicate(t, p) ==
    /\ pc' = [pc EXCEPT ![t] = "creating"]
    /\ Cardinality(p.sessions) + Cardinality(Creating(p)) < MaxHot
    /\ pool' = [p EXCEPT !.creating[Owner[t]] = t]
    /\ UNCHANGED <<on, res, candidate>>

\* The miss path of ensure: another creation for the same subagent, a full
\* pool with or without a candidate, or a reservation and the factory call.
EnsureMiss(t, p) ==
    LET s == Owner[t]
        full == Cardinality(p.sessions) + Cardinality(Creating(p)) >= MaxHot
    IN  \/ /\ p.creating[s] # NoTurn \/ (full /\ Evictable(p) = {})
           /\ pool' = p
           /\ Answer(t, "all_busy")
           /\ UNCHANGED <<on, candidate>>
        \/ /\ p.creating[s] = NoTurn /\ full /\ Evictable(p) # {}
           /\ pool' = [p EXCEPT !.evicting = @ \cup {LruCandidate(p)}]
           /\ candidate' = [candidate EXCEPT ![t] = LruCandidate(p)]
           /\ Answer(t, "limit")
           /\ UNCHANGED on
        \/ /\ p.creating[s] = NoTurn /\ ~full
           /\ pool' = [p EXCEPT !.creating[s] = t]
           /\ pc' = [pc EXCEPT ![t] = "creating"]
           /\ UNCHANGED <<on, res, candidate>>

\* ensureForTurn up to its first await.
Ensure(t) ==
    LET p == EvictExpiredPending(ReleaseExpiredEvictions(pool))
        s == Owner[t]
        x == p.subagentMap[s]
        hit == x # NoTurn /\ x \in p.sessions
        unavailable == x \in p.evicting \cup cancelPending \cup p.busy
    IN  /\ pc[t] = "none"
        /\ \/ /\ hit /\ unavailable
              /\ pool' = p
              /\ Answer(t, "all_busy")
              /\ UNCHANGED <<on, candidate>>
           \/ /\ hit /\ ~unavailable /\ Model[x] = Model[t]
              /\ pool' = AcquireTurn(Touch(p, x), x, t)
              /\ on' = [on EXCEPT ![t] = x]
              /\ pc' = [pc EXCEPT ![t] = "leased"]
              /\ UNCHANGED <<res, candidate>>
           \/ /\ hit /\ ~unavailable /\ Model[x] # Model[t]
              /\ EnsureMiss(t, CloseSessions(p, {x}))
           \/ /\ ~hit
              /\ EnsureMiss(t, [p EXCEPT !.subagentMap[s] = NoTurn])
        /\ UNCHANGED <<sdkVars, cancelled>>

\* The factory resolves: the session is published as pending and leased, or
\* thrown away when a cancel came in the meantime.
Created(t) ==
    LET s == Owner[t]
    IN  /\ pc[t] = "creating"
        /\ IF s \in pool.cancelledCreations
           THEN /\ pool' = [pool EXCEPT !.creating[s] = NoTurn,
                                        !.cancelledCreations = @ \ {s}]
                /\ Answer(t, "cancelled")
                /\ UNCHANGED on
           ELSE /\ pool' = AcquireTurn([pool EXCEPT
                                  !.creating[s] = NoTurn,
                                  !.sessions = @ \cup {t},
                                  !.subagentMap[s] = t,
                                  !.pending = @ \cup {t}], t, t)
                /\ on' = [on EXCEPT ![t] = t]
                /\ pc' = [pc EXCEPT ![t] = "leased"]
                /\ UNCHANGED res
        /\ UNCHANGED <<candidate, sdkVars, cancelled>>

\* Mutant: the marker of a cancelled creation survives its failure.
CreateFailsKeepMarker(t) ==
    /\ pc[t] = "creating"
    /\ pool' = [pool EXCEPT !.creating[Owner[t]] = NoTurn]
    /\ Answer(t, "failed")
    /\ UNCHANGED <<on, candidate, sdkVars, cancelled>>

\* The factory rejects.
CreateFails(t) ==
    /\ pc[t] = "creating"
    /\ pool' = [pool EXCEPT !.creating[Owner[t]] = NoTurn,
                            !.cancelledCreations = @ \ {Owner[t]}]
    /\ Answer(t, "failed")
    /\ UNCHANGED <<on, candidate, sdkVars, cancelled>>

\* The finally block of turn_auto: a session that was created for a turn
\* that did not succeed is closed.
Finally(t, p, succeeded) ==
    LET q == EndTurn(p, on[t])
    IN  pool' = IF on[t] = t /\ ~succeeded THEN CloseSessions(q, {t}) ELSE q

\* markTurnStarted, and the beginning of sendTurn.
StartTurn(t) ==
    LET x == on[t]
        lease == pool.lease[x]
    IN  /\ pc[t] = "leased"
        /\ \/ \* cancelled before start
              /\ lease.state = "cancelled"
              /\ Answer(t, "cancelled")
              /\ Finally(t, pool, FALSE)
              /\ UNCHANGED sdkVars
           \/ \* closed before start: there is no lease any more
              /\ lease = NoLease
              /\ Answer(t, "failed")
              /\ Finally(t, pool, FALSE)
              /\ UNCHANGED sdkVars
           \/ /\ lease.state = "admitted" /\ lease.task = t
              /\ pool' = [pool EXCEPT !.lease[x].state = "started"]
              /\ pc' = [pc EXCEPT ![t] = "prompt"]
              /\ gen' = [gen EXCEPT ![x] = t]
              /\ active' = [active EXCEPT ![x] = t]
              /\ cancelPending' = cancelPending \ {x}
              /\ UNCHANGED <<res, cancelledGen>>
        /\ UNCHANGED <<on, candidate, cancelled>>

\* Mutant: a late success of the SDK is accepted although it was cancelled.
OutcomeLate(t, resolved) ==
    IF resolved THEN "completed"
    ELSE IF cancelledGen[on[t]] = t THEN "cancelled" ELSE "failed"

\* Mutant: an abort is answered with a status the service does not know.
OutcomeUnmapped(t, resolved) ==
    IF cancelledGen[on[t]] = t THEN "aborted"
    ELSE IF resolved THEN "completed" ELSE "failed"

\* What sendTurn makes of the SDK's prompt, which resolved or was rejected
\* (an error, the turn's timeout).
Outcome(t, resolved) ==
    IF cancelledGen[on[t]] = t THEN "cancelled"
    ELSE IF resolved THEN "completed" ELSE "failed"

\* The prompt settles: the rest of sendTurn and of turn_auto.
Settle(t, resolved) ==
    LET x == on[t]
    IN  /\ pc[t] = "prompt"
        /\ Answer(t, Outcome(t, resolved))
        /\ Finally(t, pool, Outcome(t, resolved) = "completed")
        /\ IF gen[x] = t
           THEN /\ active' = [active EXCEPT ![x] = NoTurn]
                /\ cancelPending' = cancelPending \ {x}
           ELSE UNCHANGED <<active, cancelPending>>
        /\ UNCHANGED <<on, candidate, gen, cancelledGen, cancelled>>

-----------------------------------------------------------------------------
(* session.cancel                                                           *)

Acknowledge(t) == cancelled' = [cancelled EXCEPT ![t] = "acknowledged"]

\* cancelled: false
Decline(t) == cancelled' = [cancelled EXCEPT ![t] = "declined"]

\* The turn is in the SDK's hands: session.abort() marks its generation
\* before its first await, then the fallback timer is armed.
AbortActive(t, x) ==
    /\ active[x] = t
    /\ cancelledGen' = [cancelledGen EXCEPT ![x] = gen[x]]
    /\ cancelPending' = cancelPending \cup {x}
    /\ pool' = [pool EXCEPT !.cancelCleanup = @ \cup {x}]
    /\ Acknowledge(t)
    /\ UNCHANGED <<gen, active>>

\* Another turn, or none, is in the SDK's hands: abort() answers false.  When
\* a cancellation of the other turn is pending, its fallback is cleared.
AbortOther(t, x) ==
    /\ active[x] # t
    /\ pool' = IF x \in cancelPending
               THEN [pool EXCEPT !.cancelCleanup = @ \ {x}] ELSE pool
    /\ Decline(t)
    /\ UNCHANGED sdkVars

\* abortSession(Owner[t], t).  The service sends session.cancel once for a task,
\* when it cancels the row, be the task queued or running.
CancelTurn(t) ==
    LET s == Owner[t]
        x == pool.subagentMap[s]
    IN  /\ cancelled[t] = "none"
        /\ \/ \* the session is being created for this task, or for another
              /\ x = NoTurn
              /\ IF pool.creating[s] = t
                 THEN /\ pool' = [pool EXCEPT !.cancelledCreations = @ \cup {s}]
                      /\ Acknowledge(t)
                 ELSE UNCHANGED pool /\ Decline(t)
              /\ UNCHANGED sdkVars
           \/ \* a turn was admitted and has not started
              /\ x # NoTurn /\ pool.lease[x].state \in {"admitted", "cancelled"}
              /\ IF pool.lease[x].task = t
                 THEN /\ pool' = [pool EXCEPT !.lease[x].state = "cancelled"]
                      /\ Acknowledge(t)
                 ELSE UNCHANGED pool /\ Decline(t)
              /\ UNCHANGED sdkVars
           \/ /\ x # NoTurn /\ pool.lease[x].state \in {"none", "started"}
              /\ AbortActive(t, x) \/ AbortOther(t, x)
        /\ UNCHANGED turnVars

\* PENDING_CANCEL_GRACE_MS after the cancel.
CancelCleanup(x) ==
    /\ x \in pool.cancelCleanup
    /\ LET p == [pool EXCEPT !.cancelCleanup = @ \ {x}]
       IN  pool' = IF x \in cancelPending THEN CloseSessions(p, {x}) ELSE p
    /\ UNCHANGED <<turnVars, sdkVars, cancelled>>

-----------------------------------------------------------------------------
(* session.activate, session.prepare_hibernate and session.close, for the   *)
(* sessions that a response has named                                       *)

Known(x) == \E t \in Turns : res[t] = "completed" /\ on[t] = x

\* A session that is active already, or unknown, changes nothing.  The service
\* holds the subagent's lifecycle gate from turn_auto to activate, and the
\* pipe keeps their order, so no later turn is using the session.
ActivateSession(x) ==
    /\ Known(x) /\ x \in pool.pending \ pool.busy
    /\ pool' = [pool EXCEPT !.pending = @ \ {x}, !.agedPending = @ \ {x},
                            !.cancelCleanup = @ \ {x},
                            !.lru = <<x>> \o @]
    /\ UNCHANGED <<turnVars, sdkVars, cancelled>>

\* A session that is refused, or unknown, only sees expired reservations
\* released.
PrepareHibernate(x) ==
    LET p == ReleaseExpiredEvictions(pool)
    IN  /\ Known(x) /\ x \in pool.sessions
        /\ pool' = IF CanReserve(p, x)
                   THEN [p EXCEPT !.evicting = @ \cup {x}] ELSE p
        /\ UNCHANGED <<turnVars, sdkVars, cancelled>>

\* The close handler does not ask whether the session runs a turn.
CloseRpc(x) ==
    /\ Known(x) /\ x \in pool.sessions
    /\ pool' = CloseSessions(pool, {x})
    /\ UNCHANGED <<turnVars, sdkVars, cancelled>>

\* Time passes.
Age(x) ==
    /\ \/ /\ x \in pool.pending \ pool.agedPending
          /\ pool' = [pool EXCEPT !.agedPending = @ \cup {x}]
       \/ /\ x \in pool.evicting \ pool.agedEvictions
          /\ pool' = [pool EXCEPT !.agedEvictions = @ \cup {x}]
    /\ UNCHANGED <<turnVars, sdkVars, cancelled>>

-----------------------------------------------------------------------------
TurnStep(t) ==
    \/ Ensure(t)
    \/ Created(t)
    \/ CreateFails(t)
    \/ StartTurn(t)
    \/ \E resolved \in BOOLEAN : Settle(t, resolved)

SessionStep(x) ==
    \/ CancelCleanup(x)
    \/ ActivateSession(x)
    \/ PrepareHibernate(x)
    \/ CloseRpc(x)
    \/ Age(x)

Next ==
    \/ \E t \in Turns : TurnStep(t)
    \/ \E t \in Cancellable : CancelTurn(t)
    \/ \E x \in Turns : SessionStep(x)

Spec == Init /\ [][Next]_vars

\* Timers fire; the SDK need not settle anything, nor the service call again.
TimerSpec == Spec /\ \A x \in Turns : WF_vars(CancelCleanup(x))

-----------------------------------------------------------------------------
(* Properties                                                               *)

Leases == [task : SomeTurn, state : {"none", "admitted", "cancelled", "started"}]

Pools == [sessions : SUBSET Turns, subagentMap : [Subagents -> SomeTurn],
          lru : Seq(Turns), busy : SUBSET Turns, lease : [Turns -> Leases],
          pending : SUBSET Turns, creating : [Subagents -> SomeTurn],
          cancelledCreations : SUBSET Subagents, agedPending : SUBSET Turns,
          cancelCleanup : SUBSET Turns, evicting : SUBSET Turns,
          agedEvictions : SUBSET Turns]

TypeOK ==
    /\ pool \in Pools
    /\ pool.agedEvictions \subseteq pool.evicting
    /\ pc \in [Turns -> {"none", "creating", "done"} \cup Running]
    /\ on \in [Turns -> SomeTurn]
    /\ res \in [Turns -> {"none", "completed", "failed", "cancelled", "limit",
                          "all_busy"}]
    /\ candidate \in [Turns -> SomeTurn]
    /\ gen \in [Turns -> SomeTurn]
    /\ cancelledGen \in [Turns -> SomeTurn]
    /\ active \in [Turns -> SomeTurn]
    /\ cancelPending \subseteq Turns
    /\ cancelled \in [Turns -> {"none", "declined", "acknowledged"}]

\* Concurrent misses never oversubscribe the pool: the sessions in it and
\* those under construction fit into max_hot_sessions.
CapacityRespected ==
    Cardinality(pool.sessions) + Cardinality(Creating(pool)) <= MaxHot

\* A subagent has at most one session, which its map entry names, and none
\* while one is being created; no session is unreachable through the map.
OneSessionPerSubagent ==
    \A s \in Subagents :
        LET mine == {x \in pool.sessions : Owner[x] = s}
        IN  /\ mine = {pool.subagentMap[s]} \ {NoTurn}
            /\ pool.creating[s] # NoTurn => mine = {}

\* Every session is either pending or in the LRU list, once; so a session
\* whose binding is not committed is never offered for eviction.
PendingOrListed ==
    /\ pool.sessions = pool.pending \cup Elements(pool.lru)
    /\ pool.pending \cap Elements(pool.lru) = {}
    /\ \A i, j \in DOMAIN pool.lru : pool.lru[i] = pool.lru[j] => i = j

\* A session reserved for eviction runs no turn and is not pending, and a
\* turn never starts on a reserved session.
ReservedIsIdle ==
    /\ pool.evicting \subseteq Elements(pool.lru)
    /\ pool.evicting \cap pool.busy = {}

\* The busy markers are exactly the sessions in the pool that a handler is
\* using, and no two handlers use one session.
BusyMeansTurn ==
    /\ pool.busy = {on[t] : t \in {u \in Turns : pc[u] \in Running}}
                       \cap pool.sessions
    /\ \A t, u \in Turns :
          pc[t] \in Running /\ pc[u] \in Running /\ on[t] = on[u] => t = u

\* A turn whose cancellation was acknowledged never reports success, not even
\* when the SDK resolves late.
CancelledNeverCompletes ==
    \A t \in Turns : cancelled[t] = "acknowledged" => res[t] # "completed"

\* A turn reports a cancellation only when a cancel named it: cancels do not
\* leak to the next turn of the session or of the subagent.
CancelHitsItsOwnTurn ==
    \A t \in Turns : res[t] = "cancelled" => cancelled[t] = "acknowledged"

\* A turn in flight loses its session only through its own end, the fallback
\* of its own cancellation, or an explicit session.close.
TurnsKeepTheirSession ==
    [][\A x \in pool.busy \ pool'.sessions :
          \/ \E t \in Turns : on[t] = x /\ pc[t] \in Running /\ pc'[t] = "done"
          \/ x \in cancelPending /\ x \in pool.cancelCleanup
          \/ CloseRpc(x)]_vars

\* A cancelled session is not quarantined for ever, even when the SDK never
\* settles: it settles or is closed.
QuarantineEnds ==
    \A x \in Turns :
        x \in pool.sessions \cap cancelPending
            ~> x \notin pool.sessions \cap cancelPending

=============================================================================
