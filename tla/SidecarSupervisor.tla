-------------------------- MODULE SidecarSupervisor --------------------------
(***************************************************************************)
(* The supervisors of the sidecar processes, one for each provider's worker *)
(* (crates/busytok-subagent/src/sidecar/supervisor.rs), with the RPC client *)
(* they hand out (sidecar/client.rs), the sampling latch (resource.rs) and  *)
(* the pressure responder and gate (pressure.rs).                           *)
(*                                                                         *)
(* Callers of a supervisor are tasks (ensure_started, turn_auto, commit of  *)
(* the hot binding, then ensure_started and session.activate), its pressure *)
(* responder, which has the worker's name, and its supervision loops, which *)
(* are pairs of the worker and a generation.  An action is one critical     *)
(* section of the state mutex or one step on an atomic of the client.       *)
(*                                                                         *)
(* The processes a supervisor spawns are numbered from 1, and 0 is none.    *)
(* A session lives in one process and is named by it: bound[t] = p says     *)
(* that the hot binding of t's subagent names a session of process p.       *)
(*                                                                         *)
(* Clocks are abstracted: the sidecar may become idle, a crash may leave    *)
(* the rolling window, and a bounded wait may end, at any time.  A detached *)
(* respond() is polled at once.                                             *)
(***************************************************************************)
EXTENDS Naturals, FiniteSets

CONSTANTS
    Tasks,          \* turns, each of a subagent of its own
    Workers,        \* provider ids
    WorkerOf,       \* the worker a task's provider runs on
    NoOne,          \* holder of a free spawn_lock
    Levels,         \* the memory levels that occur
    MaxSpawns,      \* bound: processes a supervisor spawns
    MaxCrashes,     \* MAX_CRASHES_PER_WINDOW
    MaxAttempts     \* max_restart_attempts

ASSUME WorkerOfAssumption == WorkerOf \in [Tasks -> Workers]
ASSUME LevelsAssumption == Levels \subseteq {"normal", "pressure", "soft", "hard"}
ASSUME BoundsAssumption ==
    MaxSpawns \in Nat /\ MaxCrashes \in Nat \ {0} /\ MaxAttempts \in Nat

Processes == 1..MaxSpawns
Loops     == Workers \X Processes
Callers   == Tasks \cup Workers \cup Loops

ASSUME NamesAssumption ==
    /\ Tasks \cap Workers = {} /\ Tasks \cap Loops = {} /\ Workers \cap Loops = {}
    /\ NoOne \notin Callers

VARIABLES
    sup,        \* SupervisorState of a worker
    proc,       \* the processes of a worker and the admission to their clients
    spawned,    \* the number of processes it has spawned
    at,         \* progress of a caller
    on,         \* the process a caller has in hand
    lock,       \* holder of a worker's spawn_lock
    session,    \* the process in which a task's turn left a session
    bound,      \* the hot binding of a task's subagent
    paused,     \* PressureGate.is_paused, shared by all workers
    level       \* the memory in use, as the next sample will see it

procVars == <<proc, spawned>>
bindVars == <<session, bound>>
gateVars == <<paused, level>>
vars     == <<sup, procVars, at, on, lock, bindVars, gateVars>>

ProcStates == {"none",      \* not spawned yet, or gone
               "open",      \* running
               "closing",   \* running, its client admits no new call
               "asked"}     \* running, it was sent adapter.shutdown

Home(c) == IF c \in Tasks THEN WorkerOf[c] ELSE IF c \in Workers THEN c ELSE c[1]

Init ==
    /\ sup = [w \in Workers |->
                 [child |-> 0, client |-> 0, started |-> FALSE, generation |-> 0,
                  attempts |-> 0, recent |-> 0, idle |-> FALSE, latch |-> "normal"]]
    /\ proc = [w \in Workers |-> [p \in Processes |-> "none"]]
    /\ spawned = [w \in Workers |-> 0]
    /\ at = [c \in Callers |-> "none"]
    /\ on = [c \in Callers |-> 0]
    /\ lock = [w \in Workers |-> NoOne]
    /\ session = [t \in Tasks |-> 0]
    /\ bound = [t \in Tasks |-> 0]
    /\ paused = FALSE
    /\ level = [w \in Workers |-> "normal"]

Alive(w) == {p \in Processes : proc[w][p] # "none"}

Kill(w, p) ==
    proc' = [proc EXCEPT ![w] = [q \in Processes |-> IF q = p THEN "none" ELSE @[q]]]

Goto(c, here, there) == at[c] = here /\ at' = [at EXCEPT ![c] = there]

\* call_rpc's admission: a caller counts as active from fetch_add on.
Active(w, p) ==
    {c \in Tasks \cup Workers :
        Home(c) = w /\ on[c] = p /\ at[c] \in {"recheck", "call"}}

Running(w) == sup[w].client # 0 /\ sup[w].child # 0

\* reconcile_crash and reconcile_shutdown release the hot bindings of the
\* harness, and every worker has the same harness.
ReleaseBindings == bound' = [t \in Tasks |-> 0]

\* A caller's ensure_started or call failed: the task fails, or, when it was
\* activating its session, its binding is rolled back; the responder goes on
\* to shut the sidecar down.
CallFailed(c) ==
    /\ at' = [at EXCEPT ![c] = IF c \in Workers THEN "stop"
                               ELSE IF session[c] = 0 THEN "failed" ELSE "done"]
    /\ bound' = [t \in Tasks |-> IF t = c /\ session[t] # 0 THEN 0 ELSE bound[t]]
    /\ on' = [on EXCEPT ![c] = 0]
    /\ UNCHANGED session

-----------------------------------------------------------------------------
(* ensure_started and spawn_internal                                        *)

\* A task passes the pressure gate, in delegate or in the dispatcher.
Begin(t) ==
    /\ ~paused
    /\ Goto(t, "none", "ensure")
    /\ UNCHANGED <<sup, procVars, on, lock, bindVars, gateVars>>

EnsureStarted(c) ==
    /\ Goto(c, "ensure", IF Running(Home(c)) THEN "admit" ELSE "spawn")
    /\ UNCHANGED <<sup, procVars, on, lock, bindVars, gateVars>>

\* The crashes in the rolling window that are left after pruning it are within
\* the cap, and so are the restart attempts.
MaySpawn(w, recent) == recent < MaxCrashes /\ sup[w].attempts <= MaxAttempts

\* Mutant: no second look at the state under the spawn lock.
SpawnLockOnce(c, recent) ==
    LET w == Home(c)
    IN  /\ at[c] = "spawn" /\ lock[w] = NoOne /\ recent <= sup[w].recent
        /\ sup' = [sup EXCEPT ![w].recent = recent]
        /\ IF MaySpawn(w, recent)
           THEN /\ Goto(c, "spawn", "exec")
                /\ lock' = [lock EXCEPT ![w] = c]
                /\ UNCHANGED <<on, bindVars>>
           ELSE CallFailed(c) /\ UNCHANGED lock
        /\ UNCHANGED <<procVars, gateVars>>

\* Somebody else has spawned meanwhile: the lock is dropped again.
SpawnedMeanwhile(c) ==
    /\ lock[Home(c)] = NoOne /\ Running(Home(c))
    /\ Goto(c, "spawn", "admit")
    /\ UNCHANGED <<sup, procVars, on, lock, bindVars, gateVars>>

SpawnLock(c, recent) ==
    LET w == Home(c)
    IN  /\ at[c] = "spawn" /\ lock[w] = NoOne /\ ~Running(w)
        /\ recent <= sup[w].recent
        /\ sup' = [sup EXCEPT ![w].recent = recent]
        /\ IF MaySpawn(w, recent)
           THEN /\ Goto(c, "spawn", "exec")
                /\ lock' = [lock EXCEPT ![w] = c]
                /\ UNCHANGED <<on, bindVars>>
           ELSE CallFailed(c) /\ UNCHANGED lock
        /\ UNCHANGED <<procVars, gateVars>>

SpawnProcess(c) ==
    LET w == Home(c)
        p == spawned[w] + 1
    IN  /\ p \in Processes
        /\ Goto(c, "exec", "handshake")
        /\ on' = [on EXCEPT ![c] = p]
        /\ spawned' = [spawned EXCEPT ![w] = p]
        /\ proc' = [proc EXCEPT ![w][p] = "open"]
        /\ UNCHANGED <<sup, lock, bindVars, gateVars>>

\* The process cannot be started, or adapter.initialize fails: kill_on_drop
\* ends the process with its handle.
SpawnFails(c) ==
    /\ at[c] \in {"exec", "handshake"}
    /\ CallFailed(c)
    /\ Kill(Home(c), on[c])
    /\ lock' = [lock EXCEPT ![Home(c)] = NoOne]
    /\ UNCHANGED <<sup, spawned, gateVars>>

\* Child and client are installed; a handle that is overwritten is dropped,
\* and its process killed.  A fresh process has little memory of its own.
Install(c) ==
    LET w == Home(c)
        s == sup[w]
        g == IF s.started THEN s.generation ELSE s.generation + 1
    IN  /\ at[c] = "handshake" /\ on[c] \in Alive(w)
        /\ sup' = [sup EXCEPT ![w] = [s EXCEPT !.child = on[c], !.client = on[c],
                                               !.idle = FALSE, !.attempts = 0,
                                               !.started = TRUE, !.generation = g]]
        /\ at' = [x \in Callers |->
                     IF x = c THEN "admit"
                     ELSE IF ~s.started /\ x = <<w, g>> THEN "watch" ELSE at[x]]
        /\ Kill(w, s.child)
        /\ on' = [on EXCEPT ![c] = 0]
        /\ lock' = [lock EXCEPT ![w] = NoOne]
        /\ level' = [level EXCEPT ![w] = IF @ \in {"soft", "hard"} THEN "normal" ELSE @]
        /\ UNCHANGED <<spawned, bindVars, paused>>

-----------------------------------------------------------------------------
(* call_rpc and the admission of the RPC client                             *)

\* call_rpc bumps last_activity and clones the client; begin_call's first
\* look at the flags.
BeginCall(c) ==
    LET w == Home(c)
        p == sup[w].client
    IN  /\ at[c] = "admit"
        /\ sup' = [sup EXCEPT ![w].idle = FALSE]
        /\ IF p # 0 /\ proc[w][p] = "open"
           THEN /\ Goto(c, "admit", "count")
                /\ on' = [on EXCEPT ![c] = p]
                /\ UNCHANGED bindVars
           ELSE CallFailed(c)
        /\ UNCHANGED <<procVars, lock, gateVars>>

CountCall(c) ==
    /\ Goto(c, "count", "recheck")
    /\ UNCHANGED <<sup, procVars, on, lock, bindVars, gateVars>>

\* Mutant: begin_call does not look at the flags again after counting itself.
AdmitUnchecked(c) ==
    /\ Goto(c, "recheck", "call")
    /\ UNCHANGED <<sup, procVars, on, lock, bindVars, gateVars>>

AdmitCall(c) ==
    /\ at[c] = "recheck"
    /\ IF proc[Home(c)][on[c]] = "open"
       THEN Goto(c, "recheck", "call") /\ UNCHANGED <<on, bindVars>>
       ELSE CallFailed(c)
    /\ UNCHANGED <<sup, procVars, lock, gateVars>>

\* The answer arrives.  A turn leaves a session in the process; activate finds
\* the session only if this is still its process.
CallReturns(c) ==
    /\ at[c] = "call" /\ on[c] \in Alive(Home(c))
    /\ \/ /\ c \in Workers
          /\ Goto(c, "call", "stop")
          /\ UNCHANGED session
       \/ /\ c \in Tasks /\ session[c] = 0
          /\ Goto(c, "call", "commit")
          /\ session' = [session EXCEPT ![c] = on[c]]
       \/ /\ c \in Tasks /\ session[c] = on[c]
          /\ Goto(c, "call", "done")
          /\ UNCHANGED session
    /\ on' = [on EXCEPT ![c] = 0]
    /\ UNCHANGED <<sup, procVars, lock, bound, gateVars>>

\* The process is gone, the call times out, the sidecar answers with an error
\* (SESSION_NOT_FOUND among them), or the call is dropped.
CallEnds(c) ==
    /\ at[c] = "call"
    /\ CallFailed(c)
    /\ UNCHANGED <<sup, procVars, lock, gateVars>>

\* commit_hot_binding_and_status, then on to activate.
CommitBinding(t) ==
    /\ Goto(t, "commit", "ensure")
    /\ bound' = [bound EXCEPT ![t] = session[t]]
    /\ UNCHANGED <<sup, procVars, on, lock, session, gateVars>>

-----------------------------------------------------------------------------
(* shutdown_internal, by the responder or by a loop that found the sidecar  *)
(* idle                                                                     *)

StopLock(c) ==
    LET w == Home(c)
    IN  /\ Goto(c, "stop", IF sup[w].client = 0 THEN "take" ELSE "close")
        /\ lock[w] = NoOne
        /\ lock' = [lock EXCEPT ![w] = c]
        /\ on' = [on EXCEPT ![c] = sup[w].client]
        /\ sup' = [sup EXCEPT ![w].client = 0]
        /\ UNCHANGED <<procVars, bindVars, gateVars>>

CloseForShutdown(c) ==
    /\ Goto(c, "close", "drain")
    /\ proc' = [proc EXCEPT ![Home(c)][on[c]] = IF @ = "none" THEN @ ELSE "closing"]
    /\ UNCHANGED <<sup, spawned, on, lock, bindVars, gateVars>>

\* close_for_shutdown returned in time: prepare_hibernate, adapter.shutdown.
Drained(c) ==
    /\ Active(Home(c), on[c]) = {}
    /\ Goto(c, "drain", "take")
    /\ proc' = [proc EXCEPT ![Home(c)][on[c]] = IF @ = "none" THEN @ ELSE "asked"]
    /\ UNCHANGED <<sup, spawned, on, lock, bindVars, gateVars>>

\* Mutant: shutdown waits for the calls in flight without a time limit.
NeverGivesUp(c) == FALSE /\ UNCHANGED vars

DrainTimeout(c) ==
    /\ Active(Home(c), on[c]) # {}
    /\ Goto(c, "drain", "take")
    /\ UNCHANGED <<sup, procVars, on, lock, bindVars, gateVars>>

StopTake(c) ==
    LET w == Home(c)
    IN  /\ Goto(c, "take", "kill")
        /\ on' = [on EXCEPT ![c] = sup[w].child]
        /\ sup' = [sup EXCEPT ![w].child = 0, ![w].started = FALSE]
        /\ UNCHANGED <<procVars, lock, bindVars, gateVars>>

\* It exits within the grace period, or is killed.
StopKill(c) ==
    /\ Goto(c, "kill", "release")
    /\ Kill(Home(c), on[c])
    /\ on' = [on EXCEPT ![c] = 0]
    /\ UNCHANGED <<sup, spawned, lock, bindVars, gateVars>>

\* Mutant: a graceful shutdown leaves the hot bindings alone.
StopKeepsBindings(c) ==
    /\ Goto(c, "release", IF c \in Workers THEN "none" ELSE "ended")
    /\ lock' = [lock EXCEPT ![Home(c)] = NoOne]
    /\ paused' = (paused /\ c \notin Workers)
    /\ UNCHANGED <<bound, sup, procVars, on, session, level>>

\* reconcile_shutdown; the responder then clears the gate.
StopRelease(c) ==
    /\ Goto(c, "release", IF c \in Workers THEN "none" ELSE "ended")
    /\ ReleaseBindings
    /\ lock' = [lock EXCEPT ![Home(c)] = NoOne]
    /\ paused' = (paused /\ c \notin Workers)
    /\ UNCHANGED <<sup, procVars, on, session, level>>

-----------------------------------------------------------------------------
(* supervision_loop, in the order of its checks                             *)

LoopStale(w, g) ==
    /\ sup[w].generation # g
    /\ Goto(<<w, g>>, "watch", "ended")
    /\ UNCHANGED <<sup, procVars, on, lock, bindVars, gateVars>>

Current(w, g) == at[<<w, g>>] = "watch" /\ sup[w].generation = g

LoopChildTaken(w, g) ==
    /\ Current(w, g) /\ sup[w].child = 0
    /\ Goto(<<w, g>>, "watch", "ended")
    /\ sup' = [sup EXCEPT ![w].started = FALSE]
    /\ UNCHANGED <<procVars, on, lock, bindVars, gateVars>>

\* Mutant: supervision_started stays set when the sidecar crashed.
LoopCrashStarted(w, g) ==
    /\ Current(w, g) /\ sup[w].child # 0 /\ sup[w].child \notin Alive(w)
    /\ Goto(<<w, g>>, "watch", "reconcile")
    /\ sup' = [sup EXCEPT ![w].client = 0, ![w].child = 0,
                          ![w].attempts = @ + 1, ![w].recent = @ + 1]
    /\ UNCHANGED <<procVars, on, lock, bindVars, gateVars>>

LoopCrash(w, g) ==
    /\ Current(w, g) /\ sup[w].child # 0 /\ sup[w].child \notin Alive(w)
    /\ Goto(<<w, g>>, "watch", "reconcile")
    /\ sup' = [sup EXCEPT ![w].client = 0, ![w].child = 0, ![w].started = FALSE,
                          ![w].attempts = @ + 1, ![w].recent = @ + 1]
    /\ UNCHANGED <<procVars, on, lock, bindVars, gateVars>>

\* reconcile_crash, after the state lock is dropped.
LoopReconcile(w, g) ==
    /\ Goto(<<w, g>>, "reconcile", "ended")
    /\ ReleaseBindings
    /\ UNCHANGED <<sup, procVars, on, lock, session, gateVars>>

LoopIdle(w, g) ==
    /\ Current(w, g) /\ sup[w].child \in Alive(w) /\ sup[w].idle
    /\ Goto(<<w, g>>, "watch", "stop")
    /\ sup' = [sup EXCEPT ![w].started = FALSE]
    /\ UNCHANGED <<procVars, on, lock, bindVars, gateVars>>

LoopSamples(w, g) ==
    /\ Current(w, g) /\ sup[w].child \in Alive(w) /\ ~sup[w].idle
    /\ Goto(<<w, g>>, "watch", "sample")
    /\ on' = [on EXCEPT ![<<w, g>>] = sup[w].child]
    /\ UNCHANGED <<sup, procVars, lock, bindVars, gateVars>>

\* Mutant: the level itself is latched.
LatchRaw(l) == l

Latch(l) == CASE l = "hard" -> "limit"
              [] l \in {"soft", "pressure"} -> "pressure"
              [] l = "normal" -> "normal"

\* What maybe_sample_resources asks the responder to do, if anything.
Action(old, l) ==
    LET new == Latch(l)
    IN  CASE new = "normal" -> IF old = "normal" THEN "none" ELSE "resume"
          [] new = old \/ old = "limit" -> "none"       \* no transition event
          [] new # old /\ old # "limit" /\ l = "hard" -> "force_kill"
          [] new # old /\ old # "limit" /\ l = "soft" -> "graceful_restart"
          [] new # old /\ old # "limit" /\ l = "pressure" -> "pause"

-----------------------------------------------------------------------------
(* PressureResponder.respond                                                *)

\* The first step of an action; the action is dropped when another one of this
\* responder is in flight.
Respond(w, g, action) ==
    LET dropped == action = "none" \/ at[w] # "none"
    IN  /\ paused' = IF dropped THEN paused ELSE action # "resume"
        /\ at' = [at EXCEPT ![<<w, g>>] = "watch",
                            ![w] = CASE dropped \/ action = "resume" -> @
                                     [] ~dropped /\ action = "pause" -> "evict"
                                     [] ~dropped /\ action = "graceful_restart" -> "ensure"
                                     [] ~dropped /\ action = "force_kill" -> "force"]

\* The level a sample of process p finds: there is no RSS of a dead process.
Seen(w, p) == IF p \in Alive(w) \/ level[w] = "pressure" THEN level[w] ELSE "normal"

\* After adapter.health the loop holds no lock, and has its process in hand;
\* it latches and responds without another look at the generation.
Sample(w, g) ==
    LET l == Seen(w, on[<<w, g>>])
    IN  /\ at[<<w, g>>] = "sample"
        /\ sup' = [sup EXCEPT ![w].latch = Latch(l)]
        /\ Respond(w, g, Action(sup[w].latch, l))
        /\ on' = [on EXCEPT ![<<w, g>>] = 0]
        /\ UNCHANGED <<procVars, lock, bindVars, level>>

\* The try_lock on the state fails: this tick is skipped.
SampleSkipped(w, g) ==
    /\ Goto(<<w, g>>, "sample", "watch")
    /\ on' = [on EXCEPT ![<<w, g>>] = 0]
    /\ UNCHANGED <<sup, procVars, lock, bindVars, gateVars>>

\* evict_lru hibernates one session at most, of any worker.
EvictLru(w, S) ==
    /\ Cardinality(S) <= 1 /\ \A t \in S : at[t] = "done" /\ bound[t] # 0
    /\ Goto(w, "evict", "none")
    /\ bound' = [t \in Tasks |-> IF t \in S THEN 0 ELSE bound[t]]
    /\ UNCHANGED <<sup, procVars, on, lock, session, gateVars>>

\* force_kill takes the child without the spawn lock.
KillTake(w) ==
    /\ Goto(w, "force", "slay")
    /\ on' = [on EXCEPT ![w] = sup[w].child]
    /\ sup' = [sup EXCEPT ![w].child = 0]
    /\ UNCHANGED <<procVars, lock, bindVars, gateVars>>

KillProcess(w) ==
    /\ Goto(w, "slay", "bury")
    /\ Kill(w, on[w])
    /\ on' = [on EXCEPT ![w] = 0]
    /\ UNCHANGED <<sup, spawned, lock, bindVars, gateVars>>

\* reconcile_crash; the gate is cleared after the kill.
KillReconcile(w) ==
    /\ Goto(w, "bury", "none")
    /\ ReleaseBindings
    /\ paused' = FALSE
    /\ UNCHANGED <<sup, procVars, on, lock, session, level>>

-----------------------------------------------------------------------------
(* The environment                                                          *)

\* A process exits: it crashes, or does what adapter.shutdown asked for.
ProcessExits(w, p) ==
    /\ p \in Alive(w)
    /\ Kill(w, p)
    /\ UNCHANGED <<sup, spawned, at, on, lock, bindVars, gateVars>>

\* last_activity is longer ago than idle_exit_seconds.
BecomesIdle(w) ==
    /\ sup[w].child # 0 /\ ~sup[w].idle
    /\ sup' = [sup EXCEPT ![w].idle = TRUE]
    /\ UNCHANGED <<procVars, at, on, lock, bindVars, gateVars>>

MemoryChanges(w, l) ==
    /\ level[w] # l
    /\ level' = [level EXCEPT ![w] = l]
    /\ UNCHANGED <<sup, procVars, at, on, lock, bindVars, paused>>

-----------------------------------------------------------------------------
Sending(c) ==
    \/ EnsureStarted(c) \/ SpawnedMeanwhile(c)
    \/ \E recent \in 0..MaxSpawns : SpawnLock(c, recent)
    \/ SpawnProcess(c) \/ SpawnFails(c) \/ Install(c)
    \/ BeginCall(c) \/ CountCall(c) \/ AdmitCall(c)

Call(c) == Sending(c) \/ CallReturns(c) \/ CallEnds(c)

Stop(c) ==
    \/ StopLock(c) \/ CloseForShutdown(c) \/ Drained(c) \/ DrainTimeout(c)
    \/ StopTake(c) \/ StopKill(c) \/ StopRelease(c)

Loop(w, g) ==
    \/ LoopStale(w, g) \/ LoopChildTaken(w, g) \/ LoopCrash(w, g)
    \/ LoopReconcile(w, g) \/ LoopIdle(w, g)
    \/ LoopSamples(w, g) \/ Sample(w, g) \/ SampleSkipped(w, g)

Responder(w) ==
    \/ KillTake(w) \/ KillProcess(w) \/ KillReconcile(w)
    \/ \E S \in SUBSET Tasks : EvictLru(w, S)

Environment(w) ==
    \/ \E p \in Processes : ProcessExits(w, p)
    \/ BecomesIdle(w)
    \/ \E l \in Levels : MemoryChanges(w, l)

Next ==
    \/ \E t \in Tasks : Begin(t) \/ CommitBinding(t)
    \/ \E c \in Tasks \cup Workers : Call(c)
    \/ \E c \in Workers \cup Loops : Stop(c)
    \/ \E w \in Workers, g \in Processes : Loop(w, g)
    \/ \E w \in Workers : Responder(w) \/ Environment(w)

Spec == Init /\ [][Next]_vars

-----------------------------------------------------------------------------
(* Fairness: tokio polls its futures again; the supervision loop polls and  *)
(* samples.  Processes, idleness, memory and new tasks do as they please.   *)
(* The spawn lock is a fair mutex, but as the number of spawns is bounded,  *)
(* nobody can be passed over for ever, and weak fairness of the callers is  *)
(* enough.                                                                  *)

\* Nothing is assumed of the answers: calls in flight may hang.
HangSpec ==
    /\ Spec
    /\ \A t \in Tasks : WF_vars(Sending(t) \/ CommitBinding(t))
    /\ \A w \in Workers : WF_vars(Sending(w) \/ Stop(w) \/ Responder(w))
    /\ \A l \in Loops : WF_vars(Stop(l))

\* Every call has a timeout, and the loops run.
LiveSpec ==
    /\ HangSpec
    /\ \A c \in Tasks \cup Workers : WF_vars(CallReturns(c) \/ CallEnds(c))
    /\ \A w \in Workers, g \in Processes :
          /\ WF_vars(LoopStale(w, g) \/ LoopChildTaken(w, g) \/ LoopCrash(w, g))
          /\ WF_vars(LoopReconcile(w, g) \/ LoopIdle(w, g) \/ LoopSamples(w, g))
          /\ SF_vars(Sample(w, g))

-----------------------------------------------------------------------------
(* Properties                                                               *)

States == {"none", "ensure", "spawn", "exec", "handshake", "admit", "count",
           "recheck", "call", "commit", "done", "failed", "stop", "close",
           "drain", "take", "kill", "release", "evict", "force", "slay", "bury",
           "watch", "sample", "reconcile", "ended"}

\* A process, or 0 for none.
Handles == 0..MaxSpawns

Sups == [child : Handles, client : Handles, started : BOOLEAN,
         generation : Handles, attempts : Nat, recent : Nat, idle : BOOLEAN,
         latch : {"normal", "pressure", "limit"}]

TypeOK ==
    /\ sup \in [Workers -> Sups]
    /\ proc \in [Workers -> [Processes -> ProcStates]]
    /\ spawned \in [Workers -> Handles]
    /\ at \in [Callers -> States]
    /\ on \in [Callers -> Handles]
    /\ lock \in [Workers -> Callers \cup {NoOne}]
    /\ session \in [Tasks -> Handles]
    /\ bound \in [Tasks -> Handles]
    /\ paused \in BOOLEAN
    /\ level \in [Workers -> {"normal", "pressure", "soft", "hard"}]

InState(w, S) == {c \in Callers : Home(c) = w /\ at[c] \in S}

\* Design 12.2, "exactly 1 process when active": of one worker, besides those
\* about to be killed, at most one process runs, and it is the installed child
\* or is being started while none is usable.  None is left to itself.
OneSidecar ==
    \A w \in Workers :
        LET doomed   == {on[c] : c \in InState(w, {"kill", "slay"})}
            starting == {on[c] : c \in InState(w, {"handshake"})}
        IN  /\ Alive(w) \subseteq doomed \cup starting \cup {sup[w].child}
            /\ Cardinality(Alive(w) \ doomed) <= 1
            /\ InState(w, {"exec", "handshake"}) # {} => ~Running(w)

\* A sidecar never runs unattended: while a child is installed, the loop of the
\* current generation watches it, or a loop that found it idle is stopping it.
Supervised ==
    \A w \in Workers :
        sup[w].child # 0 =>
            \E g \in Processes :
                \/ at[<<w, g>>] \in {"watch", "sample"} /\ sup[w].generation = g
                \/ at[<<w, g>>] \in {"stop", "close", "drain", "take"}

\* "Never send adapter.shutdown while a turn is still active": whatever call
\* slips through the closing admission, the sidecar was not asked to stop.
NoCallAfterShutdown ==
    \A c \in Tasks \cup Workers :
        at[c] = "call" => proc[Home(c)][on[c]] # "asked"

\* A hot binding of a process that is gone does not stay: the loop still has
\* the process to find dead, somebody is about to reconcile, or the task that
\* committed it has yet to learn that its session cannot be activated.
NoGhostBinding ==
    \A t \in Tasks :
        LET w == WorkerOf[t]
        IN  bound[t] # 0 /\ bound[t] \notin Alive(w)
            => \/ sup[w].child = bound[t]
               \/ InState(w, {"kill", "release", "slay", "bury", "reconcile"}) # {}
               \/ at[t] # "done"

\* Nobody waits for ever for a sidecar, whoever holds the spawn lock, however
\* often the sidecar dies, and although the turns of others hang: a task that
\* passed the gate ends, or gets to its own call.
TasksProceed ==
    \A t \in Tasks : at[t] # "none" ~> at[t] \in {"call", "done", "failed"}

\* "clear the gate on recovery so the queue unpauses": once memory is back to
\* normal for good, the gate opens.
GateReopens ==
    <>[](\A w \in Workers : level[w] = "normal") => []<>~paused

\* A worker's hot bindings are not touched by what happens to another worker:
\* "had a session on this sidecar".
OtherWorkersKeepSessions ==
    [][\A w \in Workers, g \in Processes :
          LoopReconcile(w, g) =>
              \A t \in Tasks : WorkerOf[t] # w => bound'[t] = bound[t]]_vars

=============================================================================
