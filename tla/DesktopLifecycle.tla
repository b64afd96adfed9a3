-------------------------- MODULE DesktopLifecycle --------------------------
(***************************************************************************)
(* How the macOS desktop host keeps the background service running and     *)
(* stops it on quit: the lifecycle coordinator, the launchd ladder behind  *)
(* it, the persisted session suppression, the start-up task, the clients   *)
(* that connect over the control socket, and the quit pipeline.            *)
(*                                                                         *)
(* Callers of ensure_running are threads of one host process.  The         *)
(* coordinator's mutex covers only the decision (Ask) and the bookkeeping  *)
(* (Finish); the launchctl commands between them interleave with every     *)
(* other thread and with the quit pipeline.                                *)
(***************************************************************************)
EXTENDS Naturals, FiniteSets

CONSTANTS
    Clients,        \* the subscription bridge and the invoked commands
    Bridge,         \* the client that never stops trying
    NoOne,          \* nobody holds the bootstrap lock
    MaxLaunches,    \* bound: times the host is started
    MaxAttempts,    \* BOOTSTRAP_MAX_ATTEMPTS
    MaxFaults,      \* bound: crashes, failed commands, time-outs, reboots
    MaxRequests     \* bound: commands and reopens of the user

ASSUME BridgeAssumption == Bridge \in Clients /\ NoOne \notin Clients
ASSUME BoundAssumption ==
    /\ MaxLaunches \in Nat /\ MaxAttempts \in Nat \ {0} /\ MaxFaults \in Nat
    /\ MaxRequests \in Nat

Callers == Clients \cup {"bootstrap", "user", "reopen"}

VARIABLES
    host,       \* the desktop process is "up" or "off"
    quit,       \* how far the quit pipeline has come
    phase,      \* LifecycleState.phase
    inFlight,   \* LifecycleState.ensure_in_flight
    disk,       \* desktop_lifecycle.toml: boot time of the suppression, 0 for none
    boot,       \* kern.boottime of this session
    plist,      \* the bundle the managed plist on disk points at
    job,        \* the bundle launchd has the service registered to
    proc,       \* the build of the running service process
    serving,    \* it accepts connections
    files,      \* the readiness marker and the socket exist on disk
    pc,         \* where each caller is
    stage,      \* LifecycleCause of the start-up task's ensure_running
    tries,      \* attempts of the start-up task
    ran,        \* the snapshot of the ladder in flight said "running"
    lock,       \* holder of service_recovery::bootstrap_lock
    raced,      \* history: a ladder was in flight when quit stopped the service
    launches, faults, requests

coord == <<phase, inFlight>>
launchd == <<plist, job, proc, serving, files>>
threads == <<pc, stage, tries, ran, lock>>
bounds == <<launches, faults, requests>>
vars == <<host, quit, phase, inFlight, disk, boot, plist, job, proc, serving, files,
          pc, stage, tries, ran, lock, raced, launches, faults, requests>>

Builds == {"none", "old", "current"}
LadderSteps == {"print", "probe", "socket", "bootout", "load", "fresh", "reload",
                "kickstart", "wait", "done", "failed"}
Steps == LadderSteps \cup {"idle", "restore", "clear", "lock", "ask",
                           "reconnect", "live"}

\* Callers that passed the coordinator's decision and run the ladder.
Ladder == {c \in Callers : pc[c] \in LadderSteps}

\* A caller counted by ensure_in_flight was dropped before it could count down.
Leaked == inFlight > Cardinality(Ladder)

\* The LifecycleCause a caller gives: of all callers only a reopen, and the
\* start-up task of a launch after a quit, clear the suppression.
CauseOf(c) ==
    CASE c \in Clients -> "cli_invocation"
      [] c = "user" -> "settings_toggle"
      [] c = "reopen" -> "manual_reopen"
      [] c = "bootstrap" -> stage
ClearsSuppression(c) == CauseOf(c) = "manual_reopen"

\* An earlier build may be installed and running, its plist pointing at this
\* bundle's path or at another one.
Init ==
    /\ host = "off" /\ quit = "no"
    /\ phase = "active" /\ inFlight = 0
    /\ disk = 0 /\ boot = 1
    /\ plist \in Builds /\ job = plist
    /\ proc = IF job = "none" THEN "none" ELSE "old"
    /\ serving = (proc = "old") /\ files = serving
    /\ pc = [c \in Callers |-> "idle"]
    /\ stage = "startup" /\ tries = 0
    /\ ran = FALSE /\ lock = NoOne
    /\ raced = FALSE /\ launches = 0 /\ faults = 0 /\ requests = 0

Fault == faults < MaxFaults /\ faults' = faults + 1
Request == requests < MaxRequests /\ requests' = requests + 1
Goto(c, p) == pc' = [pc EXCEPT ![c] = p]

-----------------------------------------------------------------------------
(* launchd and the service process.                                        *)

\* RunAtLoad and KeepAlive: a loaded job is started, and started again.
Spawn ==
    /\ job # "none" /\ proc = "none"
    /\ proc' = job
    /\ UNCHANGED <<host, quit, coord, disk, boot, plist, job, serving, files, threads,
                   raced, bounds>>

\* ServiceApp::boot removes a marker that an earlier process left behind.
ClearMarker ==
    /\ proc # "none" /\ ~serving /\ files
    /\ files' = FALSE
    /\ UNCHANGED <<host, quit, coord, disk, boot, plist, job, proc, serving, threads,
                   raced, bounds>>

\* It binds its socket and writes its marker.
Serve ==
    /\ proc # "none" /\ ~serving /\ ~files
    /\ serving' = TRUE /\ files' = TRUE
    /\ UNCHANGED <<host, quit, coord, disk, boot, plist, job, proc, threads, raced, bounds>>

\* A crash leaves the marker and the socket file behind.
ServiceCrash ==
    /\ Fault /\ proc # "none"
    /\ proc' = "none" /\ serving' = FALSE
    /\ UNCHANGED <<host, quit, coord, disk, boot, plist, job, files, threads, raced, launches, requests>>

\* launchctl bootout of a loaded job: the process is stopped, and removes its
\* own marker if it has come to serve.
Unload ==
    /\ job' = "none" /\ proc' = "none" /\ serving' = FALSE
    /\ files' = (files /\ ~serving)
    /\ UNCHANGED plist

-----------------------------------------------------------------------------
(* LifecycleCoordinator::ensure_running and the ladder it runs.            *)

\* Mutant: the start-up task counts its attempts from zero.
ResumeOnceMore(c, result) ==
    /\ Goto(c, IF c = "bootstrap" /\ ~result THEN "ask" ELSE "idle")
    /\ tries' = IF c = "bootstrap" /\ ~result /\ tries < MaxAttempts THEN tries + 1 ELSE 0
    /\ UNCHANGED <<stage, lock>>

\* Mutant: the bootstrap lock is not released on return.
ResumeKeepsLock(c, result) ==
    /\ Goto(c, IF c \in Clients /\ result THEN "reconnect" ELSE "idle")
    /\ stage' = "startup" /\ tries' = 0 /\ UNCHANGED lock

\* What a caller does with the result.  A client releases the bootstrap lock
\* and connects once more, or gives up this attempt; the start-up task makes a
\* repair pass after a success and a bounded number of attempts after errors;
\* the others ignore it.
Resume(c, result) ==
    \/ /\ c \in Clients
       /\ lock' = NoOne
       /\ Goto(c, IF result THEN "reconnect" ELSE "idle")
       /\ UNCHANGED <<stage, tries>>
    \/ /\ c \in {"user", "reopen"}
       /\ Goto(c, "idle")
       /\ UNCHANGED <<stage, tries, lock>>
    \/ /\ c = "bootstrap" /\ stage # "repair" /\ result
       /\ Goto(c, "ask") /\ stage' = "repair" /\ tries' = 0
       /\ UNCHANGED lock
    \/ /\ c = "bootstrap" /\ stage # "repair" /\ ~result /\ tries + 1 < MaxAttempts
       /\ Goto(c, "ask") /\ tries' = tries + 1
       /\ UNCHANGED <<stage, lock>>
    \/ /\ c = "bootstrap"
       /\ (stage = "repair" \/ (~result /\ tries + 1 = MaxAttempts))
       /\ Goto(c, "idle") /\ stage' = "startup" /\ tries' = 0
       /\ UNCHANGED lock

\* Mutant: quit is left to the suppression.
ProceedsUnlessSuppressed(c) == (phase = "active" \/ ClearsSuppression(c)) /\ inFlight = 0

\* The decision of ensure_running, under the mutex: quit wins, suppression
\* holds unless the cause clears it, a second ensure is coalesced.
Proceeds(c) ==
    /\ quit = "no"
    /\ phase = "active" \/ ClearsSuppression(c)
    /\ inFlight = 0

\* Who may not proceed is told the service is already running.
Ask(c) ==
    /\ pc[c] = "ask"
    /\ phase' = IF quit = "no" /\ ClearsSuppression(c) THEN "active" ELSE phase
    /\ \/ /\ Proceeds(c)
          /\ inFlight' = inFlight + 1
          /\ Goto(c, "print")
          /\ UNCHANGED <<stage, tries, lock>>
       \/ /\ ~Proceeds(c)
          /\ Resume(c, TRUE)
          /\ UNCHANGED inFlight
    /\ UNCHANGED <<host, quit, disk, boot, launchd, ran, raced, bounds>>

\* A step that moves one caller and nothing else.
Step(c, from, to) ==
    /\ pc[c] = from /\ Goto(c, to)
    /\ UNCHANGED <<host, quit, coord, disk, boot, launchd, stage, tries, ran, lock,
                   raced, bounds>>

\* A launchctl command took effect, and the ladder goes on.
Did(c, to) ==
    /\ Goto(c, to)
    /\ UNCHANGED <<host, quit, coord, disk, boot, stage, tries, ran, lock, raced, bounds>>

\* The ladder ends with a result and no further effect.
Return(c, result) ==
    /\ Goto(c, result) /\ ran' = FALSE
    /\ UNCHANGED <<host, quit, coord, disk, boot, launchd, stage, tries, lock, raced,
                   launches, requests>>

\* launchctl print: no job, a job of another bundle, or a job to examine.  The
\* path of the live process may or may not give an old build away.
LaunchctlPrint(c) ==
    /\ pc[c] = "print"
    /\ ran' = (proc # "none")
    /\ \/ job = "none" /\ Goto(c, "load")
       \/ job = "old" /\ Goto(c, "bootout")
       \/ job = "current" /\ proc = "old" /\ Goto(c, "bootout")
       \/ job = "current" /\ Goto(c, "probe")
    /\ UNCHANGED <<host, quit, coord, disk, boot, launchd, stage, tries, lock, raced, bounds>>

\* Mutant: any reachable service will do.
ProbeReachable(c) ==
    \/ serving /\ Step(c, "probe", "socket")
    \/ ~serving /\ ran /\ Step(c, "probe", "bootout")
    \/ ~serving /\ ~ran /\ Step(c, "probe", "socket")

\* The version probe: a skewed or an unreachable running service is repaired.
Probe(c) ==
    \/ serving /\ proc = "old" /\ Step(c, "probe", "bootout")
    \/ serving /\ proc # "old" /\ Step(c, "probe", "socket")
    \/ ~serving /\ ran /\ Step(c, "probe", "bootout")
    \/ ~serving /\ ~ran /\ Step(c, "probe", "socket")

\* The marker and the socket exist.  Who made them is not asked.
socket_ready == files

\* The readiness files decide, and the snapshot of a moment ago.
Socket(c) ==
    \/ pc[c] = "socket" /\ socket_ready /\ Return(c, "done") /\ UNCHANGED faults
    \/ ~socket_ready /\ ran /\ Step(c, "socket", "bootout")
    \/ ~socket_ready /\ ~ran /\ Step(c, "socket", "kickstart")

\* launchctl bootout, strict: an error when the job is not loaded.
Bootout(c) ==
    /\ pc[c] = "bootout"
    /\ \/ job # "none" /\ Unload /\ Did(c, "reload")
       \/ job = "none" /\ Return(c, "failed") /\ UNCHANGED faults

\* ensure_managed_plist_current, then launchctl bootstrap, strict: it loads a
\* job that is not loaded, or fails with the plist already written.
Bootstrap(c) ==
    /\ pc[c] \in {"load", "reload"}
    /\ plist' = "current"
    /\ UNCHANGED <<proc, serving, files>>
    /\ \/ /\ job = "none" /\ job' = "current"
          /\ Did(c, IF pc[c] = "load" THEN "fresh" ELSE "kickstart")
       \/ /\ Fault /\ Goto(c, "failed") /\ ran' = FALSE
          /\ UNCHANGED <<host, quit, coord, disk, boot, job, stage, tries, lock, raced,
                         launches, requests>>

\* After a fresh registration the service is kickstarted unless it is ready.
Fresh(c) ==
    \/ socket_ready /\ Step(c, "fresh", "wait")
    \/ ~socket_ready /\ Step(c, "fresh", "kickstart")

\* launchctl kickstart, strict: starts a loaded job that does not run.
Kickstart(c) ==
    /\ pc[c] = "kickstart"
    /\ \/ /\ job # "none"
          /\ proc' = IF proc = "none" THEN job ELSE proc
          /\ UNCHANGED <<plist, job, serving, files>>
          /\ Did(c, "wait")
       \/ job = "none" /\ Return(c, "failed") /\ UNCHANGED faults

\* wait_for_socket_ready: the files appear, or the attempts run out, as they
\* must when the job was unloaded meanwhile.
Wait(c) ==
    /\ pc[c] = "wait"
    /\ \/ socket_ready /\ Return(c, "done") /\ UNCHANGED faults
       \/ ~socket_ready /\ job = "none" /\ Return(c, "failed") /\ UNCHANGED faults
       \/ ~socket_ready /\ job # "none" /\ Return(c, "failed") /\ Fault

\* A command of the ladder cannot be run, or launchctl reports an error.
CommandFails(c) ==
    /\ pc[c] \in {"print", "bootout", "load", "reload", "kickstart"}
    /\ Return(c, "failed") /\ Fault

\* ensure_running takes the mutex again, counts the call down and returns.
Finish(c) ==
    /\ pc[c] \in {"done", "failed"}
    /\ inFlight' = inFlight - 1
    /\ Resume(c, pc[c] = "done")
    /\ UNCHANGED <<host, quit, phase, disk, boot, launchd, ran, raced, bounds>>

\* The ten second time-out of connect_and_subscribe has expired while the
\* ladder blocked its thread, and the mutex is contended when it returns: the
\* call is dropped, the guard of the bootstrap lock with it, and never counted
\* down.
Dropped ==
    /\ pc[Bridge] \in {"done", "failed"} /\ Fault
    /\ Goto(Bridge, "idle") /\ lock' = NoOne
    /\ UNCHANGED <<host, quit, coord, disk, boot, launchd, stage, tries, ran, raced, launches, requests>>

Ensure(c) ==
    \/ Ask(c) \/ LaunchctlPrint(c) \/ Probe(c) \/ Socket(c) \/ Bootout(c) \/ Bootstrap(c)
    \/ Fresh(c) \/ Kickstart(c) \/ Wait(c) \/ Finish(c)

-----------------------------------------------------------------------------
(* The callers.                                                            *)

\* connect_with_service_recovery: connect; else take the lock, connect again,
\* and only then have the service ensured.
Connect(c) ==
    /\ host = "up"
    /\ \/ /\ pc[c] = "idle"
          /\ Goto(c, IF serving THEN "live" ELSE "lock")
          /\ UNCHANGED lock
       \/ /\ pc[c] = "lock" /\ lock = NoOne
          /\ Goto(c, IF serving THEN "live" ELSE "ask")
          /\ lock' = IF serving THEN NoOne ELSE c
    /\ UNCHANGED <<host, quit, coord, disk, boot, launchd, stage, tries, ran, raced, bounds>>

\* The last connect of an attempt; the bridge backs off and starts over.
Reconnect(c) ==
    \/ serving /\ Step(c, "reconnect", "live")
    \/ ~serving /\ Step(c, "reconnect", "idle")

\* A stream ends with the service; a command ends with its answer.
Disconnect(c) ==
    /\ ~serving \/ c # Bridge
    /\ Step(c, "live", "idle")

\* The start-up task: restore_from_settings suppresses again within the same
\* boot and forgets a suppression of an earlier one.
Restore ==
    /\ pc["bootstrap"] = "restore"
    /\ phase' = IF disk = boot THEN "suppressed" ELSE phase
    /\ disk' = IF disk = boot THEN disk ELSE 0
    /\ Goto("bootstrap", "clear")
    /\ UNCHANGED <<host, quit, inFlight, boot, launchd, stage, tries, ran, lock, raced, bounds>>

\* A launch after a quit is a manual reopen and clears the suppression.
ClearOnLaunch ==
    /\ pc["bootstrap"] = "clear"
    /\ \/ /\ phase = "suppressed"
          /\ phase' = "active" /\ disk' = 0 /\ stage' = "manual_reopen"
       \/ /\ phase = "active"
          /\ UNCHANGED <<phase, disk, stage>>
    /\ Goto("bootstrap", "ask")
    /\ UNCHANGED <<host, quit, inFlight, boot, launchd, tries, ran, lock, raced, bounds>>

\* The settings and repair commands ensure without the bootstrap lock.
UserCommand ==
    /\ host = "up" /\ pc["user"] = "idle" /\ Request
    /\ Goto("user", "ask")
    /\ UNCHANGED <<host, quit, coord, disk, boot, launchd, stage, tries, ran, lock, raced,
                   launches, faults>>

\* A second launch signals the running host, which clears the suppression in
\* memory, then on disk, and then ensures the service.
Reopen ==
    /\ host = "up"
    /\ \/ /\ pc["reopen"] = "idle"
          /\ phase' = "active" /\ Goto("reopen", "clear")
          /\ Request /\ UNCHANGED disk
       \/ /\ pc["reopen"] = "clear"
          /\ disk' = 0 /\ Goto("reopen", "ask")
          /\ UNCHANGED <<phase, requests>>
    /\ UNCHANGED <<host, quit, inFlight, boot, launchd, stage, tries, ran, lock, raced,
                   launches, faults>>

-----------------------------------------------------------------------------
(* The quit pipeline, and the life of the host process.                    *)

\* Between two steps of the pipeline every other thread runs.
QuitStep(from, to) ==
    /\ host = "up" /\ quit = from /\ quit' = to
    /\ UNCHANGED <<host, inFlight, boot, threads, launches, requests>>

RequestQuit ==
    /\ QuitStep("no", "requested")
    /\ UNCHANGED <<phase, disk, launchd, raced, faults>>

Suppress ==
    /\ QuitStep("requested", "suppressed")
    /\ phase' = "suppressed"
    /\ UNCHANGED <<disk, launchd, raced, faults>>

RecordSuppression ==
    /\ QuitStep("suppressed", "recorded")
    /\ disk' = boot
    /\ UNCHANGED <<phase, launchd, raced, faults>>

\* stop_for_current_session: bootout, where a job that is not loaded is fine,
\* then the marker is removed.  A failure is logged and ignored.
StopService ==
    /\ \/ /\ QuitStep("recorded", "stopped")
          /\ job' = "none" /\ proc' = "none" /\ serving' = FALSE /\ files' = FALSE
          /\ raced' = (Ladder # {})
          /\ UNCHANGED <<plist, faults>>
       \/ /\ QuitStep("recorded", "unstopped")
          /\ Fault /\ UNCHANGED <<launchd, raced>>
    /\ UNCHANGED <<phase, disk>>

\* The process is gone, and its threads with it, wherever they were.
Gone ==
    /\ host' = "off"
    /\ phase' = "active" /\ inFlight' = 0
    /\ pc' = [c \in Callers |-> "idle"]
    /\ stage' = "startup" /\ tries' = 0 /\ ran' = FALSE /\ lock' = NoOne
    /\ UNCHANGED <<disk, boot, launchd, launches, requests>>

Exit ==
    /\ host = "up" /\ quit \in {"stopped", "unstopped"}
    /\ Gone
    /\ UNCHANGED <<quit, raced, faults>>

HostCrash ==
    /\ host = "up" /\ Fault
    /\ Gone
    /\ quit' = "no" /\ raced' = FALSE

\* setup(): a fresh coordinator, the start-up task, the bridge.
Launch ==
    /\ host = "off" /\ launches < MaxLaunches
    /\ host' = "up" /\ launches' = launches + 1
    /\ quit' = "no" /\ raced' = FALSE
    /\ Goto("bootstrap", "restore")
    /\ UNCHANGED <<coord, disk, boot, launchd, stage, tries, ran, lock, faults, requests>>

\* A new login session: launchd loads the managed plist again.
Reboot ==
    /\ host = "off" /\ Fault
    /\ boot' = boot + 1
    /\ job' = plist /\ proc' = "none" /\ serving' = FALSE
    /\ quit' = "no" /\ raced' = FALSE
    /\ UNCHANGED <<host, coord, disk, plist, files, threads, launches, requests>>

Next ==
    \/ Spawn \/ ClearMarker \/ Serve \/ ServiceCrash
    \/ \E c \in Callers : Ensure(c) \/ CommandFails(c)
    \/ \E c \in Clients : Connect(c) \/ Reconnect(c) \/ Disconnect(c)
    \/ Dropped
    \/ Restore \/ ClearOnLaunch \/ UserCommand \/ Reopen
    \/ RequestQuit \/ Suppress \/ RecordSuppression \/ StopService \/ Exit
    \/ HostCrash \/ Launch \/ Reboot

Spec == Init /\ [][Next]_vars

\* launchd keeps a loaded job alive and the service starts, its first step well
\* within one backoff of the bridge; a spawned thread runs on; the bridge tries
\* again after every backoff, and the tokio mutex it waits for is handed over
\* in turn.
Fairness ==
    /\ WF_vars(Spawn) /\ SF_vars(ClearMarker) /\ WF_vars(Serve)
    /\ WF_vars(Restore) /\ WF_vars(ClearOnLaunch)
    /\ \A c \in Callers : WF_vars(Ensure(c))
    /\ \A c \in Clients : WF_vars(Reconnect(c) \/ Disconnect(c)) /\ SF_vars(Connect(c))

FairSpec == Spec /\ Fairness

-----------------------------------------------------------------------------
(* Properties.                                                             *)

\* The states the variables range over; ensure_in_flight never exceeds one, and
\* the start-up task stops after its attempts (BOOTSTRAP_MAX_ATTEMPTS).
TypeOK ==
    /\ host \in {"off", "up"}
    /\ quit \in {"no", "requested", "suppressed", "recorded", "stopped", "unstopped"}
    /\ phase \in {"active", "suppressed"}
    /\ inFlight \in {0, 1}
    /\ boot \in 1..(1 + MaxFaults) /\ disk \in 0..boot
    /\ {plist, job, proc} \subseteq Builds
    /\ {serving, files, ran, raced} \subseteq BOOLEAN
    /\ pc \in [Callers -> Steps]
    /\ stage \in {"startup", "manual_reopen", "repair"}
    /\ tries \in 0..(MaxAttempts - 1) /\ lock \in Clients \cup {NoOne}
    /\ launches \in 0..MaxLaunches /\ faults \in 0..MaxFaults /\ requests \in 0..MaxRequests

\* Once quit has stopped the service with no ladder in flight, no thread of
\* the quitting host, a reopen included, brings it back.
ServiceStaysDown == quit = "stopped" /\ ~raced => job = "none" /\ proc = "none"

\* What quit_desktop_host says of request_quit: it prevents racing
\* ensure_running calls from undoing the stop.
QuitWins == quit = "stopped" => job = "none" /\ proc = "none"

\* An ensure that reports success never leaves a service of an older build
\* running, whatever crashed or was respawned while the ladder ran.
EnsuredIsCurrent ==
    [][\A c \in Callers : pc[c] # "done" /\ pc'[c] = "done" => proc' # "old"]_vars

\* A host that stays up, is not quitting and is left alone by its user ends with
\* a serving service, after every crash, failed command and half-done repair;
\* unless a dropped call was never counted down, which coalesces every later
\* ensure away.
LeftAlone ==
    /\ host = "up" /\ quit = "no" /\ ~Leaked
    /\ pc["user"] = "idle" /\ pc["reopen"] = "idle"
ServiceComesUp == <>[]LeftAlone => <>[]serving

=============================================================================
