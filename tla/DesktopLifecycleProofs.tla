------------------------ MODULE DesktopLifecycleProofs ------------------------
(***************************************************************************)
(* Proofs about DesktopLifecycle, for every set of clients and any number   *)
(* of launches, attempts, faults and requests.                              *)
(*                                                                         *)
(* Everything rests on OneLadder: the coordinator lets one caller at a time *)
(* run the launchctl ladder, so what the ladder found out about launchd     *)
(* stays true while it runs, but for a crash, a respawn and the quit        *)
(* pipeline.  LadderInv says what that is at each of its steps.             *)
(***************************************************************************)
EXTENDS DesktopLifecycle, TLAPS

InLadder(c) == pc[c] \in LadderSteps

\* ensure_in_flight counts the ladder in flight, and there is at most one.
OneLadder ==
    /\ \A c \in Callers : InLadder(c) => inFlight = 1
    /\ \A c, d \in Callers : InLadder(c) /\ InLadder(d) => c = d

\* A host that is off has no threads; each boot is a fault.
HostInv ==
    /\ host = "off" => \A c \in Callers : pc[c] = "idle"
    /\ boot <= 1 + faults

\* After a clean stop no ladder is left to load the job again.
StopInv ==
    quit = "stopped" /\ ~raced =>
        /\ job = "none" /\ proc = "none"
        /\ \A c \in Callers : ~InLadder(c)

\* launchd starts nothing that is not loaded.  Behind the examination of the
\* job, neither it nor the process is of an old build, except for the process
\* that the version probe has yet to look at.
LadderInv ==
    /\ job = "none" => proc = "none"
    /\ \A c \in Callers :
         /\ pc[c] \in {"socket", "load", "reload", "fresh", "kickstart", "wait"} =>
              job # "old" /\ proc # "old"
         /\ pc[c] = "probe" => job # "old" /\ (~ran => proc # "old")

Inv == TypeOK /\ OneLadder /\ HostInv /\ StopInv /\ LadderInv

Moves(c, S) == \E to \in S : pc' = [pc EXCEPT ![c] = to]

LadderAction(c) ==
    \/ LaunchctlPrint(c) \/ Probe(c) \/ Socket(c) \/ Bootout(c) \/ Bootstrap(c)
    \/ Fresh(c) \/ Kickstart(c) \/ Wait(c) \/ CommandFails(c)

-----------------------------------------------------------------------------
(* What groups of actions have in common.                                  *)

\* A caller with its result leaves the ladder.
LEMMA ResumeMoves ==
    ASSUME TypeOK, NEW c \in Callers, NEW result \in BOOLEAN, Resume(c, result)
    PROVE  /\ Moves(c, {"idle", "reconnect", "ask"})
           /\ stage' \in {"startup", "manual_reopen", "repair"}
           /\ tries' \in 0..(MaxAttempts - 1)
           /\ lock' \in Clients \cup {NoOne}
<1>1. Moves(c, {"idle", "reconnect", "ask"})
  BY DEF Resume, Goto, Moves
<1>2. /\ stage' \in {"startup", "manual_reopen", "repair"}
      /\ lock' \in Clients \cup {NoOne}
  BY DEF Resume, TypeOK
<1>3. tries' \in 0..(MaxAttempts - 1)
  BY BoundAssumption DEF Resume, TypeOK
<1>4. QED
  BY <1>1, <1>2, <1>3

\* A step of the ladder stays in the ladder and touches launchd alone.
LEMMA LadderMoves ==
    ASSUME TypeOK, NEW c \in Callers, LadderAction(c)
    PROVE  /\ InLadder(c) /\ Moves(c, LadderSteps)
           /\ UNCHANGED <<host, quit, phase, inFlight, disk, boot, stage, tries, lock,
                          raced, launches, requests>>
           /\ UNCHANGED faults \/ Fault
           /\ {plist', job', proc'} \subseteq Builds
           /\ {serving', files', ran'} \subseteq BOOLEAN
<1> USE DEF InLadder, Moves, LadderSteps, Goto, coord, launchd, bounds, Builds, TypeOK
<1>1. CASE LaunchctlPrint(c)
  BY <1>1 DEF LaunchctlPrint
<1>2. CASE Probe(c)
  BY <1>2 DEF Probe, Step
<1>3. CASE Socket(c)
  BY <1>3 DEF Socket, Step, Return
<1>4. CASE Bootout(c)
  BY <1>4 DEF Bootout, Unload, Did, Return
<1>5. CASE Bootstrap(c)
  BY <1>5 DEF Bootstrap, Did
<1>6. CASE Fresh(c)
  BY <1>6 DEF Fresh, Step
<1>7. CASE Kickstart(c)
  BY <1>7 DEF Kickstart, Did, Return
<1>8. CASE Wait(c)
  BY <1>8 DEF Wait, Return
<1>9. CASE CommandFails(c)
  BY <1>9 DEF CommandFails, Return
<1>10. QED
  BY <1>1, <1>2, <1>3, <1>4, <1>5, <1>6, <1>7, <1>8, <1>9 DEF LadderAction

\* A move keeps the type of the program counters and leaves the others alone.
LEMMA MoveType ==
    ASSUME TypeOK, NEW c \in Callers, NEW S \in SUBSET Steps, Moves(c, S)
    PROVE  /\ pc' \in [Callers -> Steps] /\ pc'[c] \in S
           /\ \A d \in Callers : d # c => pc'[d] = pc[d]
  BY DEF TypeOK, Moves

\* The actions, with the ladder's taken together.
LEMMA NextCases ==
    ASSUME [Next]_vars
    PROVE  \/ Spawn \/ ClearMarker \/ Serve \/ ServiceCrash
           \/ \E c \in Callers : LadderAction(c) \/ Ask(c) \/ Finish(c)
           \/ \E c \in Clients : Connect(c) \/ Reconnect(c) \/ Disconnect(c)
           \/ Dropped
           \/ Restore \/ ClearOnLaunch \/ UserCommand \/ Reopen
           \/ RequestQuit \/ Suppress \/ RecordSuppression \/ StopService \/ Exit
           \/ HostCrash \/ Launch \/ Reboot \/ UNCHANGED vars
  BY DEF Next, Ensure, LadderAction

-----------------------------------------------------------------------------
(* Types.                                                                  *)

LEMMA InitInv == Init => Inv
<1> SUFFICES ASSUME Init PROVE Inv
  OBVIOUS
<1>1. TypeOK
  <2>1. 0 \in 0..(MaxAttempts - 1) /\ 1 \in 1..(1 + MaxFaults) /\ 0 \in 0..1
        /\ 0 \in 0..MaxLaunches /\ 0 \in 0..MaxFaults /\ 0 \in 0..MaxRequests
    BY BoundAssumption
  <2>2. {plist, job, proc} \subseteq Builds /\ {serving, files, ran, raced} \subseteq BOOLEAN
    BY DEF Init, Builds
  <2>3. pc \in [Callers -> Steps]
    BY DEF Init, Steps
  <2>4. QED
    BY <2>1, <2>2, <2>3 DEF Init, TypeOK
<1>2. \A c \in Callers : pc[c] = "idle"
  BY DEF Init
<1>3. OneLadder /\ HostInv /\ StopInv
  BY <1>2, BoundAssumption DEF Init, OneLadder, HostInv, StopInv, InLadder, LadderSteps
<1>4. LadderInv
  BY <1>2 DEF Init, LadderInv
<1>5. QED
  BY <1>1, <1>3, <1>4 DEF Inv

LEMMA TypeStep == Inv /\ [Next]_vars => TypeOK'
<1> SUFFICES ASSUME Inv, [Next]_vars PROVE TypeOK'
  OBVIOUS
<1> USE BoundAssumption, BridgeAssumption
<1>0. /\ TypeOK /\ pc \in [Callers -> Steps] /\ LadderSteps \subseteq Steps
      /\ {"idle", "restore", "clear", "lock", "ask", "reconnect", "live"} \subseteq Steps
      /\ {"bootstrap", "user", "reopen"} \subseteq Callers /\ Clients \subseteq Callers
  BY DEF Inv, TypeOK, Steps, Callers
<1>a. ASSUME NEW c \in Callers, NEW to \in Steps, Goto(c, to) PROVE pc' \in [Callers -> Steps]
  BY <1>0, <1>a DEF Goto
<1>b. ASSUME Fault PROVE faults' \in 0..MaxFaults
  BY <1>0, <1>b DEF Fault, TypeOK
<1>c. ASSUME NEW c \in Callers, NEW from, NEW to \in Steps, Step(c, from, to) PROVE TypeOK'
  BY <1>0, <1>a, <1>c DEF Step, TypeOK, coord, launchd, bounds
<1>d. ASSUME Gone
      PROVE  pc' \in [Callers -> Steps] /\ tries' \in 0..(MaxAttempts - 1)
  BY <1>0, <1>d DEF Gone
<1>1. CASE Spawn
  BY <1>0, <1>1 DEF Spawn, TypeOK, coord, threads, bounds
<1>2. CASE ClearMarker
  BY <1>0, <1>2 DEF ClearMarker, TypeOK, coord, threads, bounds
<1>3. CASE Serve
  BY <1>0, <1>3 DEF Serve, TypeOK, coord, threads, bounds
<1>4. CASE ServiceCrash
  BY <1>0, <1>4, <1>b DEF ServiceCrash, TypeOK, coord, threads, Builds
<1>5. ASSUME NEW c \in Callers, LadderAction(c) PROVE TypeOK'
  <2>1. pc' \in [Callers -> Steps]
    BY <1>0, <1>5, LadderMoves, MoveType
  <2>2. faults' \in 0..MaxFaults
    BY <1>0, <1>5, <1>b, LadderMoves DEF TypeOK
  <2>3. QED
    BY <1>0, <1>5, <2>1, <2>2, LadderMoves DEF TypeOK
<1>6. ASSUME NEW c \in Callers, Ask(c) PROVE TypeOK'
  <2>1. phase' \in {"active", "suppressed"}
    BY <1>0, <1>6 DEF Ask, TypeOK
  <2>2. CASE Proceeds(c) /\ inFlight' = inFlight + 1 /\ Goto(c, "print")
             /\ UNCHANGED <<stage, tries, lock>>
    <3>1. inFlight' = 1 /\ pc' \in [Callers -> Steps]
      BY <1>0, <1>a, <2>2 DEF Proceeds, LadderSteps
    <3>2. QED
      BY <1>0, <1>6, <2>1, <2>2, <3>1 DEF Ask, TypeOK, launchd, bounds
  <2>3. CASE Resume(c, TRUE) /\ UNCHANGED inFlight
    <3>1. pc' \in [Callers -> Steps]
      BY <1>0, <2>3, ResumeMoves, MoveType
    <3>2. QED
      BY <1>0, <1>6, <2>1, <2>3, <3>1, ResumeMoves DEF Ask, TypeOK, launchd, bounds
  <2>4. QED
    BY <1>6, <2>2, <2>3 DEF Ask
<1>7. ASSUME NEW c \in Callers, Finish(c) PROVE TypeOK'
  <2>1. inFlight' = 0
    BY <1>7 DEF Finish, Inv, OneLadder, InLadder, LadderSteps
  <2>2. Resume(c, pc[c] = "done") /\ (pc[c] = "done") \in BOOLEAN
    BY <1>7 DEF Finish
  <2>3. pc' \in [Callers -> Steps]
    BY <1>0, <2>2, ResumeMoves, MoveType
  <2>4. /\ stage' \in {"startup", "manual_reopen", "repair"}
        /\ tries' \in 0..(MaxAttempts - 1) /\ lock' \in Clients \cup {NoOne}
    BY <1>0, <2>2, ResumeMoves
  <2>5. QED
    BY <1>0, <1>7, <2>1, <2>3, <2>4 DEF Finish, TypeOK, launchd, bounds
<1>8. ASSUME NEW c \in Clients, Connect(c) PROVE TypeOK'
  <2>1. pc' \in [Callers -> Steps]
    BY <1>0, <1>8, <1>a DEF Connect
  <2>2. lock' \in Clients \cup {NoOne}
    BY <1>0, <1>8 DEF Connect, TypeOK
  <2>3. QED
    BY <1>0, <1>8, <2>1, <2>2 DEF Connect, TypeOK, coord, launchd, bounds
<1>9. ASSUME NEW c \in Clients, Reconnect(c) \/ Disconnect(c) PROVE TypeOK'
  BY <1>0, <1>9, <1>c DEF Reconnect, Disconnect
<1>10. CASE Dropped
  <2>1. pc' \in [Callers -> Steps] /\ faults' \in 0..MaxFaults
    BY <1>0, <1>10, <1>a, <1>b DEF Dropped
  <2>2. QED
    BY <1>0, <1>10, <2>1 DEF Dropped, TypeOK, coord, launchd
<1>11. CASE Restore
  <2>1. pc' \in [Callers -> Steps] /\ disk' \in 0..boot /\ phase' \in {"active", "suppressed"}
    BY <1>0, <1>11, <1>a DEF Restore, TypeOK
  <2>2. QED
    BY <1>0, <1>11, <2>1 DEF Restore, TypeOK, launchd, bounds
<1>12. CASE ClearOnLaunch
  <2>1. pc' \in [Callers -> Steps] /\ disk' \in 0..boot
    BY <1>0, <1>12, <1>a DEF ClearOnLaunch, TypeOK
  <2>2. QED
    BY <1>0, <1>12, <2>1 DEF ClearOnLaunch, TypeOK, launchd, bounds
<1>13. CASE UserCommand
  <2>1. pc' \in [Callers -> Steps] /\ requests' \in 0..MaxRequests
    BY <1>0, <1>13, <1>a DEF UserCommand, Request, TypeOK
  <2>2. QED
    BY <1>0, <1>13, <2>1 DEF UserCommand, TypeOK, coord, launchd
<1>14. CASE Reopen
  <2>1. pc' \in [Callers -> Steps] /\ disk' \in 0..boot /\ requests' \in 0..MaxRequests
    BY <1>0, <1>14, <1>a DEF Reopen, Request, TypeOK
  <2>2. QED
    BY <1>0, <1>14, <2>1 DEF Reopen, TypeOK, launchd
<1>15. CASE RequestQuit
  BY <1>0, <1>15 DEF RequestQuit, QuitStep, TypeOK, threads, launchd
<1>16. CASE Suppress
  BY <1>0, <1>16 DEF Suppress, QuitStep, TypeOK, threads, launchd
<1>17. CASE RecordSuppression
  <2>1. disk' \in 0..boot
    BY <1>0, <1>17 DEF RecordSuppression, TypeOK
  <2>2. QED
    BY <1>0, <1>17, <2>1 DEF RecordSuppression, QuitStep, TypeOK, threads, launchd
<1>18. CASE StopService
  <2>1. faults' \in 0..MaxFaults
    BY <1>0, <1>18, <1>b DEF StopService, TypeOK
  <2>2. QED
    BY <1>0, <1>18, <2>1 DEF StopService, QuitStep, TypeOK, threads, launchd, Builds
<1>19. CASE Exit
  <2>1. pc' \in [Callers -> Steps] /\ tries' \in 0..(MaxAttempts - 1)
    BY <1>19, <1>d DEF Exit
  <2>2. QED
    BY <1>0, <1>19, <2>1 DEF Exit, Gone, TypeOK, launchd
<1>20. CASE HostCrash
  <2>1. /\ faults' \in 0..MaxFaults /\ pc' \in [Callers -> Steps]
        /\ tries' \in 0..(MaxAttempts - 1)
    BY <1>0, <1>20, <1>b, <1>d DEF HostCrash
  <2>2. QED
    BY <1>0, <1>20, <2>1 DEF HostCrash, Gone, TypeOK, launchd
<1>21. CASE Launch
  <2>1. pc' \in [Callers -> Steps] /\ launches' \in 0..MaxLaunches
    BY <1>0, <1>21, <1>a DEF Launch, TypeOK
  <2>2. QED
    BY <1>0, <1>21, <2>1 DEF Launch, TypeOK, coord, launchd
<1>22. CASE Reboot
  <2>1. faults' \in 0..MaxFaults /\ boot' \in 1..(1 + MaxFaults) /\ disk' \in 0..boot'
    BY <1>0, <1>22 DEF Reboot, Fault, TypeOK, Inv, HostInv
  <2>2. QED
    BY <1>0, <1>22, <2>1 DEF Reboot, TypeOK, coord, threads, Builds
<1>23. CASE UNCHANGED vars
  BY <1>0, <1>23 DEF TypeOK, vars
<1>24. QED
  BY NextCases, <1>1, <1>2, <1>3, <1>4, <1>5, <1>6, <1>7, <1>8, <1>9, <1>10, <1>11, <1>12,
     <1>13, <1>14, <1>15, <1>16, <1>17, <1>18, <1>19, <1>20, <1>21, <1>22, <1>23

-----------------------------------------------------------------------------
(* One ladder at a time.                                                   *)

\* A caller that was not and is not in the ladder disturbs nobody who is.
Outside(c) == ~InLadder(c) /\ Moves(c, Steps \ LadderSteps)

\* The actions of the callers outside the ladder.
LEMMA OutsideMoves ==
    ASSUME TypeOK, HostInv
    PROVE  /\ \A c \in Clients : Connect(c) \/ Reconnect(c) \/ Disconnect(c) =>
                 Outside(c) /\ host = "up"
           /\ Restore \/ ClearOnLaunch => Outside("bootstrap") /\ host = "up"
           /\ UserCommand => Outside("user") /\ host = "up"
           /\ Reopen => Outside("reopen") /\ host = "up"
           /\ Launch => Outside("bootstrap")
<1> USE DEF Outside, InLadder, Moves, Steps, LadderSteps, Goto
<1>0. /\ {"bootstrap", "user", "reopen"} \subseteq Callers /\ Clients \subseteq Callers
      /\ host \in {"off", "up"}
  BY DEF Callers, TypeOK
<1>1. ASSUME NEW c \in Clients, Connect(c) PROVE Outside(c) /\ host = "up"
  BY <1>1 DEF Connect
<1>2. ASSUME NEW c \in Clients, Reconnect(c) \/ Disconnect(c) PROVE Outside(c) /\ host = "up"
  BY <1>0, <1>2 DEF Reconnect, Disconnect, Step, HostInv
<1>3. ASSUME Restore \/ ClearOnLaunch PROVE Outside("bootstrap") /\ host = "up"
  BY <1>0, <1>3 DEF Restore, ClearOnLaunch, HostInv
<1>4. UserCommand => Outside("user") /\ host = "up"
  BY DEF UserCommand
<1>5. Reopen => Outside("reopen") /\ host = "up"
  BY DEF Reopen
<1>6. Launch => Outside("bootstrap")
  BY <1>0 DEF Launch, HostInv
<1>7. QED
  BY <1>1, <1>2, <1>3, <1>4, <1>5, <1>6

\* What a move of a caller outside the ladder leaves of it.
LEMMA OutsideKeeps ==
    ASSUME TypeOK, NEW c \in Callers, Outside(c)
    PROVE  \A d \in Callers : /\ InLadder(d)' <=> InLadder(d)
                              /\ InLadder(d) => pc'[d] = pc[d]
<1>1. /\ pc'[c] \in Steps \ LadderSteps
      /\ \A d \in Callers : d # c => pc'[d] = pc[d]
  BY MoveType DEF Outside
<1>2. QED
  BY <1>1 DEF Outside, InLadder

LEMMA OneLadderStep == Inv /\ [Next]_vars => OneLadder'
<1> SUFFICES ASSUME Inv, [Next]_vars PROVE OneLadder'
  OBVIOUS
<1>0. /\ TypeOK /\ HostInv /\ OneLadder
      /\ {"bootstrap", "user", "reopen"} \subseteq Callers /\ Clients \subseteq Callers
      /\ LadderSteps \subseteq Steps
      /\ {"idle", "reconnect", "ask"} \subseteq Steps \ LadderSteps
  BY DEF Inv, Callers, Steps, LadderSteps
<1>a. ASSUME UNCHANGED <<pc, inFlight>> PROVE OneLadder'
  BY <1>0, <1>a DEF OneLadder, InLadder
<1>b. ASSUME NEW c \in Callers, Outside(c), UNCHANGED inFlight PROVE OneLadder'
  BY <1>0, <1>b, OutsideKeeps DEF OneLadder
<1>c. ASSUME \A c \in Callers : pc'[c] = "idle" PROVE OneLadder'
  BY <1>c DEF OneLadder, InLadder, LadderSteps
<1>d. ASSUME NEW c \in Callers, InLadder(c), Moves(c, Steps \ LadderSteps) PROVE OneLadder'
  <2>1. \A d \in Callers : ~InLadder(d)'
    BY <1>0, <1>d, MoveType DEF OneLadder, InLadder
  <2>2. QED
    BY <2>1 DEF OneLadder
<1>1. CASE Spawn \/ ClearMarker \/ Serve \/ ServiceCrash
  BY <1>1, <1>a DEF Spawn, ClearMarker, Serve, ServiceCrash, threads, coord
<1>2. ASSUME NEW c \in Callers, LadderAction(c) PROVE OneLadder'
  <2>1. /\ InLadder(c) /\ UNCHANGED inFlight
        /\ \A d \in Callers : d # c => pc'[d] = pc[d]
    BY <1>0, <1>2, LadderMoves, MoveType
  <2>2. QED
    BY <1>0, <2>1 DEF OneLadder, InLadder
<1>3. ASSUME NEW c \in Callers, Ask(c) PROVE OneLadder'
  <2>1. CASE Proceeds(c) /\ inFlight' = inFlight + 1 /\ Goto(c, "print")
    <3>1. inFlight' = 1 /\ \A d \in Callers : ~InLadder(d)
      BY <1>0, <2>1 DEF Proceeds, OneLadder
    <3>2. \A d \in Callers : d # c => pc'[d] = pc[d]
      BY <1>0, <2>1 DEF Goto, TypeOK
    <3>3. QED
      BY <3>1, <3>2 DEF OneLadder, InLadder
  <2>2. CASE Resume(c, TRUE) /\ UNCHANGED inFlight
    <3>1. Outside(c)
      BY <1>0, <1>3, <2>2, ResumeMoves DEF Ask, Outside, InLadder, LadderSteps, Moves
    <3>2. QED
      BY <1>b, <2>2, <3>1
  <2>3. QED
    BY <1>3, <2>1, <2>2 DEF Ask
<1>4. ASSUME NEW c \in Callers, Finish(c) PROVE OneLadder'
  <2>1. /\ InLadder(c) /\ Resume(c, pc[c] = "done") /\ (pc[c] = "done") \in BOOLEAN
    BY <1>4 DEF Finish, InLadder, LadderSteps
  <2>2. Moves(c, {"idle", "reconnect", "ask"})
    BY <1>0, <2>1, ResumeMoves
  <2>3. QED
    BY <1>0, <1>d, <2>1, <2>2 DEF Moves
<1>5. ASSUME NEW c \in Clients, Connect(c) \/ Reconnect(c) \/ Disconnect(c) PROVE OneLadder'
  <2>1. UNCHANGED inFlight
    BY <1>5 DEF Connect, Reconnect, Disconnect, Step, coord
  <2>2. QED
    BY <1>0, <1>5, <1>b, <2>1, OutsideMoves
<1>6. CASE Dropped
  <2>1. InLadder(Bridge) /\ Moves(Bridge, Steps \ LadderSteps) /\ Bridge \in Callers
    BY <1>0, <1>6, BridgeAssumption DEF Dropped, Goto, InLadder, Moves, LadderSteps
  <2>2. QED
    BY <1>d, <2>1
<1>7. CASE Restore \/ ClearOnLaunch \/ Launch
  BY <1>0, <1>7, <1>b, OutsideMoves DEF Restore, ClearOnLaunch, Launch, coord
<1>8. CASE UserCommand
  BY <1>0, <1>8, <1>b, OutsideMoves DEF UserCommand, coord
<1>9. CASE Reopen
  BY <1>0, <1>9, <1>b, OutsideMoves DEF Reopen
<1>10. CASE RequestQuit \/ Suppress \/ RecordSuppression \/ StopService
  BY <1>10, <1>a DEF RequestQuit, Suppress, RecordSuppression, StopService, QuitStep, threads
<1>11. CASE Exit \/ HostCrash
  BY <1>11, <1>c DEF Exit, HostCrash, Gone
<1>12. CASE Reboot \/ UNCHANGED vars
  BY <1>12, <1>a DEF Reboot, vars, threads, coord
<1>13. QED
  BY NextCases, <1>1, <1>2, <1>3, <1>4, <1>5, <1>6, <1>7, <1>8, <1>9, <1>10, <1>11, <1>12

-----------------------------------------------------------------------------
(* The host, the stop and what a ladder knows.                             *)

LEMMA HostStep == Inv /\ [Next]_vars => HostInv'
<1> SUFFICES ASSUME Inv, [Next]_vars PROVE HostInv'
  OBVIOUS
<1>0. /\ TypeOK /\ HostInv /\ boot \in Nat /\ faults \in Nat
      /\ Clients \subseteq Callers /\ host \in {"off", "up"}
  BY BoundAssumption DEF Inv, Callers, TypeOK
<1>a. ASSUME UNCHANGED boot, UNCHANGED faults \/ Fault PROVE boot' <= 1 + faults'
  BY <1>0, <1>a DEF HostInv, Fault
<1>b. ASSUME UNCHANGED <<host, boot>>, UNCHANGED faults \/ Fault, host = "up" PROVE HostInv'
  BY <1>a, <1>b DEF HostInv
<1>c. ASSUME UNCHANGED <<host, pc, boot>>, UNCHANGED faults \/ Fault PROVE HostInv'
  BY <1>0, <1>a, <1>c DEF HostInv
<1>d. ASSUME NEW c \in Callers, InLadder(c) \/ pc[c] = "ask" PROVE host = "up"
  BY <1>0, <1>d DEF HostInv, InLadder, LadderSteps
<1>1. CASE Spawn \/ ClearMarker \/ Serve \/ ServiceCrash
  BY <1>1, <1>c DEF Spawn, ClearMarker, Serve, ServiceCrash, threads, bounds
<1>2. ASSUME NEW c \in Callers, LadderAction(c) PROVE HostInv'
  BY <1>0, <1>2, <1>b, <1>d, LadderMoves
<1>3. ASSUME NEW c \in Callers, Ask(c) PROVE HostInv'
  BY <1>3, <1>b, <1>d DEF Ask, bounds
<1>4. ASSUME NEW c \in Callers, Finish(c) PROVE HostInv'
  BY <1>4, <1>b, <1>d DEF Finish, bounds, InLadder, LadderSteps
<1>5. ASSUME NEW c \in Clients, Connect(c) \/ Reconnect(c) \/ Disconnect(c) PROVE HostInv'
  <2>1. UNCHANGED <<host, boot, faults>>
    BY <1>5 DEF Connect, Reconnect, Disconnect, Step, bounds
  <2>2. QED
    BY <1>0, <1>5, <1>b, <2>1, OutsideMoves
<1>6. CASE Dropped
  BY <1>0, <1>6, <1>b, <1>d, BridgeAssumption DEF Dropped, InLadder, LadderSteps
<1>7. CASE Restore \/ ClearOnLaunch
  BY <1>0, <1>7, <1>b, OutsideMoves DEF Restore, ClearOnLaunch, bounds
<1>8. CASE UserCommand \/ Reopen
  BY <1>0, <1>8, <1>b, OutsideMoves DEF UserCommand, Reopen
<1>9. CASE RequestQuit \/ Suppress \/ RecordSuppression \/ StopService
  BY <1>9, <1>c DEF RequestQuit, Suppress, RecordSuppression, StopService, QuitStep, threads
<1>10. CASE Exit \/ HostCrash
  <2>1. \A c \in Callers : pc'[c] = "idle"
    BY <1>10 DEF Exit, HostCrash, Gone
  <2>2. QED
    BY <1>10, <1>a, <2>1 DEF Exit, HostCrash, Gone, HostInv
<1>11. CASE Launch
  BY <1>11, <1>a DEF Launch, HostInv
<1>12. CASE Reboot
  <2>1. boot' <= 1 + faults'
    BY <1>0, <1>12 DEF Reboot, Fault, HostInv
  <2>2. QED
    BY <1>0, <1>12, <2>1 DEF Reboot, HostInv, threads
<1>13. CASE UNCHANGED vars
  BY <1>13, <1>c DEF vars
<1>14. QED
  BY NextCases, <1>1, <1>2, <1>3, <1>4, <1>5, <1>6, <1>7, <1>8, <1>9, <1>10, <1>11, <1>12, <1>13

\* Only a ladder loads a job, and no ladder starts once quit is requested.
LEMMA StopStep == Inv /\ [Next]_vars => StopInv'
<1> SUFFICES ASSUME Inv, [Next]_vars PROVE StopInv'
  OBVIOUS
<1>0. /\ TypeOK /\ HostInv /\ StopInv
      /\ {"bootstrap", "user", "reopen"} \subseteq Callers /\ Clients \subseteq Callers
  BY DEF Inv, Callers
<1>a. ASSUME UNCHANGED <<quit, raced, job>>, proc' \in {proc, "none"},
             \A c \in Callers : InLadder(c)' => InLadder(c)
      PROVE  StopInv'
  BY <1>0, <1>a DEF StopInv
<1>b. ASSUME NEW c \in Callers, Outside(c), UNCHANGED <<quit, raced, job, proc>> PROVE StopInv'
  BY <1>0, <1>a, <1>b, OutsideKeeps
<1>c. ASSUME NEW c \in Callers, InLadder(c), UNCHANGED <<quit, raced>> PROVE StopInv'
  BY <1>0, <1>c DEF StopInv
<1>d. ASSUME quit' # "stopped" PROVE StopInv'
  BY <1>d DEF StopInv
<1>1. CASE Spawn
  <2>1. ~(quit = "stopped" /\ ~raced) /\ UNCHANGED <<quit, raced>>
    BY <1>0, <1>1 DEF Spawn, StopInv
  <2>2. QED
    BY <2>1 DEF StopInv
<1>2. CASE ClearMarker \/ Serve \/ ServiceCrash
  BY <1>2, <1>a DEF ClearMarker, Serve, ServiceCrash, threads, InLadder
<1>3. ASSUME NEW c \in Callers, LadderAction(c) PROVE StopInv'
  BY <1>0, <1>3, <1>c, LadderMoves
<1>4. ASSUME NEW c \in Callers, Ask(c) PROVE StopInv'
  <2>1. CASE Proceeds(c)
    BY <1>4, <1>d, <2>1 DEF Ask, Proceeds
  <2>2. CASE Resume(c, TRUE)
    <3>1. Outside(c)
      BY <1>0, <1>4, <2>2, ResumeMoves
         DEF Ask, Outside, InLadder, LadderSteps, Steps, Moves
    <3>2. QED
      BY <1>4, <1>b, <3>1 DEF Ask, launchd
  <2>3. QED
    BY <1>4, <2>1, <2>2 DEF Ask
<1>5. ASSUME NEW c \in Callers, Finish(c) PROVE StopInv'
  BY <1>5, <1>c DEF Finish, InLadder, LadderSteps
<1>6. ASSUME NEW c \in Clients, Connect(c) \/ Reconnect(c) \/ Disconnect(c) PROVE StopInv'
  <2>1. UNCHANGED <<quit, raced, job, proc>>
    BY <1>6 DEF Connect, Reconnect, Disconnect, Step, launchd
  <2>2. QED
    BY <1>0, <1>6, <1>b, <2>1, OutsideMoves
<1>7. CASE Dropped
  BY <1>0, <1>7, <1>c, BridgeAssumption DEF Dropped, InLadder, LadderSteps
<1>8. CASE Restore \/ ClearOnLaunch
  BY <1>0, <1>8, <1>b, OutsideMoves DEF Restore, ClearOnLaunch, launchd
<1>9. CASE UserCommand
  BY <1>0, <1>9, <1>b, OutsideMoves DEF UserCommand, launchd
<1>10. CASE Reopen
  BY <1>0, <1>10, <1>b, OutsideMoves DEF Reopen, launchd
<1>11. CASE RequestQuit \/ Suppress \/ RecordSuppression
  BY <1>11, <1>d DEF RequestQuit, Suppress, RecordSuppression, QuitStep
<1>12. CASE StopService
  <2>1. CASE quit' = "stopped"
    BY <1>12, <2>1 DEF StopService, QuitStep, StopInv, threads, Ladder, InLadder
  <2>2. CASE quit' # "stopped"
    BY <1>d, <2>2
  <2>3. QED
    BY <2>1, <2>2
<1>13. CASE Exit
  <2>1. \A c \in Callers : ~InLadder(c)'
    BY <1>13 DEF Exit, Gone, InLadder, LadderSteps
  <2>2. QED
    BY <1>13, <1>a, <2>1 DEF Exit, Gone, launchd
<1>14. CASE HostCrash \/ Launch \/ Reboot
  BY <1>14, <1>d DEF HostCrash, Launch, Reboot
<1>15. CASE UNCHANGED vars
  BY <1>15, <1>a DEF vars, InLadder
<1>16. QED
  BY NextCases, <1>1, <1>2, <1>3, <1>4, <1>5, <1>6, <1>7, <1>8, <1>9, <1>10, <1>11, <1>12,
     <1>13, <1>14, <1>15

LEMMA LadderStep == Inv /\ [Next]_vars => LadderInv'
<1> SUFFICES ASSUME Inv, [Next]_vars PROVE LadderInv'
  OBVIOUS
<1> DEFINE Later == {"socket", "load", "reload", "fresh", "kickstart", "wait"}
           Knows(c) == /\ pc[c] \in Later => job # "old" /\ proc # "old"
                       /\ pc[c] = "probe" => job # "old" /\ (~ran => proc # "old")
<1>0. /\ TypeOK /\ HostInv /\ OneLadder /\ LadderInv /\ pc \in [Callers -> Steps]
      /\ {"bootstrap", "user", "reopen"} \subseteq Callers /\ Clients \subseteq Callers
      /\ Later \subseteq LadderSteps /\ "probe" \in LadderSteps
  BY DEF Inv, Callers, TypeOK, LadderSteps
<1>1. LadderInv' <=> (job' = "none" => proc' = "none") /\ \A c \in Callers : Knows(c)'
  BY DEF LadderInv
<1>2. (job = "none" => proc = "none") /\ \A c \in Callers : Knows(c)
  BY <1>0 DEF LadderInv
<1>a. ASSUME UNCHANGED <<job, proc, ran>>,
             \A d \in Callers : InLadder(d)' => pc'[d] \in {pc[d], "print"}
      PROVE  LadderInv'
  BY <1>0, <1>1, <1>2, <1>a DEF InLadder
<1>b. ASSUME NEW c \in Callers, Outside(c), UNCHANGED <<job, proc, ran>> PROVE LadderInv'
  BY <1>0, <1>a, <1>b, OutsideKeeps
<1>c. ASSUME UNCHANGED <<job, ran, pc>>, proc' \in {proc, job, "none"}, job = "none" => proc' = "none"
      PROVE  LadderInv'
  BY <1>1, <1>2, <1>c
<1>d. ASSUME \A c \in Callers : pc'[c] = "idle", job' = "none" => proc' = "none"
      PROVE  LadderInv'
  BY <1>1, <1>d
<1>3. CASE Spawn \/ ClearMarker \/ Serve \/ ServiceCrash
  BY <1>2, <1>3, <1>c DEF Spawn, ClearMarker, Serve, ServiceCrash, threads
<1>4. ASSUME NEW c \in Callers, LadderAction(c) PROVE LadderInv'
  <2>1. \A d \in Callers : d # c => ~InLadder(d)' /\ pc'[d] = pc[d]
    BY <1>0, <1>4, LadderMoves, MoveType DEF OneLadder, InLadder, Steps
  <2>2. ASSUME Knows(c)', job' = "none" => proc' = "none" PROVE LadderInv'
    BY <1>0, <1>1, <2>1, <2>2 DEF InLadder
  <2> USE <1>0, <1>2 DEF Goto
  <2>3. CASE LaunchctlPrint(c)
    BY <2>2, <2>3 DEF LaunchctlPrint, launchd
  <2>4. CASE Probe(c)
    BY <2>2, <2>4 DEF Probe, Step, launchd
  <2>5. CASE Socket(c)
    BY <2>2, <2>5 DEF Socket, Step, Return, launchd
  <2>6. CASE Bootout(c)
    BY <2>2, <2>6 DEF Bootout, Unload, Did, Return, launchd
  <2>7. CASE Bootstrap(c)
    BY <2>2, <2>7 DEF Bootstrap, Did
  <2>8. CASE Fresh(c)
    BY <2>2, <2>8 DEF Fresh, Step, launchd
  <2>9. CASE Kickstart(c)
    BY <2>2, <2>9 DEF Kickstart, Did, Return, launchd
  <2>10. CASE Wait(c)
    BY <2>2, <2>10 DEF Wait, Return, launchd
  <2>11. CASE CommandFails(c)
    BY <2>2, <2>11 DEF CommandFails, Return, launchd
  <2>12. QED
    BY <1>4, <2>3, <2>4, <2>5, <2>6, <2>7, <2>8, <2>9, <2>10, <2>11 DEF LadderAction
<1>5. ASSUME NEW c \in Callers, Ask(c) \/ Finish(c) PROVE LadderInv'
  <2>1. UNCHANGED <<job, proc, ran>>
    BY <1>5 DEF Ask, Finish, launchd
  <2>2. \A d \in Callers : InLadder(d)' => pc'[d] \in {pc[d], "print"}
    <3>1. CASE Goto(c, "print")
      BY <1>0, <3>1 DEF Goto
    <3>2. CASE \E r \in BOOLEAN : Resume(c, r)
      BY <1>0, <3>2, ResumeMoves, MoveType DEF InLadder, LadderSteps, Steps
    <3>3. (pc[c] = "done") \in BOOLEAN
      OBVIOUS
    <3>4. QED
      BY <1>5, <3>1, <3>2, <3>3 DEF Ask, Finish
  <2>3. QED
    BY <1>a, <2>1, <2>2
<1>6. ASSUME NEW c \in Clients, Connect(c) \/ Reconnect(c) \/ Disconnect(c) PROVE LadderInv'
  <2>1. UNCHANGED <<job, proc, ran>>
    BY <1>6 DEF Connect, Reconnect, Disconnect, Step, launchd
  <2>2. QED
    BY <1>0, <1>6, <1>b, <2>1, OutsideMoves
<1>7. CASE Dropped
  <2>1. Bridge \in Callers /\ \A d \in Callers : pc'[d] = IF d = Bridge THEN "idle" ELSE pc[d]
    BY <1>0, <1>7, BridgeAssumption DEF Dropped, Goto
  <2>2. QED
    BY <1>7, <1>a, <2>1 DEF Dropped, launchd, InLadder, LadderSteps
<1>8. CASE Restore \/ ClearOnLaunch \/ Launch
  BY <1>0, <1>8, <1>b, OutsideMoves DEF Restore, ClearOnLaunch, Launch, launchd
<1>9. CASE UserCommand
  BY <1>0, <1>9, <1>b, OutsideMoves DEF UserCommand, launchd
<1>10. CASE Reopen
  BY <1>0, <1>10, <1>b, OutsideMoves DEF Reopen, launchd
<1>11. CASE RequestQuit \/ Suppress \/ RecordSuppression
  BY <1>2, <1>11, <1>c DEF RequestQuit, Suppress, RecordSuppression, QuitStep, threads, launchd
<1>12. CASE StopService
  <2>1. CASE job' = "none" /\ proc' = "none" /\ UNCHANGED pc
    BY <1>1, <2>1
  <2>2. CASE UNCHANGED launchd
    BY <1>2, <1>12, <1>c, <2>2 DEF StopService, QuitStep, threads, launchd
  <2>3. QED
    BY <1>12, <2>1, <2>2 DEF StopService, QuitStep, threads
<1>13. CASE Exit \/ HostCrash
  BY <1>2, <1>13, <1>d DEF Exit, HostCrash, Gone, launchd
<1>14. CASE Reboot
  BY <1>0, <1>14, <1>d DEF Reboot, threads, HostInv
<1>15. CASE UNCHANGED vars
  BY <1>2, <1>15, <1>c DEF vars
<1>16. QED
  BY NextCases, <1>3, <1>4, <1>5, <1>6, <1>7, <1>8, <1>9, <1>10, <1>11, <1>12, <1>13,
     <1>14, <1>15

LEMMA Invariance == Spec => []Inv
<1>1. Inv /\ [Next]_vars => Inv'
  BY TypeStep, OneLadderStep, HostStep, StopStep, LadderStep DEF Inv
<1>2. QED
  BY InitInv, <1>1, PTL DEF Spec

-----------------------------------------------------------------------------
(* The theorems.                                                           *)

\* The variables keep their types: ensure_in_flight is zero or one, the start-up
\* task never exceeds BOOTSTRAP_MAX_ATTEMPTS, and a recorded suppression is of
\* this boot or an earlier one.
THEOREM TypeCorrect == Spec => []TypeOK
<1>1. Inv => TypeOK
  BY DEF Inv
<1>2. QED
  BY Invariance, <1>1, PTL

\* The coordinator never lets two callers run the launchctl ladder at once,
\* although its mutex is not held while the ladder runs.
THEOREM LaddersExclude == Spec => []OneLadder
<1>1. Inv => OneLadder
  BY DEF Inv
<1>2. QED
  BY Invariance, <1>1, PTL

\* After stop_for_current_session with no ladder in flight, no client, command,
\* reopen or start-up task of the quitting host brings the service back.
THEOREM StaysDown == Spec => []ServiceStaysDown
<1>1. Inv => ServiceStaysDown
  BY DEF Inv, StopInv, ServiceStaysDown
<1>2. QED
  BY Invariance, <1>1, PTL

\* An ensure_running that reports success leaves no process of an older build,
\* whatever crashed or was respawned between the steps of its ladder.
THEOREM EnsuredCurrent == Spec => EnsuredIsCurrent
<1> DEFINE A == \A c \in Callers : pc[c] # "done" /\ pc'[c] = "done" => proc' # "old"
<1>1. Inv /\ [Next]_vars => [A]_vars
  <2> SUFFICES ASSUME Inv, [Next]_vars, NEW c \in Callers, pc[c] # "done", pc'[c] = "done"
               PROVE  proc' # "old"
    OBVIOUS
  <2>0. /\ TypeOK /\ HostInv /\ LadderInv /\ pc \in [Callers -> Steps]
        /\ {"bootstrap", "user", "reopen"} \subseteq Callers /\ Clients \subseteq Callers
    BY DEF Inv, Callers, TypeOK
  <2>a. ASSUME NEW d \in Callers, Outside(d) PROVE FALSE
    BY <2>0, <2>a, OutsideKeeps DEF InLadder, LadderSteps
  <2>b. ASSUME pc'[c] \in {pc[c], "idle", "print"} PROVE FALSE
    BY <2>b
  <2>1. CASE \E d \in Callers : LadderAction(d)
    <3>1. PICK d \in Callers : LadderAction(d)
      BY <2>1
    <3>2. c = d
      BY <2>0, <3>1, LadderMoves, MoveType DEF Steps
    <3>3. CASE Socket(c)
      BY <2>0, <3>3 DEF Socket, Return, Step, Goto, launchd, LadderInv
    <3>4. CASE Wait(c)
      BY <2>0, <3>4 DEF Wait, Return, launchd, LadderInv
    <3>5. CASE LaunchctlPrint(c) \/ Probe(c) \/ Fresh(c)
      BY <2>0, <3>5 DEF LaunchctlPrint, Probe, Fresh, Step, Goto
    <3>6. CASE Bootout(c) \/ Bootstrap(c) \/ Kickstart(c) \/ CommandFails(c)
      BY <2>0, <3>6 DEF Bootout, Bootstrap, Kickstart, CommandFails, Return, Did, Goto
    <3>7. QED
      BY <3>1, <3>2, <3>3, <3>4, <3>5, <3>6 DEF LadderAction
  <2>2. CASE \E d \in Callers : Ask(d) \/ Finish(d)
    <3>1. PICK d \in Callers : Ask(d) \/ Finish(d)
      BY <2>2
    <3>2. CASE Goto(d, "print")
      BY <2>0, <2>b, <3>2 DEF Goto
    <3>3. CASE \E r \in BOOLEAN : Resume(d, r)
      BY <2>0, <3>3, ResumeMoves, MoveType DEF Steps, LadderSteps
    <3>4. (pc[d] = "done") \in BOOLEAN
      OBVIOUS
    <3>5. QED
      BY <3>1, <3>2, <3>3, <3>4 DEF Ask, Finish
  <2>3. CASE \E d \in Clients : Connect(d) \/ Reconnect(d) \/ Disconnect(d)
    BY <2>0, <2>3, <2>a, OutsideMoves
  <2>4. CASE Restore \/ ClearOnLaunch \/ UserCommand \/ Reopen \/ Launch
    BY <2>0, <2>4, <2>a, OutsideMoves
  <2>5. CASE Dropped
    BY <2>0, <2>5, BridgeAssumption DEF Dropped, Goto
  <2>6. CASE Spawn \/ ClearMarker \/ Serve \/ ServiceCrash \/ Reboot \/ UNCHANGED vars
    BY <2>6, <2>b DEF Spawn, ClearMarker, Serve, ServiceCrash, Reboot, threads, vars
  <2>7. CASE RequestQuit \/ Suppress \/ RecordSuppression \/ StopService
    BY <2>7, <2>b DEF RequestQuit, Suppress, RecordSuppression, StopService, QuitStep, threads
  <2>8. CASE Exit \/ HostCrash
    BY <2>8, <2>b DEF Exit, HostCrash, Gone
  <2>9. QED
    BY NextCases, <2>1, <2>2, <2>3, <2>4, <2>5, <2>6, <2>7, <2>8
<1>2. QED
  BY Invariance, <1>1, PTL DEF Spec, EnsuredIsCurrent

=============================================================================
