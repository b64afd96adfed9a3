----------------------- MODULE SidecarSupervisorProofs -----------------------
(***************************************************************************)
(* Proofs about SidecarSupervisor, for any number of tasks, workers and     *)
(* spawns.  The inductive invariant, per worker:                            *)
(*                                                                         *)
(*   LockInv    the callers between taking and releasing the spawn lock     *)
(*              hold it, so there is one of them at most                    *)
(*   StartInv   while one of them starts a process no child is installed,   *)
(*              and its process has not been counted as a generation        *)
(*   ClientInv  a child without a client is being taken by a shutdown       *)
(*   AliveInv   a running process is the child, or some caller has it in    *)
(*              hand, to finish its start or to kill it                     *)
(*   LoopInv    supervision_started is set only while the loop of the       *)
(*              current generation runs, and a child that is installed      *)
(*              while it is not set has a loop that is stopping it          *)
(*   CallInv    clients, calls and sessions name processes that have been   *)
(*              spawned and are not under construction                      *)
(*   BindInv    a hot binding names the session of its task's turn, and     *)
(*              does not outlive its process unnoticed                      *)
(***************************************************************************)
EXTENDS SidecarSupervisor, TLAPS, FiniteSetTheorems

LockStates == {"exec", "handshake", "close", "drain", "take", "kill", "release"}
Stopping   == {"close", "drain", "take"}
Watching   == {"watch", "sample"}
InCall     == {"count", "recheck", "call"}
Reconciles == {"kill", "release", "slay", "bury", "reconcile"}

\* States of a task or a responder that hold nothing of the supervisor.
Free == InCall \cup {"none", "ensure", "spawn", "admit", "commit", "done", "failed",
                     "stop", "evict", "force"}

\* Process p, or none, has been spawned and is not under construction.
Known(w, p) ==
    /\ p \in 0..spawned[w]
    /\ \A c \in Callers : Home(c) = w /\ at[c] = "handshake" => on[c] # p

LockInv == \A c \in Callers : at[c] \in LockStates => lock[Home(c)] = c

StartInv ==
    /\ \A c \in Callers : at[c] \in {"exec", "handshake"} =>
          c \in Tasks \cup Workers /\ sup[Home(c)].child = 0
    /\ \A c \in Callers : at[c] = "handshake" =>
          on[c] \in 1..spawned[Home(c)] /\ sup[Home(c)].generation < spawned[Home(c)]

ClientInv ==
    \A w \in Workers : sup[w].child # 0 /\ sup[w].client = 0 =>
        \E c \in Callers : Home(c) = w /\ at[c] \in Stopping

AliveInv ==
    \A w \in Workers, p \in Processes : proc[w][p] # "none" =>
        \/ p = sup[w].child
        \/ \E c \in Callers : Home(c) = w /\ at[c] \in {"handshake", "kill", "slay"} /\ on[c] = p

LoopInv ==
    \A w \in Workers :
        /\ sup[w].generation <= spawned[w]
        /\ \A g \in Processes : g > sup[w].generation => at[<<w, g>>] = "none"
        /\ sup[w].started =>
              sup[w].generation \in Processes /\ at[<<w, sup[w].generation>>] \in Watching
        /\ sup[w].child # 0 /\ ~sup[w].started =>
              \E g \in Processes : at[<<w, g>>] \in {"stop"} \cup Stopping

CallInv ==
    /\ \A w \in Workers : Known(w, sup[w].client)
    /\ \A t \in Tasks : Known(WorkerOf[t], session[t])
    /\ \A c \in Tasks \cup Workers :
          /\ at[c] \in Free \cup {"exec", "release", "bury"} =>
                IF at[c] \in InCall THEN on[c] \in Processes /\ Known(Home(c), on[c])
                                    ELSE on[c] = 0
          /\ at[c] = "call" => proc[Home(c)][on[c]] # "asked"

BindInv ==
    \A t \in Tasks : bound[t] # 0 =>
        /\ bound[t] = session[t]
        /\ at[t] = "done" /\ proc[WorkerOf[t]][bound[t]] = "none" =>
              \/ sup[WorkerOf[t]].child = bound[t]
              \/ \E c \in Callers : Home(c) = WorkerOf[t] /\ at[c] \in Reconciles

Inv == TypeOK /\ LockInv /\ StartInv /\ ClientInv /\ AliveInv /\ LoopInv /\ CallInv /\ BindInv

-----------------------------------------------------------------------------
(* Callers and their workers.                                              *)

LEMMA HomeFacts ==
    /\ \A c \in Callers : Home(c) \in Workers
    /\ \A t \in Tasks : Home(t) = WorkerOf[t] /\ t \in Callers
    /\ \A w \in Workers : Home(w) = w /\ w \in Callers
    /\ \A w \in Workers, g \in Processes :
          Home(<<w, g>>) = w /\ <<w, g>> \in Callers /\ <<w, g>> \in Loops
          /\ <<w, g>> \notin Tasks \cup Workers
<1>1. \A t \in Tasks : Home(t) = WorkerOf[t] /\ t \in Callers
  BY DEF Home, Callers
<1>2. \A w \in Workers : Home(w) = w /\ w \in Callers
  BY NamesAssumption DEF Home, Callers
<1>3. \A w \in Workers, g \in Processes :
          Home(<<w, g>>) = w /\ <<w, g>> \in Callers /\ <<w, g>> \in Loops
          /\ <<w, g>> \notin Tasks \cup Workers
  BY NamesAssumption DEF Home, Callers, Loops
<1>4. ASSUME NEW c \in Callers PROVE Home(c) \in Workers
  <2>1. CASE c \in Tasks
    BY <1>1, <2>1, WorkerOfAssumption
  <2>2. CASE c \in Workers
    BY <1>2, <2>2
  <2>3. CASE c \in Loops
    <3>1. PICK w \in Workers, g \in Processes : c = <<w, g>>
      BY <2>3 DEF Loops
    <3>2. QED
      BY <1>3, <3>1
  <2>4. QED
    BY <2>1, <2>2, <2>3 DEF Callers
<1>5. QED
  BY <1>1, <1>2, <1>3, <1>4

-----------------------------------------------------------------------------
(* Steps that leave the lock, the child and the client alone.              *)

SameSup ==
    \A w \in Workers :
        /\ sup'[w].child = sup[w].child /\ sup'[w].client = sup[w].client
        /\ sup'[w].started = sup[w].started /\ sup'[w].generation = sup[w].generation

SameAlive == \A w \in Workers, p \in Processes : proc'[w][p] = "none" <=> proc[w][p] = "none"

\* What such a step may do to a caller: move a task or a responder that holds
\* nothing, let a loop sample, end the loop of an old generation, or take a
\* shutdown one stage further.
QuietMove(c) ==
    \/ at'[c] = at[c] /\ on'[c] = on[c]
    \/ /\ c \in Tasks \cup Workers /\ at[c] \in Free /\ at'[c] \in Free
       /\ IF at'[c] \in InCall THEN on'[c] \in Processes /\ Known(Home(c), on'[c])
                               ELSE on'[c] = 0
    \/ c \in Loops /\ at[c] \in Watching /\ at'[c] \in Watching
    \/ /\ at[c] = "watch" /\ at'[c] = "ended"
       /\ \E w \in Workers, g \in Processes : c = <<w, g>> /\ sup[w].generation # g
    \/ at[c] \in Stopping /\ at'[c] \in Stopping /\ on'[c] = on[c]

QuietBinding(t) ==
    bound'[t] # 0 =>
        /\ bound'[t] = session'[t]
        /\ at'[t] = "done" =>
              \/ proc[WorkerOf[t]][bound'[t]] # "none"
              \/ at[t] = "done" /\ bound[t] = bound'[t]

LEMMA QuietStep ==
    ASSUME Inv, TypeOK', SameSup, SameAlive, UNCHANGED <<spawned, lock>>,
           \A c \in Callers : QuietMove(c),
           \A t \in Tasks : QuietBinding(t) /\ Known(WorkerOf[t], session'[t]),
           \A c \in Tasks \cup Workers : at'[c] = "call" => proc'[Home(c)][on'[c]] # "asked"
    PROVE  Inv'
<1> USE DEF SameSup, SameAlive
<1>0. /\ \A c \in Callers : Home(c) \in Workers
      /\ \A w \in Workers, g \in Processes : <<w, g>> \in Callers /\ Home(<<w, g>>) = w
      /\ \A w \in Workers, g \in Processes : <<w, g>> \notin Tasks \cup Workers
      /\ \A t \in Tasks : t \in Callers /\ WorkerOf[t] \in Workers
      /\ Tasks \cup Workers \subseteq Callers
  BY HomeFacts
<1>1. ASSUME NEW c \in Callers
      PROVE  /\ \A s \in {"exec", "handshake", "kill", "release", "slay", "bury", "reconcile"} :
                   (at'[c] = s <=> at[c] = s) /\ (at[c] = s => on'[c] = on[c])
             /\ at'[c] \in Stopping <=> at[c] \in Stopping
             /\ at'[c] \in LockStates <=> at[c] \in LockStates
  BY DEF QuietMove, Free, InCall, Watching, Stopping, LockStates
<1>2. LockInv'
  BY <1>1 DEF Inv, LockInv
<1>3. StartInv'
  BY <1>0, <1>1 DEF Inv, StartInv
<1>4. ClientInv'
  BY <1>0, <1>1 DEF Inv, ClientInv
<1>5. AliveInv'
  BY <1>0, <1>1 DEF Inv, AliveInv
<1>6. LoopInv'
  <2> SUFFICES ASSUME NEW w \in Workers PROVE LoopInv!(w)'
    BY DEF LoopInv
  <2>1. ASSUME NEW g \in Processes, at[<<w, g>>] = "none" PROVE at'[<<w, g>>] = "none"
    BY <1>0, <2>1 DEF QuietMove, Watching, Stopping
  <2>2. ASSUME NEW g \in Processes, at[<<w, g>>] \in Watching, sup[w].generation = g
        PROVE  at'[<<w, g>>] \in Watching
    <3>1. ~ \E v \in Workers, h \in Processes : <<w, g>> = <<v, h>> /\ sup[v].generation # h
      BY <2>2
    <3>2. QED
      BY <1>0, <2>2, <3>1 DEF QuietMove, Watching, Stopping
  <2>3. ASSUME NEW g \in Processes, at[<<w, g>>] \in {"stop"} \cup Stopping
        PROVE  at'[<<w, g>>] \in {"stop"} \cup Stopping
    BY <1>0, <2>3 DEF QuietMove, Watching, Stopping
  <2>4. QED
    BY <2>1, <2>2, <2>3 DEF Inv, LoopInv
<1>7. CallInv'
  <2>1. ASSUME NEW w \in Workers, NEW p, Known(w, p) PROVE Known(w, p)'
    BY <1>1, <2>1 DEF Known
  <2>2. ASSUME NEW c \in Tasks \cup Workers, at'[c] \in Free \cup {"exec", "release", "bury"}
        PROVE  IF at'[c] \in InCall THEN on'[c] \in Processes /\ Known(Home(c), on'[c])
                                    ELSE on'[c] = 0
    <3>1. CASE at'[c] = at[c] /\ on'[c] = on[c]
      BY <2>2, <3>1 DEF Inv, CallInv
    <3>2. CASE c \in Tasks \cup Workers /\ at[c] \in Free /\ at'[c] \in Free
       /\ IF at'[c] \in InCall THEN on'[c] \in Processes /\ Known(Home(c), on'[c])
                               ELSE on'[c] = 0
      BY <3>2
    <3>3. QED
      BY <1>0, <2>2, <3>1, <3>2, NamesAssumption
         DEF QuietMove, Watching, Stopping, Free, InCall
  <2>3. ASSUME NEW w \in Workers PROVE Known(w, sup[w].client)'
    BY <2>1 DEF Inv, CallInv
  <2>4. ASSUME NEW t \in Tasks PROVE Known(WorkerOf[t], session[t])'
    BY <1>0, <2>1
  <2>5. ASSUME NEW c \in Tasks \cup Workers, at'[c] \in Free \cup {"exec", "release", "bury"}
        PROVE  IF at'[c] \in InCall THEN on'[c] \in Processes /\ Known(Home(c), on[c])'
                                    ELSE on'[c] = 0
    BY <1>0, <2>1, <2>2, <2>5
  <2>6. QED
    BY <2>3, <2>4, <2>5 DEF CallInv
<1>8. BindInv'
  <2> SUFFICES ASSUME NEW t \in Tasks, bound'[t] # 0 PROVE BindInv!(t)'
    BY DEF BindInv
  <2>0. bound'[t] \in Processes /\ QuietBinding(t) /\ WorkerOf[t] \in Workers
    BY <1>0 DEF TypeOK, Processes, Handles
  <2>1. \A c \in Callers : at[c] \in Reconciles => at'[c] \in Reconciles
    BY <1>1 DEF Reconciles
  <2>2. QED
    BY <2>0, <2>1 DEF Inv, BindInv, QuietBinding
<1>9. QED
  BY <1>2, <1>3, <1>4, <1>5, <1>6, <1>7, <1>8 DEF Inv

-----------------------------------------------------------------------------
(* Type correctness, action by action.                                     *)

LEMMA NoneIsHandle == 0 \in Handles /\ Processes \subseteq Handles
  BY BoundsAssumption DEF Handles, Processes

LEMMA FailedType ==
    ASSUME TypeOK, NEW c \in Callers, CallFailed(c)
    PROVE  /\ at' \in [Callers -> States] /\ on' \in [Callers -> Handles]
           /\ session' \in [Tasks -> Handles] /\ bound' \in [Tasks -> Handles]
  BY NoneIsHandle DEF TypeOK, CallFailed, States

LEMMA KillType ==
    ASSUME TypeOK, NEW w \in Workers, NEW p, Kill(w, p)
    PROVE  proc' \in [Workers -> [Processes -> ProcStates]]
  BY DEF TypeOK, Kill, ProcStates

\* A supervisor after a change to some of its fields.
LEMMA SupFields ==
    ASSUME NEW s \in Sups
    PROVE  /\ \A p \in Handles : [s EXCEPT !.client = p] \in Sups
           /\ \A b \in BOOLEAN : [s EXCEPT !.started = b] \in Sups
           /\ \A b \in BOOLEAN : [s EXCEPT !.idle = b] \in Sups
           /\ \A n \in Nat : [s EXCEPT !.recent = n] \in Sups
           /\ \A l \in {"normal", "pressure", "limit"} : [s EXCEPT !.latch = l] \in Sups
           /\ \A p \in Handles : [s EXCEPT !.child = p, !.started = FALSE] \in Sups
           /\ \A p, g \in Handles :
                [s EXCEPT !.child = p, !.client = p, !.idle = FALSE, !.attempts = 0,
                          !.started = TRUE, !.generation = g] \in Sups
<1>1. /\ s.child \in Handles /\ s.client \in Handles /\ s.started \in BOOLEAN
      /\ s.generation \in Handles /\ s.attempts \in Nat /\ s.recent \in Nat
      /\ s.idle \in BOOLEAN /\ s.latch \in {"normal", "pressure", "limit"}
      /\ s = [child |-> s.child, client |-> s.client, started |-> s.started,
              generation |-> s.generation, attempts |-> s.attempts, recent |-> s.recent,
              idle |-> s.idle, latch |-> s.latch]
  BY DEF Sups
<1>2. QED
  BY <1>1 DEF Sups

LEMMA SupType ==
    ASSUME TypeOK, NEW w \in Workers, NEW s \in Sups, sup' = [sup EXCEPT ![w] = s]
    PROVE  sup' \in [Workers -> Sups]
  BY DEF TypeOK

LEMMA CallTypes ==
    ASSUME Inv, NEW c \in Tasks \cup Workers, Call(c)
    PROVE  TypeOK'
<1> DEFINE w == Home(c)
<1> USE DEF procVars, bindVars, gateVars
<1>0. TypeOK /\ c \in Callers /\ w \in Workers
  BY HomeFacts DEF Inv
<1>1. CASE EnsureStarted(c) \/ SpawnedMeanwhile(c) \/ CountCall(c)
  BY <1>0, <1>1 DEF EnsureStarted, SpawnedMeanwhile, CountCall, Goto, TypeOK, States
<1>2. ASSUME NEW recent \in 0..MaxSpawns, SpawnLock(c, recent) PROVE TypeOK'
  <2>1. sup' \in [Workers -> Sups]
    <3>1. sup' = [sup EXCEPT ![w] = [sup[w] EXCEPT !.recent = recent]]
      BY <1>0, <1>2 DEF SpawnLock
    <3>2. recent \in Nat /\ sup[w] \in Sups
      BY <1>0, BoundsAssumption DEF TypeOK
    <3>3. [sup[w] EXCEPT !.recent = recent] \in Sups
      BY <3>2, SupFields, NoneIsHandle
    <3>4. QED
      BY <1>0, <3>1, <3>3, SupType
  <2>2. CASE MaySpawn(w, recent)
    <3>1. at' \in [Callers -> States] /\ lock' \in [Workers -> Callers \cup {NoOne}]
      BY <1>0, <1>2, <2>2 DEF SpawnLock, Goto, TypeOK, States
    <3>2. QED
      BY <1>0, <1>2, <2>1, <2>2, <3>1 DEF SpawnLock, TypeOK
  <2>3. CASE ~MaySpawn(w, recent)
    BY <1>0, <1>2, <2>1, <2>3, FailedType DEF SpawnLock, TypeOK
  <2>4. QED
    BY <2>2, <2>3
<1>3. CASE SpawnProcess(c)
  BY <1>0, <1>3, BoundsAssumption DEF SpawnProcess, Goto, TypeOK, States, ProcStates, Processes, Handles
<1>4. CASE SpawnFails(c)
  BY <1>0, <1>4, FailedType, KillType DEF SpawnFails, TypeOK
<1>5. CASE Install(c)
  <2> DEFINE s == sup[w]
             g == IF s.started THEN s.generation ELSE s.generation + 1
             r == [s EXCEPT !.child = on[c], !.client = on[c], !.idle = FALSE, !.attempts = 0,
                            !.started = TRUE, !.generation = g]
  <2>1. at[c] = "handshake" /\ sup' = [sup EXCEPT ![w] = r]
    BY <1>5 DEF Install
  <2>2. g \in Handles
    <3>1. /\ s.generation \in Handles /\ spawned[w] \in Handles
          /\ s.generation < spawned[w]
      BY <1>0, <2>1 DEF Inv, StartInv, TypeOK, Sups
    <3>2. QED
      BY <3>1, BoundsAssumption DEF Handles
  <2> HIDE DEF g
  <2>3. r \in Sups
    <3>1. s \in Sups /\ on[c] \in Handles
      BY <1>0 DEF TypeOK
    <3>2. QED
      BY <2>2, <3>1, SupFields
  <2> HIDE DEF r
  <2>4. sup' \in [Workers -> Sups]
    BY <1>0, <2>1, <2>3, SupType
  <2>5. proc' \in [Workers -> [Processes -> ProcStates]]
    BY <1>0, <1>5, KillType DEF Install
  <2>6. at' \in [Callers -> States]
    BY <1>0, <1>5 DEF Install, TypeOK, States
  <2>7. /\ on' \in [Callers -> Handles] /\ lock' \in [Workers -> Callers \cup {NoOne}]
        /\ level' \in [Workers -> {"normal", "pressure", "soft", "hard"}]
    BY <1>0, <1>5, NoneIsHandle DEF Install, TypeOK
  <2>8. QED
    BY <1>0, <1>5, <2>4, <2>5, <2>6, <2>7 DEF Install, TypeOK
<1>6. CASE BeginCall(c)
  <2>1. sup' \in [Workers -> Sups] /\ sup[w].client \in Handles
    <3>1. sup' = [sup EXCEPT ![w] = [sup[w] EXCEPT !.idle = FALSE]]
      BY <1>0, <1>6 DEF BeginCall
    <3>2. sup[w] \in Sups
      BY <1>0 DEF TypeOK
    <3>3. [sup[w] EXCEPT !.idle = FALSE] \in Sups /\ sup[w].client \in Handles
      <4>1. [sup[w] EXCEPT !.idle = FALSE] \in Sups
        BY <3>2, SupFields
      <4>2. sup[w].client \in Handles
        BY <3>2 DEF Sups
      <4>3. QED
        BY <4>1, <4>2
    <3>4. QED
      BY <1>0, <3>1, <3>3, SupType
  <2>2. CASE sup[w].client # 0 /\ proc[w][sup[w].client] = "open"
    BY <1>0, <1>6, <2>1, <2>2 DEF BeginCall, Goto, TypeOK, States
  <2>3. CASE ~(sup[w].client # 0 /\ proc[w][sup[w].client] = "open")
    BY <1>0, <1>6, <2>1, <2>3, FailedType DEF BeginCall, TypeOK
  <2>4. QED
    BY <2>2, <2>3
<1>7. CASE AdmitCall(c)
  <2>1. CASE proc[w][on[c]] = "open"
    BY <1>0, <1>7, <2>1 DEF AdmitCall, Goto, TypeOK, States
  <2>2. CASE proc[w][on[c]] # "open"
    BY <1>0, <1>7, <2>2, FailedType DEF AdmitCall, TypeOK
  <2>3. QED
    BY <2>1, <2>2
<1>8. CASE CallReturns(c)
  BY <1>0, <1>8, NoneIsHandle DEF CallReturns, Goto, TypeOK, States
<1>9. CASE CallEnds(c)
  BY <1>0, <1>9, FailedType DEF CallEnds, TypeOK
<1>10. QED
  BY <1>1, <1>2, <1>3, <1>4, <1>5, <1>6, <1>7, <1>8, <1>9 DEF Call, Sending

LEMMA StopTypes ==
    ASSUME Inv, NEW c \in Workers \cup Loops, Stop(c)
    PROVE  TypeOK'
<1> DEFINE w == Home(c)
<1> USE DEF procVars, bindVars, gateVars
<1>0. TypeOK /\ c \in Callers /\ w \in Workers
  BY HomeFacts DEF Inv, Callers
<1>a. sup[w] \in Sups /\ sup[w].client \in Handles /\ sup[w].child \in Handles
  BY <1>0 DEF TypeOK, Sups
<1>1. CASE StopLock(c)
  <2>1. sup' = [sup EXCEPT ![w] = [sup[w] EXCEPT !.client = 0]]
    BY <1>0, <1>1 DEF StopLock
  <2>2. [sup[w] EXCEPT !.client = 0] \in Sups
    BY <1>a, SupFields, NoneIsHandle
  <2>3. sup' \in [Workers -> Sups]
    BY <1>0, <2>1, <2>2, SupType
  <2>4. QED
    BY <1>0, <1>a, <1>1, <2>3 DEF StopLock, Goto, TypeOK, States
<1>2. CASE CloseForShutdown(c)
  BY <1>0, <1>2 DEF CloseForShutdown, Goto, TypeOK, States, ProcStates
<1>3. CASE Drained(c)
  BY <1>0, <1>3 DEF Drained, Goto, TypeOK, States, ProcStates
<1>4. CASE DrainTimeout(c)
  BY <1>0, <1>4 DEF DrainTimeout, Goto, TypeOK, States
<1>5. CASE StopTake(c)
  <2>1. sup' = [sup EXCEPT ![w] = [sup[w] EXCEPT !.child = 0, !.started = FALSE]]
    BY <1>0, <1>5 DEF StopTake, TypeOK
  <2>2. [sup[w] EXCEPT !.child = 0, !.started = FALSE] \in Sups
    BY <1>a, SupFields, NoneIsHandle
  <2>3. sup' \in [Workers -> Sups]
    BY <1>0, <2>1, <2>2, SupType
  <2>4. QED
    BY <1>0, <1>a, <1>5, <2>3 DEF StopTake, Goto, TypeOK, States
<1>6. CASE StopKill(c)
  BY <1>0, <1>6, KillType, NoneIsHandle DEF StopKill, Goto, TypeOK, States
<1>7. CASE StopRelease(c)
  BY <1>0, <1>7, NoneIsHandle DEF StopRelease, ReleaseBindings, Goto, TypeOK, States
<1>8. QED
  BY <1>1, <1>2, <1>3, <1>4, <1>5, <1>6, <1>7 DEF Stop

LEMMA LoopTypes ==
    ASSUME Inv, NEW w \in Workers, NEW g \in Processes, Loop(w, g)
    PROVE  TypeOK'
<1> USE DEF procVars, bindVars, gateVars
<1>0. TypeOK /\ <<w, g>> \in Callers /\ w \in Callers
  BY HomeFacts DEF Inv
<1>1. CASE LoopStale(w, g)
  BY <1>0, <1>1 DEF LoopStale, Goto, TypeOK, States
<1>a. sup[w] \in Sups
  BY <1>0 DEF TypeOK
<1>2. CASE LoopChildTaken(w, g) \/ LoopIdle(w, g)
  <2>1. sup' = [sup EXCEPT ![w] = [sup[w] EXCEPT !.started = FALSE]]
    BY <1>0, <1>2 DEF LoopChildTaken, LoopIdle
  <2>2. [sup[w] EXCEPT !.started = FALSE] \in Sups
    BY <1>a, SupFields, NoneIsHandle
  <2>3. sup' \in [Workers -> Sups]
    BY <1>0, <2>1, <2>2, SupType
  <2>4. QED
    BY <1>0, <1>2, <2>3 DEF LoopChildTaken, LoopIdle, Goto, TypeOK, States
<1>3. CASE LoopCrash(w, g)
  BY <1>0, <1>3, NoneIsHandle DEF LoopCrash, Goto, TypeOK, States, Sups
<1>4. CASE LoopReconcile(w, g)
  BY <1>0, <1>4, NoneIsHandle DEF LoopReconcile, ReleaseBindings, Goto, TypeOK, States
<1>5. CASE LoopSamples(w, g)
  BY <1>0, <1>5 DEF LoopSamples, Goto, TypeOK, States, Sups
<1>6. CASE Sample(w, g)
  <2> DEFINE l == Seen(w, on[<<w, g>>])
             a == Action(sup[w].latch, l)
  <2>1. l \in {"normal", "pressure", "soft", "hard"}
    BY <1>0 DEF Seen, TypeOK
  <2> HIDE DEF l
  <2>2. Latch(l) \in {"normal", "pressure", "limit"}
    BY <2>1 DEF Latch
  <2>3. a \in {"none", "resume", "force_kill", "graceful_restart", "pause"}
    BY <2>1, <2>2 DEF Action, Latch
  <2> HIDE DEF a
  <2>4. Respond(w, g, a) /\ sup' = [sup EXCEPT ![w].latch = Latch(l)]
    BY <1>6 DEF Sample, a, l
  <2>5. sup' \in [Workers -> Sups]
    <3>1. [sup[w] EXCEPT !.latch = Latch(l)] \in Sups
      BY <1>a, <2>2, SupFields, NoneIsHandle
    <3>2. QED
      BY <1>0, <2>4, <3>1, SupType
  <2>6. paused' \in BOOLEAN
    BY <1>0, <2>4 DEF Respond, TypeOK
  <2>7. at' \in [Callers -> States]
    BY <1>0, <2>3, <2>4 DEF Respond, TypeOK, States
  <2>8. QED
    BY <1>0, <1>6, <2>5, <2>6, <2>7, NoneIsHandle DEF Sample, TypeOK
<1>7. CASE SampleSkipped(w, g)
  BY <1>0, <1>7, NoneIsHandle DEF SampleSkipped, Goto, TypeOK, States
<1>8. QED
  BY <1>1, <1>2, <1>3, <1>4, <1>5, <1>6, <1>7 DEF Loop

LEMMA OtherTypes ==
    ASSUME Inv,
           \/ \E t \in Tasks : Begin(t) \/ CommitBinding(t)
           \/ \E w \in Workers : Responder(w) \/ Environment(w)
    PROVE  TypeOK'
<1> USE DEF procVars, bindVars, gateVars
<1>0. TypeOK /\ Tasks \subseteq Callers /\ Workers \subseteq Callers
  BY HomeFacts DEF Inv
<1>1. ASSUME NEW t \in Tasks, Begin(t) \/ CommitBinding(t) PROVE TypeOK'
  BY <1>0, <1>1 DEF Begin, CommitBinding, Goto, TypeOK, States
<1>2. ASSUME NEW w \in Workers, Responder(w) PROVE TypeOK'
  <2>1. CASE KillTake(w)
    <3>1. sup' = [sup EXCEPT ![w] = [sup[w] EXCEPT !.child = 0]] /\ sup[w] \in Sups
      BY <1>0, <2>1 DEF KillTake, TypeOK
    <3>2. [sup[w] EXCEPT !.child = 0] \in Sups /\ sup[w].child \in Handles
      BY <3>1, NoneIsHandle DEF Sups
    <3>3. sup' \in [Workers -> Sups]
      BY <1>0, <3>1, <3>2, SupType
    <3>4. at' \in [Callers -> States] /\ on' \in [Callers -> Handles]
      BY <1>0, <2>1, <3>2 DEF KillTake, Goto, TypeOK, States
    <3>5. QED
      BY <1>0, <2>1, <3>3, <3>4 DEF KillTake, TypeOK
  <2>2. CASE KillProcess(w)
    BY <1>0, <2>2, KillType, NoneIsHandle DEF KillProcess, Goto, TypeOK, States
  <2>3. CASE KillReconcile(w)
    BY <1>0, <2>3, NoneIsHandle DEF KillReconcile, ReleaseBindings, Goto, TypeOK, States
  <2>4. CASE \E S \in SUBSET Tasks : EvictLru(w, S)
    BY <1>0, <2>4, NoneIsHandle DEF EvictLru, Goto, TypeOK, States
  <2>5. QED
    BY <1>2, <2>1, <2>2, <2>3, <2>4 DEF Responder
<1>3. ASSUME NEW w \in Workers, Environment(w) PROVE TypeOK'
  <2>1. CASE \E p \in Processes : ProcessExits(w, p)
    BY <1>0, <2>1, KillType DEF ProcessExits, TypeOK
  <2>2. CASE BecomesIdle(w)
    <3>1. sup' = [sup EXCEPT ![w] = [sup[w] EXCEPT !.idle = TRUE]] /\ sup[w] \in Sups
      BY <1>0, <2>2 DEF BecomesIdle, TypeOK
    <3>2. sup' \in [Workers -> Sups]
      BY <1>0, <3>1, SupFields, SupType
    <3>3. QED
      BY <1>0, <2>2, <3>2 DEF BecomesIdle, TypeOK
  <2>3. CASE \E l \in Levels : MemoryChanges(w, l)
    BY <1>0, <2>3, LevelsAssumption DEF MemoryChanges, TypeOK
  <2>4. QED
    BY <1>3, <2>1, <2>2, <2>3 DEF Environment
<1>4. QED
  BY <1>1, <1>2, <1>3

-----------------------------------------------------------------------------
(* The calls of tasks and responders.                                      *)

\* One task or responder moves from one state that holds nothing to another.
LEMMA FreeStep ==
    ASSUME Inv, TypeOK', SameSup, UNCHANGED <<proc, spawned, lock>>,
           NEW c \in Tasks \cup Workers, at[c] \in Free, NEW to \in Free, NEW n,
           at' = [at EXCEPT ![c] = to], on' = [on EXCEPT ![c] = n],
           IF to \in InCall THEN n \in Processes /\ Known(Home(c), n) ELSE n = 0,
           to = "call" => proc[Home(c)][n] # "asked",
           \A t \in Tasks : QuietBinding(t) /\ Known(WorkerOf[t], session'[t])
    PROVE  Inv'
<1>0. Tasks \cup Workers \subseteq Callers
  BY HomeFacts
<1>1. /\ \A d \in Callers : at'[d] = IF d = c THEN to ELSE at[d]
      /\ \A d \in Callers : on'[d] = IF d = c THEN n ELSE on[d]
  BY DEF Inv, TypeOK
<1>2. \A d \in Callers : QuietMove(d)
  BY <1>0, <1>1 DEF QuietMove
<1>3. SameAlive
  BY DEF SameAlive
<1>4. \A d \in Tasks \cup Workers : at'[d] = "call" => proc'[Home(d)][on'[d]] # "asked"
  BY <1>0, <1>1 DEF Inv, CallInv
<1>5. QED
  BY <1>2, <1>3, <1>4, QuietStep

\* The same, when it does not touch the bindings and is not done yet.
LEMMA FreeMove ==
    ASSUME Inv, TypeOK', SameSup, UNCHANGED <<proc, spawned, lock, session, bound>>,
           NEW c \in Tasks \cup Workers, at[c] \in Free, NEW to \in Free, to # "done", NEW n,
           at' = [at EXCEPT ![c] = to], on' = [on EXCEPT ![c] = n],
           IF to \in InCall THEN n \in Processes /\ Known(Home(c), n) ELSE n = 0,
           to = "call" => proc[Home(c)][n] # "asked"
    PROVE  Inv'
<1>1. \A t \in Tasks : at'[t] = "done" => at[t] = "done"
  BY HomeFacts DEF Inv, TypeOK
<1>2. \A t \in Tasks : QuietBinding(t) /\ Known(WorkerOf[t], session'[t])
  BY <1>1 DEF QuietBinding, Inv, BindInv, CallInv
<1>3. QED
  BY <1>2, FreeStep

\* A call that fails takes the binding of its task with it.
LEMMA FailStep ==
    ASSUME Inv, TypeOK', SameSup, UNCHANGED <<proc, spawned, lock>>,
           NEW c \in Tasks \cup Workers, at[c] \in Free, CallFailed(c)
    PROVE  Inv'
<1> DEFINE to == IF c \in Workers THEN "stop" ELSE IF session[c] = 0 THEN "failed" ELSE "done"
<1>1. /\ at' = [at EXCEPT ![c] = to] /\ on' = [on EXCEPT ![c] = 0] /\ session' = session
      /\ \A t \in Tasks : bound'[t] = IF t = c /\ session[t] # 0 THEN 0 ELSE bound[t]
  BY DEF CallFailed
<1>2. to \in Free /\ to \notin InCall /\ to # "call"
  BY DEF Free, InCall
<1>3. to = "done" => session[c] # 0
  OBVIOUS
<1> HIDE DEF to
<1>4. \A t \in Tasks : at'[t] = IF t = c THEN to ELSE at[t]
  BY <1>1, HomeFacts DEF Inv, TypeOK
<1>5. \A t \in Tasks : QuietBinding(t) /\ Known(WorkerOf[t], session'[t])
  BY <1>1, <1>3, <1>4 DEF QuietBinding, Inv, BindInv, CallInv
<1>6. QED
  BY <1>1, <1>2, <1>5, FreeStep

LEMMA TaskSteps ==
    ASSUME Inv, NEW t \in Tasks, Begin(t) \/ CommitBinding(t)
    PROVE  Inv'
<1> USE DEF procVars, bindVars, gateVars
<1>0. TypeOK' /\ t \in Tasks \cup Workers /\ t \in Callers /\ TypeOK
  BY OtherTypes, HomeFacts DEF Inv
<1>1. CASE Begin(t)
  <2>1. at[t] = "none" /\ at' = [at EXCEPT ![t] = "ensure"] /\ on' = [on EXCEPT ![t] = 0]
    <3>1. on[t] = 0
      BY <1>0, <1>1 DEF Begin, Goto, Inv, CallInv, Free, InCall
    <3>2. QED
      BY <1>0, <1>1, <3>1 DEF Begin, Goto, TypeOK
  <2>2. SameSup /\ UNCHANGED <<proc, spawned, lock, session, bound>>
    BY <1>1 DEF Begin, SameSup
  <2>3. at[t] \in Free /\ "ensure" \in Free /\ "ensure" \notin InCall
    BY <2>1 DEF Free, InCall
  <2>4. QED
    BY <1>0, <2>1, <2>2, <2>3, FreeMove
<1>2. CASE CommitBinding(t)
  <2>1. at[t] = "commit" /\ at' = [at EXCEPT ![t] = "ensure"] /\ on' = [on EXCEPT ![t] = 0]
    <3>1. on[t] = 0
      BY <1>0, <1>2 DEF CommitBinding, Goto, Inv, CallInv, Free, InCall
    <3>2. QED
      BY <1>0, <1>2, <3>1 DEF CommitBinding, Goto, TypeOK
  <2>2. /\ SameSup /\ UNCHANGED <<proc, spawned, lock, session>>
        /\ bound' = [bound EXCEPT ![t] = session[t]]
    BY <1>2 DEF CommitBinding, SameSup
  <2>3. at[t] \in Free /\ "ensure" \in Free /\ "ensure" \notin InCall
    BY <2>1 DEF Free, InCall
  <2>4. \A u \in Tasks : QuietBinding(u) /\ Known(WorkerOf[u], session'[u])
    <3>1. \A u \in Tasks : /\ bound'[u] = IF u = t THEN session[u] ELSE bound[u]
                           /\ at'[u] = IF u = t THEN "ensure" ELSE at[u]
      BY <1>0, <2>1, <2>2, HomeFacts DEF TypeOK
    <3>2. QED
      BY <2>2, <3>1 DEF QuietBinding, Inv, BindInv, CallInv
  <2>5. QED
    BY <1>0, <2>1, <2>2, <2>3, <2>4, FreeStep
<1>3. QED
  BY <1>1, <1>2

LEMMA QuietCalls ==
    ASSUME Inv, NEW c \in Tasks \cup Workers,
           \/ EnsureStarted(c) \/ SpawnedMeanwhile(c)
           \/ BeginCall(c) \/ CountCall(c) \/ AdmitCall(c)
           \/ CallReturns(c) \/ CallEnds(c)
    PROVE  Inv'
<1> DEFINE w == Home(c)
<1> USE DEF procVars, bindVars, gateVars
<1>0. TypeOK' /\ TypeOK /\ c \in Callers /\ w \in Workers
  BY CallTypes, HomeFacts DEF Inv, Call, Sending
<1>1. CASE EnsureStarted(c) \/ SpawnedMeanwhile(c)
  <2>1. PICK to \in {"admit", "spawn"} : at' = [at EXCEPT ![c] = to]
    BY <1>1 DEF EnsureStarted, SpawnedMeanwhile, Goto
  <2>2. /\ at[c] \in {"ensure", "spawn"} /\ SameSup
        /\ UNCHANGED <<proc, spawned, lock, session, bound, on>>
    BY <1>1 DEF EnsureStarted, SpawnedMeanwhile, Goto, SameSup
  <2>3. at[c] \in Free /\ to \in Free /\ to \notin InCall /\ to # "done" /\ to # "call"
    BY <2>1, <2>2 DEF Free, InCall
  <2>4. on[c] = 0
    BY <2>2 DEF Inv, CallInv, Free, InCall
  <2>5. on' = [on EXCEPT ![c] = 0]
    BY <1>0, <2>2, <2>4 DEF TypeOK
  <2>6. QED
    BY <1>0, <2>1, <2>2, <2>3, <2>5, FreeMove
<1>2. CASE BeginCall(c)
  <2> DEFINE p == sup[w].client
  <2>1. at[c] \in Free /\ UNCHANGED <<proc, spawned, lock>>
    BY <1>2 DEF BeginCall, Free
  <2>2. SameSup
    BY <1>0, <1>2 DEF BeginCall, SameSup, TypeOK, Sups
  <2>3. CASE p # 0 /\ proc[w][p] = "open"
    <3>1. /\ at' = [at EXCEPT ![c] = "count"] /\ on' = [on EXCEPT ![c] = p]
          /\ UNCHANGED <<session, bound>>
      BY <1>2, <2>3 DEF BeginCall, Goto
    <3>2. p \in Processes
      BY <1>0, <2>3 DEF TypeOK, Sups, Processes, Handles
    <3>3. Known(w, p)
      BY <1>0 DEF Inv, CallInv
    <3>4. "count" \in Free /\ "count" \in InCall
      BY DEF Free, InCall
    <3> HIDE DEF p, w
    <3>5. QED
      BY <1>0, <2>1, <2>2, <3>1, <3>2, <3>3, <3>4, FreeMove DEF w
  <2>4. CASE ~(p # 0 /\ proc[w][p] = "open")
    BY <1>0, <1>2, <2>1, <2>2, <2>4, FailStep DEF BeginCall
  <2>5. QED
    BY <2>3, <2>4
<1>3. CASE CountCall(c)
  <2>1. /\ at[c] = "count" /\ at' = [at EXCEPT ![c] = "recheck"] /\ on' = on /\ SameSup
        /\ UNCHANGED <<proc, spawned, lock, session, bound>>
    BY <1>3 DEF CountCall, Goto, SameSup
  <2>2. at[c] \in Free /\ "recheck" \in Free /\ "recheck" \in InCall /\ at[c] \in InCall
    BY <2>1 DEF Free, InCall
  <2>3. on[c] \in Processes /\ Known(Home(c), on[c])
    BY <2>2 DEF Inv, CallInv
  <2>4. on' = [on EXCEPT ![c] = on[c]]
    BY <1>0, <2>1 DEF TypeOK
  <2>5. QED
    BY <1>0, <2>1, <2>2, <2>3, <2>4, FreeMove
<1>4. CASE AdmitCall(c)
  <2>1. /\ at[c] = "recheck" /\ SameSup /\ UNCHANGED <<proc, spawned, lock>>
    BY <1>4 DEF AdmitCall, SameSup
  <2>2. at[c] \in Free /\ at[c] \in InCall /\ "call" \in Free /\ "call" \in InCall
    BY <2>1 DEF Free, InCall
  <2>3. CASE proc[w][on[c]] = "open"
    <3>1. at' = [at EXCEPT ![c] = "call"] /\ on' = on /\ UNCHANGED <<session, bound>>
      BY <1>4, <2>3 DEF AdmitCall, Goto
    <3>2. on[c] \in Processes /\ Known(Home(c), on[c])
      BY <2>2 DEF Inv, CallInv
    <3>3. on' = [on EXCEPT ![c] = on[c]]
      BY <1>0, <3>1 DEF TypeOK
    <3>4. QED
      BY <1>0, <2>1, <2>2, <2>3, <3>1, <3>2, <3>3, FreeMove
  <2>4. CASE proc[w][on[c]] # "open"
    BY <1>0, <1>4, <2>1, <2>2, <2>4, FailStep DEF AdmitCall
  <2>5. QED
    BY <2>3, <2>4
<1>5. CASE CallReturns(c)
  <2>1. /\ at[c] = "call" /\ on[c] \in Processes /\ proc[w][on[c]] # "none"
        /\ on' = [on EXCEPT ![c] = 0] /\ SameSup /\ UNCHANGED <<proc, spawned, lock, bound>>
    BY <1>5 DEF CallReturns, Alive, SameSup
  <2>2. at[c] \in Free /\ at[c] \in InCall /\ Known(w, on[c])
    <3>1. at[c] \in Free /\ at[c] \in InCall
      BY <2>1 DEF Free, InCall
    <3>2. QED
      BY <3>1 DEF Inv, CallInv
  <2>3. CASE c \in Workers /\ at' = [at EXCEPT ![c] = "stop"] /\ session' = session
    <3>1. "stop" \in Free /\ "stop" \notin InCall
      BY DEF Free, InCall
    <3>2. QED
      BY <1>0, <2>1, <2>2, <2>3, <3>1, FreeMove
  <2>4. CASE /\ c \in Tasks /\ session[c] = 0 /\ at' = [at EXCEPT ![c] = "commit"]
             /\ session' = [session EXCEPT ![c] = on[c]]
    <3>1. "commit" \in Free /\ "commit" \notin InCall
      BY DEF Free, InCall
    <3>2. \A u \in Tasks : /\ session'[u] = IF u = c THEN on[u] ELSE session[u]
                           /\ at'[u] = IF u = c THEN "commit" ELSE at[u]
      BY <1>0, <2>4, HomeFacts DEF TypeOK
    <3>3. \A u \in Tasks : QuietBinding(u)
      BY <2>1, <2>4, <3>2 DEF QuietBinding, Inv, BindInv
    <3>4. \A u \in Tasks : Known(WorkerOf[u], session'[u])
      BY <2>2, <2>4, <3>2, HomeFacts DEF Inv, CallInv
    <3>5. QED
      BY <1>0, <2>1, <2>2, <2>4, <3>1, <3>3, <3>4, FreeStep
  <2>5. CASE /\ c \in Tasks /\ session[c] = on[c] /\ at' = [at EXCEPT ![c] = "done"]
             /\ session' = session
    <3>1. "done" \in Free /\ "done" \notin InCall
      BY DEF Free, InCall
    <3>2. \A u \in Tasks : at'[u] = IF u = c THEN "done" ELSE at[u]
      BY <1>0, <2>5, HomeFacts DEF TypeOK
    <3>3. w = WorkerOf[c]
      BY <2>5, HomeFacts
    <3>4. \A u \in Tasks : QuietBinding(u)
      BY <2>1, <2>5, <3>2, <3>3 DEF QuietBinding, Inv, BindInv
    <3>5. \A u \in Tasks : Known(WorkerOf[u], session'[u])
      BY <2>5 DEF Inv, CallInv
    <3>6. QED
      BY <1>0, <2>1, <2>2, <2>5, <3>1, <3>4, <3>5, FreeStep
  <2>6. QED
    BY <1>5, <2>3, <2>4, <2>5 DEF CallReturns, Goto
<1>6. CASE CallEnds(c)
  <2>1. at[c] \in Free /\ SameSup /\ UNCHANGED <<proc, spawned, lock>>
    BY <1>6 DEF CallEnds, SameSup, Free, InCall
  <2>2. QED
    BY <1>0, <1>6, <2>1, FailStep DEF CallEnds
<1>7. QED
  BY <1>1, <1>2, <1>3, <1>4, <1>5, <1>6

-----------------------------------------------------------------------------
(* The spawn lock.                                                         *)

LEMMA LockFacts ==
    ASSUME Inv
    PROVE  /\ \A c, d \in Callers :
                at[c] \in LockStates /\ at[d] \in LockStates /\ Home(c) = Home(d) => c = d
           /\ \A c \in Callers : at[c] \in LockStates => lock[Home(c)] # NoOne
  BY NamesAssumption DEF Inv, LockInv

LEMMA SpawnLockStep ==
    ASSUME Inv, NEW c \in Tasks \cup Workers, NEW recent \in 0..MaxSpawns, SpawnLock(c, recent)
    PROVE  Inv'
<1> DEFINE w == Home(c)
<1> USE DEF procVars, bindVars, gateVars
<1>0. TypeOK' /\ TypeOK /\ c \in Callers /\ w \in Workers
  BY CallTypes, HomeFacts DEF Inv, Call, Sending
<1>1. /\ at[c] = "spawn" /\ lock[w] = NoOne /\ ~Running(w) /\ UNCHANGED <<proc, spawned>>
      /\ SameSup
  BY <1>0 DEF SpawnLock, SameSup, TypeOK, Sups
<1>2. CASE ~MaySpawn(w, recent)
  <2>1. CallFailed(c) /\ lock' = lock /\ at[c] \in Free
    BY <1>1, <1>2 DEF SpawnLock, Free
  <2>2. QED
    BY <1>0, <1>1, <2>1, FailStep
<1>3. CASE MaySpawn(w, recent)
  <2>0. /\ at' = [at EXCEPT ![c] = "exec"] /\ lock' = [lock EXCEPT ![w] = c]
        /\ UNCHANGED <<on, session, bound>>
    BY <1>3 DEF SpawnLock, Goto
  <2>1. /\ \A d \in Callers : at'[d] = IF d = c THEN "exec" ELSE at[d]
        /\ \A v \in Workers : lock'[v] = IF v = w THEN c ELSE lock[v]
    BY <1>0, <2>0 DEF TypeOK
  <2>2. \A d \in Callers : Home(d) = w => at[d] \notin LockStates
    BY <1>1, LockFacts
  <2>3. sup[w].child = 0
    <3>1. sup[w].child # 0 /\ sup[w].client = 0 => FALSE
      BY <1>0, <2>2 DEF Inv, ClientInv, Stopping, LockStates
    <3>2. QED
      BY <1>1, <3>1 DEF Running
  <2> USE DEF SameSup
  <2>4. LockInv'
    BY <1>0, <2>1, <2>2, HomeFacts DEF Inv, LockInv
  <2>5. StartInv'
    BY <1>0, <1>1, <2>0, <2>1, <2>3, HomeFacts DEF Inv, StartInv
  <2>6. ClientInv'
    <3>1. \A d \in Callers : at[d] \in Stopping => at'[d] \in Stopping
      BY <1>1, <2>1 DEF Stopping
    <3>2. QED
      BY <1>1, <3>1 DEF Inv, ClientInv
  <2>7. AliveInv'
    BY <1>1, <2>0, <2>1 DEF Inv, AliveInv
  <2>8. LoopInv'
    <3>1. \A v \in Workers, g \in Processes : at'[<<v, g>>] = at[<<v, g>>]
      <4> SUFFICES ASSUME NEW v \in Workers, NEW g \in Processes
                   PROVE  at'[<<v, g>>] = at[<<v, g>>]
        OBVIOUS
      <4>1. <<v, g>> \in Callers /\ <<v, g>> \notin Tasks \cup Workers
        BY HomeFacts
      <4>2. QED
        BY <2>1, <4>1
    <3>2. QED
      BY <1>1, <3>1 DEF Inv, LoopInv
  <2>9. CallInv'
    <3>1. \A v \in Workers : \A p : Known(v, p) => Known(v, p)'
      BY <1>1, <2>0, <2>1 DEF Known
    <3>2. on[c] = 0 /\ "exec" \notin InCall
      BY <1>1 DEF Inv, CallInv, Free, InCall
    <3>3. QED
      BY <1>1, <2>0, <2>1, <3>1, <3>2, HomeFacts DEF Inv, CallInv
  <2>10. BindInv'
    <3>1. \A d \in Callers : at[d] \in Reconciles => at'[d] \in Reconciles
      BY <1>1, <2>1 DEF Reconciles
    <3>2. QED
      BY <1>1, <2>0, <2>1, <3>1, HomeFacts DEF Inv, BindInv
  <2>11. QED
    BY <1>0, <2>4, <2>5, <2>6, <2>7, <2>8, <2>9, <2>10 DEF Inv
<1>4. QED
  BY <1>2, <1>3

LEMMA SpawnProcessStep ==
    ASSUME Inv, NEW c \in Tasks \cup Workers, SpawnProcess(c)
    PROVE  Inv'
<1> DEFINE w == Home(c)
           n == spawned[w] + 1
<1> USE DEF procVars, bindVars, gateVars
<1>0. TypeOK' /\ TypeOK /\ c \in Callers /\ w \in Workers
  BY CallTypes, HomeFacts DEF Inv, Call, Sending
<1>1. /\ at[c] = "exec" /\ at' = [at EXCEPT ![c] = "handshake"] /\ n \in Processes
      /\ on' = [on EXCEPT ![c] = n] /\ spawned' = [spawned EXCEPT ![w] = n]
      /\ proc' = [proc EXCEPT ![w][n] = "open"]
      /\ UNCHANGED <<sup, lock, session, bound>>
  BY DEF SpawnProcess, Goto
<1>2. /\ \A d \in Callers : at'[d] = IF d = c THEN "handshake" ELSE at[d]
      /\ \A d \in Callers : on'[d] = IF d = c THEN n ELSE on[d]
      /\ \A v \in Workers : spawned'[v] = IF v = w THEN n ELSE spawned[v]
      /\ \A v \in Workers, p \in Processes :
            proc'[v][p] = IF v = w /\ p = n THEN "open" ELSE proc[v][p]
  BY <1>0, <1>1 DEF TypeOK
<1>3. /\ \A v \in Workers : spawned[v] \in Nat /\ sup[v].generation \in Nat
      /\ \A v \in Workers : spawned[v] <= spawned'[v]
      /\ n \in Nat /\ spawned[w] < n
  <2>1. \A v \in Workers : spawned[v] \in Nat /\ sup[v].generation \in Nat
    BY <1>0, BoundsAssumption DEF TypeOK, Handles, Sups
  <2>2. QED
    BY <1>0, <1>2, <2>1
<1> HIDE DEF n
<1>4. LockInv'
  BY <1>1, <1>2 DEF Inv, LockInv, LockStates
<1>5. StartInv'
  <2>1. ASSUME NEW d \in Callers, at'[d] \in {"exec", "handshake"}
        PROVE  d \in Tasks \cup Workers /\ sup'[Home(d)].child = 0
    BY <1>1, <1>2, <2>1 DEF Inv, StartInv
  <2>2. ASSUME NEW d \in Callers, at'[d] = "handshake"
        PROVE  /\ on'[d] \in 1..spawned'[Home(d)]
               /\ sup'[Home(d)].generation < spawned'[Home(d)]
    <3>1. CASE d = c
      <4>1. sup[w].generation <= spawned[w]
        BY <1>0 DEF Inv, LoopInv
      <4>2. on'[d] = n /\ spawned'[w] = n /\ sup'[w].generation = sup[w].generation
        BY <1>0, <1>1, <1>2, <3>1
      <4>3. sup[w].generation \in Nat /\ spawned[w] \in Nat
        BY <1>0, <1>3
      <4>4. n \in 1..n /\ sup[w].generation < n
        BY <1>3, <4>1, <4>3
      <4>5. QED
        BY <3>1, <4>2, <4>4
    <3>2. CASE d # c
      <4>1. at[d] = "handshake" /\ on'[d] = on[d] /\ Home(d) # w /\ Home(d) \in Workers
        BY <1>0, <1>1, <1>2, <2>2, <3>2, LockFacts, HomeFacts DEF LockStates
      <4>2. QED
        BY <1>1, <1>2, <4>1 DEF Inv, StartInv
    <3>3. QED
      BY <3>1, <3>2
  <2>3. QED
    BY <2>1, <2>2 DEF StartInv
<1>6. ClientInv'
  <2>1. \A d \in Callers : at[d] \in Stopping => at'[d] \in Stopping
    BY <1>1, <1>2 DEF Stopping
  <2>2. QED
    BY <1>1, <2>1 DEF Inv, ClientInv
<1>7. AliveInv'
  BY <1>0, <1>1, <1>2 DEF Inv, AliveInv
<1>8. LoopInv'
  <2>1. \A v \in Workers, g \in Processes : at'[<<v, g>>] = at[<<v, g>>]
    <3> SUFFICES ASSUME NEW v \in Workers, NEW g \in Processes
                 PROVE  at'[<<v, g>>] = at[<<v, g>>]
      OBVIOUS
    <3>1. <<v, g>> \in Callers /\ <<v, g>> \notin Tasks \cup Workers
      BY HomeFacts
    <3>2. QED
      BY <1>2, <3>1
  <2>2. \A v \in Workers : sup[v].generation <= spawned'[v]
    <3> SUFFICES ASSUME NEW v \in Workers PROVE sup[v].generation <= spawned'[v]
      OBVIOUS
    <3>1. sup[v].generation <= spawned[v] /\ spawned[v] <= spawned'[v]
      BY <1>3 DEF Inv, LoopInv
    <3>2. sup[v].generation \in Nat /\ spawned[v] \in Nat /\ spawned'[v] \in Nat
      BY <1>2, <1>3
    <3>3. QED
      BY <3>1, <3>2
  <2> SUFFICES ASSUME NEW v \in Workers PROVE LoopInv!(v)'
    BY DEF LoopInv
  <2>3. LoopInv!(v) /\ sup' = sup
    BY <1>1 DEF Inv, LoopInv
  <2>4. QED
    BY <2>1, <2>2, <2>3
<1>9. CallInv'
  <2>1. ASSUME NEW v \in Workers, NEW p, Known(v, p) PROVE Known(v, p)'
    <3>1. p \in 0..spawned[v] /\ \A d \in Callers : Home(d) = v /\ at[d] = "handshake" => on[d] # p
      BY <2>1 DEF Known
    <3>2. p \in 0..spawned'[v] /\ (v = w => p # n)
      BY <1>2, <1>3, <3>1
    <3>3. \A d \in Callers : Home(d) = v /\ at'[d] = "handshake" => on'[d] # p
      BY <1>2, <3>1, <3>2
    <3>4. QED
      BY <3>2, <3>3 DEF Known
  <2>2. ASSUME NEW d \in Tasks \cup Workers, at'[d] = "call"
        PROVE  proc'[Home(d)][on'[d]] # "asked"
    <3>1. d # c /\ at[d] = "call" /\ d \in Callers /\ Home(d) \in Workers
      BY <1>2, <2>2, HomeFacts
    <3>2. on[d] \in Processes /\ proc[Home(d)][on[d]] # "asked"
      BY <3>1 DEF Inv, CallInv, Free, InCall
    <3>3. QED
      BY <1>2, <3>1, <3>2
  <2>3. ASSUME NEW d \in Tasks \cup Workers, at'[d] \in Free \cup {"exec", "release", "bury"}
        PROVE  IF at'[d] \in InCall THEN on'[d] \in Processes /\ Known(Home(d), on[d])'
                                    ELSE on'[d] = 0
    <3>1. d # c /\ at'[d] = at[d] /\ on'[d] = on[d] /\ Home(d) \in Workers
      BY <1>2, <2>3, HomeFacts DEF Free, InCall
    <3>2. IF at[d] \in InCall THEN on[d] \in Processes /\ Known(Home(d), on[d]) ELSE on[d] = 0
      BY <2>3, <3>1 DEF Inv, CallInv
    <3>3. Known(Home(d), on[d]) => Known(Home(d), on[d])'
      BY <2>1, <3>1
    <3>4. QED
      BY <3>1, <3>2, <3>3
  <2>4. \A v \in Workers : Known(v, sup[v].client)'
    BY <1>1, <2>1 DEF Inv, CallInv
  <2>5. \A t \in Tasks : Known(WorkerOf[t], session[t])'
    BY <1>1, <2>1, HomeFacts DEF Inv, CallInv
  <2>6. QED
    BY <2>2, <2>3, <2>4, <2>5 DEF CallInv
<1>10. BindInv'
  <2>1. \A d \in Callers : at[d] \in Reconciles => at'[d] \in Reconciles
    BY <1>1, <1>2 DEF Reconciles
  <2> SUFFICES ASSUME NEW t \in Tasks, bound'[t] # 0 PROVE BindInv!(t)'
    BY DEF BindInv
  <2>2. bound[t] \in Processes /\ WorkerOf[t] \in Workers /\ bound'[t] = bound[t]
    <3>1. bound[t] \in Handles /\ bound'[t] = bound[t] /\ bound[t] # 0
      BY <1>0, <1>1 DEF TypeOK
    <3>2. QED
      BY <3>1, WorkerOfAssumption, BoundsAssumption DEF Handles, Processes
  <2>3. /\ proc'[WorkerOf[t]][bound[t]] = "none" => proc[WorkerOf[t]][bound[t]] = "none"
        /\ at'[t] = "done" => at[t] = "done"
    BY <1>2, <2>2, HomeFacts
  <2>4. QED
    BY <1>1, <2>1, <2>2, <2>3 DEF Inv, BindInv
<1>11. QED
  BY <1>0, <1>4, <1>5, <1>6, <1>7, <1>8, <1>9, <1>10 DEF Inv

LEMMA SpawnFailsStep ==
    ASSUME Inv, NEW c \in Tasks \cup Workers, SpawnFails(c)
    PROVE  Inv'
<1> DEFINE w == Home(c)
           to == IF c \in Workers THEN "stop" ELSE IF session[c] = 0 THEN "failed" ELSE "done"
<1> USE DEF procVars, bindVars, gateVars
<1>0. TypeOK' /\ TypeOK /\ c \in Callers /\ w \in Workers
  BY CallTypes, HomeFacts DEF Inv, Call, Sending
<1>1. /\ at[c] \in {"exec", "handshake"} /\ CallFailed(c) /\ Kill(w, on[c])
      /\ lock' = [lock EXCEPT ![w] = NoOne] /\ UNCHANGED <<sup, spawned, session>>
  BY DEF SpawnFails, CallFailed
<1>2. to \in Free /\ to \notin InCall /\ to # "call" /\ to \notin LockStates
      /\ to \notin {"exec", "handshake", "kill", "slay"}
  BY DEF Free, InCall, LockStates
<1>3. /\ \A d \in Callers : at'[d] = IF d = c THEN to ELSE at[d]
      /\ \A d \in Callers : on'[d] = IF d = c THEN 0 ELSE on[d]
      /\ \A v \in Workers : lock'[v] = IF v = w THEN NoOne ELSE lock[v]
      /\ \A v \in Workers, p \in Processes :
            proc'[v][p] = IF v = w /\ p = on[c] THEN "none" ELSE proc[v][p]
      /\ \A t \in Tasks : bound'[t] = IF t = c /\ session[t] # 0 THEN 0 ELSE bound[t]
  BY <1>0, <1>1 DEF CallFailed, Kill, TypeOK
<1>4. to = "done" => session[c] # 0
  OBVIOUS
<1> HIDE DEF to
<1>5. \A d \in Callers : d # c /\ Home(d) = w => at[d] \notin LockStates
  BY <1>0, <1>1, LockFacts DEF LockStates
<1>6. LockInv'
  BY <1>2, <1>3, <1>5, HomeFacts DEF Inv, LockInv
<1>7. StartInv'
  BY <1>1, <1>2, <1>3 DEF Inv, StartInv
<1>8. ClientInv'
  <2>1. \A d \in Callers : at[d] \in Stopping => at'[d] \in Stopping
    BY <1>1, <1>3 DEF Stopping
  <2>2. QED
    BY <1>1, <2>1 DEF Inv, ClientInv
<1>9. AliveInv'
  BY <1>0, <1>1, <1>3 DEF Inv, AliveInv
<1>10. LoopInv'
  <2>1. \A v \in Workers, g \in Processes : at'[<<v, g>>] = at[<<v, g>>]
    <3> SUFFICES ASSUME NEW v \in Workers, NEW g \in Processes
                 PROVE  at'[<<v, g>>] = at[<<v, g>>]
      OBVIOUS
    <3>1. <<v, g>> \in Callers /\ <<v, g>> \notin Tasks \cup Workers
      BY HomeFacts
    <3>2. QED
      BY <1>3, <3>1
  <2> SUFFICES ASSUME NEW v \in Workers PROVE LoopInv!(v)'
    BY DEF LoopInv
  <2>2. LoopInv!(v) /\ sup' = sup /\ spawned' = spawned
    BY <1>1 DEF Inv, LoopInv
  <2>3. QED
    BY <2>1, <2>2
<1>11. CallInv'
  <2>1. \A v \in Workers : \A p : Known(v, p) => Known(v, p)'
    BY <1>1, <1>2, <1>3 DEF Known
  <2>2. ASSUME NEW d \in Tasks \cup Workers, at'[d] = "call"
        PROVE  proc'[Home(d)][on'[d]] # "asked"
    <3>1. d # c /\ at[d] = "call" /\ d \in Callers /\ Home(d) \in Workers
      BY <1>2, <1>3, <2>2, HomeFacts
    <3>2. on[d] \in Processes /\ proc[Home(d)][on[d]] # "asked"
      BY <3>1 DEF Inv, CallInv, Free, InCall
    <3>3. QED
      BY <1>3, <3>1, <3>2
  <2>3. QED
    BY <1>1, <1>2, <1>3, <2>1, <2>2, HomeFacts DEF Inv, CallInv
<1>12. BindInv'
  <2>1. \A d \in Callers : at[d] \in Reconciles => at'[d] \in Reconciles
    BY <1>1, <1>3 DEF Reconciles
  <2> SUFFICES ASSUME NEW t \in Tasks, bound'[t] # 0 PROVE BindInv!(t)'
    BY DEF BindInv
  <2>2. bound'[t] = bound[t] /\ bound[t] = session[t] /\ t # c
    BY <1>3 DEF Inv, BindInv
  <2>3. bound[t] \in Processes /\ WorkerOf[t] \in Workers
    <3>1. bound[t] \in Handles
      BY <1>0 DEF TypeOK
    <3>2. QED
      BY <2>2, <3>1, WorkerOfAssumption, BoundsAssumption DEF Handles, Processes
  <2>4. WorkerOf[t] = w => bound[t] # on[c]
    <3>1. CASE at[c] = "exec"
      <4>1. on[c] = 0
        BY <3>1 DEF Inv, CallInv, InCall
      <4>2. QED
        BY <2>2, <4>1
    <3>2. CASE at[c] = "handshake"
      BY <1>0, <2>2, <3>2 DEF Inv, CallInv, Known
    <3>3. QED
      BY <1>1, <3>1, <3>2
  <2>5. /\ proc'[WorkerOf[t]][bound[t]] = proc[WorkerOf[t]][bound[t]]
        /\ at'[t] = at[t]
    BY <1>3, <2>2, <2>3, <2>4, HomeFacts
  <2>6. QED
    BY <1>1, <2>1, <2>2, <2>5 DEF Inv, BindInv
<1>13. QED
  BY <1>0, <1>6, <1>7, <1>8, <1>9, <1>10, <1>11, <1>12 DEF Inv

LEMMA InstallStep ==
    ASSUME Inv, NEW c \in Tasks \cup Workers, Install(c)
    PROVE  Inv'
<1> DEFINE w == Home(c)
           s == sup[w]
           g == IF s.started THEN s.generation ELSE s.generation + 1
<1> USE DEF procVars, bindVars, gateVars
<1>0. TypeOK' /\ TypeOK /\ c \in Callers /\ w \in Workers
  BY CallTypes, HomeFacts DEF Inv, Call, Sending
<1>1. /\ at[c] = "handshake" /\ on[c] \in Processes
      /\ sup' = [sup EXCEPT ![w] = [s EXCEPT !.child = on[c], !.client = on[c],
                                             !.idle = FALSE, !.attempts = 0,
                                             !.started = TRUE, !.generation = g]]
      /\ Kill(w, s.child)
      /\ UNCHANGED <<spawned, session, bound>>
  BY DEF Install, Alive
<1>2. /\ s.child = 0 /\ s.generation < spawned[w] /\ on[c] \in 1..spawned[w]
  BY <1>0, <1>1 DEF Inv, StartInv
<1>3. /\ s.generation \in Nat /\ spawned[w] \in Nat /\ spawned[w] <= MaxSpawns /\ MaxSpawns \in Nat
  BY <1>0, BoundsAssumption DEF TypeOK, Sups, Handles
<1>4. g \in 0..spawned[w] /\ (~s.started => g \in Processes /\ g > s.generation)
  BY <1>2, <1>3 DEF Processes
<1>5. /\ \A d \in Callers :
            at'[d] = IF d = c THEN "admit"
                     ELSE IF ~s.started /\ d = <<w, g>> THEN "watch" ELSE at[d]
      /\ \A d \in Callers : on'[d] = IF d = c THEN 0 ELSE on[d]
      /\ \A v \in Workers : lock'[v] = IF v = w THEN NoOne ELSE lock[v]
  BY <1>0 DEF Install, TypeOK
<1>6. /\ sup'[w].child = on[c] /\ sup'[w].client = on[c] /\ sup'[w].started = TRUE
      /\ sup'[w].generation = g
      /\ \A v \in Workers : v # w => sup'[v] = sup[v]
  <2>1. s \in Sups
    BY <1>0 DEF TypeOK
  <2>2. QED
    BY <1>0, <1>1, <2>1 DEF Sups, TypeOK
<1>7. \A v \in Workers, p \in Processes : proc'[v][p] = proc[v][p]
  BY <1>0, <1>1, <1>2 DEF Kill, TypeOK, Processes
<1>8. \A v \in Workers, h \in Processes :
        /\ <<v, h>> \in Callers /\ <<v, h>> # c /\ Home(<<v, h>>) = v
        /\ <<v, h>> \notin Tasks \cup Workers
  BY HomeFacts
<1>9. ~s.started => at[<<w, g>>] = "none" /\ <<w, g>> \notin Tasks \cup Workers
  BY <1>0, <1>4, <1>8 DEF Inv, LoopInv
<1> HIDE DEF g, s
<1>10. \A d \in Callers : d # c /\ Home(d) = w => at[d] \notin LockStates
  BY <1>0, <1>1, LockFacts DEF LockStates
<1>11. \A d \in Callers : d # c =>
          /\ at'[d] \notin {"watch", "none"} => at'[d] = at[d]
          /\ at[d] \notin {"watch", "none"} => at'[d] = at[d]
          /\ on'[d] = on[d]
  BY <1>5, <1>9
<1>12. LockInv'
  <2> SUFFICES ASSUME NEW d \in Callers, at'[d] \in LockStates PROVE lock'[Home(d)] = d
    BY DEF LockInv
  <2>1. d # c /\ at[d] \in LockStates
    BY <1>5, <1>11 DEF LockStates
  <2>2. Home(d) # w /\ Home(d) \in Workers
    BY <1>10, <2>1, HomeFacts
  <2>3. QED
    BY <1>5, <2>1, <2>2 DEF Inv, LockInv
<1>13. StartInv'
  <2> SUFFICES ASSUME NEW d \in Callers, at'[d] \in {"exec", "handshake"}
               PROVE  /\ d \in Tasks \cup Workers /\ sup'[Home(d)].child = 0
                      /\ at'[d] = "handshake" =>
                            /\ on'[d] \in 1..spawned'[Home(d)]
                            /\ sup'[Home(d)].generation < spawned'[Home(d)]
    BY DEF StartInv
  <2>1. d # c /\ at'[d] = at[d] /\ on'[d] = on[d]
    BY <1>5, <1>11
  <2>2. Home(d) # w /\ Home(d) \in Workers
    BY <1>10, <2>1, HomeFacts DEF LockStates
  <2>3. QED
    BY <1>1, <1>6, <2>1, <2>2 DEF Inv, StartInv
<1>14. ClientInv'
  <2> SUFFICES ASSUME NEW v \in Workers, sup'[v].child # 0, sup'[v].client = 0
               PROVE  \E d \in Callers : Home(d) = v /\ at'[d] \in Stopping
    BY DEF ClientInv
  <2>1. v # w
    BY <1>6
  <2>2. PICK d \in Callers : Home(d) = v /\ at[d] \in Stopping
    BY <1>6, <2>1 DEF Inv, ClientInv
  <2>3. at'[d] = at[d]
    BY <1>11, <2>1, <2>2 DEF Stopping
  <2>4. QED
    BY <2>2, <2>3
<1>15. AliveInv'
  <2> SUFFICES ASSUME NEW v \in Workers, NEW p \in Processes, proc'[v][p] # "none"
               PROVE  \/ p = sup'[v].child
                      \/ \E d \in Callers : /\ Home(d) = v /\ on'[d] = p
                                            /\ at'[d] \in {"handshake", "kill", "slay"}
    BY DEF AliveInv
  <2>1. proc[v][p] # "none"
    BY <1>7
  <2>2. CASE p = sup[v].child
    BY <1>2, <1>6, <2>2 DEF Processes, s
  <2>3. CASE \E d \in Callers : Home(d) = v /\ at[d] \in {"handshake", "kill", "slay"} /\ on[d] = p
    <3>1. PICK d \in Callers : Home(d) = v /\ at[d] \in {"handshake", "kill", "slay"} /\ on[d] = p
      BY <2>3
    <3>2. CASE d = c
      BY <1>6, <3>1, <3>2
    <3>3. CASE d # c
      BY <1>11, <3>1, <3>3
    <3>4. QED
      BY <3>2, <3>3
  <2>4. QED
    BY <2>1, <2>2, <2>3 DEF Inv, AliveInv
<1>16. LoopInv'
  <2> SUFFICES ASSUME NEW v \in Workers PROVE LoopInv!(v)'
    BY DEF LoopInv
  <2>0. LoopInv!(v)
    BY DEF Inv, LoopInv
  <2>1. CASE v # w
    <3>1. \A h \in Processes : at'[<<v, h>>] = at[<<v, h>>]
      BY <1>5, <1>8, <2>1
    <3>2. sup'[v] = sup[v] /\ spawned' = spawned
      BY <1>1, <1>6, <2>1
    <3>3. QED
      BY <2>0, <3>1, <3>2
  <2>2. CASE v = w
    <3>1. \A h \in Processes : at'[<<w, h>>] = IF ~s.started /\ h = g THEN "watch" ELSE at[<<w, h>>]
      BY <1>0, <1>5, <1>8
    <3>2. /\ g <= spawned'[w] /\ g \in Nat
      BY <1>1, <1>3, <1>4
    <3>3. \A h \in Processes : h > g => at'[<<w, h>>] = "none"
      <4> SUFFICES ASSUME NEW h \in Processes, h > g PROVE at'[<<w, h>>] = "none"
        OBVIOUS
      <4>1. h # g /\ h > s.generation
        BY <1>3, <3>2 DEF Processes, g
      <4>2. at[<<w, h>>] = "none"
        BY <2>0, <2>2, <4>1 DEF s
      <4>3. QED
        BY <3>1, <4>1, <4>2
    <3>4. g \in Processes /\ at'[<<w, g>>] \in Watching
      <4>1. CASE s.started
        BY <2>0, <2>2, <3>1, <4>1 DEF g, s
      <4>2. CASE ~s.started
        BY <1>4, <3>1, <4>2 DEF Watching
      <4>3. QED
        BY <4>1, <4>2
    <3>5. QED
      BY <1>6, <2>2, <3>2, <3>3, <3>4
  <2>3. QED
    BY <2>1, <2>2
<1>17. CallInv'
  <2>1. ASSUME NEW v \in Workers, NEW p, Known(v, p) PROVE Known(v, p)'
    <3>1. \A d \in Callers : at'[d] = "handshake" => at[d] = "handshake" /\ on'[d] = on[d]
      BY <1>5, <1>11
    <3>2. QED
      BY <1>1, <2>1, <3>1 DEF Known
  <2>2. Known(w, sup[w].client)'
    <3>1. on[c] \in 0..spawned'[w]
      BY <1>1, <1>2, <1>3
    <3>2. \A d \in Callers : at'[d] = "handshake" => Home(d) # w
      BY <1>5, <1>10, <1>11 DEF LockStates
    <3>3. QED
      BY <1>6, <3>1, <3>2 DEF Known
  <2>3. \A v \in Workers : Known(v, sup[v].client)'
    BY <1>6, <2>1, <2>2 DEF Inv, CallInv
  <2>4. \A t \in Tasks : Known(WorkerOf[t], session[t])'
    BY <1>1, <2>1, HomeFacts DEF Inv, CallInv
  <2>5. ASSUME NEW d \in Tasks \cup Workers
        PROVE  /\ at'[d] \in Free \cup {"exec", "release", "bury"} =>
                    IF at'[d] \in InCall THEN on'[d] \in Processes /\ Known(Home(d), on[d])'
                                         ELSE on'[d] = 0
               /\ at'[d] = "call" => proc'[Home(d)][on'[d]] # "asked"
    <3>0. d \in Callers /\ Home(d) \in Workers
      BY HomeFacts
    <3>1. CASE d = c
      BY <1>5, <3>0, <3>1 DEF InCall
    <3>2. CASE d # c
      <4>1. at'[d] = at[d] /\ on'[d] = on[d]
        BY <1>5, <1>9, <3>0, <3>2
      <4>2. at[d] = "call" => on[d] \in Processes
        BY DEF Inv, CallInv, Free, InCall
      <4>3. QED
        BY <1>7, <2>1, <3>0, <4>1, <4>2 DEF Inv, CallInv
    <3>3. QED
      BY <3>1, <3>2
  <2>6. QED
    BY <2>3, <2>4, <2>5 DEF CallInv
<1>18. BindInv'
  <2> SUFFICES ASSUME NEW t \in Tasks, bound'[t] # 0 PROVE BindInv!(t)'
    BY DEF BindInv
  <2>1. bound'[t] = bound[t] /\ session' = session /\ BindInv!(t)
    BY <1>1 DEF Inv, BindInv
  <2>2. bound[t] \in Processes /\ WorkerOf[t] \in Workers /\ t \in Callers
    <3>1. bound[t] \in Handles
      BY <1>0 DEF TypeOK
    <3>2. QED
      BY <2>1, <3>1, HomeFacts, WorkerOfAssumption, BoundsAssumption DEF Handles, Processes
  <2>3. /\ proc'[WorkerOf[t]][bound[t]] = proc[WorkerOf[t]][bound[t]]
        /\ at'[t] = "done" => at[t] = "done"
    BY <1>5, <1>7, <2>2
  <2>4. sup[WorkerOf[t]].child = bound[t] => sup'[WorkerOf[t]].child = bound[t]
    BY <1>2, <1>6, <2>1, <2>2 DEF s
  <2>5. \A d \in Callers : at[d] \in Reconciles => at'[d] \in Reconciles
    BY <1>1, <1>11 DEF Reconciles
  <2>6. QED
    BY <2>1, <2>3, <2>4, <2>5
<1>19. QED
  BY <1>0, <1>12, <1>13, <1>14, <1>15, <1>16, <1>17, <1>18 DEF Inv

-----------------------------------------------------------------------------
(* Shutdown, supervision and forced kill: one caller acts on its worker.   *)

LEMMA NoneKnown ==
    ASSUME Inv, NEW w \in Workers
    PROVE  Known(w, 0)
<1>1. spawned[w] \in Nat
  BY BoundsAssumption DEF Inv, TypeOK, Handles
<1>2. \A c \in Callers : Home(c) = w /\ at[c] = "handshake" => on[c] # 0
  BY <1>1 DEF Inv, StartInv
<1>3. QED
  BY <1>1, <1>2 DEF Known

LEMMA StopLockStep ==
    ASSUME Inv, NEW c \in Workers \cup Loops, StopLock(c)
    PROVE  Inv'
<1> DEFINE w == Home(c)
<1> USE DEF procVars, bindVars, gateVars
<1>0. TypeOK' /\ TypeOK /\ c \in Callers /\ w \in Workers /\ Home(c) = w
  BY StopTypes, HomeFacts DEF Inv, Callers, Stop
<1>1. /\ at[c] = "stop" /\ lock[w] = NoOne
      /\ UNCHANGED <<spawned, session, bound, proc>>
  BY DEF StopLock, Goto, Alive, Current
<1>2. /\ \A d \in Callers : at'[d] = IF d = c THEN (IF sup[w].client = 0 THEN "take" ELSE "close") ELSE at[d]
      /\ \A d \in Callers : on'[d] = IF d = c THEN sup[w].client ELSE on[d]
      /\ \A v \in Workers : lock'[v] = IF v = w THEN c ELSE lock[v]
  BY <1>0 DEF StopLock, Goto, TypeOK
<1>3. /\ \A v \in Workers : sup'[v].child = sup[v].child
      /\ \A v \in Workers : sup'[v].client = IF v = w THEN 0 ELSE sup[v].client
      /\ \A v \in Workers : sup'[v].started = sup[v].started
      /\ \A v \in Workers : sup'[v].generation = sup[v].generation
  BY <1>0 DEF StopLock, TypeOK, Sups
<1>a. \A v \in Workers, h \in Processes :
        /\ <<v, h>> \in Callers /\ Home(<<v, h>>) = v /\ <<v, h>> \notin Tasks \cup Workers
        /\ <<v, h>> = c => v = w
  BY <1>0, HomeFacts
<1>4. LockInv'
  BY <1>0, <1>1, <1>2, <1>3, HomeFacts, LockFacts DEF Inv, LockInv, LockStates
<1>5. StartInv'
  BY <1>0, <1>1, <1>2, <1>3, HomeFacts DEF Inv, StartInv
<1>6. ClientInv'
  BY <1>0, <1>1, <1>2, <1>3 DEF Inv, ClientInv, Stopping
<1>7. AliveInv'
  BY <1>0, <1>1, <1>2, <1>3 DEF Inv, AliveInv
<1>8. LoopInv'
  <2> SUFFICES ASSUME NEW v \in Workers PROVE LoopInv!(v)'
    BY DEF LoopInv
  <2>1. LoopInv!(v)
    BY DEF Inv, LoopInv
  <2>2. QED
    BY <1>0, <1>1, <1>2, <1>3, <1>a, <2>1 DEF Watching, Stopping
<1>9. CallInv'
  <2>1. \A v \in Workers : \A p : Known(v, p) => Known(v, p)'
    BY <1>0, <1>1, <1>2, <1>3 DEF Known
  <2>2. \A v \in Workers : Known(v, sup[v].client)'
    BY <1>0, <1>1, <1>2, <1>3, <2>1, NoneKnown DEF Inv, CallInv
  <2>3. \A t \in Tasks : Known(WorkerOf[t], session[t])'
    BY <1>0, <1>1, <1>2, <1>3, <2>1, WorkerOfAssumption DEF Inv, CallInv
  <2>4. ASSUME NEW d \in Tasks \cup Workers
        PROVE  /\ at'[d] \in Free \cup {"exec", "release", "bury"} =>
                    IF at'[d] \in InCall THEN on'[d] \in Processes /\ Known(Home(d), on[d])'
                                         ELSE on'[d] = 0
               /\ at'[d] = "call" => proc'[Home(d)][on'[d]] # "asked"
    <3>1. d \in Callers /\ Home(d) \in Workers /\ (at[d] = "call" => on[d] \in Processes)
      BY HomeFacts DEF Inv, CallInv, Free, InCall
    <3>2. QED
      BY <1>0, <1>1, <1>2, <1>3, <2>1, <3>1 DEF Inv, CallInv, Free, InCall
  <2>5. QED
    BY <2>2, <2>3, <2>4 DEF CallInv
<1>10. BindInv'
  <2> SUFFICES ASSUME NEW t \in Tasks, bound'[t] # 0 PROVE BindInv!(t)'
    BY DEF BindInv
  <2>1. /\ BindInv!(t) /\ bound'[t] = bound[t] /\ WorkerOf[t] \in Workers /\ t \in Callers
        /\ bound[t] \in Handles
    BY <1>0, <1>1, HomeFacts, WorkerOfAssumption DEF Inv, BindInv, TypeOK
  <2>2. bound[t] \in Processes
    BY <2>1, BoundsAssumption DEF Handles, Processes
  <2>3. QED
    BY <1>0, <1>1, <1>2, <1>3, <2>1, <2>2 DEF Reconciles
<1>11. QED
  BY <1>0, <1>4, <1>5, <1>6, <1>7, <1>8, <1>9, <1>10 DEF Inv

LEMMA StopTakeStep ==
    ASSUME Inv, NEW c \in Workers \cup Loops, StopTake(c)
    PROVE  Inv'
<1> DEFINE w == Home(c)
<1> USE DEF procVars, bindVars, gateVars
<1>0. TypeOK' /\ TypeOK /\ c \in Callers /\ w \in Workers /\ Home(c) = w
  BY StopTypes, HomeFacts DEF Inv, Callers, Stop
<1>1. /\ at[c] = "take"
      /\ UNCHANGED <<spawned, session, bound, proc, lock>>
  BY DEF StopTake, Goto, Alive, Current
<1>2. /\ \A d \in Callers : at'[d] = IF d = c THEN "kill" ELSE at[d]
      /\ \A d \in Callers : on'[d] = IF d = c THEN sup[w].child ELSE on[d]
  BY <1>0 DEF StopTake, Goto, TypeOK
<1>3. /\ \A v \in Workers : sup'[v].child = IF v = w THEN 0 ELSE sup[v].child
      /\ \A v \in Workers : sup'[v].client = sup[v].client
      /\ \A v \in Workers : sup'[v].started = IF v = w THEN FALSE ELSE sup[v].started
      /\ \A v \in Workers : sup'[v].generation = sup[v].generation
  <2>1. sup' = [sup EXCEPT ![w] = [sup[w] EXCEPT !.child = 0, !.started = FALSE]]
    BY <1>0 DEF StopTake, TypeOK
  <2>2. sup[w] \in Sups
    BY <1>0 DEF TypeOK
  <2>3. QED
    BY <1>0, <2>1, <2>2 DEF TypeOK, Sups
<1>a. \A v \in Workers, h \in Processes :
        /\ <<v, h>> \in Callers /\ Home(<<v, h>>) = v /\ <<v, h>> \notin Tasks \cup Workers
        /\ <<v, h>> = c => v = w
  BY <1>0, HomeFacts
<1>4. LockInv'
  BY <1>0, <1>1, <1>2, <1>3 DEF Inv, LockInv, LockStates
<1>5. StartInv'
  BY <1>0, <1>1, <1>2, <1>3, HomeFacts DEF Inv, StartInv
<1>6. ClientInv'
  BY <1>0, <1>1, <1>2, <1>3 DEF Inv, ClientInv, Stopping
<1>7. AliveInv'
  BY <1>0, <1>1, <1>2, <1>3 DEF Inv, AliveInv
<1>8. LoopInv'
  <2> SUFFICES ASSUME NEW v \in Workers PROVE LoopInv!(v)'
    BY DEF LoopInv
  <2>1. LoopInv!(v)
    BY DEF Inv, LoopInv
  <2>2. \A h \in Processes : at'[<<v, h>>] = IF <<v, h>> = c THEN "kill" ELSE at[<<v, h>>]
    BY <1>2, <1>a
  <2>3. CASE v = w
    <3>1. /\ sup'[v].child = 0 /\ ~sup'[v].started
          /\ sup'[v].generation = sup[v].generation /\ spawned'[v] = spawned[v]
      BY <1>0, <1>1, <1>3, <2>3
    <3>2. \A h \in Processes : at[<<v, h>>] = "none" => at'[<<v, h>>] = "none"
      BY <1>1, <2>2
    <3>3. QED
      BY <2>1, <3>1, <3>2
  <2>4. CASE v # w
    <3>1. /\ sup'[v].child = sup[v].child /\ sup'[v].started = sup[v].started
          /\ sup'[v].generation = sup[v].generation /\ spawned'[v] = spawned[v]
      BY <1>1, <1>3, <2>4
    <3>2. \A h \in Processes : at'[<<v, h>>] = at[<<v, h>>]
      BY <1>a, <2>2, <2>4
    <3>3. QED
      BY <2>1, <3>1, <3>2
  <2>5. QED
    BY <2>3, <2>4
<1>9. CallInv'
  <2>1. \A v \in Workers : \A p : Known(v, p) => Known(v, p)'
    BY <1>0, <1>1, <1>2, <1>3 DEF Known
  <2>2. \A v \in Workers : Known(v, sup[v].client)'
    BY <1>0, <1>1, <1>2, <1>3, <2>1 DEF Inv, CallInv
  <2>3. \A t \in Tasks : Known(WorkerOf[t], session[t])'
    BY <1>0, <1>1, <1>2, <1>3, <2>1, WorkerOfAssumption DEF Inv, CallInv
  <2>4. ASSUME NEW d \in Tasks \cup Workers
        PROVE  /\ at'[d] \in Free \cup {"exec", "release", "bury"} =>
                    IF at'[d] \in InCall THEN on'[d] \in Processes /\ Known(Home(d), on[d])'
                                         ELSE on'[d] = 0
               /\ at'[d] = "call" => proc'[Home(d)][on'[d]] # "asked"
    <3>1. d \in Callers /\ Home(d) \in Workers /\ (at[d] = "call" => on[d] \in Processes)
      BY HomeFacts DEF Inv, CallInv, Free, InCall
    <3>2. QED
      BY <1>0, <1>1, <1>2, <1>3, <2>1, <3>1 DEF Inv, CallInv, Free, InCall
  <2>5. QED
    BY <2>2, <2>3, <2>4 DEF CallInv
<1>10. BindInv'
  <2> SUFFICES ASSUME NEW t \in Tasks, bound'[t] # 0 PROVE BindInv!(t)'
    BY DEF BindInv
  <2>1. /\ BindInv!(t) /\ bound'[t] = bound[t] /\ WorkerOf[t] \in Workers /\ t \in Callers
        /\ bound[t] \in Handles
    BY <1>0, <1>1, HomeFacts, WorkerOfAssumption DEF Inv, BindInv, TypeOK
  <2>2. bound[t] \in Processes
    BY <2>1, BoundsAssumption DEF Handles, Processes
  <2>3. QED
    BY <1>0, <1>1, <1>2, <1>3, <2>1, <2>2 DEF Reconciles
<1>11. QED
  BY <1>0, <1>4, <1>5, <1>6, <1>7, <1>8, <1>9, <1>10 DEF Inv

LEMMA StopKillStep ==
    ASSUME Inv, NEW c \in Workers \cup Loops, StopKill(c)
    PROVE  Inv'
<1> DEFINE w == Home(c)
<1> USE DEF procVars, bindVars, gateVars
<1>0. TypeOK' /\ TypeOK /\ c \in Callers /\ w \in Workers /\ Home(c) = w
  BY StopTypes, HomeFacts DEF Inv, Callers, Stop
<1>1. /\ at[c] = "kill"
      /\ UNCHANGED <<spawned, session, bound, lock>>
  BY DEF StopKill, Goto, Alive, Current
<1>2. /\ \A d \in Callers : at'[d] = IF d = c THEN "release" ELSE at[d]
      /\ \A d \in Callers : on'[d] = IF d = c THEN 0 ELSE on[d]
      /\ \A v \in Workers, p \in Processes :
            proc'[v][p] = IF v = w /\ p = on[c] THEN "none" ELSE proc[v][p]
  BY <1>0 DEF StopKill, Goto, TypeOK, Kill
<1>3. sup' = sup
  BY DEF StopKill
<1>a. \A v \in Workers, h \in Processes :
        /\ <<v, h>> \in Callers /\ Home(<<v, h>>) = v /\ <<v, h>> \notin Tasks \cup Workers
        /\ <<v, h>> = c => v = w
  BY <1>0, HomeFacts
<1>4. LockInv'
  BY <1>0, <1>1, <1>2, <1>3 DEF Inv, LockInv, LockStates
<1>5. StartInv'
  BY <1>0, <1>1, <1>2, <1>3, HomeFacts DEF Inv, StartInv
<1>6. ClientInv'
  BY <1>0, <1>1, <1>2, <1>3 DEF Inv, ClientInv, Stopping
<1>7. AliveInv'
  BY <1>0, <1>1, <1>2, <1>3 DEF Inv, AliveInv
<1>8. LoopInv'
  <2> SUFFICES ASSUME NEW v \in Workers PROVE LoopInv!(v)'
    BY DEF LoopInv
  <2>1. LoopInv!(v)
    BY DEF Inv, LoopInv
  <2>2. QED
    BY <1>0, <1>1, <1>2, <1>3, <1>a, <2>1 DEF Watching, Stopping
<1>9. CallInv'
  <2>1. \A v \in Workers : \A p : Known(v, p) => Known(v, p)'
    BY <1>0, <1>1, <1>2, <1>3 DEF Known
  <2>2. \A v \in Workers : Known(v, sup[v].client)'
    BY <1>0, <1>1, <1>2, <1>3, <2>1 DEF Inv, CallInv
  <2>3. \A t \in Tasks : Known(WorkerOf[t], session[t])'
    BY <1>0, <1>1, <1>2, <1>3, <2>1, WorkerOfAssumption DEF Inv, CallInv
  <2>4. ASSUME NEW d \in Tasks \cup Workers
        PROVE  /\ at'[d] \in Free \cup {"exec", "release", "bury"} =>
                    IF at'[d] \in InCall THEN on'[d] \in Processes /\ Known(Home(d), on[d])'
                                         ELSE on'[d] = 0
               /\ at'[d] = "call" => proc'[Home(d)][on'[d]] # "asked"
    <3>1. d \in Callers /\ Home(d) \in Workers /\ (at[d] = "call" => on[d] \in Processes)
      BY HomeFacts DEF Inv, CallInv, Free, InCall
    <3>2. QED
      BY <1>0, <1>1, <1>2, <1>3, <2>1, <3>1 DEF Inv, CallInv, Free, InCall
  <2>5. QED
    BY <2>2, <2>3, <2>4 DEF CallInv
<1>10. BindInv'
  <2> SUFFICES ASSUME NEW t \in Tasks, bound'[t] # 0 PROVE BindInv!(t)'
    BY DEF BindInv
  <2>1. /\ BindInv!(t) /\ bound'[t] = bound[t] /\ WorkerOf[t] \in Workers /\ t \in Callers
        /\ bound[t] \in Handles
    BY <1>0, <1>1, HomeFacts, WorkerOfAssumption DEF Inv, BindInv, TypeOK
  <2>2. bound[t] \in Processes
    BY <2>1, BoundsAssumption DEF Handles, Processes
  <2>3. QED
    BY <1>0, <1>1, <1>2, <1>3, <2>1, <2>2 DEF Reconciles
<1>11. QED
  BY <1>0, <1>4, <1>5, <1>6, <1>7, <1>8, <1>9, <1>10 DEF Inv

LEMMA StopReleaseStep ==
    ASSUME Inv, NEW c \in Workers \cup Loops, StopRelease(c)
    PROVE  Inv'
<1> DEFINE w == Home(c)
<1> USE DEF procVars, bindVars, gateVars
<1>0. TypeOK' /\ TypeOK /\ c \in Callers /\ w \in Workers /\ Home(c) = w
  BY StopTypes, HomeFacts DEF Inv, Callers, Stop
<1>1. /\ at[c] = "release"
      /\ UNCHANGED <<spawned, session, proc, on>>
  BY DEF StopRelease, Goto, Alive, Current, ReleaseBindings
<1>2. /\ \A d \in Callers : at'[d] = IF d = c THEN (IF c \in Workers THEN "none" ELSE "ended") ELSE at[d]
      /\ \A v \in Workers : lock'[v] = IF v = w THEN NoOne ELSE lock[v]
      /\ \A t \in Tasks : bound'[t] = 0
  BY <1>0 DEF StopRelease, Goto, TypeOK, ReleaseBindings
<1>3. sup' = sup
  BY DEF StopRelease
<1>a. \A v \in Workers, h \in Processes :
        /\ <<v, h>> \in Callers /\ Home(<<v, h>>) = v /\ <<v, h>> \notin Tasks \cup Workers
        /\ <<v, h>> = c => v = w
  BY <1>0, HomeFacts
<1>4. LockInv'
  BY <1>0, <1>1, <1>2, <1>3, HomeFacts, LockFacts DEF Inv, LockInv, LockStates
<1>5. StartInv'
  BY <1>0, <1>1, <1>2, <1>3, HomeFacts DEF Inv, StartInv
<1>6. ClientInv'
  BY <1>0, <1>1, <1>2, <1>3 DEF Inv, ClientInv, Stopping
<1>7. AliveInv'
  BY <1>0, <1>1, <1>2, <1>3 DEF Inv, AliveInv
<1>8. LoopInv'
  <2> SUFFICES ASSUME NEW v \in Workers PROVE LoopInv!(v)'
    BY DEF LoopInv
  <2>1. LoopInv!(v)
    BY DEF Inv, LoopInv
  <2>2. QED
    BY <1>0, <1>1, <1>2, <1>3, <1>a, <2>1 DEF Watching, Stopping
<1>9. CallInv'
  <2>1. \A v \in Workers : \A p : Known(v, p) => Known(v, p)'
    BY <1>0, <1>1, <1>2, <1>3 DEF Known
  <2>2. \A v \in Workers : Known(v, sup[v].client)'
    BY <1>0, <1>1, <1>2, <1>3, <2>1 DEF Inv, CallInv
  <2>3. \A t \in Tasks : Known(WorkerOf[t], session[t])'
    BY <1>0, <1>1, <1>2, <1>3, <2>1, WorkerOfAssumption DEF Inv, CallInv
  <2>4. ASSUME NEW d \in Tasks \cup Workers
        PROVE  /\ at'[d] \in Free \cup {"exec", "release", "bury"} =>
                    IF at'[d] \in InCall THEN on'[d] \in Processes /\ Known(Home(d), on[d])'
                                         ELSE on'[d] = 0
               /\ at'[d] = "call" => proc'[Home(d)][on'[d]] # "asked"
    <3>1. d \in Callers /\ Home(d) \in Workers /\ (at[d] = "call" => on[d] \in Processes)
      BY HomeFacts DEF Inv, CallInv, Free, InCall
    <3>2. QED
      BY <1>0, <1>1, <1>2, <1>3, <2>1, <3>1 DEF Inv, CallInv, Free, InCall
  <2>5. QED
    BY <2>2, <2>3, <2>4 DEF CallInv
<1>10. BindInv'
  BY <1>2 DEF BindInv
<1>11. QED
  BY <1>0, <1>4, <1>5, <1>6, <1>7, <1>8, <1>9, <1>10 DEF Inv

LEMMA LoopChildTakenStep ==
    ASSUME Inv, NEW w \in Workers, NEW g \in Processes, LoopChildTaken(w, g)
    PROVE  Inv'
<1> DEFINE c == <<w, g>>
<1> USE DEF procVars, bindVars, gateVars
<1>0. TypeOK' /\ TypeOK /\ c \in Callers /\ w \in Workers /\ Home(c) = w
  BY LoopTypes, HomeFacts DEF Inv, Callers, Loop
<1>1. /\ at[c] = "watch" /\ sup[w].child = 0
      /\ UNCHANGED <<spawned, session, bound, proc, lock, on>>
  BY DEF LoopChildTaken, Goto, Alive, Current
<1>2. /\ \A d \in Callers : at'[d] = IF d = c THEN "ended" ELSE at[d]
  BY <1>0 DEF LoopChildTaken, Goto, TypeOK
<1>3. /\ \A v \in Workers : sup'[v].child = sup[v].child
      /\ \A v \in Workers : sup'[v].client = sup[v].client
      /\ \A v \in Workers : sup'[v].started = IF v = w THEN FALSE ELSE sup[v].started
      /\ \A v \in Workers : sup'[v].generation = sup[v].generation
  BY <1>0 DEF LoopChildTaken, TypeOK, Sups
<1>a. \A v \in Workers, h \in Processes :
        /\ <<v, h>> \in Callers /\ Home(<<v, h>>) = v /\ <<v, h>> \notin Tasks \cup Workers
        /\ <<v, h>> = c => v = w
  BY <1>0, HomeFacts
<1>4. LockInv'
  BY <1>0, <1>1, <1>2, <1>3 DEF Inv, LockInv, LockStates
<1>5. StartInv'
  BY <1>0, <1>1, <1>2, <1>3, HomeFacts DEF Inv, StartInv
<1>6. ClientInv'
  BY <1>0, <1>1, <1>2, <1>3 DEF Inv, ClientInv, Stopping
<1>7. AliveInv'
  BY <1>0, <1>1, <1>2, <1>3 DEF Inv, AliveInv
<1>8. LoopInv'
  <2> SUFFICES ASSUME NEW v \in Workers PROVE LoopInv!(v)'
    BY DEF LoopInv
  <2>1. LoopInv!(v)
    BY DEF Inv, LoopInv
  <2>2. \A h \in Processes : at'[<<v, h>>] = IF <<v, h>> = c THEN "ended" ELSE at[<<v, h>>]
    BY <1>2, <1>a
  <2>3. CASE v = w
    <3>1. /\ sup'[v].child = 0 /\ ~sup'[v].started
          /\ sup'[v].generation = sup[v].generation /\ spawned'[v] = spawned[v]
      BY <1>0, <1>1, <1>3, <2>3
    <3>2. \A h \in Processes : at[<<v, h>>] = "none" => at'[<<v, h>>] = "none"
      BY <1>1, <2>2
    <3>3. QED
      BY <2>1, <3>1, <3>2
  <2>4. CASE v # w
    <3>1. /\ sup'[v].child = sup[v].child /\ sup'[v].started = sup[v].started
          /\ sup'[v].generation = sup[v].generation /\ spawned'[v] = spawned[v]
      BY <1>1, <1>3, <2>4
    <3>2. \A h \in Processes : at'[<<v, h>>] = at[<<v, h>>]
      BY <1>a, <2>2, <2>4
    <3>3. QED
      BY <2>1, <3>1, <3>2
  <2>5. QED
    BY <2>3, <2>4
<1>9. CallInv'
  <2>1. \A v \in Workers : \A p : Known(v, p) => Known(v, p)'
    BY <1>0, <1>1, <1>2, <1>3 DEF Known
  <2>2. \A v \in Workers : Known(v, sup[v].client)'
    BY <1>0, <1>1, <1>2, <1>3, <2>1 DEF Inv, CallInv
  <2>3. \A t \in Tasks : Known(WorkerOf[t], session[t])'
    BY <1>0, <1>1, <1>2, <1>3, <2>1, WorkerOfAssumption DEF Inv, CallInv
  <2>4. ASSUME NEW d \in Tasks \cup Workers
        PROVE  /\ at'[d] \in Free \cup {"exec", "release", "bury"} =>
                    IF at'[d] \in InCall THEN on'[d] \in Processes /\ Known(Home(d), on[d])'
                                         ELSE on'[d] = 0
               /\ at'[d] = "call" => proc'[Home(d)][on'[d]] # "asked"
    <3>1. d \in Callers /\ Home(d) \in Workers /\ (at[d] = "call" => on[d] \in Processes)
      BY HomeFacts DEF Inv, CallInv, Free, InCall
    <3>2. QED
      BY <1>0, <1>1, <1>2, <1>3, <2>1, <3>1, <1>a DEF Inv, CallInv, Free, InCall
  <2>5. QED
    BY <2>2, <2>3, <2>4 DEF CallInv
<1>10. BindInv'
  <2> SUFFICES ASSUME NEW t \in Tasks, bound'[t] # 0 PROVE BindInv!(t)'
    BY DEF BindInv
  <2>1. /\ BindInv!(t) /\ bound'[t] = bound[t] /\ WorkerOf[t] \in Workers /\ t \in Callers
        /\ bound[t] \in Handles
    BY <1>0, <1>1, HomeFacts, WorkerOfAssumption DEF Inv, BindInv, TypeOK
  <2>2. bound[t] \in Processes
    BY <2>1, BoundsAssumption DEF Handles, Processes
  <2>3. QED
    BY <1>0, <1>1, <1>2, <1>3, <2>1, <2>2 DEF Reconciles
<1>11. QED
  BY <1>0, <1>4, <1>5, <1>6, <1>7, <1>8, <1>9, <1>10 DEF Inv

LEMMA LoopCrashStep ==
    ASSUME Inv, NEW w \in Workers, NEW g \in Processes, LoopCrash(w, g)
    PROVE  Inv'
<1> DEFINE c == <<w, g>>
<1> USE DEF procVars, bindVars, gateVars
<1>0. TypeOK' /\ TypeOK /\ c \in Callers /\ w \in Workers /\ Home(c) = w
  BY LoopTypes, HomeFacts DEF Inv, Callers, Loop
<1>1. /\ at[c] = "watch"
      /\ \A p \in Processes : p = sup[w].child => proc[w][p] = "none"
      /\ UNCHANGED <<spawned, session, bound, proc, lock, on>>
  BY DEF LoopCrash, Goto, Alive, Current
<1>2. /\ \A d \in Callers : at'[d] = IF d = c THEN "reconcile" ELSE at[d]
  BY <1>0 DEF LoopCrash, Goto, TypeOK
<1>3. /\ \A v \in Workers : sup'[v].child = IF v = w THEN 0 ELSE sup[v].child
      /\ \A v \in Workers : sup'[v].client = IF v = w THEN 0 ELSE sup[v].client
      /\ \A v \in Workers : sup'[v].started = IF v = w THEN FALSE ELSE sup[v].started
      /\ \A v \in Workers : sup'[v].generation = sup[v].generation
  BY <1>0 DEF LoopCrash, TypeOK, Sups
<1>a. \A v \in Workers, h \in Processes :
        /\ <<v, h>> \in Callers /\ Home(<<v, h>>) = v /\ <<v, h>> \notin Tasks \cup Workers
        /\ <<v, h>> = c => v = w
  BY <1>0, HomeFacts
<1>4. LockInv'
  BY <1>0, <1>1, <1>2, <1>3 DEF Inv, LockInv, LockStates
<1>5. StartInv'
  BY <1>0, <1>1, <1>2, <1>3, HomeFacts DEF Inv, StartInv
<1>6. ClientInv'
  BY <1>0, <1>1, <1>2, <1>3 DEF Inv, ClientInv, Stopping
<1>7. AliveInv'
  BY <1>0, <1>1, <1>2, <1>3 DEF Inv, AliveInv
<1>8. LoopInv'
  <2> SUFFICES ASSUME NEW v \in Workers PROVE LoopInv!(v)'
    BY DEF LoopInv
  <2>1. LoopInv!(v)
    BY DEF Inv, LoopInv
  <2>2. \A h \in Processes : at'[<<v, h>>] = IF <<v, h>> = c THEN "reconcile" ELSE at[<<v, h>>]
    BY <1>2, <1>a
  <2>3. CASE v = w
    <3>1. /\ sup'[v].child = 0 /\ ~sup'[v].started
          /\ sup'[v].generation = sup[v].generation /\ spawned'[v] = spawned[v]
      BY <1>0, <1>1, <1>3, <2>3
    <3>2. \A h \in Processes : at[<<v, h>>] = "none" => at'[<<v, h>>] = "none"
      BY <1>1, <2>2
    <3>3. QED
      BY <2>1, <3>1, <3>2
  <2>4. CASE v # w
    <3>1. /\ sup'[v].child = sup[v].child /\ sup'[v].started = sup[v].started
          /\ sup'[v].generation = sup[v].generation /\ spawned'[v] = spawned[v]
      BY <1>1, <1>3, <2>4
    <3>2. \A h \in Processes : at'[<<v, h>>] = at[<<v, h>>]
      BY <1>a, <2>2, <2>4
    <3>3. QED
      BY <2>1, <3>1, <3>2
  <2>5. QED
    BY <2>3, <2>4
<1>9. CallInv'
  <2>1. \A v \in Workers : \A p : Known(v, p) => Known(v, p)'
    BY <1>0, <1>1, <1>2, <1>3 DEF Known
  <2>2. \A v \in Workers : Known(v, sup[v].client)'
    BY <1>0, <1>1, <1>2, <1>3, <2>1, NoneKnown DEF Inv, CallInv
  <2>3. \A t \in Tasks : Known(WorkerOf[t], session[t])'
    BY <1>0, <1>1, <1>2, <1>3, <2>1, WorkerOfAssumption DEF Inv, CallInv
  <2>4. ASSUME NEW d \in Tasks \cup Workers
        PROVE  /\ at'[d] \in Free \cup {"exec", "release", "bury"} =>
                    IF at'[d] \in InCall THEN on'[d] \in Processes /\ Known(Home(d), on[d])'
                                         ELSE on'[d] = 0
               /\ at'[d] = "call" => proc'[Home(d)][on'[d]] # "asked"
    <3>1. d \in Callers /\ Home(d) \in Workers /\ (at[d] = "call" => on[d] \in Processes)
      BY HomeFacts DEF Inv, CallInv, Free, InCall
    <3>2. QED
      BY <1>0, <1>1, <1>2, <1>3, <2>1, <3>1, <1>a DEF Inv, CallInv, Free, InCall
  <2>5. QED
    BY <2>2, <2>3, <2>4 DEF CallInv
<1>10. BindInv'
  <2> SUFFICES ASSUME NEW t \in Tasks, bound'[t] # 0 PROVE BindInv!(t)'
    BY DEF BindInv
  <2>1. /\ BindInv!(t) /\ bound'[t] = bound[t] /\ WorkerOf[t] \in Workers /\ t \in Callers
        /\ bound[t] \in Handles
    BY <1>0, <1>1, HomeFacts, WorkerOfAssumption DEF Inv, BindInv, TypeOK
  <2>2. bound[t] \in Processes
    BY <2>1, BoundsAssumption DEF Handles, Processes
  <2>3. QED
    BY <1>0, <1>1, <1>2, <1>3, <2>1, <2>2 DEF Reconciles
<1>11. QED
  BY <1>0, <1>4, <1>5, <1>6, <1>7, <1>8, <1>9, <1>10 DEF Inv

LEMMA LoopReconcileStep ==
    ASSUME Inv, NEW w \in Workers, NEW g \in Processes, LoopReconcile(w, g)
    PROVE  Inv'
<1> DEFINE c == <<w, g>>
<1> USE DEF procVars, bindVars, gateVars
<1>0. TypeOK' /\ TypeOK /\ c \in Callers /\ w \in Workers /\ Home(c) = w
  BY LoopTypes, HomeFacts DEF Inv, Callers, Loop
<1>1. /\ at[c] = "reconcile"
      /\ UNCHANGED <<spawned, session, proc, lock, on>>
  BY DEF LoopReconcile, Goto, Alive, Current, ReleaseBindings
<1>2. /\ \A d \in Callers : at'[d] = IF d = c THEN "ended" ELSE at[d]
      /\ \A t \in Tasks : bound'[t] = 0
  BY <1>0 DEF LoopReconcile, Goto, TypeOK, ReleaseBindings
<1>3. sup' = sup
  BY DEF LoopReconcile
<1>a. \A v \in Workers, h \in Processes :
        /\ <<v, h>> \in Callers /\ Home(<<v, h>>) = v /\ <<v, h>> \notin Tasks \cup Workers
        /\ <<v, h>> = c => v = w
  BY <1>0, HomeFacts
<1>4. LockInv'
  BY <1>0, <1>1, <1>2, <1>3 DEF Inv, LockInv, LockStates
<1>5. StartInv'
  BY <1>0, <1>1, <1>2, <1>3, HomeFacts DEF Inv, StartInv
<1>6. ClientInv'
  BY <1>0, <1>1, <1>2, <1>3 DEF Inv, ClientInv, Stopping
<1>7. AliveInv'
  BY <1>0, <1>1, <1>2, <1>3 DEF Inv, AliveInv
<1>8. LoopInv'
  <2> SUFFICES ASSUME NEW v \in Workers PROVE LoopInv!(v)'
    BY DEF LoopInv
  <2>1. LoopInv!(v)
    BY DEF Inv, LoopInv
  <2>2. QED
    BY <1>0, <1>1, <1>2, <1>3, <1>a, <2>1 DEF Watching, Stopping
<1>9. CallInv'
  <2>1. \A v \in Workers : \A p : Known(v, p) => Known(v, p)'
    BY <1>0, <1>1, <1>2, <1>3 DEF Known
  <2>2. \A v \in Workers : Known(v, sup[v].client)'
    BY <1>0, <1>1, <1>2, <1>3, <2>1 DEF Inv, CallInv
  <2>3. \A t \in Tasks : Known(WorkerOf[t], session[t])'
    BY <1>0, <1>1, <1>2, <1>3, <2>1, WorkerOfAssumption DEF Inv, CallInv
  <2>4. ASSUME NEW d \in Tasks \cup Workers
        PROVE  /\ at'[d] \in Free \cup {"exec", "release", "bury"} =>
                    IF at'[d] \in InCall THEN on'[d] \in Processes /\ Known(Home(d), on[d])'
                                         ELSE on'[d] = 0
               /\ at'[d] = "call" => proc'[Home(d)][on'[d]] # "asked"
    <3>1. d \in Callers /\ Home(d) \in Workers /\ (at[d] = "call" => on[d] \in Processes)
      BY HomeFacts DEF Inv, CallInv, Free, InCall
    <3>2. QED
      BY <1>0, <1>1, <1>2, <1>3, <2>1, <3>1, <1>a DEF Inv, CallInv, Free, InCall
  <2>5. QED
    BY <2>2, <2>3, <2>4 DEF CallInv
<1>10. BindInv'
  BY <1>2 DEF BindInv
<1>11. QED
  BY <1>0, <1>4, <1>5, <1>6, <1>7, <1>8, <1>9, <1>10 DEF Inv

LEMMA LoopIdleStep ==
    ASSUME Inv, NEW w \in Workers, NEW g \in Processes, LoopIdle(w, g)
    PROVE  Inv'
<1> DEFINE c == <<w, g>>
<1> USE DEF procVars, bindVars, gateVars
<1>0. TypeOK' /\ TypeOK /\ c \in Callers /\ w \in Workers /\ Home(c) = w
  BY LoopTypes, HomeFacts DEF Inv, Callers, Loop
<1>1. /\ at[c] = "watch"
      /\ UNCHANGED <<spawned, session, bound, proc, lock, on>>
  BY DEF LoopIdle, Goto, Alive, Current
<1>2. /\ \A d \in Callers : at'[d] = IF d = c THEN "stop" ELSE at[d]
  BY <1>0 DEF LoopIdle, Goto, TypeOK
<1>3. /\ \A v \in Workers : sup'[v].child = sup[v].child
      /\ \A v \in Workers : sup'[v].client = sup[v].client
      /\ \A v \in Workers : sup'[v].started = IF v = w THEN FALSE ELSE sup[v].started
      /\ \A v \in Workers : sup'[v].generation = sup[v].generation
  BY <1>0 DEF LoopIdle, TypeOK, Sups
<1>a. \A v \in Workers, h \in Processes :
        /\ <<v, h>> \in Callers /\ Home(<<v, h>>) = v /\ <<v, h>> \notin Tasks \cup Workers
        /\ <<v, h>> = c => v = w
  BY <1>0, HomeFacts
<1>4. LockInv'
  BY <1>0, <1>1, <1>2, <1>3 DEF Inv, LockInv, LockStates
<1>5. StartInv'
  BY <1>0, <1>1, <1>2, <1>3, HomeFacts DEF Inv, StartInv
<1>6. ClientInv'
  BY <1>0, <1>1, <1>2, <1>3 DEF Inv, ClientInv, Stopping
<1>7. AliveInv'
  BY <1>0, <1>1, <1>2, <1>3 DEF Inv, AliveInv
<1>8. LoopInv'
  <2> SUFFICES ASSUME NEW v \in Workers PROVE LoopInv!(v)'
    BY DEF LoopInv
  <2>1. LoopInv!(v)
    BY DEF Inv, LoopInv
  <2>2. \A h \in Processes : at'[<<v, h>>] = IF <<v, h>> = c THEN "stop" ELSE at[<<v, h>>]
    BY <1>2, <1>a
  <2>3. CASE v = w
    <3>1. /\ sup'[v].child = sup[v].child /\ ~sup'[v].started
          /\ sup'[v].generation = sup[v].generation /\ spawned'[v] = spawned[v]
      BY <1>0, <1>1, <1>3, <2>3
    <3>2. \A h \in Processes : at[<<v, h>>] = "none" => at'[<<v, h>>] = "none"
      BY <1>1, <2>2
    <3>3. at'[<<v, g>>] = "stop"
      BY <2>2, <2>3
    <3>4. QED
      BY <2>1, <3>1, <3>2, <3>3
  <2>4. CASE v # w
    <3>1. /\ sup'[v].child = sup[v].child /\ sup'[v].started = sup[v].started
          /\ sup'[v].generation = sup[v].generation /\ spawned'[v] = spawned[v]
      BY <1>1, <1>3, <2>4
    <3>2. \A h \in Processes : at'[<<v, h>>] = at[<<v, h>>]
      BY <1>a, <2>2, <2>4
    <3>3. QED
      BY <2>1, <3>1, <3>2
  <2>5. QED
    BY <2>3, <2>4
<1>9. CallInv'
  <2>1. \A v \in Workers : \A p : Known(v, p) => Known(v, p)'
    BY <1>0, <1>1, <1>2, <1>3 DEF Known
  <2>2. \A v \in Workers : Known(v, sup[v].client)'
    BY <1>0, <1>1, <1>2, <1>3, <2>1 DEF Inv, CallInv
  <2>3. \A t \in Tasks : Known(WorkerOf[t], session[t])'
    BY <1>0, <1>1, <1>2, <1>3, <2>1, WorkerOfAssumption DEF Inv, CallInv
  <2>4. ASSUME NEW d \in Tasks \cup Workers
        PROVE  /\ at'[d] \in Free \cup {"exec", "release", "bury"} =>
                    IF at'[d] \in InCall THEN on'[d] \in Processes /\ Known(Home(d), on[d])'
                                         ELSE on'[d] = 0
               /\ at'[d] = "call" => proc'[Home(d)][on'[d]] # "asked"
    <3>1. d \in Callers /\ Home(d) \in Workers /\ (at[d] = "call" => on[d] \in Processes)
      BY HomeFacts DEF Inv, CallInv, Free, InCall
    <3>2. QED
      BY <1>0, <1>1, <1>2, <1>3, <2>1, <3>1, <1>a DEF Inv, CallInv, Free, InCall
  <2>5. QED
    BY <2>2, <2>3, <2>4 DEF CallInv
<1>10. BindInv'
  <2> SUFFICES ASSUME NEW t \in Tasks, bound'[t] # 0 PROVE BindInv!(t)'
    BY DEF BindInv
  <2>1. /\ BindInv!(t) /\ bound'[t] = bound[t] /\ WorkerOf[t] \in Workers /\ t \in Callers
        /\ bound[t] \in Handles
    BY <1>0, <1>1, HomeFacts, WorkerOfAssumption DEF Inv, BindInv, TypeOK
  <2>2. bound[t] \in Processes
    BY <2>1, BoundsAssumption DEF Handles, Processes
  <2>3. QED
    BY <1>0, <1>1, <1>2, <1>3, <2>1, <2>2 DEF Reconciles
<1>11. QED
  BY <1>0, <1>4, <1>5, <1>6, <1>7, <1>8, <1>9, <1>10 DEF Inv

LEMMA KillTakeStep ==
    ASSUME Inv, NEW w \in Workers, KillTake(w)
    PROVE  Inv'
<1> DEFINE c == w
<1> USE DEF procVars, bindVars, gateVars
<1>0. TypeOK' /\ TypeOK /\ c \in Callers /\ w \in Workers /\ Home(c) = w
  BY OtherTypes, HomeFacts DEF Inv, Callers, Responder
<1>1. /\ at[c] = "force"
      /\ UNCHANGED <<spawned, session, bound, proc, lock>>
  BY DEF KillTake, Goto, Alive, Current
<1>2. /\ \A d \in Callers : at'[d] = IF d = c THEN "slay" ELSE at[d]
      /\ \A d \in Callers : on'[d] = IF d = c THEN sup[w].child ELSE on[d]
  BY <1>0 DEF KillTake, Goto, TypeOK
<1>3. /\ \A v \in Workers : sup'[v].child = IF v = w THEN 0 ELSE sup[v].child
      /\ \A v \in Workers : sup'[v].client = sup[v].client
      /\ \A v \in Workers : sup'[v].started = sup[v].started
      /\ \A v \in Workers : sup'[v].generation = sup[v].generation
  BY <1>0 DEF KillTake, TypeOK, Sups
<1>a. \A v \in Workers, h \in Processes :
        /\ <<v, h>> \in Callers /\ Home(<<v, h>>) = v /\ <<v, h>> \notin Tasks \cup Workers
        /\ <<v, h>> = c => v = w
  BY <1>0, HomeFacts
<1>4. LockInv'
  BY <1>0, <1>1, <1>2, <1>3 DEF Inv, LockInv, LockStates
<1>5. StartInv'
  BY <1>0, <1>1, <1>2, <1>3, HomeFacts DEF Inv, StartInv
<1>6. ClientInv'
  BY <1>0, <1>1, <1>2, <1>3 DEF Inv, ClientInv, Stopping
<1>7. AliveInv'
  BY <1>0, <1>1, <1>2, <1>3 DEF Inv, AliveInv
<1>8. LoopInv'
  <2> SUFFICES ASSUME NEW v \in Workers PROVE LoopInv!(v)'
    BY DEF LoopInv
  <2>1. LoopInv!(v)
    BY DEF Inv, LoopInv
  <2>2. \A h \in Processes : at'[<<v, h>>] = IF <<v, h>> = c THEN "slay" ELSE at[<<v, h>>]
    BY <1>2, <1>a
  <2>3. CASE v = w
    BY <1>0, <1>1, <1>2, <1>3, <1>a, <2>1, <2>2, <2>3 DEF Watching, Stopping
  <2>4. CASE v # w
    <3>1. /\ sup'[v].child = sup[v].child /\ sup'[v].started = sup[v].started
          /\ sup'[v].generation = sup[v].generation /\ spawned'[v] = spawned[v]
      BY <1>1, <1>3, <2>4
    <3>2. \A h \in Processes : at'[<<v, h>>] = at[<<v, h>>]
      BY <1>a, <2>2, <2>4
    <3>3. QED
      BY <2>1, <3>1, <3>2
  <2>5. QED
    BY <2>3, <2>4
<1>9. CallInv'
  <2>1. \A v \in Workers : \A p : Known(v, p) => Known(v, p)'
    BY <1>0, <1>1, <1>2, <1>3 DEF Known
  <2>2. \A v \in Workers : Known(v, sup[v].client)'
    BY <1>0, <1>1, <1>2, <1>3, <2>1 DEF Inv, CallInv
  <2>3. \A t \in Tasks : Known(WorkerOf[t], session[t])'
    BY <1>0, <1>1, <1>2, <1>3, <2>1, WorkerOfAssumption DEF Inv, CallInv
  <2>4. ASSUME NEW d \in Tasks \cup Workers
        PROVE  /\ at'[d] \in Free \cup {"exec", "release", "bury"} =>
                    IF at'[d] \in InCall THEN on'[d] \in Processes /\ Known(Home(d), on[d])'
                                         ELSE on'[d] = 0
               /\ at'[d] = "call" => proc'[Home(d)][on'[d]] # "asked"
    <3>1. d \in Callers /\ Home(d) \in Workers /\ (at[d] = "call" => on[d] \in Processes)
      BY HomeFacts DEF Inv, CallInv, Free, InCall
    <3>2. QED
      BY <1>0, <1>1, <1>2, <1>3, <2>1, <3>1 DEF Inv, CallInv, Free, InCall
  <2>5. QED
    BY <2>2, <2>3, <2>4 DEF CallInv
<1>10. BindInv'
  <2> SUFFICES ASSUME NEW t \in Tasks, bound'[t] # 0 PROVE BindInv!(t)'
    BY DEF BindInv
  <2>1. /\ BindInv!(t) /\ bound'[t] = bound[t] /\ WorkerOf[t] \in Workers /\ t \in Callers
        /\ bound[t] \in Handles
    BY <1>0, <1>1, HomeFacts, WorkerOfAssumption DEF Inv, BindInv, TypeOK
  <2>2. bound[t] \in Processes
    BY <2>1, BoundsAssumption DEF Handles, Processes
  <2>3. QED
    BY <1>0, <1>1, <1>2, <1>3, <2>1, <2>2 DEF Reconciles
<1>11. QED
  BY <1>0, <1>4, <1>5, <1>6, <1>7, <1>8, <1>9, <1>10 DEF Inv

LEMMA KillProcessStep ==
    ASSUME Inv, NEW w \in Workers, KillProcess(w)
    PROVE  Inv'
<1> DEFINE c == w
<1> USE DEF procVars, bindVars, gateVars
<1>0. TypeOK' /\ TypeOK /\ c \in Callers /\ w \in Workers /\ Home(c) = w
  BY OtherTypes, HomeFacts DEF Inv, Callers, Responder
<1>1. /\ at[c] = "slay"
      /\ UNCHANGED <<spawned, session, bound, lock>>
  BY DEF KillProcess, Goto, Alive, Current
<1>2. /\ \A d \in Callers : at'[d] = IF d = c THEN "bury" ELSE at[d]
      /\ \A d \in Callers : on'[d] = IF d = c THEN 0 ELSE on[d]
      /\ \A v \in Workers, p \in Processes :
            proc'[v][p] = IF v = w /\ p = on[c] THEN "none" ELSE proc[v][p]
  BY <1>0 DEF KillProcess, Goto, TypeOK, Kill
<1>3. sup' = sup
  BY DEF KillProcess
<1>a. \A v \in Workers, h \in Processes :
        /\ <<v, h>> \in Callers /\ Home(<<v, h>>) = v /\ <<v, h>> \notin Tasks \cup Workers
        /\ <<v, h>> = c => v = w
  BY <1>0, HomeFacts
<1>4. LockInv'
  BY <1>0, <1>1, <1>2, <1>3 DEF Inv, LockInv, LockStates
<1>5. StartInv'
  BY <1>0, <1>1, <1>2, <1>3, HomeFacts DEF Inv, StartInv
<1>6. ClientInv'
  BY <1>0, <1>1, <1>2, <1>3 DEF Inv, ClientInv, Stopping
<1>7. AliveInv'
  BY <1>0, <1>1, <1>2, <1>3 DEF Inv, AliveInv
<1>8. LoopInv'
  <2> SUFFICES ASSUME NEW v \in Workers PROVE LoopInv!(v)'
    BY DEF LoopInv
  <2>1. LoopInv!(v)
    BY DEF Inv, LoopInv
  <2>2. QED
    BY <1>0, <1>1, <1>2, <1>3, <1>a, <2>1 DEF Watching, Stopping
<1>9. CallInv'
  <2>1. \A v \in Workers : \A p : Known(v, p) => Known(v, p)'
    BY <1>0, <1>1, <1>2, <1>3 DEF Known
  <2>2. \A v \in Workers : Known(v, sup[v].client)'
    BY <1>0, <1>1, <1>2, <1>3, <2>1 DEF Inv, CallInv
  <2>3. \A t \in Tasks : Known(WorkerOf[t], session[t])'
    BY <1>0, <1>1, <1>2, <1>3, <2>1, WorkerOfAssumption DEF Inv, CallInv
  <2>4. ASSUME NEW d \in Tasks \cup Workers
        PROVE  /\ at'[d] \in Free \cup {"exec", "release", "bury"} =>
                    IF at'[d] \in InCall THEN on'[d] \in Processes /\ Known(Home(d), on[d])'
                                         ELSE on'[d] = 0
               /\ at'[d] = "call" => proc'[Home(d)][on'[d]] # "asked"
    <3>1. d \in Callers /\ Home(d) \in Workers /\ (at[d] = "call" => on[d] \in Processes)
      BY HomeFacts DEF Inv, CallInv, Free, InCall
    <3>2. QED
      BY <1>0, <1>1, <1>2, <1>3, <2>1, <3>1 DEF Inv, CallInv, Free, InCall
  <2>5. QED
    BY <2>2, <2>3, <2>4 DEF CallInv
<1>10. BindInv'
  <2> SUFFICES ASSUME NEW t \in Tasks, bound'[t] # 0 PROVE BindInv!(t)'
    BY DEF BindInv
  <2>1. /\ BindInv!(t) /\ bound'[t] = bound[t] /\ WorkerOf[t] \in Workers /\ t \in Callers
        /\ bound[t] \in Handles
    BY <1>0, <1>1, HomeFacts, WorkerOfAssumption DEF Inv, BindInv, TypeOK
  <2>2. bound[t] \in Processes
    BY <2>1, BoundsAssumption DEF Handles, Processes
  <2>3. QED
    BY <1>0, <1>1, <1>2, <1>3, <2>1, <2>2 DEF Reconciles
<1>11. QED
  BY <1>0, <1>4, <1>5, <1>6, <1>7, <1>8, <1>9, <1>10 DEF Inv

LEMMA KillReconcileStep ==
    ASSUME Inv, NEW w \in Workers, KillReconcile(w)
    PROVE  Inv'
<1> DEFINE c == w
<1> USE DEF procVars, bindVars, gateVars
<1>0. TypeOK' /\ TypeOK /\ c \in Callers /\ w \in Workers /\ Home(c) = w
  BY OtherTypes, HomeFacts DEF Inv, Callers, Responder
<1>1. /\ at[c] = "bury"
      /\ UNCHANGED <<spawned, session, proc, lock, on>>
  BY DEF KillReconcile, Goto, Alive, Current, ReleaseBindings
<1>2. /\ \A d \in Callers : at'[d] = IF d = c THEN "none" ELSE at[d]
      /\ \A t \in Tasks : bound'[t] = 0
  BY <1>0 DEF KillReconcile, Goto, TypeOK, ReleaseBindings
<1>3. sup' = sup
  BY DEF KillReconcile
<1>a. \A v \in Workers, h \in Processes :
        /\ <<v, h>> \in Callers /\ Home(<<v, h>>) = v /\ <<v, h>> \notin Tasks \cup Workers
        /\ <<v, h>> = c => v = w
  BY <1>0, HomeFacts
<1>4. LockInv'
  BY <1>0, <1>1, <1>2, <1>3 DEF Inv, LockInv, LockStates
<1>5. StartInv'
  BY <1>0, <1>1, <1>2, <1>3, HomeFacts DEF Inv, StartInv
<1>6. ClientInv'
  BY <1>0, <1>1, <1>2, <1>3 DEF Inv, ClientInv, Stopping
<1>7. AliveInv'
  BY <1>0, <1>1, <1>2, <1>3 DEF Inv, AliveInv
<1>8. LoopInv'
  <2> SUFFICES ASSUME NEW v \in Workers PROVE LoopInv!(v)'
    BY DEF LoopInv
  <2>1. LoopInv!(v)
    BY DEF Inv, LoopInv
  <2>2. QED
    BY <1>0, <1>1, <1>2, <1>3, <1>a, <2>1 DEF Watching, Stopping
<1>9. CallInv'
  <2>1. \A v \in Workers : \A p : Known(v, p) => Known(v, p)'
    BY <1>0, <1>1, <1>2, <1>3 DEF Known
  <2>2. \A v \in Workers : Known(v, sup[v].client)'
    BY <1>0, <1>1, <1>2, <1>3, <2>1 DEF Inv, CallInv
  <2>3. \A t \in Tasks : Known(WorkerOf[t], session[t])'
    BY <1>0, <1>1, <1>2, <1>3, <2>1, WorkerOfAssumption DEF Inv, CallInv
  <2>4. ASSUME NEW d \in Tasks \cup Workers
        PROVE  /\ at'[d] \in Free \cup {"exec", "release", "bury"} =>
                    IF at'[d] \in InCall THEN on'[d] \in Processes /\ Known(Home(d), on[d])'
                                         ELSE on'[d] = 0
               /\ at'[d] = "call" => proc'[Home(d)][on'[d]] # "asked"
    <3>1. d \in Callers /\ Home(d) \in Workers /\ (at[d] = "call" => on[d] \in Processes)
      BY HomeFacts DEF Inv, CallInv, Free, InCall
    <3>2. QED
      BY <1>0, <1>1, <1>2, <1>3, <2>1, <3>1 DEF Inv, CallInv, Free, InCall
  <2>5. QED
    BY <2>2, <2>3, <2>4 DEF CallInv
<1>10. BindInv'
  BY <1>2 DEF BindInv
<1>11. QED
  BY <1>0, <1>4, <1>5, <1>6, <1>7, <1>8, <1>9, <1>10 DEF Inv

\* close_for_shutdown and the drain: the child is not taken yet.
LEMMA DrainSteps ==
    ASSUME Inv, NEW c \in Workers \cup Loops,
           CloseForShutdown(c) \/ Drained(c) \/ DrainTimeout(c)
    PROVE  Inv'
<1> DEFINE w == Home(c)
<1> USE DEF procVars, bindVars, gateVars
<1>0. TypeOK' /\ TypeOK /\ c \in Callers /\ w \in Workers
  BY StopTypes, HomeFacts DEF Inv, Callers, Stop
<1>1. /\ at[c] \in Stopping /\ \E to \in Stopping : at' = [at EXCEPT ![c] = to]
      /\ SameSup /\ UNCHANGED <<spawned, lock, on, session, bound>>
  BY DEF CloseForShutdown, Drained, DrainTimeout, Goto, Stopping, SameSup
<1>2. PICK to \in Stopping : \A d \in Callers : at'[d] = IF d = c THEN to ELSE at[d]
  BY <1>0, <1>1 DEF TypeOK
<1>3. \A d \in Callers : QuietMove(d)
  BY <1>1, <1>2 DEF QuietMove
<1>4. \A t \in Tasks : QuietBinding(t) /\ Known(WorkerOf[t], session'[t])
  <2>1. \A t \in Tasks : at'[t] = "done" => at[t] = "done"
    BY <1>2, HomeFacts DEF Stopping
  <2>2. QED
    BY <1>1, <2>1 DEF QuietBinding, Inv, BindInv, CallInv
<1>5. /\ SameAlive
      /\ \A v \in Workers, p \in Processes :
            proc'[v][p] = "asked" =>
                proc[v][p] = "asked" \/ (v = w /\ p = on[c] /\ Active(w, p) = {})
  <2>1. CASE CloseForShutdown(c)
    BY <1>0, <2>1 DEF CloseForShutdown, TypeOK, SameAlive
  <2>2. CASE Drained(c)
    BY <1>0, <2>2 DEF Drained, TypeOK, SameAlive
  <2>3. CASE DrainTimeout(c)
    BY <2>3 DEF DrainTimeout, SameAlive
  <2>4. QED
    BY <2>1, <2>2, <2>3
<1>6. ASSUME NEW d \in Tasks \cup Workers, at'[d] = "call"
      PROVE  proc'[Home(d)][on'[d]] # "asked"
  <2>1. d \in Callers /\ Home(d) \in Workers /\ at[d] = "call"
    BY <1>2, <1>6, HomeFacts DEF Stopping
  <2>2. on[d] \in Processes /\ proc[Home(d)][on[d]] # "asked"
    BY <2>1 DEF Inv, CallInv, Free, InCall
  <2>3. d \in Active(Home(d), on[d])
    BY <2>1 DEF Active
  <2>4. QED
    BY <1>1, <1>5, <2>1, <2>2, <2>3
<1>7. QED
  BY <1>0, <1>1, <1>3, <1>4, <1>5, <1>6, QuietStep

\* A loop samples, skips a sample or finds itself replaced.
LEMMA SampleSteps ==
    ASSUME Inv, NEW w \in Workers, NEW g \in Processes,
           LoopStale(w, g) \/ LoopSamples(w, g) \/ Sample(w, g) \/ SampleSkipped(w, g)
    PROVE  Inv'
<1> DEFINE l == <<w, g>>
<1> USE DEF procVars, bindVars, gateVars
<1>0. /\ TypeOK' /\ TypeOK /\ l \in Callers /\ w \in Callers /\ w # l /\ l \in Loops
      /\ Home(w) = w
  BY LoopTypes, HomeFacts DEF Inv, Loop
<1>1. UNCHANGED <<proc, spawned, lock, session, bound>>
  BY DEF LoopStale, LoopSamples, Sample, SampleSkipped
<1>2. SameSup
  <2>1. CASE Sample(w, g)
    <3>1. \A v \in Workers : v # w => sup'[v] = sup[v]
      BY <1>0, <2>1 DEF Sample, TypeOK
    <3>2. sup[w] \in Sups /\ sup'[w] = [sup[w] EXCEPT !.latch = Latch(Seen(w, on[l]))]
      BY <1>0, <2>1 DEF Sample, TypeOK
    <3>3. /\ sup'[w].child = sup[w].child /\ sup'[w].client = sup[w].client
          /\ sup'[w].started = sup[w].started /\ sup'[w].generation = sup[w].generation
      BY <3>2 DEF Sups
    <3>4. QED
      BY <3>1, <3>3 DEF SameSup
  <2>2. CASE ~Sample(w, g)
    BY <2>2 DEF LoopStale, LoopSamples, SampleSkipped, SameSup
  <2>3. QED
    BY <2>1, <2>2
<1>3. /\ \A d \in Callers \ {l, w} : at'[d] = at[d] /\ on'[d] = on[d]
      /\ on'[w] = on[w]
  BY <1>0 DEF LoopStale, LoopSamples, Sample, SampleSkipped, Goto, Respond, TypeOK
<1>4. \/ at'[w] = at[w]
      \/ at[w] = "none" /\ at'[w] \in {"evict", "ensure", "force"}
  <2>1. CASE Sample(w, g)
    <3> DEFINE lev == Seen(w, on[l])
               a == Action(sup[w].latch, lev)
    <3>1. lev \in {"normal", "pressure", "soft", "hard"}
      BY <1>0 DEF Seen, TypeOK
    <3> HIDE DEF lev
    <3>2. Latch(lev) \in {"normal", "pressure", "limit"}
      BY <3>1 DEF Latch
    <3>3. a \in {"none", "resume", "force_kill", "graceful_restart", "pause"}
      BY <3>1, <3>2 DEF Action, Latch
    <3> HIDE DEF a
    <3>4. Respond(w, g, a)
      BY <2>1 DEF Sample, a, lev
    <3>5. QED
      BY <1>0, <3>3, <3>4 DEF Respond, TypeOK
  <2>2. CASE ~Sample(w, g)
    BY <1>0, <2>2 DEF LoopStale, LoopSamples, SampleSkipped, Goto, TypeOK
  <2>3. QED
    BY <2>1, <2>2
<1>5. \/ at[l] \in Watching /\ at'[l] \in Watching
      \/ at[l] = "watch" /\ at'[l] = "ended" /\ sup[w].generation # g
  <2>1. CASE LoopStale(w, g)
    BY <1>0, <2>1 DEF LoopStale, Goto, TypeOK
  <2>2. CASE LoopSamples(w, g) \/ SampleSkipped(w, g)
    BY <1>0, <2>2 DEF LoopSamples, Current, SampleSkipped, Goto, TypeOK, Watching
  <2>3. CASE Sample(w, g)
    BY <1>0, <2>3 DEF Sample, Respond, TypeOK, Watching
  <2>4. QED
    BY <2>1, <2>2, <2>3
<1>6. at[w] = "none" => on[w] = 0
  BY DEF Inv, CallInv, Free, InCall
<1>7. ASSUME NEW d \in Callers PROVE QuietMove(d)
  <2>1. CASE d = l
    BY <1>0, <1>5, <2>1 DEF QuietMove
  <2>2. CASE d = w
    BY <1>0, <1>3, <1>4, <1>6, <2>2 DEF QuietMove, Free, InCall
  <2>3. CASE d \notin {l, w}
    BY <1>3, <2>3 DEF QuietMove
  <2>4. QED
    BY <2>1, <2>2, <2>3
<1>8. \A t \in Tasks : QuietBinding(t) /\ Known(WorkerOf[t], session'[t])
  <2>1. \A t \in Tasks : at'[t] = at[t]
    BY <1>3, HomeFacts, NamesAssumption
  <2>2. QED
    BY <1>1, <2>1 DEF QuietBinding, Inv, BindInv, CallInv
<1>9. \A d \in Tasks \cup Workers : at'[d] = "call" => proc'[Home(d)][on'[d]] # "asked"
  <2> SUFFICES ASSUME NEW d \in Tasks \cup Workers, at'[d] = "call"
               PROVE  proc'[Home(d)][on'[d]] # "asked"
    OBVIOUS
  <2>1. d \in Callers /\ d # l
    BY <1>0, HomeFacts
  <2>2. at[d] = "call" /\ on'[d] = on[d]
    BY <1>3, <1>4, <2>1
  <2>3. QED
    BY <1>1, <2>2 DEF Inv, CallInv
<1>10. SameAlive
  BY <1>1 DEF SameAlive
<1>11. QED
  BY <1>0, <1>1, <1>2, <1>7, <1>8, <1>9, <1>10, QuietStep

LEMMA EvictLruStep ==
    ASSUME Inv, NEW w \in Workers, NEW S \in SUBSET Tasks, EvictLru(w, S)
    PROVE  Inv'
<1> USE DEF procVars, bindVars, gateVars
<1>0. TypeOK' /\ TypeOK /\ w \in Callers /\ w \in Tasks \cup Workers
  BY OtherTypes, HomeFacts DEF Inv, Responder
<1>1. /\ at[w] = "evict" /\ at' = [at EXCEPT ![w] = "none"] /\ on' = on
      /\ UNCHANGED <<sup, proc, spawned, lock, session>>
      /\ \A t \in Tasks : bound'[t] = IF t \in S THEN 0 ELSE bound[t]
  BY DEF EvictLru, Goto
<1>2. on[w] = 0
  BY <1>1 DEF Inv, CallInv, Free, InCall
<1>3. on' = [on EXCEPT ![w] = 0]
  BY <1>0, <1>1, <1>2 DEF TypeOK
<1>4. at[w] \in Free /\ "none" \in Free /\ "none" \notin InCall
  BY <1>1 DEF Free, InCall
<1>5. \A t \in Tasks : QuietBinding(t) /\ Known(WorkerOf[t], session'[t])
  <2>1. \A t \in Tasks : at'[t] = "done" => at[t] = "done"
    BY <1>0, <1>1, HomeFacts DEF TypeOK
  <2>2. QED
    BY <1>1, <2>1 DEF QuietBinding, Inv, BindInv, CallInv
<1>6. SameSup
  BY <1>1 DEF SameSup
<1>7. QED
  BY <1>0, <1>1, <1>3, <1>4, <1>5, <1>6, FreeStep

-----------------------------------------------------------------------------
(* The environment, and everything together.                               *)

LEMMA EnvironmentStep ==
    ASSUME Inv, NEW w \in Workers, Environment(w)
    PROVE  Inv'
<1> USE DEF procVars, bindVars, gateVars
<1>0. TypeOK' /\ TypeOK
  BY OtherTypes DEF Inv
<1>1. /\ UNCHANGED <<spawned, at, on, lock, session, bound>>
      /\ SameSup
  <2>1. CASE BecomesIdle(w)
    BY <1>0, <2>1 DEF BecomesIdle, SameSup, TypeOK, Sups
  <2>2. CASE ~BecomesIdle(w)
    BY <2>2 DEF Environment, ProcessExits, MemoryChanges, SameSup
  <2>3. QED
    BY <2>1, <2>2 DEF BecomesIdle
<1>2. CASE proc' = proc
  <2>1. \A d \in Callers : QuietMove(d)
    BY <1>1 DEF QuietMove
  <2>2. \A t \in Tasks : QuietBinding(t) /\ Known(WorkerOf[t], session'[t])
    BY <1>1 DEF QuietBinding, Inv, BindInv, CallInv
  <2>3. SameAlive
    BY <1>2 DEF SameAlive
  <2>4. \A d \in Tasks \cup Workers : at'[d] = "call" => proc'[Home(d)][on'[d]] # "asked"
    BY <1>1, <1>2 DEF Inv, CallInv
  <2>5. QED
    BY <1>0, <1>1, <2>1, <2>2, <2>3, <2>4, QuietStep
<1>3. ASSUME NEW x \in Processes, ProcessExits(w, x) PROVE Inv'
  <2>0. proc[w][x] # "none" /\ sup' = sup
    BY <1>3 DEF ProcessExits, Alive
  <2>1. \A v \in Workers, p \in Processes :
           proc'[v][p] = IF v = w /\ p = x THEN "none" ELSE proc[v][p]
    BY <1>0, <1>3 DEF ProcessExits, Kill, TypeOK
  <2>2. LockInv' /\ StartInv' /\ ClientInv' /\ LoopInv'
    BY <1>1, <2>0 DEF Inv, LockInv, StartInv, ClientInv, LoopInv
  <2>3. AliveInv'
    BY <1>1, <2>0, <2>1 DEF Inv, AliveInv
  <2>4. CallInv'
    <3>1. \A v \in Workers : \A p : Known(v, p) => Known(v, p)'
      BY <1>1 DEF Known
    <3>2. ASSUME NEW d \in Tasks \cup Workers, at[d] = "call"
          PROVE  proc'[Home(d)][on[d]] # "asked"
      <4>1. on[d] \in Processes /\ proc[Home(d)][on[d]] # "asked" /\ Home(d) \in Workers
        BY <3>2, HomeFacts DEF Inv, CallInv, Free, InCall
      <4>2. QED
        BY <2>1, <4>1
    <3>3. QED
      BY <1>1, <2>0, <3>1, <3>2, HomeFacts, WorkerOfAssumption DEF Inv, CallInv
  <2>5. BindInv'
    <3> SUFFICES ASSUME NEW t \in Tasks, bound'[t] # 0 PROVE BindInv!(t)'
      BY DEF BindInv
    <3>1. /\ BindInv!(t) /\ bound'[t] = bound[t] /\ WorkerOf[t] \in Workers
          /\ bound[t] \in Handles /\ bound[t] = session[t]
      BY <1>0, <1>1, WorkerOfAssumption DEF Inv, BindInv, TypeOK
    <3>2. bound[t] \in Processes
      BY <3>1, BoundsAssumption DEF Handles, Processes
    <3>3. CASE WorkerOf[t] = w /\ bound[t] = x
      <4>1. \A c \in Callers : Home(c) = w /\ at[c] = "handshake" => on[c] # x
        BY <3>1, <3>3 DEF Inv, CallInv, Known
      <4>2. \/ x = sup[w].child
            \/ \E c \in Callers : Home(c) = w /\ at[c] \in {"kill", "slay"}
        BY <2>0, <4>1 DEF Inv, AliveInv
      <4>3. QED
        BY <1>1, <2>0, <3>1, <3>3, <4>2 DEF Reconciles
    <3>4. CASE ~(WorkerOf[t] = w /\ bound[t] = x)
      BY <1>1, <2>0, <2>1, <3>1, <3>2, <3>4
    <3>5. QED
      BY <3>3, <3>4
  <2>6. QED
    BY <1>0, <2>2, <2>3, <2>4, <2>5 DEF Inv
<1>4. QED
  BY <1>2, <1>3 DEF Environment, BecomesIdle, MemoryChanges

LEMMA InitInv == Init => Inv
<1> SUFFICES ASSUME Init PROVE Inv
  OBVIOUS
<1>1. /\ \A w \in Workers : /\ sup[w].child = 0 /\ sup[w].client = 0 /\ ~sup[w].started
                            /\ sup[w].generation = 0 /\ spawned[w] = 0
      /\ \A c \in Callers : at[c] = "none" /\ on[c] = 0
  BY DEF Init
<1>2. TypeOK
  <2>1. [child |-> 0, client |-> 0, started |-> FALSE, generation |-> 0,
         attempts |-> 0, recent |-> 0, idle |-> FALSE, latch |-> "normal"] \in Sups
    BY NoneIsHandle DEF Sups
  <2>2. QED
    BY <2>1, NoneIsHandle DEF Init, TypeOK, ProcStates, States
<1>3. LockInv /\ StartInv /\ ClientInv
  BY <1>1 DEF LockInv, StartInv, ClientInv, LockStates
<1>4. AliveInv
  BY DEF Init, AliveInv
<1>5. LoopInv
  <2>1. \A w \in Workers, g \in Processes : at[<<w, g>>] = "none"
    BY <1>1, HomeFacts
  <2>2. QED
    BY <1>1, <2>1 DEF LoopInv
<1>6. CallInv
  <2>1. \A w \in Workers : Known(w, 0)
    BY <1>1 DEF Known
  <2>2. \A t \in Tasks : session[t] = 0 /\ WorkerOf[t] \in Workers
    BY WorkerOfAssumption DEF Init
  <2>3. \A c \in Tasks \cup Workers : at[c] = "none" /\ on[c] = 0 /\ "none" \notin InCall
    BY <1>1, HomeFacts DEF InCall
  <2>4. QED
    BY <1>1, <2>1, <2>2, <2>3 DEF CallInv
<1>7. BindInv
  BY DEF Init, BindInv
<1>8. QED
  BY <1>2, <1>3, <1>4, <1>5, <1>6, <1>7 DEF Inv

LEMMA NextStep == Inv /\ Next => Inv'
<1> SUFFICES ASSUME Inv, Next PROVE Inv'
  OBVIOUS
<1>1. ASSUME NEW c \in Tasks \cup Workers, Call(c) PROVE Inv'
  BY <1>1, QuietCalls, SpawnLockStep, SpawnProcessStep, SpawnFailsStep, InstallStep
     DEF Call, Sending
<1>2. ASSUME NEW c \in Workers \cup Loops, Stop(c) PROVE Inv'
  BY <1>2, StopLockStep, DrainSteps, StopTakeStep, StopKillStep, StopReleaseStep DEF Stop
<1>3. ASSUME NEW w \in Workers, NEW g \in Processes, Loop(w, g) PROVE Inv'
  BY <1>3, SampleSteps, LoopChildTakenStep, LoopCrashStep, LoopReconcileStep, LoopIdleStep
     DEF Loop
<1>4. ASSUME NEW w \in Workers, Responder(w) PROVE Inv'
  BY <1>4, KillTakeStep, KillProcessStep, KillReconcileStep, EvictLruStep DEF Responder
<1>5. QED
  BY <1>1, <1>2, <1>3, <1>4, TaskSteps, EnvironmentStep DEF Next

LEMMA Stutter == Inv /\ UNCHANGED vars => Inv'
<1> SUFFICES ASSUME Inv, UNCHANGED vars PROVE Inv'
  OBVIOUS
<1> USE DEF vars, procVars, bindVars, gateVars
<1>1. TypeOK'
  BY DEF Inv, TypeOK
<1>2. SameSup /\ SameAlive /\ UNCHANGED <<spawned, lock>>
  BY DEF SameSup, SameAlive
<1>3. \A c \in Callers : QuietMove(c)
  BY DEF QuietMove
<1>4. \A t \in Tasks : QuietBinding(t) /\ Known(WorkerOf[t], session'[t])
  BY DEF QuietBinding, Inv, BindInv, CallInv
<1>5. \A c \in Tasks \cup Workers : at'[c] = "call" => proc'[Home(c)][on'[c]] # "asked"
  BY DEF Inv, CallInv
<1>6. QED
  BY <1>1, <1>2, <1>3, <1>4, <1>5, QuietStep

\* The inductive invariant holds in every reachable state of the supervisors.
THEOREM Invariance == Spec => []Inv
<1>1. Inv /\ [Next]_vars => Inv'
  BY NextStep, Stutter
<1>2. QED
  BY InitInv, <1>1, PTL DEF Spec

-----------------------------------------------------------------------------
(* The theorems.                                                           *)

\* The supervisors, processes, callers and bindings keep their types; with it, the
\* supervision generation never passes the number of spawns.
THEOREM TypeCorrect == Spec => []TypeOK
<1>1. Inv => TypeOK
  BY DEF Inv
<1>2. QED
  BY Invariance, <1>1, PTL

\* However spawns, shutdowns, crashes and forced kills interleave, a worker has one
\* sidecar process besides those somebody is about to kill, and none escapes.
THEOREM AtMostOneSidecar == Spec => []OneSidecar
<1>1. ASSUME Inv PROVE OneSidecar
  <2> SUFFICES ASSUME NEW w \in Workers PROVE OneSidecar!(w)
    BY DEF OneSidecar
  <2> DEFINE doomed   == {on[c] : c \in InState(w, {"kill", "slay"})}
             starting == {on[c] : c \in InState(w, {"handshake"})}
  <2>1. ASSUME NEW p \in Alive(w) PROVE p \in doomed \cup starting \cup {sup[w].child}
    <3>1. p \in Processes /\ proc[w][p] # "none"
      BY DEF Alive
    <3>2. \/ p = sup[w].child
          \/ \E c \in Callers : Home(c) = w /\ at[c] \in {"handshake", "kill", "slay"} /\ on[c] = p
      BY <1>1, <3>1 DEF Inv, AliveInv
    <3>3. QED
      BY <3>2 DEF InState
  <2>2. ASSUME NEW c \in Callers, Home(c) = w, at[c] \in {"exec", "handshake"}
        PROVE  sup[w].child = 0
    BY <1>1, <2>2 DEF Inv, StartInv
  <2>3. \E x : Alive(w) \ doomed \subseteq {x}
    <3>1. CASE starting = {}
      <4>1. Alive(w) \ doomed \subseteq {sup[w].child}
        BY <2>1, <3>1
      <4>2. QED
        BY <4>1
    <3>2. CASE starting # {}
      <4>1. PICK c \in Callers : Home(c) = w /\ at[c] = "handshake"
        BY <3>2 DEF InState
      <4>2. \A d \in Callers : Home(d) = w /\ at[d] = "handshake" => d = c
        BY <1>1, <4>1, LockFacts DEF LockStates
      <4>3. starting \subseteq {on[c]}
        BY <4>2 DEF InState
      <4>4. sup[w].child \notin Alive(w)
        BY <2>2, <4>1 DEF Alive, Processes
      <4>5. Alive(w) \ doomed \subseteq {on[c]}
        BY <2>1, <4>3, <4>4
      <4>6. QED
        BY <4>5
    <3>3. QED
      BY <3>1, <3>2
  <2>4. Cardinality(Alive(w) \ doomed) <= 1
    <3>1. PICK x : Alive(w) \ doomed \subseteq {x}
      BY <2>3
    <3>2. IsFiniteSet({x}) /\ Cardinality({x}) = 1
      BY FS_Singleton
    <3>3. Cardinality(Alive(w) \ doomed) <= Cardinality({x})
      BY <3>1, <3>2, FS_Subset
    <3>4. QED
      BY <3>2, <3>3
  <2>5. InState(w, {"exec", "handshake"}) # {} => ~Running(w)
    BY <2>2 DEF InState, Running
  <2>6. QED
    BY <2>1, <2>4, <2>5
<1>2. QED
  BY Invariance, <1>1, PTL

\* supervision_started and the generation never leave an installed child without a
\* loop: it is watched, or a loop that found it idle is on its way to take it.
THEOREM AlwaysSupervised == Spec => []Supervised
<1>1. Inv => Supervised
  BY DEF Inv, LoopInv, Supervised, Watching, Stopping
<1>2. QED
  BY Invariance, <1>1, PTL

\* begin_call's second look at the flags, after counting itself, and the drain of
\* close_for_shutdown together keep calls away from a sidecar asked to stop.
THEOREM NoLateCall == Spec => []NoCallAfterShutdown
<1>1. Inv => NoCallAfterShutdown
  BY DEF Inv, CallInv, NoCallAfterShutdown
<1>2. QED
  BY Invariance, <1>1, PTL

\* Every way a process can end has somebody who will release its hot bindings.
THEOREM GhostsAreReleased == Spec => []NoGhostBinding
<1>1. ASSUME Inv PROVE NoGhostBinding
  <2> SUFFICES ASSUME NEW t \in Tasks, bound[t] # 0, bound[t] \notin Alive(WorkerOf[t]),
                      at[t] = "done", sup[WorkerOf[t]].child # bound[t]
               PROVE  InState(WorkerOf[t], {"kill", "release", "slay", "bury", "reconcile"}) # {}
    BY DEF NoGhostBinding
  <2>1. bound[t] \in Handles
    BY <1>1 DEF Inv, TypeOK
  <2>2. bound[t] \in Processes
    BY <2>1, BoundsAssumption DEF Handles, Processes
  <2>3. proc[WorkerOf[t]][bound[t]] = "none"
    BY <2>2 DEF Alive
  <2>4. \E c \in Callers : Home(c) = WorkerOf[t] /\ at[c] \in Reconciles
    BY <1>1, <2>3 DEF Inv, BindInv
  <2>5. QED
    BY <2>4 DEF InState, Reconciles
<1>2. QED
  BY Invariance, <1>1, PTL

=============================================================================
