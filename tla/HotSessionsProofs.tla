-------------------------- MODULE HotSessionsProofs --------------------------
(***************************************************************************)
(* The rows, the sessions and the workers account for each other, for      *)
(* every number of subagents, providers, workers, sessions and faults.     *)
(*                                                                         *)
(* A session changes hands between an execution, an eviction, a control    *)
(* request and the reconciliation of an ended process.  The invariant says *)
(* what each of them may rely on while the others run, and who answers for *)
(* a session or a row on which the two sides disagree for the moment.      *)
(***************************************************************************)
EXTENDS HotSessions, TLAPS

Calling == {"call", "retry", "busy", "evict", "turn"}
Holding == {"turn", "persist", "activate", "rollback", "close"}

Active(x) == sess[x].at = "active"
Pending(x) == sess[x].at \in {"new", "pending"}
Owned(s, x) == x \in DOMAIN sess /\ sess[x].sub = s

(* Process ids are not used twice, and a session lives in a live process. *)
ProcInv ==
    /\ \A v, w \in Workers : run[v] = run[w] /\ run[v] # 0 => v = w
    /\ \A x \in DOMAIN sess : Live(x) => Alive(sess[x].h)

(* A subagent has one session in a process. *)
UniqueInv ==
    \A x, y \in DOMAIN sess :
        Live(x) /\ Live(y) /\ sess[x].sub = sess[y].sub /\ sess[x].h = sess[y].h => x = y

(* A session that was activated lives in the process its provider has now. *)
ActiveInv ==
    \A x \in DOMAIN sess :
        Active(x) => sess[x].h = RunningOf(workers[ProviderOf[sess[x].sub]])

(* The process an execution will call, calls, or has called is the one of   *)
(* the subagent's activated session, if it has one. *)
ExecOK(s) ==
    /\ exec[s].at = "start" =>
          /\ exec[s].h \in Workers
          /\ \A x \in DOMAIN sess :
                Active(x) /\ sess[x].sub = s => sess[x].h = run[exec[s].h]
    /\ exec[s].at \in Calling =>
          /\ exec[s].h <= spawned
          /\ \A x \in DOMAIN sess :
                Active(x) /\ sess[x].sub = s => sess[x].h = exec[s].h
    /\ exec[s].at \in Holding =>
          /\ Owned(s, exec[s].on)
          /\ \A x \in DOMAIN sess : Active(x) /\ sess[x].sub = s => x = exec[s].on
    /\ exec[s].at = "hib_close" =>
          Owned(s, exec[s].on) /\ hot[s] = 0
    /\ exec[s].at # "evict" => ev[s].at = "none"
    /\ s \in deleted => exec[s].at = "idle"

(* A turn's session lives, runs it, and is in the process called; or that   *)
(* process is gone, or an eviction of the session was late. *)
TurnOK(s) ==
    exec[s].at = "turn" =>
        \/ ~Alive(exec[s].h) \/ exec[s].on \in late
        \/ Live(exec[s].on) /\ sess[exec[s].on].h = exec[s].h /\ sess[exec[s].on].busy

(* A session that was prepared for eviction stays reserved and unused until *)
(* its reservation runs out; once its row was cooled, the row is not hot    *)
(* again unless that is on record. *)
Reserved(x) == sess[x].evicting /\ ~sess[x].busy

EvictOK(a) ==
    LET x == ev[a].sid
    IN  /\ ev[a].at # "none" => x \in DOMAIN sess
        /\ ev[a].at \in {"commit", "close"} =>
              ~Pending(x) /\ (Live(x) => (Reserved(x) \/ x \in late) /\ sess[x].h = ev[a].h)
        /\ ev[a].at = "close" => hot[sess[x].sub] # x \/ x \in lost

Activating(s) == exec[s].at \in {"activate", "rollback"} /\ exec[s].on = hot[s]

(* What stands behind a hot row. *)
HotOK(s) ==
    /\ hot[s] # 0 =>
          /\ Owned(s, hot[s]) /\ s \notin deleted
          /\ Pending(hot[s]) => Activating(s) \/ hot[s] \in lost
          /\ \/ Live(hot[s]) \/ orphaned # {} \/ hot[s] \in lost \cup shed
             \/ Activating(s)
    /\ exec[s].at = "close" => hot[s] # exec[s].on \/ exec[s].on \in lost

(* A session that a row names, or that nobody will look up any more; and    *)
(* one that an evictor finds a row of, if it is activated. *)
Rowed(x) == HasRow(x) \/ ~Live(x) \/ sess[x].sub \in deleted

Found(x) == HasRow(x) \/ ~Active(x) \/ sess[x].sub \in deleted

EvRowOK(a) == ev[a].at # "none" => Found(ev[a].sid)

(* Who answers for an activated session. *)
Accounted(x) ==
    \/ hot[sess[x].sub] = x \/ Closing(x)
    \/ sess[x].sub \in deleted \/ x \in lost

(* A session that is about to be activated is in the hot row, or its loss   *)
(* is on record. *)
CommitOK(s) == exec[s].at = "activate" =>
    /\ Rowed(exec[s].on)
    /\ hot[s] = exec[s].on \/ exec[s].on \in lost \/ ~Pending(exec[s].on)

SubagentInv == \A s \in Subagents : ExecOK(s) /\ TurnOK(s) /\ HotOK(s) /\ CommitOK(s)
EvictorInv == \A a \in Evictors : EvictOK(a) /\ EvRowOK(a)
SlotInv == \A x \in DOMAIN sess : Active(x) => Rowed(x) /\ Accounted(x)

Inv ==
    /\ TypeOK /\ ProcInv /\ UniqueInv /\ ActiveInv
    /\ SubagentInv /\ EvictorInv /\ SlotInv /\ DivergenceNeedsDelete

-----------------------------------------------------------------------------
(* The constants and the types.                                            *)

LEMMA EvictorFacts == Subagents \subseteq Evictors /\ Pressure \in Evictors /\ Pressure \notin Subagents
  BY HotAssumption DEF Evictors

LEMMA WorkerFacts ==
    ASSUME TypeOK
    PROVE  /\ 0 \notin Workers
           /\ \A p \in Providers : workers[p] # 0 => workers[p] \in Workers
<1>1. made \in 0..MaxWorkers /\ MaxWorkers \in Nat
  BY HotAssumption DEF TypeOK
<1>2. \A n \in 0..made : n # 0 => n \in Workers
  BY <1>1 DEF Workers
<1>3. 0 \notin Workers
  BY DEF Workers
<1>4. QED
  BY <1>2, <1>3 DEF TypeOK

LEMMA SessFacts ==
    ASSUME TypeOK
    PROVE  /\ \A x \in DOMAIN sess : sess[x] \in Sessions /\ x \in Nat /\ x # 0
           /\ \A x \in DOMAIN sess : sess[x].sub \in Subagents /\ sess[x].h \in Nat
           /\ \A s \in Subagents : hot[s] # 0 => hot[s] \in DOMAIN sess
<1>1. sess \in Seq(Sessions) /\ hot \in [Subagents -> {0} \cup DOMAIN sess]
  BY DEF TypeOK
<1>2. \A x \in DOMAIN sess : sess[x] \in Sessions /\ x \in Nat /\ x # 0
  BY <1>1
<1>3. QED
  BY <1>1, <1>2 DEF Sessions

-----------------------------------------------------------------------------
(* What a step may do to the sessions and the processes.                   *)

Keeps ==
    /\ DOMAIN sess \subseteq DOMAIN sess'
    /\ \A x \in DOMAIN sess :
          /\ sess'[x].sub = sess[x].sub
          /\ Live(x)' => Live(x) /\ sess'[x].h = sess[x].h
          /\ Pending(x)' => Pending(x)

NoneActivated ==
    /\ DOMAIN sess' = DOMAIN sess
    /\ \A x \in DOMAIN sess : Active(x)' => Active(x)

RunSame == UNCHANGED <<run, spawned>>

RunUp(w) ==
    /\ run[w] = 0 /\ spawned' = spawned + 1
    /\ run' = [run EXCEPT ![w] = spawned']

RunDown(w) ==
    /\ run' = [run EXCEPT ![w] = 0] /\ spawned' = spawned
    /\ \A x \in DOMAIN sess : Live(x)' => sess[x].h # run[w]

RunStep == RunSame \/ \E w \in Workers : RunUp(w) \/ RunDown(w)

WorkersStep ==
    \A p \in Providers :
        \/ workers'[p] = workers[p]
        \/ \A x \in DOMAIN sess : Live(x)' => sess[x].h # RunningOf(workers[p])

RunFresh == spawned <= spawned' /\ \A h \in Nat : h <= spawned /\ Alive(h)' => Alive(h)

RunKept ==
    /\ \A x \in DOMAIN sess, w \in Workers :
          Live(x)' /\ run[w] = sess[x].h => run'[w] = run[w]
    /\ \A x \in DOMAIN sess : Live(x)' => Alive(sess[x].h)'

RunUnique == \A v, w \in Workers : run[v] = run[w] /\ run[v] # 0 => v = w

LEMMA RunFacts ==
    ASSUME Inv, TypeOK', Keeps, RunStep
    PROVE  RunFresh /\ RunKept /\ RunUnique'
<1>0. /\ spawned \in Nat /\ spawned' \in Nat /\ run \in [Workers -> 0..spawned]
      /\ \A w \in Workers : run[w] \in Nat /\ run[w] <= spawned
  BY DEF Inv, TypeOK
<1>1. \A x \in DOMAIN sess : Live(x)' =>
         sess[x].h \in Nat /\ sess[x].h # 0 /\ sess'[x].h = sess[x].h
         /\ \E w \in Workers : run[w] = sess[x].h
  BY SessFacts DEF Inv, Keeps, ProcInv, Alive
<1>2. CASE RunSame
  <2>1. RunFresh
    BY <1>0, <1>2 DEF RunSame, RunFresh, Alive
  <2>2. RunKept
    BY <1>1, <1>2 DEF RunSame, RunKept, Alive
  <2>3. RunUnique'
    BY <1>2 DEF RunSame, RunUnique, Inv, ProcInv
  <2>4. QED
    BY <2>1, <2>2, <2>3
<1>3. ASSUME NEW w \in Workers, RunUp(w)
      PROVE  RunFresh /\ RunKept /\ RunUnique'
  <2>1. /\ spawned' = spawned + 1 /\ run[w] = 0
        /\ \A v \in Workers : run'[v] = IF v = w THEN spawned + 1 ELSE run[v]
    BY <1>0, <1>3 DEF RunUp
  <2>2. spawned <= spawned' /\ ~(spawned + 1 <= spawned)
    BY <1>0, <2>1
  <2>3. \A x \in DOMAIN sess, v \in Workers : Live(x)' /\ run[v] = sess[x].h => run'[v] = run[v]
    BY <1>1, <2>1
  <2>4. \A h \in Nat : h <= spawned /\ Alive(h)' => Alive(h)
    BY <2>1, <2>2 DEF Alive
  <2>5. \A u, v \in Workers : run'[u] = run'[v] /\ run'[u] # 0 => u = v
    BY <1>0, <2>1, <2>2 DEF Inv, ProcInv
  <2>6. \A x \in DOMAIN sess : Live(x)' => Alive(sess[x].h)'
    BY <1>1, <2>3 DEF Alive
  <2>7. QED
    BY <2>2, <2>3, <2>4, <2>5, <2>6 DEF RunFresh, RunKept, RunUnique
<1>4. ASSUME NEW w \in Workers, RunDown(w)
      PROVE  RunFresh /\ RunKept /\ RunUnique'
  <2>1. /\ spawned' = spawned
        /\ \A v \in Workers : run'[v] = IF v = w THEN 0 ELSE run[v]
        /\ \A x \in DOMAIN sess : Live(x)' => sess[x].h # run[w]
    BY <1>0, <1>4 DEF RunDown
  <2>2. spawned <= spawned'
    BY <1>0, <2>1
  <2>3. \A x \in DOMAIN sess, v \in Workers : Live(x)' /\ run[v] = sess[x].h => run'[v] = run[v]
    BY <1>1, <2>1
  <2>4. \A h \in Nat : h <= spawned /\ Alive(h)' => Alive(h)
    BY <2>1 DEF Alive
  <2>5. \A u, v \in Workers : run'[u] = run'[v] /\ run'[u] # 0 => u = v
    BY <2>1 DEF Inv, ProcInv
  <2>6. \A x \in DOMAIN sess : Live(x)' => Alive(sess[x].h)'
    BY <1>1, <2>3 DEF Alive
  <2>7. QED
    BY <2>2, <2>3, <2>4, <2>5, <2>6 DEF RunFresh, RunKept, RunUnique
<1>5. QED
  BY <1>2, <1>3, <1>4 DEF RunStep

LEMMA CalmStep ==
    ASSUME Inv, TypeOK', Keeps, NoneActivated, RunStep, WorkersStep
    PROVE  ProcInv' /\ UniqueInv' /\ ActiveInv'
<1>1. ProcInv'
  BY RunFacts DEF ProcInv, NoneActivated, RunKept, RunUnique
<1>2. UniqueInv'
  BY DEF Inv, UniqueInv, Keeps, NoneActivated
<1>3. ActiveInv'
  <2> SUFFICES ASSUME NEW x \in DOMAIN sess, Active(x)'
               PROVE  sess'[x].h = RunningOf(workers[ProviderOf[sess[x].sub]])'
    BY DEF ActiveInv, NoneActivated
  <2> DEFINE p == ProviderOf[sess[x].sub]
  <2>1. /\ Live(x)' /\ Active(x) /\ sess'[x].h = sess[x].h /\ sess'[x].sub = sess[x].sub
        /\ sess[x].h = RunningOf(workers[p]) /\ sess[x].h # 0
    BY DEF Live, Active, Inv, ActiveInv, ProcInv, Alive, Keeps, NoneActivated
  <2>2. p \in Providers
    BY SessFacts, HotAssumption DEF Inv
  <2>3. workers'[p] = workers[p] /\ workers[p] # 0
    BY <2>1, <2>2 DEF WorkersStep, RunningOf
  <2>4. workers[p] \in Workers
    BY <2>2, <2>3, WorkerFacts DEF Inv
  <2>5. run'[workers[p]] = run[workers[p]]
    BY <2>1, <2>3, <2>4, RunFacts DEF RunningOf, RunKept
  <2>6. QED
    BY <2>1, <2>3, <2>5 DEF RunningOf
<1>4. QED
  BY <1>1, <1>2, <1>3

-----------------------------------------------------------------------------
(* What a step of the parties A does to everybody else.                    *)

(* What is on record stays there. *)
Recorded == lost \subseteq lost' /\ shed \subseteq shed' /\ late \subseteq late'

USE DEF Recorded

OthersWait(A) ==
    /\ \A t \in Subagents \ A : exec'[t] = exec[t]
    /\ \A a \in Evictors \ A : ev'[a] = ev[a]
    /\ \A t \in Subagents \ A : hot'[t] = hot[t] \/ hot'[t] = 0
    /\ Recorded /\ deleted \subseteq deleted'
    /\ \A t \in Subagents \ A : t \in deleted' => t \in deleted
    /\ DivergenceNeedsDelete'

(* The sessions others use: a turn keeps its own or loses the process; a    *)
(* reservation holds; a hot row keeps its session, or the loss shows. *)
TurnsKept(A) ==
    \A t \in Subagents \ A : LET x == exec[t].on IN
        exec[t].at = "turn" /\ Live(x) /\ sess[x].busy =>
            \/ Live(x)' /\ sess'[x].busy
            \/ x \in late' \/ \A w \in Workers : run'[w] # sess[x].h

ReservationsKept(A) ==
    \A a \in Evictors \ A : LET x == ev[a].sid IN
        /\ ev[a].at \in {"commit", "close"} /\ Live(x)' /\ Reserved(x) =>
              Reserved(x)' \/ x \in late'
        /\ ev[a].at = "close" /\ hot'[sess[x].sub] = x =>
              hot[sess[x].sub] = x \/ x \in lost'

RowsBacked(A) ==
    /\ orphaned # {} => orphaned' # {} \/ \A t \in Subagents : hot'[t] = 0 \/ hot'[t] \in lost'
    /\ \A t \in Subagents \ A : LET x == hot[t] IN
          hot'[t] # 0 /\ Active(x) => Live(x)' \/ orphaned' # {} \/ x \in lost' \cup shed'

RowsKept(A) ==
    \A x \in DOMAIN sess : HasRow(x) => Rowed(x)' \/ (sess[x].sub \in A /\ ~Active(x)')

SlotsKept(A) ==
    /\ \A x \in DOMAIN sess' : Active(x)' =>
          \/ x \in DOMAIN sess /\ Active(x) /\ (Accounted(x) => Accounted(x)')
          \/ sess'[x].sub \in A /\ Rowed(x)' /\ Accounted(x)'
    /\ \A t \in Subagents \ A :
          exec[t].at = "activate" /\ hot[t] = exec[t].on =>
              hot'[t] = hot[t] \/ exec[t].on \in lost' \/ ~Pending(exec[t].on)'

ActorsOK(A) ==
    /\ \A s \in Subagents \cap A : ExecOK(s)' /\ TurnOK(s)' /\ HotOK(s)' /\ CommitOK(s)'
    /\ \A a \in A : EvictOK(a)' /\ EvRowOK(a)'

WorldOK == TypeOK' /\ Keeps /\ RunStep /\ ProcInv' /\ UniqueInv' /\ ActiveInv'

LEMMA QuietStep ==
    ASSUME Inv, WorldOK, NEW A \in SUBSET Evictors, OthersWait(A), TurnsKept(A),
           ReservationsKept(A), RowsBacked(A), RowsKept(A), SlotsKept(A), ActorsOK(A)
    PROVE  Inv'
<1> USE DEF WorldOK
<1>0. /\ Keeps /\ RunFresh /\ RunKept /\ Subagents \subseteq Evictors /\ TypeOK
      /\ \A x \in DOMAIN sess : Rowed(x) => Rowed(x)' \/ (sess[x].sub \in A /\ ~Active(x)')
      /\ \A x \in DOMAIN sess : Found(x) => Found(x)'
  <2>1. \A x \in DOMAIN sess : Rowed(x) => Rowed(x)' \/ (sess[x].sub \in A /\ ~Active(x)')
    BY DEF RowsKept, Rowed, Keeps, OthersWait
  <2>2. ASSUME NEW x \in DOMAIN sess, Found(x), Active(x)' PROVE Found(x)'
    <3>1. Rowed(x)' => Found(x)'
      BY <2>2 DEF Rowed, Found, Live, Active
    <3>2. CASE Active(x)
      BY <2>1, <2>2, <3>1, <3>2 DEF Rowed, Found
    <3>3. CASE ~Active(x)
      BY <2>2, <3>1, <3>3 DEF SlotsKept, Keeps
    <3>4. QED
      BY <3>2, <3>3
  <2>3. \A x \in DOMAIN sess : Found(x) => Found(x)'
    BY <2>2 DEF Found
  <2>4. QED
    BY <2>1, <2>3, RunFacts, EvictorFacts DEF Inv
<1>1. ASSUME NEW t \in Subagents \ A PROVE ExecOK(t)' /\ CommitOK(t)' /\ TurnOK(t)' /\ HotOK(t)'
  <2>0. /\ exec'[t] = exec[t] /\ ev'[t] = ev[t] /\ hot'[t] \in {hot[t], 0}
        /\ t \in deleted' => t \in deleted
        /\ ExecOK(t) /\ TurnOK(t) /\ HotOK(t) /\ CommitOK(t)
    BY <1>0 DEF OthersWait, Inv, SubagentInv
  <2>1. \A x \in DOMAIN sess' : Active(x)' /\ sess'[x].sub = t =>
           x \in DOMAIN sess /\ Active(x) /\ Live(x)' /\ sess'[x].h = sess[x].h /\ sess[x].sub = t
    BY <1>0 DEF SlotsKept, Keeps, Active, Live
  <2>2. exec[t].h \in Nat
    BY <1>0 DEF TypeOK, Executions
  <2>3. ExecOK(t)'
    <3>1. ASSUME exec[t].at = "start"
          PROVE  \A x \in DOMAIN sess' :
                    Active(x)' /\ sess'[x].sub = t => sess'[x].h = run'[exec[t].h]
      BY <1>0, <2>0, <2>1, <3>1 DEF ExecOK, RunKept
    <3>2. ASSUME exec[t].at \in Calling PROVE exec[t].h <= spawned'
      <4>1. exec[t].h <= spawned /\ spawned <= spawned' /\ spawned \in Nat /\ spawned' \in Nat
        BY <1>0, <2>0, <3>2 DEF ExecOK, RunFresh, TypeOK
      <4>2. QED
        BY <2>2, <4>1
    <3>3. \A x : Owned(t, x) => Owned(t, x)'
      BY <1>0 DEF Owned, Keeps
    <3>4. exec[t].at = "hib_close" => hot'[t] = 0
      BY <2>0 DEF ExecOK
    <3>5. QED
      BY <2>0, <2>1, <3>1, <3>2, <3>3, <3>4 DEF ExecOK
  <2>4. CommitOK(t)'
    <3>1. ASSUME exec[t].at = "activate"
          PROVE  exec[t].on \in DOMAIN sess /\ Rowed(exec[t].on)'
      <4>1. exec[t].on \in DOMAIN sess /\ sess[exec[t].on].sub = t /\ Rowed(exec[t].on)
        BY <2>0, <3>1 DEF CommitOK, ExecOK, Holding, Owned
      <4>2. \A y : y = exec[t].on => Rowed(y)'
        BY <1>0, <4>1
      <4>3. QED
        BY <2>0, <4>1, <4>2 DEF Rowed, HasRow, Live
    <3>2. QED
      BY <1>0, <2>0, <3>1 DEF CommitOK, SlotsKept, Keeps, OthersWait
  <2>5. TurnOK(t)'
    <3> SUFFICES ASSUME exec[t].at = "turn", Alive(exec[t].h)', exec[t].on \notin late'
                 PROVE  /\ Live(exec[t].on)' /\ sess'[exec[t].on].h = exec[t].h
                        /\ sess'[exec[t].on].busy
      BY <2>0 DEF TurnOK
    <3>1. Alive(exec[t].h) /\ exec[t].on \in DOMAIN sess
      BY <1>0, <2>0, <2>2 DEF RunFresh, ExecOK, Calling, Holding, Owned
    <3>2. Live(exec[t].on) /\ sess[exec[t].on].h = exec[t].h /\ sess[exec[t].on].busy
      BY <2>0, <3>1 DEF TurnOK, OthersWait
    <3>3. QED
      BY <1>0, <2>0, <3>1, <3>2 DEF TurnsKept, Keeps, Alive
  <2>6. HotOK(t)'
    <3>1. exec[t].at = "close" => hot'[t] # exec[t].on \/ exec[t].on \in lost'
      <4>1. exec[t].at = "close" => exec[t].on # 0
        BY <1>0, <2>0, SessFacts DEF ExecOK, Holding, Owned
      <4>2. QED
        BY <2>0, <4>1 DEF HotOK, OthersWait
    <3>2. ASSUME hot'[t] # 0
          PROVE  /\ Owned(t, hot[t])' /\ t \notin deleted'
                 /\ Pending(hot[t])' => Activating(t)' \/ hot'[t] \in lost'
                 /\ \/ Live(hot[t])' \/ orphaned' # {} \/ hot'[t] \in lost' \cup shed'
                    \/ Activating(t)'
      <4>1. hot'[t] = hot[t] /\ hot[t] # 0 /\ Owned(t, hot[t])
        BY <2>0, <3>2 DEF HotOK
      <4>2. Owned(t, hot[t])' /\ t \notin deleted'
        BY <1>0, <2>0, <4>1 DEF HotOK, Owned, Keeps
      <4>3. Activating(t) => Activating(t)'
        BY <2>0, <4>1 DEF Activating
      <4>4. Live(hot[t]) => Active(hot[t]) \/ Pending(hot[t])
        BY <1>0, <4>1, SessFacts DEF Owned, Live, Active, Pending, Sessions
      <4>5. QED
        BY <1>0, <2>0, <3>2, <4>1, <4>2, <4>3, <4>4
           DEF HotOK, RowsBacked, OthersWait, Keeps, Owned
    <3>3. QED
      BY <2>0, <3>1, <3>2 DEF HotOK
  <2>7. QED
    BY <2>3, <2>4, <2>5, <2>6
<1>2. ASSUME NEW a \in Evictors \ A PROVE EvictOK(a)' /\ EvRowOK(a)'
  <2>0. /\ ev'[a] = ev[a] /\ EvictOK(a) /\ EvRowOK(a)
    BY DEF OthersWait, Inv, EvictorInv
  <2>1. CASE ev[a].at = "none"
    BY <2>0, <2>1 DEF EvictOK, EvRowOK
  <2>2. CASE ev[a].at # "none"
    <3>1. ev[a].sid \in DOMAIN sess
      BY <2>0, <2>2 DEF EvictOK
    <3>2. EvRowOK(a)'
      BY <1>0, <2>0, <2>2, <3>1 DEF EvRowOK
    <3>3. EvictOK(a)'
      BY <1>0, <2>0, <2>2, <3>1 DEF EvictOK, Keeps, ReservationsKept, OthersWait
    <3>4. QED
      BY <3>2, <3>3
  <2>3. QED
    BY <2>1, <2>2
<1>3. SubagentInv' /\ EvictorInv'
  BY <1>1, <1>2 DEF ActorsOK, SubagentInv, EvictorInv
<1>4. SlotInv'
  BY <1>0 DEF SlotsKept, Inv, SlotInv
<1>5. QED
  BY <1>3, <1>4 DEF Inv, OthersWait

(* A step that leaves the rows alone. *)
Closes(A, x) ==
    \/ \E a \in A : ev[a].at = "close" /\ ev[a].sid = x
    \/ \E s \in Subagents \cap A :
          exec[s].at \in {"rollback", "close", "hib_close"} /\ exec[s].on = x

ActorsWait(A) ==
    /\ \A t \in Subagents \ A : exec'[t] = exec[t]
    /\ \A a \in Evictors \ A : ev'[a] = ev[a]
    /\ Recorded /\ DivergenceNeedsDelete'

ReservedKept(A) ==
    \A a \in Evictors \ A :
        ev[a].at \in {"commit", "close"} /\ Live(ev[a].sid)' /\ Reserved(ev[a].sid) =>
            Reserved(ev[a].sid)' \/ ev[a].sid \in late'

RowsSame(A) ==
    /\ UNCHANGED <<hot, closed, deleted>>
    /\ orphaned # {} => orphaned' # {}
    /\ \A t \in Subagents \ A :
          hot[t] # 0 /\ Active(hot[t]) => Live(hot[t])' \/ orphaned' # {}
                                           \/ hot[t] \in lost' \cup shed'

ClosersAnswer(A) == \A x \in DOMAIN sess : Active(x)' /\ Closes(A, x) => Accounted(x)'

LEMMA SameRows ==
    ASSUME Inv, TypeOK', Keeps, NoneActivated, RunStep, WorkersStep,
           NEW A \in SUBSET Evictors, ActorsWait(A), RowsSame(A), TurnsKept(A),
           ReservedKept(A), ActorsOK(A), ClosersAnswer(A)
    PROVE  Inv'
<1>1. WorldOK
  BY CalmStep DEF WorldOK
<1>2. OthersWait(A)
  BY DEF OthersWait, ActorsWait, RowsSame
<1>3. ReservationsKept(A)
  <2>1. ASSUME NEW a \in Evictors \ A, ev[a].at = "close",
               hot'[sess[ev[a].sid].sub] = ev[a].sid
        PROVE  hot[sess[ev[a].sid].sub] = ev[a].sid
    BY <2>1 DEF RowsSame
  <2>2. QED
    BY <2>1 DEF ReservationsKept, ReservedKept
<1>4. RowsBacked(A)
  BY DEF RowsBacked, RowsSame
<1>5. RowsKept(A)
  BY DEF RowsKept, RowsSame, Rowed, HasRow
<1>6. SlotsKept(A)
  <2>1. ASSUME NEW x \in DOMAIN sess', Active(x)'
        PROVE  x \in DOMAIN sess /\ Active(x) /\ (Accounted(x) => Accounted(x)')
    <3>1. x \in DOMAIN sess /\ Active(x) /\ sess'[x].sub = sess[x].sub
      BY <2>1 DEF NoneActivated, Keeps
    <3>2. Closing(x) => Closes(A, x) \/ Closing(x)'
      BY EvictorFacts DEF Closing, Closes, ActorsWait
    <3>3. Closes(A, x) => Accounted(x)'
      BY <2>1, <3>1 DEF ClosersAnswer
    <3>4. QED
      BY <3>1, <3>2, <3>3 DEF Accounted, RowsSame, ActorsWait
  <2>2. QED
    BY <2>1 DEF SlotsKept, RowsSame
<1>7. QED
  BY <1>1, <1>2, <1>3, <1>4, <1>5, <1>6, QuietStep

(* A step that leaves the sessions alone, too. *)
LEMMA SameSessions ==
    ASSUME Inv, TypeOK', RunStep, WorkersStep, UNCHANGED <<sess, hot, closed, deleted, orphaned>>,
           NEW A \in SUBSET Evictors, ActorsWait(A), ActorsOK(A), ClosersAnswer(A)
    PROVE  Inv'
<1>1. Keeps /\ NoneActivated
  BY DEF Keeps, NoneActivated, Live, Pending, Active
<1>2. RowsSame(A)
  BY DEF RowsSame, Live, Active
<1>3. TurnsKept(A)
  <2> SUFFICES ASSUME NEW t \in Subagents \ A, exec[t].at = "turn",
                      Live(exec[t].on), sess[exec[t].on].busy
               PROVE  Live(exec[t].on)' /\ sess'[exec[t].on].busy
    BY DEF TurnsKept
  <2>1. exec'[t] = exec[t]
    BY DEF ActorsWait
  <2>2. QED
    BY <2>1 DEF Live
<1>4. ReservedKept(A)
  BY DEF ReservedKept, ActorsWait, Reserved
<1>5. QED
  BY <1>1, <1>2, <1>3, <1>4, SameRows

(* A step of the manager or an evictor on the rows. *)
LEMMA SameSidecars ==
    ASSUME Inv, TypeOK', UNCHANGED <<sess, run, spawned, workers>>,
           NEW A \in SUBSET Evictors, OthersWait(A), ActorsOK(A), RowsKept(A),
           \A a \in Evictors \ A : LET x == ev[a].sid IN
               ev[a].at = "close" /\ hot'[sess[x].sub] = x => hot[sess[x].sub] = x \/ x \in lost',
           orphaned # {} => orphaned' # {} \/ \A t \in Subagents : hot'[t] = 0 \/ hot'[t] \in lost',
           \A x \in DOMAIN sess :
               Active(x) /\ (hot[sess[x].sub] = x \/ Closes(A, x)) => Accounted(x)',
           \A t \in Subagents \ A : exec[t].at = "activate" /\ hot[t] = exec[t].on =>
               hot'[t] = hot[t] \/ exec[t].on \in lost' \/ ~Pending(exec[t].on)
    PROVE  Inv'
<1>1. Keeps /\ NoneActivated /\ RunStep /\ WorkersStep
  BY DEF Keeps, NoneActivated, Live, Pending, Active, RunStep, RunSame, WorkersStep
<1>2. WorldOK
  BY <1>1, CalmStep DEF WorldOK
<1>3. TurnsKept(A)
  <2> SUFFICES ASSUME NEW t \in Subagents \ A, exec[t].at = "turn",
                      Live(exec[t].on), sess[exec[t].on].busy
               PROVE  Live(exec[t].on)' /\ sess'[exec[t].on].busy
    BY DEF TurnsKept
  <2>1. exec'[t] = exec[t]
    BY DEF OthersWait
  <2>2. QED
    BY <2>1 DEF Live
<1>4. ReservationsKept(A)
  BY DEF ReservationsKept, OthersWait, Reserved
<1>5. RowsBacked(A)
  BY DEF RowsBacked, OthersWait, Live, Active
<1>6. SlotsKept(A)
  <2>1. ASSUME NEW x \in DOMAIN sess, Active(x)
        PROVE  Accounted(x) => Accounted(x)'
    <3>1. Closing(x) => Closes(A, x) \/ Closing(x)'
      BY EvictorFacts DEF Closing, Closes, OthersWait
    <3>2. QED
      BY <2>1, <3>1 DEF Accounted, OthersWait
  <2>2. \A t \in Subagents \ A : Pending(exec[t].on)' <=> Pending(exec[t].on)
    BY DEF Pending, OthersWait
  <2>3. QED
    BY <2>1, <2>2 DEF SlotsKept, Active
<1>7. QED
  BY <1>2, <1>3, <1>4, <1>5, <1>6, QuietStep

-----------------------------------------------------------------------------
(* The pieces the actions are made of.                                     *)

Moves(s, where) ==
    /\ exec' \in [Subagents -> Executions]
    /\ \A t \in Subagents : t # s => exec'[t] = exec[t]
    /\ exec'[s].at = where
    /\ exec'[s].on = IF where = "idle" THEN 0 ELSE exec[s].on
    /\ exec'[s].h = IF where \in {"idle", "persist"} THEN 0 ELSE exec[s].h

LEMMA GotoMoves ==
    ASSUME TypeOK, NEW s \in Subagents, NEW where \in ExecStates, Goto(s, where)
    PROVE  Moves(s, where)
<1>1. exec \in [Subagents -> Executions] /\ exec[s] \in Executions
  BY DEF TypeOK
<1>2. CASE where = "idle"
  <2>1. exec' = [exec EXCEPT ![s] = Idle]
    BY <1>2 DEF Goto
  <2>2. Idle \in Executions
    BY HotAssumption DEF Idle, Executions, ExecStates
  <2>3. QED
    BY <1>1, <1>2, <2>1, <2>2 DEF Moves, Idle
<1>3. CASE where # "idle"
  <2> DEFINE h == IF where = "persist" THEN 0 ELSE exec[s].h
             e == [exec[s] EXCEPT !.at = where, !.h = h]
  <2>1. exec' = [exec EXCEPT ![s] = e]
    BY <1>3 DEF Goto
  <2>2. e \in Executions /\ e.at = where /\ e.on = exec[s].on /\ e.h = h
    BY <1>1 DEF Executions
  <2>3. QED
    BY <1>1, <1>3, <2>1, <2>2 DEF Moves
<1>4. QED
  BY <1>2, <1>3

LEMMA TryAgainMoves ==
    ASSUME TypeOK, NEW s \in Subagents, exec[s].at \in {"retry", "busy"}, TryAgain(s)
    PROVE  Moves(s, exec[s].at) \/ Moves(s, "idle")
<1>1. exec \in [Subagents -> Executions] /\ exec[s] \in Executions /\ Retries \in Nat
  BY HotAssumption DEF TypeOK
<1>2. CASE exec[s].tries > 1
  <2> DEFINE e == [exec[s] EXCEPT !.tries = exec[s].tries - 1]
  <2>1. exec' = [exec EXCEPT ![s] = e]
    BY <1>1, <1>2 DEF TryAgain
  <2>2. exec[s].tries - 1 \in 0..Retries
    BY <1>1, <1>2 DEF Executions
  <2>3. e \in Executions /\ e.at = exec[s].at /\ e.on = exec[s].on /\ e.h = exec[s].h
    BY <1>1, <2>2 DEF Executions
  <2>4. QED
    BY <1>1, <2>1, <2>3 DEF Moves
<1>3. CASE ~(exec[s].tries > 1)
  BY <1>3, GotoMoves DEF TryAgain, ExecStates
<1>4. QED
  BY <1>2, <1>3

LEMMA FaultType == TypeOK /\ Fault => faults' \in Nat
  BY DEF TypeOK, Fault

LEMMA NoEvictionType == NoEviction \in Evictions /\ NoEviction.at = "none"
  BY DEF NoEviction, Evictions

LEMMA Actor ==
    ASSUME NEW s \in Subagents, ExecOK(s)', TurnOK(s)', HotOK(s)', CommitOK(s)',
           EvictOK(s)', EvRowOK(s)'
    PROVE  ActorsOK({s})
  BY DEF ActorsOK

LEMMA IdleActor ==
    ASSUME Inv, NEW s \in Subagents, UNCHANGED <<sess, hot, deleted, orphaned>>,
           Recorded, exec'[s].at = "idle", ev'[s].at = "none",
           exec[s].at \notin {"activate", "rollback"} \/ exec[s].on \in lost'
    PROVE  ActorsOK({s})
<1>1. ExecOK(s)' /\ TurnOK(s)' /\ CommitOK(s)' /\ EvictOK(s)' /\ EvRowOK(s)'
  BY DEF ExecOK, TurnOK, CommitOK, EvictOK, EvRowOK, Calling, Holding
<1>2. HotOK(s)'
  <2>1. HotOK(s) /\ (Activating(s) => hot[s] \in lost')
    BY DEF Inv, SubagentInv, Activating
  <2>2. QED
    BY <2>1 DEF HotOK, Owned, Pending, Live
<1>3. QED
  BY <1>1, <1>2, Actor

LEMMA SamePool == UNCHANGED <<run, spawned, workers>> => RunStep /\ WorkersStep
  BY DEF RunStep, RunSame, WorkersStep

(* A step of s alone on its execution and its eviction. *)
LEMMA OwnStep ==
    ASSUME Inv, TypeOK', RunStep, WorkersStep, UNCHANGED <<sess, hot, closed, deleted, orphaned, diverged>>,
           NEW s \in Subagents, \A t \in Subagents : t # s => exec'[t] = exec[t],
           \A a \in Evictors : a # s => ev'[a] = ev[a], Recorded,
           ActorsOK({s}), ClosersAnswer({s})
    PROVE  Inv'
<1>1. {s} \in SUBSET Evictors
  BY EvictorFacts
<1>2. ActorsWait({s})
  BY DEF ActorsWait, Inv, DivergenceNeedsDelete
<1>3. QED
  BY <1>1, <1>2, SameSessions

-----------------------------------------------------------------------------
(* The execution up to its turn.                                           *)

LEMMA NoneClosing ==
    ASSUME Inv, NEW s \in Subagents, exec[s].at \notin {"evict", "rollback", "close", "hib_close"}
    PROVE  ClosersAnswer({s})
  BY DEF ClosersAnswer, Closes, Inv, SubagentInv, ExecOK

LEMMA ensure_worker_Step == ASSUME Inv, NEW s \in Subagents, ensure_worker(s) PROVE Inv'
<1> USE DEF poolVars, carVars, dbVars, histVars
<1> DEFINE p == ProviderOf[s]
<1>0. TypeOK /\ p \in Providers /\ exec[s] \in Executions
  BY HotAssumption DEF Inv, TypeOK
<1>1. /\ exec[s].at = "idle" /\ s \notin deleted
      /\ UNCHANGED <<run, spawned, orphaned, sess, lru, hot, closed, deleted, ev, faults, lost, shed, late, diverged>>
  BY DEF ensure_worker
<1>2. /\ made' \in 0..MaxWorkers /\ workers' \in [Providers -> 0..made']
      /\ workers'[p] # 0
      /\ \A q \in Providers : workers[q] # 0 => workers'[q] = workers[q]
  <2>0. made \in Nat /\ MaxWorkers \in Nat /\ workers \in [Providers -> 0..made] /\ made <= MaxWorkers
    BY <1>0, HotAssumption DEF TypeOK
  <2>1. CASE workers[p] # 0
    BY <1>0, <2>0, <2>1 DEF ensure_worker, TypeOK
  <2>2. CASE workers[p] = 0
    <3>1. made' = made + 1 /\ made < MaxWorkers /\ workers' = [workers EXCEPT ![p] = made']
      BY <2>2 DEF ensure_worker
    <3>2. made' \in 0..MaxWorkers /\ made' # 0 /\ 0..made \subseteq 0..made' /\ made' \in 0..made'
      BY <2>0, <3>1
    <3>3. QED
      BY <1>0, <2>0, <2>2, <3>1, <3>2
  <2>3. QED
    BY <2>1, <2>2
<1>3. workers'[p] \in Workers
  BY <1>0, <1>2, HotAssumption DEF Workers
<1>4. /\ exec' \in [Subagents -> Executions]
      /\ \A t \in Subagents : t # s => exec'[t] = exec[t]
      /\ exec'[s].at = "start" /\ exec'[s].h = workers'[p]
  <2> DEFINE e == [exec[s] EXCEPT !.at = "start", !.h = workers'[p], !.tries = Retries]
  <2>1. exec' = [exec EXCEPT ![s] = e]
    BY <1>0 DEF ensure_worker, TypeOK
  <2>2. workers'[p] \in Nat /\ Retries \in 0..Retries
    BY <1>3, HotAssumption DEF Workers
  <2>3. e \in Executions /\ e.at = "start" /\ e.h = workers'[p]
    BY <1>0, <2>2 DEF Executions, ExecStates
  <2>4. QED
    BY <1>0, <2>1, <2>3 DEF TypeOK
<1>5. TypeOK'
  BY <1>0, <1>1, <1>2, <1>4 DEF TypeOK
<1>6. RunStep /\ WorkersStep
  <2>1. \A x \in DOMAIN sess : Live(x)' => sess[x].h # 0
    BY <1>1 DEF Inv, ProcInv, Live, Alive
  <2>2. QED
    BY <1>1, <1>2, <2>1 DEF RunStep, RunSame, WorkersStep, RunningOf
<1>7. ActorsOK({s})
  <2>1. ExecOK(s)'
    <3>1. ASSUME NEW x \in DOMAIN sess, Active(x), sess[x].sub = s
          PROVE  sess[x].h = run[workers'[p]]
      <4>1. sess[x].h = RunningOf(workers[p]) /\ sess[x].h # 0
        BY <3>1 DEF Inv, ActiveInv, ProcInv, Alive, Live, Active
      <4>2. QED
        BY <1>0, <1>2, <4>1 DEF RunningOf
    <3>2. QED
      BY <1>1, <1>3, <1>4, <3>1 DEF ExecOK, Calling, Holding, Active, Inv, SubagentInv
  <2>2. TurnOK(s)' /\ CommitOK(s)' /\ EvictOK(s)' /\ EvRowOK(s)'
    BY <1>1, <1>4 DEF TurnOK, CommitOK, EvictOK, EvRowOK, Inv, SubagentInv, ExecOK
  <2>3. HotOK(s)'
    BY <1>1, <1>4 DEF HotOK, Owned, Pending, Live, Activating, Inv, SubagentInv
  <2>4. QED
    BY <2>1, <2>2, <2>3, Actor
<1>8. QED
  BY <1>1, <1>4, <1>5, <1>6, <1>7, NoneClosing, OwnStep

LEMMA StartedFacts ==
    ASSUME TypeOK, NEW w \in Workers \cup {0}, Started(w)
    PROVE  /\ RunStep /\ spawned' \in Nat /\ run' \in [Workers -> 0..spawned']
           /\ \A v \in Workers : run[v] # 0 => run'[v] = run[v]
           /\ w \in Workers => run'[w] # 0
<1>0. spawned \in Nat /\ run \in [Workers -> 0..spawned] /\ 0 \notin Workers
  BY WorkerFacts DEF TypeOK
<1>1. CASE w # 0 /\ run[w] = 0
  <2>1. w \in Workers /\ spawned' = spawned + 1 /\ run' = [run EXCEPT ![w] = spawned']
    BY <1>1 DEF Started
  <2>2. spawned' \in Nat /\ spawned' # 0 /\ 0..spawned \subseteq 0..spawned' /\ spawned' \in 0..spawned'
    BY <1>0, <2>1
  <2>3. RunStep
    BY <1>1, <2>1 DEF RunStep, RunUp
  <2>4. QED
    BY <1>0, <1>1, <2>1, <2>2, <2>3
<1>2. CASE ~(w # 0 /\ run[w] = 0)
  BY <1>0, <1>2 DEF Started, RunStep, RunSame
<1>3. QED
  BY <1>1, <1>2

LEMMA ensure_started_Step == ASSUME Inv, NEW s \in Subagents, ensure_started(s) PROVE Inv'
<1> USE DEF poolVars, carVars, dbVars, histVars
<1> DEFINE w == exec[s].h
<1>0. TypeOK /\ exec[s] \in Executions /\ ExecOK(s) /\ HotOK(s)
  BY DEF Inv, TypeOK, SubagentInv
<1>1. /\ exec[s].at = "start" /\ Started(w)
      /\ UNCHANGED <<workers, made, orphaned, sess, lru, hot, closed, deleted, ev, faults, lost, shed, late, diverged>>
  BY DEF ensure_started
<1>2. w \in Workers /\ \A x \in DOMAIN sess : Active(x) /\ sess[x].sub = s => sess[x].h = run[w]
  BY <1>0, <1>1 DEF ExecOK
<1>3. /\ RunStep /\ spawned' \in Nat /\ run' \in [Workers -> 0..spawned']
      /\ run[w] # 0 => run'[w] = run[w]
  BY <1>0, <1>1, <1>2, StartedFacts
<1>4. run'[w] \in Nat /\ run'[w] <= spawned'
  BY <1>2, <1>3
<1>5. /\ exec' \in [Subagents -> Executions]
      /\ \A t \in Subagents : t # s => exec'[t] = exec[t]
      /\ exec'[s].at = "call" /\ exec'[s].h = run'[w]
  <2> DEFINE e == [exec[s] EXCEPT !.at = "call", !.h = run'[w]]
  <2>1. exec' = [exec EXCEPT ![s] = e]
    BY <1>0 DEF ensure_started, TypeOK
  <2>2. e \in Executions /\ e.at = "call" /\ e.h = run'[w]
    BY <1>0, <1>4 DEF Executions, ExecStates
  <2>3. QED
    BY <1>0, <2>1, <2>2 DEF TypeOK
<1>6. TypeOK'
  BY <1>0, <1>1, <1>3, <1>5 DEF TypeOK
<1>7. ActorsOK({s})
  <2>1. \A x \in DOMAIN sess : Active(x) => sess[x].h # 0
    BY DEF Active, Inv, ProcInv, Live, Alive
  <2>2. ExecOK(s)'
    BY <1>0, <1>1, <1>2, <1>3, <1>4, <1>5, <2>1 DEF ExecOK, Calling, Holding, Active
  <2>3. TurnOK(s)' /\ CommitOK(s)' /\ EvictOK(s)' /\ EvRowOK(s)'
    BY <1>0, <1>1, <1>5 DEF TurnOK, CommitOK, EvictOK, EvRowOK, ExecOK
  <2>4. HotOK(s)'
    BY <1>0, <1>1, <1>5 DEF HotOK, Owned, Pending, Live, Activating
  <2>5. QED
    BY <2>2, <2>3, <2>4, Actor
<1>8. WorkersStep
  BY <1>1 DEF WorkersStep
<1>9. QED
  BY <1>1, <1>3, <1>5, <1>6, <1>7, <1>8, NoneClosing, OwnStep

LEMMA CallFails_Step == ASSUME Inv, NEW s \in Subagents, CallFails(s) PROVE Inv'
<1> USE DEF poolVars, carVars, dbVars, histVars
<1>1. /\ exec[s].at \in {"call", "retry", "busy", "turn"} /\ ev[s].at = "none" /\ Moves(s, "idle")
      /\ UNCHANGED <<poolVars, carVars, dbVars, ev, histVars>>
  BY GotoMoves DEF CallFails, ExecStates, Inv, SubagentInv, ExecOK
<1>2. TypeOK'
  BY <1>1 DEF Inv, TypeOK, Moves
<1>3. ActorsOK({s})
  BY <1>1, IdleActor DEF Moves
<1>4. QED
  BY <1>1, <1>2, <1>3, NoneClosing, OwnStep, SamePool DEF Moves

LEMMA ExecutionDropped_Step == ASSUME Inv, NEW s \in Subagents, ExecutionDropped(s) PROVE Inv'
<1> USE DEF poolVars, carVars, dbVars, histVars
<1>1. /\ exec[s].at \in {"start", "call", "retry", "busy", "turn", "evict"} /\ Moves(s, "idle")
      /\ faults' \in Nat
      /\ UNCHANGED <<poolVars, carVars, dbVars, shed, late, diverged>>
  BY GotoMoves, FaultType DEF ExecutionDropped, ExecStates, Inv
<1>2. /\ ev' \in [Evictors -> Evictions] /\ ev'[s].at = "none"
      /\ \A a \in Evictors : a # s => ev'[a] = ev[a]
  BY EvictorFacts, NoEvictionType DEF ExecutionDropped, Inv, TypeOK
<1>3. /\ Recorded /\ lost' \subseteq DOMAIN sess
      /\ ev[s].at = "close" => ev[s].sid \in lost'
  BY EvictorFacts DEF ExecutionDropped, Inv, TypeOK, EvictorInv, EvictOK
<1>4. TypeOK'
  BY <1>1, <1>2, <1>3 DEF Inv, TypeOK, Moves
<1>5. ActorsOK({s})
  BY <1>1, <1>2, <1>3, IdleActor DEF Moves
<1>6. ClosersAnswer({s})
  BY <1>1, <1>3 DEF ClosersAnswer, Closes, Accounted
<1>7. QED
  BY <1>1, <1>2, <1>3, <1>4, <1>5, <1>6, OwnStep, SamePool DEF Moves

LEMMA PersistFails_Step == ASSUME Inv, NEW s \in Subagents, PersistFails(s) PROVE Inv'
<1> USE DEF poolVars, carVars, dbVars, histVars
<1>0. ExecOK(s) /\ HotOK(s) /\ TypeOK
  BY DEF Inv, SubagentInv
<1>1. /\ exec[s].at = "persist" /\ Moves(s, "close") /\ faults' \in Nat /\ ev[s].at = "none"
      /\ UNCHANGED <<poolVars, carVars, dbVars, ev, shed, late, diverged>>
  BY <1>0, GotoMoves, FaultType DEF PersistFails, ExecStates, ExecOK
<1>2. /\ Recorded /\ lost' \subseteq DOMAIN sess
      /\ hot[s] = exec[s].on => exec[s].on \in lost'
  BY <1>0, <1>1 DEF PersistFails, TypeOK, ExecOK, Holding, Owned
<1>3. TypeOK'
  BY <1>0, <1>1, <1>2 DEF TypeOK, Moves
<1>4. ActorsOK({s})
  <2>1. ExecOK(s)'
    BY <1>0, <1>1 DEF ExecOK, Moves, Calling, Holding, Owned, Active
  <2>2. TurnOK(s)' /\ CommitOK(s)' /\ EvictOK(s)' /\ EvRowOK(s)'
    BY <1>1 DEF Moves, TurnOK, CommitOK, EvictOK, EvRowOK
  <2>3. HotOK(s)'
    BY <1>0, <1>1, <1>2 DEF Moves, HotOK, Owned, Pending, Live, Activating
  <2>4. QED
    BY <2>1, <2>2, <2>3, Actor
<1>5. QED
  BY <1>1, <1>2, <1>3, <1>4, NoneClosing, OwnStep, SamePool DEF Moves

LEMMA ActivateFails_Step == ASSUME Inv, NEW s \in Subagents, ActivateFails(s) PROVE Inv'
<1> USE DEF poolVars, carVars, dbVars, histVars
<1>0. ExecOK(s) /\ HotOK(s) /\ TypeOK
  BY DEF Inv, SubagentInv
<1>1. /\ exec[s].at = "activate" /\ Moves(s, "rollback") /\ faults' \in Nat /\ ev[s].at = "none"
      /\ UNCHANGED <<poolVars, carVars, dbVars, ev, lost, shed, late, diverged>>
  BY <1>0, GotoMoves, FaultType DEF ActivateFails, ExecStates, ExecOK
<1>2. TypeOK'
  BY <1>0, <1>1 DEF TypeOK, Moves
<1>3. ActorsOK({s})
  <2>1. ExecOK(s)'
    BY <1>0, <1>1 DEF ExecOK, Moves, Calling, Holding, Owned, Active
  <2>2. TurnOK(s)' /\ CommitOK(s)' /\ EvictOK(s)' /\ EvRowOK(s)'
    BY <1>1 DEF Moves, TurnOK, CommitOK, EvictOK, EvRowOK
  <2>3. HotOK(s)'
    BY <1>0, <1>1 DEF Moves, HotOK, Owned, Pending, Live, Activating
  <2>4. QED
    BY <2>1, <2>2, <2>3, Actor
<1>4. QED
  BY <1>1, <1>2, <1>3, NoneClosing, OwnStep, SamePool DEF Moves

LEMMA SkippedSteps ==
    ASSUME Inv, NEW s \in Subagents, RollbackFails(s) \/ CloseSkipped(s) \/ HibernateDropped(s)
    PROVE  Inv'
<1> USE DEF poolVars, carVars, dbVars, histVars
<1>0. ExecOK(s) /\ TypeOK
  BY DEF Inv, SubagentInv
<1>1. /\ exec[s].at \in {"rollback", "close", "hib_close"} /\ Moves(s, "idle") /\ faults' \in Nat
      /\ ev[s].at = "none" /\ lost' = lost \cup {exec[s].on}
      /\ UNCHANGED <<poolVars, carVars, dbVars, ev, shed, late, diverged>>
  BY <1>0, GotoMoves, FaultType DEF RollbackFails, CloseSkipped, HibernateDropped, ExecStates, ExecOK
<1>2. exec[s].on \in DOMAIN sess
  BY <1>0, <1>1 DEF ExecOK, Holding, Owned
<1>3. TypeOK'
  BY <1>0, <1>1, <1>2 DEF TypeOK, Moves
<1>4. ActorsOK({s})
  BY <1>1, IdleActor DEF Moves
<1>5. ClosersAnswer({s})
  BY <1>1 DEF ClosersAnswer, Closes, Accounted
<1>6. QED
  BY <1>1, <1>3, <1>4, <1>5, OwnStep, SamePool DEF Moves

-----------------------------------------------------------------------------
(* Steps that flag a session, and steps that close some.                   *)

Flagged(y) ==
    /\ sess' \in Seq(Sessions) /\ DOMAIN sess' = DOMAIN sess
    /\ \A x \in DOMAIN sess :
          /\ sess'[x].sub = sess[x].sub /\ sess'[x].h = sess[x].h
          /\ sess'[x].at = sess[x].at \/ (sess[x].at = "new" /\ sess'[x].at = "pending")
          /\ x # y => sess'[x] = sess[x]

LEMMA FlagFacts ==
    ASSUME TypeOK, NEW y \in DOMAIN sess, NEW b \in BOOLEAN
    PROVE  /\ sess' = [sess EXCEPT ![y].busy = b] =>
                 Flagged(y) /\ sess'[y].busy = b /\ sess'[y].evicting = sess[y].evicting
           /\ sess' = [sess EXCEPT ![y].evicting = b] =>
                 Flagged(y) /\ sess'[y].evicting = b /\ sess'[y].busy = sess[y].busy
           /\ sess' = [sess EXCEPT ![y].busy = FALSE,
                                   ![y].at = IF @ = "new" THEN "pending" ELSE @] =>
                 Flagged(y) /\ ~sess'[y].busy /\ sess'[y].evicting = sess[y].evicting
<1>0. sess \in Seq(Sessions) /\ sess[y] \in Sessions
  BY SessFacts DEF TypeOK
<1>1. ASSUME NEW r \in Sessions, sess' = [sess EXCEPT ![y] = r],
             r.sub = sess[y].sub, r.h = sess[y].h,
             r.at = sess[y].at \/ (sess[y].at = "new" /\ r.at = "pending")
      PROVE  Flagged(y) /\ sess'[y] = r
  BY <1>0, <1>1 DEF Flagged
<1>2. ASSUME sess' = [sess EXCEPT ![y].busy = b]
      PROVE  Flagged(y) /\ sess'[y].busy = b /\ sess'[y].evicting = sess[y].evicting
  <2> DEFINE r == [sess[y] EXCEPT !.busy = b]
  <2>1. r \in Sessions /\ r.sub = sess[y].sub /\ r.h = sess[y].h /\ r.at = sess[y].at
        /\ r.busy = b /\ r.evicting = sess[y].evicting
    BY <1>0 DEF Sessions
  <2>2. sess' = [sess EXCEPT ![y] = r]
    BY <1>2
  <2>3. QED
    BY <1>1, <2>1, <2>2
<1>3. ASSUME sess' = [sess EXCEPT ![y].evicting = b]
      PROVE  Flagged(y) /\ sess'[y].evicting = b /\ sess'[y].busy = sess[y].busy
  <2> DEFINE r == [sess[y] EXCEPT !.evicting = b]
  <2>1. r \in Sessions /\ r.sub = sess[y].sub /\ r.h = sess[y].h /\ r.at = sess[y].at
        /\ r.evicting = b /\ r.busy = sess[y].busy
    BY <1>0 DEF Sessions
  <2>2. sess' = [sess EXCEPT ![y] = r]
    BY <1>3
  <2>3. QED
    BY <1>1, <2>1, <2>2
<1>4. ASSUME sess' = [sess EXCEPT ![y].busy = FALSE, ![y].at = IF @ = "new" THEN "pending" ELSE @]
      PROVE  Flagged(y) /\ ~sess'[y].busy /\ sess'[y].evicting = sess[y].evicting
  <2> DEFINE to == IF sess[y].at = "new" THEN "pending" ELSE sess[y].at
             r == [sess[y] EXCEPT !.busy = FALSE, !.at = to]
  <2>1. r \in Sessions /\ r.sub = sess[y].sub /\ r.h = sess[y].h /\ r.at = to
        /\ r.busy = FALSE /\ r.evicting = sess[y].evicting
    BY <1>0 DEF Sessions
  <2>2. sess' = [sess EXCEPT ![y] = r]
    BY <1>0, <1>4
  <2>3. r.at = sess[y].at \/ (sess[y].at = "new" /\ r.at = "pending")
    BY <2>1
  <2> HIDE DEF r, to
  <2>4. QED
    BY <1>1, <2>1, <2>2, <2>3
<1>5. QED
  BY <1>2, <1>3, <1>4

LEMMA FlagStep ==
    ASSUME Inv, TypeOK', NEW y \in DOMAIN sess, Flagged(y),
           UNCHANGED <<run, spawned, workers, hot, closed, deleted, orphaned>>,
           NEW A \in SUBSET Evictors, ActorsWait(A), ActorsOK(A), ClosersAnswer(A),
           \A t \in Subagents \ A :
               exec[t].at = "turn" /\ exec[t].on = y /\ sess[y].busy => sess'[y].busy,
           \A a \in Evictors \ A :
               ev[a].at \in {"commit", "close"} /\ ev[a].sid = y /\ Reserved(y) =>
                   Reserved(y)' \/ y \in late'
    PROVE  Inv'
<1>1. Keeps /\ NoneActivated
  BY DEF Keeps, NoneActivated, Live, Pending, Active, Flagged
<1>2. RowsSame(A)
  BY SessFacts DEF RowsSame, Live, Active, Flagged, Inv
<1>3. TurnsKept(A)
  <2> SUFFICES ASSUME NEW t \in Subagents \ A, exec[t].at = "turn",
                      Live(exec[t].on), sess[exec[t].on].busy
               PROVE  Live(exec[t].on)' /\ sess'[exec[t].on].busy
    BY DEF TurnsKept
  <2>1. exec'[t] = exec[t] /\ exec[t].on \in DOMAIN sess
    BY DEF ActorsWait, Inv, SubagentInv, ExecOK, Holding, Owned
  <2>2. QED
    BY <2>1 DEF Live, Flagged
<1>4. ReservedKept(A)
  <2> SUFFICES ASSUME NEW a \in Evictors \ A, ev[a].at \in {"commit", "close"}, Reserved(ev[a].sid)
               PROVE  Reserved(ev[a].sid)' \/ ev[a].sid \in late'
    BY DEF ReservedKept
  <2>1. ev'[a] = ev[a] /\ ev[a].sid \in DOMAIN sess
    BY DEF ActorsWait, Inv, EvictorInv, EvictOK
  <2>2. QED
    BY <2>1 DEF Reserved, Flagged
<1>5. QED
  BY <1>1, <1>2, <1>3, <1>4, SamePool, SameRows

Shut(X) ==
    /\ sess' \in Seq(Sessions) /\ DOMAIN sess' = DOMAIN sess
    /\ \A x \in DOMAIN sess :
          /\ sess'[x].sub = sess[x].sub
          /\ x \in X => sess'[x].at = "gone"
          /\ x \notin X => sess'[x] = sess[x]

LEMMA GoneType ==
    ASSUME TypeOK, NEW X
    PROVE  /\ Gone(X) \in Seq(Sessions) /\ DOMAIN Gone(X) = DOMAIN sess /\ Len(Gone(X)) = Len(sess)
           /\ \A x \in DOMAIN sess :
                 /\ Gone(X)[x].sub = sess[x].sub
                 /\ x \in X => Gone(X)[x].at = "gone"
                 /\ x \notin X => Gone(X)[x] = sess[x]
<1> DEFINE g(x) == [sub |-> sess[x].sub, h |-> 0, at |-> "gone", busy |-> FALSE, evicting |-> FALSE]
           G(x) == IF x \notin X THEN sess[x] ELSE g(x)
<1>1. sess \in Seq(Sessions) /\ DOMAIN sess = 1..Len(sess) /\ Len(sess) \in Nat
  BY DEF TypeOK
<1>2. \A x \in DOMAIN sess : g(x) \in Sessions /\ g(x).sub = sess[x].sub /\ g(x).at = "gone"
  BY SessFacts DEF Sessions
<1>3. \A x \in DOMAIN sess : G(x) \in Sessions
  BY <1>2, SessFacts
<1>4. Gone(X) = [x \in 1..Len(sess) |-> G(x)]
  BY <1>1 DEF Gone
<1> HIDE DEF G
<1>5. Gone(X) \in Seq(Sessions) /\ DOMAIN Gone(X) = DOMAIN sess /\ Len(Gone(X)) = Len(sess)
  BY <1>1, <1>3, <1>4
<1>6. \A x \in DOMAIN sess : Gone(X)[x] = G(x)
  BY <1>1, <1>4
<1>7. QED
  BY <1>2, <1>5, <1>6 DEF G

LEMMA CloseShuts == ASSUME TypeOK, NEW X, CloseIn(X) PROVE Shut(X)
  BY GoneType DEF CloseIn, Shut

LEMMA ShutStep ==
    ASSUME Inv, TypeOK', NEW X, Shut(X), RunStep, WorkersStep,
           UNCHANGED <<hot, closed, deleted>>, orphaned \subseteq orphaned',
           NEW A \in SUBSET Evictors, ActorsWait(A), ActorsOK(A), ClosersAnswer(A),
           \A t \in Subagents \ A :
               exec[t].at = "turn" /\ exec[t].on \in X /\ Live(exec[t].on) /\ sess[exec[t].on].busy =>
                   exec[t].on \in late' \/ \A w \in Workers : run'[w] # sess[exec[t].on].h,
           \A t \in Subagents \ A :
               hot[t] \in X /\ hot[t] # 0 /\ Active(hot[t]) =>
                   orphaned' # {} \/ hot[t] \in lost' \cup shed'
    PROVE  Inv'
<1>1. Keeps /\ NoneActivated
  BY DEF Keeps, NoneActivated, Live, Pending, Active, Shut
<1>2. RowsSame(A)
  BY SessFacts DEF RowsSame, Live, Active, Shut, Inv
<1>3. TurnsKept(A)
  <2> SUFFICES ASSUME NEW t \in Subagents \ A, exec[t].at = "turn",
                      Live(exec[t].on), sess[exec[t].on].busy
               PROVE  \/ Live(exec[t].on)' /\ sess'[exec[t].on].busy
                      \/ exec[t].on \in late'
                      \/ \A w \in Workers : run'[w] # sess[exec[t].on].h
    BY DEF TurnsKept
  <2>1. exec'[t] = exec[t] /\ exec[t].on \in DOMAIN sess
    BY DEF ActorsWait, Inv, SubagentInv, ExecOK, Holding, Owned
  <2>2. QED
    BY <2>1 DEF Live, Shut
<1>4. ReservedKept(A)
  <2> SUFFICES ASSUME NEW a \in Evictors \ A, ev[a].at \in {"commit", "close"},
                      Live(ev[a].sid)', Reserved(ev[a].sid)
               PROVE  Reserved(ev[a].sid)'
    BY DEF ReservedKept
  <2>1. ev'[a] = ev[a] /\ ev[a].sid \in DOMAIN sess
    BY DEF ActorsWait, Inv, EvictorInv, EvictOK
  <2>2. QED
    BY <2>1 DEF Reserved, Shut, Live
<1>5. QED
  BY <1>1, <1>2, <1>3, <1>4, SameRows

LEMMA NoActor ==
    ASSUME Inv, UNCHANGED <<exec, ev, diverged, deleted>>, Recorded
    PROVE  ActorsWait({}) /\ ActorsOK({}) /\ ClosersAnswer({}) /\ {} \in SUBSET Evictors
  BY DEF ActorsWait, ActorsOK, ClosersAnswer, Closes, Inv, DivergenceNeedsDelete

-----------------------------------------------------------------------------
(* Steps of the sidecar on its own.                                        *)

LEMMA AbandonedFacts ==
    ASSUME Inv, NEW x \in DOMAIN sess, Abandoned(x)
    PROVE  sess[x].busy /\ \A t \in Subagents : ~(exec[t].at = "turn" /\ exec[t].on = x)
  BY DEF Abandoned, Inv, SubagentInv, ExecOK, Holding, Owned

LEMMA AbandonedTurnEnds_Step ==
    ASSUME Inv, NEW x \in DOMAIN sess, NEW well \in BOOLEAN, AbandonedTurnEnds(x, well) PROVE Inv'
<1> USE DEF poolVars, carVars, dbVars, histVars
<1>0. TypeOK
  BY DEF Inv
<1>1. /\ Abandoned(x) /\ SessionTurnEnds(x, well)
      /\ UNCHANGED <<poolVars, dbVars, exec, ev, histVars>>
  BY DEF AbandonedTurnEnds
<1>2. CASE sess[x].at = "new" /\ ~well
  <2>1. Shut({x}) /\ ~Active(x)
    BY <1>0, <1>1, <1>2, CloseShuts DEF SessionTurnEnds, Active
  <2>2. TypeOK'
    BY <1>0, <1>1, <2>1 DEF TypeOK, Shut
  <2>3. QED
    BY <1>1, <2>1, <2>2, AbandonedFacts, NoActor, SamePool, ShutStep
<1>3. CASE ~(sess[x].at = "new" /\ ~well)
  <2>1. Flagged(x)
    BY <1>0, <1>1, <1>3, FlagFacts DEF SessionTurnEnds
  <2>2. TypeOK'
    BY <1>0, <1>1, <2>1 DEF TypeOK, Flagged
  <2>3. ~Reserved(x)
    BY <1>1, AbandonedFacts DEF Reserved
  <2>4. QED
    BY <1>1, <2>1, <2>2, <2>3, AbandonedFacts, NoActor, FlagStep
<1>4. QED
  BY <1>2, <1>3

LEMMA CancelFallback_Step ==
    ASSUME Inv, NEW x \in DOMAIN sess, CancelFallback(x) PROVE Inv'
<1> USE DEF poolVars, carVars, dbVars, histVars
<1>0. TypeOK
  BY DEF Inv
<1>1. /\ Abandoned(x) /\ Shut({x}) /\ shed' = shed \cup {x}
      /\ UNCHANGED <<poolVars, dbVars, exec, ev, faults, lost, late, diverged>>
  BY <1>0, CloseShuts DEF CancelFallback
<1>2. TypeOK'
  BY <1>0, <1>1 DEF TypeOK, Shut
<1>3. QED
  BY <1>1, <1>2, AbandonedFacts, NoActor, SamePool, ShutStep

LEMMA ReservationExpires_Step ==
    ASSUME Inv, NEW x \in DOMAIN sess, ReservationExpires(x) PROVE Inv'
<1> USE DEF poolVars, carVars, dbVars, histVars
<1>0. TypeOK
  BY DEF Inv
<1>1. /\ sess' = [sess EXCEPT ![x].evicting = FALSE]
      /\ late' = late \cup {ev[a].sid : a \in {b \in Evictors : ev[b].at \in {"commit", "close"}
                                                           /\ ev[b].sid = x}}
      /\ UNCHANGED <<poolVars, lru, dbVars, exec, ev, faults, lost, shed, diverged>>
  BY DEF ReservationExpires
<1>2. Flagged(x) /\ sess'[x].busy = sess[x].busy
  BY <1>0, <1>1, FlagFacts
<1>3. /\ late \subseteq late' /\ late' \subseteq late \cup {x}
      /\ \A a \in Evictors : ev[a].at \in {"commit", "close"} /\ ev[a].sid = x => x \in late'
  BY <1>1
<1>4. TypeOK'
  BY <1>0, <1>1, <1>2, <1>3 DEF TypeOK, Flagged
<1>5. QED
  BY <1>1, <1>2, <1>3, <1>4, NoActor, FlagStep

LEMMA PendingExpires_Step ==
    ASSUME Inv, NEW x \in DOMAIN sess, PendingExpires(x) PROVE Inv'
<1> USE DEF poolVars, carVars, dbVars, histVars
<1>0. TypeOK
  BY DEF Inv
<1>1. /\ Pending(x) /\ ~sess[x].busy /\ Shut({x})
      /\ UNCHANGED <<poolVars, dbVars, exec, ev, histVars>>
  BY <1>0, CloseShuts DEF PendingExpires, Pending
<1>2. TypeOK'
  BY <1>0, <1>1 DEF TypeOK, Shut
<1>3. ~Active(x)
  BY <1>1 DEF Active, Pending
<1>4. QED
  BY <1>1, <1>2, <1>3, NoActor, SamePool, ShutStep

-----------------------------------------------------------------------------
(* The end of a process, and of its supervisor's time in the pool.         *)

Inside(w) == IF w = 0 THEN {} ELSE {x \in DOMAIN sess : Live(x) /\ sess[x].h = run[w]}

LEMMA EndedFacts ==
    ASSUME Inv, NEW w \in Workers \cup {0}, Ended(w), spawned' = spawned
    PROVE  /\ Shut(Inside(w)) /\ RunStep
           /\ run' \in [Workers -> 0..spawned']
           /\ \A v \in Workers : run'[v] = IF v = w THEN 0 ELSE run[v]
           /\ orphaned \subseteq orphaned' /\ orphaned' \subseteq Workers
           /\ w # 0 => w \in orphaned'
<1>0. /\ TypeOK /\ 0 \notin Workers /\ run \in [Workers -> 0..spawned] /\ spawned \in Nat
      /\ orphaned \subseteq Workers /\ sess \in Seq(Sessions)
  BY WorkerFacts DEF Inv, TypeOK
<1>1. \A x \in DOMAIN sess : Live(x) => sess[x].h # 0
  BY DEF Inv, ProcInv, Alive
<1>2. CASE w # 0 /\ run[w] # 0
  <2>1. /\ run' = [run EXCEPT ![w] = 0] /\ orphaned' = orphaned \cup {w}
        /\ CloseIn(On(run[w])) /\ w \in Workers
    BY <1>2 DEF Ended
  <2>2. Inside(w) = On(run[w])
    BY <1>2 DEF Inside, On
  <2>3. Shut(Inside(w))
    BY <1>0, <2>1, <2>2, CloseShuts
  <2>4. run' \in [Workers -> 0..spawned']
    BY <1>0, <2>1
  <2>5. RunStep
    <3>1. \A x \in DOMAIN sess : Live(x)' => sess[x].h # run[w]
      BY <1>2, <2>3 DEF Shut, Inside, Live
    <3>2. QED
      BY <2>1, <3>1 DEF RunStep, RunDown
  <2>6. QED
    BY <1>0, <2>1, <2>3, <2>4, <2>5
<1>3. CASE ~(w # 0 /\ run[w] # 0)
  <2>1. /\ UNCHANGED <<run, sess>>
        /\ orphaned' = IF w = 0 THEN orphaned ELSE orphaned \cup {w}
    BY <1>3 DEF Ended
  <2>2. Inside(w) = {}
    BY <1>1, <1>3 DEF Inside
  <2>3. Shut(Inside(w))
    BY <1>0, <2>1, <2>2 DEF Shut
  <2>4. \A v \in Workers : run'[v] = IF v = w THEN 0 ELSE run[v]
    BY <1>0, <1>3, <2>1
  <2>5. QED
    BY <1>0, <2>1, <2>3, <2>4 DEF RunStep, RunSame
<1>4. QED
  BY <1>2, <1>3

LEMMA EndedStep ==
    ASSUME Inv, TypeOK', NEW w \in Workers \cup {0}, Ended(w),
           UNCHANGED <<spawned, hot, closed, deleted>>,
           \A p \in Providers : workers'[p] = workers[p] \/ workers[p] = w,
           NEW A \in SUBSET Evictors, ActorsWait(A), ActorsOK(A), ClosersAnswer(A)
    PROVE  Inv'
<1>1. /\ Shut(Inside(w)) /\ RunStep /\ orphaned \subseteq orphaned'
      /\ w # 0 => w \in orphaned'
      /\ \A v \in Workers : run'[v] = IF v = w THEN 0 ELSE run[v]
  BY EndedFacts
<1>2. \A x \in DOMAIN sess : Live(x) => sess[x].h # 0
  BY DEF Inv, ProcInv, Alive
<1>3. WorkersStep
  <2> SUFFICES ASSUME NEW p \in Providers, workers[p] = w, NEW x \in DOMAIN sess, Live(x)'
               PROVE  sess[x].h # RunningOf(w)
    BY DEF WorkersStep
  <2>1. Live(x) /\ x \notin Inside(w)
    BY <1>1 DEF Shut, Live
  <2>2. QED
    BY <1>2, <2>1 DEF Inside, RunningOf
<1>4. ASSUME NEW x \in Inside(w), NEW v \in Workers PROVE run'[v] # sess[x].h
  <2>1. w # 0 /\ w \in Workers /\ x \in DOMAIN sess /\ Live(x) /\ sess[x].h = run[w]
    BY <1>4 DEF Inside
  <2>2. run[v] = run[w] => v = w
    BY <1>2, <2>1 DEF Inv, ProcInv
  <2>3. QED
    BY <1>1, <1>2, <2>1, <2>2
<1>5. Inside(w) # {} => orphaned' # {}
  BY <1>1 DEF Inside
<1>6. QED
  BY <1>1, <1>3, <1>4, <1>5, ShutStep

LEMMA update_provider_Step ==
    ASSUME Inv, NEW p \in Providers, update_provider_and_kill_old(p) PROVE Inv'
<1> USE DEF poolVars, carVars, dbVars, histVars
<1>0. TypeOK /\ workers[p] \in Workers \cup {0}
  BY WorkerFacts DEF Inv
<1>1. /\ faults' \in Nat /\ workers' = [workers EXCEPT ![p] = 0] /\ Ended(workers[p])
      /\ UNCHANGED <<made, spawned, dbVars, exec, ev, lost, shed, late, diverged>>
  BY <1>0, FaultType DEF update_provider_and_kill_old
<1>2. /\ Shut(Inside(workers[p])) /\ run' \in [Workers -> 0..spawned'] /\ orphaned' \subseteq Workers
  BY <1>0, <1>1, EndedFacts
<1>3. workers' \in [Providers -> 0..made'] /\ \A q \in Providers : workers'[q] = workers[q] \/ q = p
  <2>1. made \in Nat /\ workers \in [Providers -> 0..made]
    BY <1>0 DEF TypeOK
  <2>2. QED
    BY <1>1, <2>1
<1>4. TypeOK'
  BY <1>0, <1>1, <1>2, <1>3 DEF TypeOK, Shut
<1>5. QED
  BY <1>0, <1>1, <1>3, <1>4, NoActor, EndedStep

LEMMA Crash_Step == ASSUME Inv, NEW w \in Workers, Crash(w) PROVE Inv'
<1> USE DEF poolVars, carVars, dbVars, histVars
<1>0. TypeOK
  BY DEF Inv
<1>1. /\ faults' \in Nat /\ Ended(w)
      /\ UNCHANGED <<workers, made, spawned, dbVars, exec, ev, lost, shed, late, diverged>>
  BY <1>0, FaultType DEF Crash
<1>2. /\ Shut(Inside(w)) /\ run' \in [Workers -> 0..spawned'] /\ orphaned' \subseteq Workers
  BY <1>1, EndedFacts
<1>3. TypeOK'
  BY <1>0, <1>1, <1>2 DEF TypeOK, Shut
<1>4. QED
  BY <1>1, <1>3, NoActor, EndedStep

LEMMA AuthKill_Step == ASSUME Inv, NEW s \in Subagents, AuthKill(s) PROVE Inv'
<1> USE DEF poolVars, carVars, dbVars, histVars
<1> DEFINE p == ProviderOf[s]
<1>0. /\ TypeOK /\ p \in Providers /\ workers[p] \in Workers \cup {0}
      /\ {s} \in SUBSET Evictors /\ ExecOK(s) /\ HotOK(s)
  BY WorkerFacts, HotAssumption, EvictorFacts DEF Inv, SubagentInv
<1>1. /\ exec[s].at = "auth" /\ Moves(s, "idle") /\ ev[s].at = "none"
      /\ workers' = [workers EXCEPT ![p] = 0] /\ Ended(workers[p])
      /\ UNCHANGED <<made, spawned, dbVars, ev, histVars>>
  BY <1>0, GotoMoves DEF AuthKill, ExecStates, ExecOK
<1>2. /\ Shut(Inside(workers[p])) /\ run' \in [Workers -> 0..spawned'] /\ orphaned' \subseteq Workers
      /\ orphaned \subseteq orphaned'
      /\ workers[p] # 0 => workers[p] \in orphaned'
  BY <1>0, <1>1, EndedFacts
<1>3. workers' \in [Providers -> 0..made'] /\ \A q \in Providers : workers'[q] = workers[q] \/ q = p
  <2>1. made \in Nat /\ workers \in [Providers -> 0..made]
    BY <1>0 DEF TypeOK
  <2>2. QED
    BY <1>0, <1>1, <2>1
<1>4. TypeOK'
  BY <1>0, <1>1, <1>2, <1>3 DEF TypeOK, Shut, Moves
<1>5. ActorsWait({s})
  BY <1>1 DEF ActorsWait, Moves, Inv, DivergenceNeedsDelete
<1>6. ActorsOK({s})
  <2>1. ExecOK(s)' /\ TurnOK(s)' /\ CommitOK(s)' /\ EvictOK(s)' /\ EvRowOK(s)'
    BY <1>1 DEF ExecOK, TurnOK, CommitOK, EvictOK, EvRowOK, Calling, Holding, Moves
  <2>2. HotOK(s)'
    <3>1. ~Activating(s)
      BY <1>1 DEF Activating
    <3>2. hot[s] # 0 => hot[s] \in DOMAIN sess /\ hot[s] \in Nat
      BY <1>0, SessFacts
    <3>3. hot[s] \in Inside(workers[p]) => orphaned' # {}
      BY <1>2 DEF Inside
    <3>4. QED
      BY <1>0, <1>1, <1>2, <3>1, <3>2, <3>3 DEF HotOK, Moves, Owned, Shut, Pending, Live, Activating
  <2>3. QED
    BY <2>1, <2>2, Actor
<1>7. QED
  BY <1>0, <1>1, <1>3, <1>4, <1>5, <1>6, NoneClosing, EndedStep

-----------------------------------------------------------------------------
(* turn_auto, by its answers.                                              *)

SameShape ==
    /\ DOMAIN sess' = DOMAIN sess
    /\ \A x \in DOMAIN sess :
          /\ sess'[x].sub = sess[x].sub /\ sess'[x].h = sess[x].h
          /\ sess'[x].at = sess[x].at \/ (sess[x].at = "new" /\ sess'[x].at = "pending")

LEMMA RowsFollowShape ==
    ASSUME Inv, SameShape, UNCHANGED <<hot, deleted, orphaned>>, Recorded,
           NEW s \in Subagents, exec[s].at \notin {"activate", "rollback"}, exec'[s].at # "close"
    PROVE  HotOK(s)'
<1>1. HotOK(s) /\ ~Activating(s)
  BY DEF Inv, SubagentInv, Activating
<1>2. hot[s] # 0 => hot[s] \in DOMAIN sess
  BY <1>1 DEF HotOK, Owned
<1>3. QED
  BY <1>1, <1>2 DEF HotOK, Owned, Pending, Live, SameShape

LEMMA RowedKept ==
    ASSUME SameShape, UNCHANGED <<hot, closed, deleted>>, NEW x \in DOMAIN sess, Rowed(x)
    PROVE  Rowed(x)'
  BY DEF Rowed, HasRow, Live, SameShape

Trying == {"call", "retry", "busy"}

LEMMA WaitActor ==
    ASSUME Inv, NEW s \in Subagents, exec[s].at \in Trying, SameShape,
           NEW where \in {"retry", "busy", "idle"}, Moves(s, where),
           UNCHANGED <<spawned, hot, deleted, orphaned>>, Recorded, ev'[s] = ev[s]
    PROVE  ActorsOK({s})
<1>0. ExecOK(s) /\ ev[s].at = "none" /\ s \notin deleted
  BY DEF Inv, SubagentInv, ExecOK, Trying
<1>1. ExecOK(s)'
  BY <1>0 DEF ExecOK, Trying, Calling, Holding, Moves, SameShape, Active
<1>2. TurnOK(s)' /\ CommitOK(s)' /\ EvictOK(s)' /\ EvRowOK(s)'
  BY <1>0 DEF TurnOK, CommitOK, EvictOK, EvRowOK, Moves
<1>3. HotOK(s)'
  BY RowsFollowShape DEF Moves, Trying
<1>4. QED
  BY <1>1, <1>2, <1>3, Actor

(* The answer makes it wait, or give up. *)
LEMMA WaitStep ==
    ASSUME Inv, NEW s \in Subagents, exec[s].at \in Trying,
           IF exec[s].at = "call" THEN Goto(s, "busy") ELSE TryAgain(s),
           UNCHANGED <<poolVars, sess, dbVars, ev, histVars>>
    PROVE  Inv'
<1> USE DEF poolVars, dbVars, histVars
<1>0. TypeOK /\ ExecOK(s)
  BY DEF Inv, SubagentInv
<1>1. PICK where \in {"retry", "busy", "idle"} : Moves(s, where)
  BY <1>0, GotoMoves, TryAgainMoves DEF Trying, ExecStates
<1>2. TypeOK'
  BY <1>0, <1>1 DEF TypeOK, Moves
<1>3. ActorsOK({s})
  BY <1>1, WaitActor DEF SameShape
<1>4. ClosersAnswer({s})
  BY NoneClosing DEF Trying
<1>5. QED
  BY <1>1, <1>2, <1>3, <1>4, SamePool, OwnStep DEF Moves

LEMMA TurnMoves ==
    ASSUME TypeOK, NEW s \in Subagents, NEW x \in Nat,
           exec' = [exec EXCEPT ![s].at = "turn", ![s].on = x, ![s].tries = 0]
    PROVE  /\ exec' \in [Subagents -> Executions]
           /\ \A t \in Subagents : t # s => exec'[t] = exec[t]
           /\ exec'[s].at = "turn" /\ exec'[s].on = x /\ exec'[s].h = exec[s].h
<1> DEFINE e == [exec[s] EXCEPT !.at = "turn", !.on = x, !.tries = 0]
<1>0. exec \in [Subagents -> Executions] /\ exec[s] \in Executions
  BY DEF TypeOK
<1>1. exec' = [exec EXCEPT ![s] = e]
  BY <1>0
<1>2. 0 \in 0..Retries
  BY HotAssumption
<1>3. e \in Executions /\ e.at = "turn" /\ e.on = x /\ e.h = exec[s].h
  BY <1>0, <1>2 DEF Executions, ExecStates
<1> HIDE DEF e
<1>4. QED
  BY <1>0, <1>1, <1>3

(* The subagent's session is reused. *)
LEMMA ReuseStep ==
    ASSUME Inv, NEW s \in Subagents, exec[s].at \in Trying,
           NEW x \in SessionOf(s, exec[s].h), ~sess[x].busy, ~sess[x].evicting,
           sess' = [sess EXCEPT ![x].busy = TRUE],
           exec' = [exec EXCEPT ![s].at = "turn", ![s].on = x, ![s].tries = 0],
           UNCHANGED <<poolVars, dbVars, ev, histVars>>
    PROVE  Inv'
<1> USE DEF poolVars, dbVars, histVars
<1>0. /\ TypeOK /\ ExecOK(s) /\ ev[s].at = "none" /\ {s} \in SUBSET Evictors /\ s \notin deleted
      /\ x \in DOMAIN sess /\ Live(x) /\ sess[x].h = exec[s].h /\ sess[x].sub = s
  BY EvictorFacts DEF Inv, SubagentInv, ExecOK, Trying, SessionOf, On
<1>1. Flagged(x) /\ sess'[x].busy
  BY <1>0, FlagFacts
<1>2. /\ exec' \in [Subagents -> Executions]
      /\ \A t \in Subagents : t # s => exec'[t] = exec[t]
      /\ exec'[s].at = "turn" /\ exec'[s].on = x /\ exec'[s].h = exec[s].h
  BY <1>0, SessFacts, TurnMoves
<1>3. TypeOK'
  BY <1>0, <1>1, <1>2 DEF TypeOK, Flagged
<1>4. SameShape
  BY <1>1 DEF Flagged, SameShape
<1>5. ActorsOK({s})
  <2>1. ASSUME NEW y \in DOMAIN sess, Active(y), sess[y].sub = s
        PROVE  y = x /\ sess[y].h = exec[s].h
    <3>1. sess[y].h = exec[s].h /\ Live(y)
      BY <1>0, <2>1 DEF ExecOK, Calling, Trying, Active, Live
    <3>2. QED
      BY <1>0, <2>1, <3>1 DEF Inv, UniqueInv
  <2>2. ExecOK(s)'
    BY <1>0, <1>2, <1>4, <2>1 DEF ExecOK, Calling, Trying, Holding, Owned, SameShape, Active
  <2>3. TurnOK(s)' /\ CommitOK(s)' /\ EvictOK(s)' /\ EvRowOK(s)'
    BY <1>0, <1>1, <1>2, <1>4 DEF TurnOK, CommitOK, EvictOK, EvRowOK, SameShape, Live
  <2>4. HotOK(s)'
    BY <1>2, <1>4, RowsFollowShape DEF Trying
  <2>5. QED
    BY <2>2, <2>3, <2>4, Actor
<1>6. ActorsWait({s})
  BY <1>2 DEF ActorsWait, Inv, DivergenceNeedsDelete
<1>7. ClosersAnswer({s})
  BY NoneClosing DEF Trying
<1>8. ~Reserved(x) /\ ~sess[x].busy
  BY DEF Reserved
<1>9. QED
  BY <1>0, <1>1, <1>3, <1>5, <1>6, <1>7, <1>8, FlagStep

(* The pool is full and names a session it reserves. *)
LEMMA CandidateStep ==
    ASSUME Inv, NEW s \in Subagents, exec[s].at \in Trying, NEW h,
           NEW x \in DOMAIN sess, getLruCandidate(h, x),
           sess' = [sess EXCEPT ![x].evicting = TRUE],
           \/ /\ exec[s].at = "call" /\ Goto(s, "evict")
              /\ ev' = [ev EXCEPT ![s] = [at |-> "lookup", sid |-> x, h |-> 0]]
           \/ exec[s].at = "busy" /\ Goto(s, "idle") /\ UNCHANGED ev
           \/ exec[s].at = "retry" /\ TryAgain(s) /\ UNCHANGED ev,
           UNCHANGED <<poolVars, dbVars, histVars>>
    PROVE  Inv'
<1> USE DEF poolVars, dbVars, histVars
<1>0. /\ TypeOK /\ ExecOK(s) /\ ev[s].at = "none" /\ {s} \in SUBSET Evictors /\ s \notin deleted
      /\ Active(x) /\ ~sess[x].busy /\ ~sess[x].evicting
  BY EvictorFacts DEF Inv, SubagentInv, ExecOK, Trying, getLruCandidate, Candidates, Active
<1>1. Flagged(x) /\ sess'[x].busy = sess[x].busy
  BY <1>0, FlagFacts
<1>2. SameShape
  BY <1>1 DEF Flagged, SameShape
<1>3. ClosersAnswer({s})
  BY NoneClosing DEF Trying
<1>4. ~Reserved(x) /\ ~sess[x].busy
  BY <1>0 DEF Reserved
<1>5. CASE exec[s].at = "call"
  <2>1. /\ Moves(s, "evict")
        /\ ev' = [ev EXCEPT ![s] = [at |-> "lookup", sid |-> x, h |-> 0]]
    BY <1>0, <1>5, GotoMoves DEF ExecStates
  <2>2. [at |-> "lookup", sid |-> x, h |-> 0] \in Evictions
    BY <1>0, SessFacts DEF Evictions
  <2>3. /\ ev' \in [Evictors -> Evictions] /\ ev'[s].at = "lookup" /\ ev'[s].sid = x
        /\ \A a \in Evictors : a # s => ev'[a] = ev[a]
    BY <1>0, <2>1, <2>2 DEF TypeOK
  <2>4. TypeOK'
    BY <1>0, <1>1, <2>1, <2>3 DEF TypeOK, Flagged, Moves
  <2>5. ActorsOK({s})
    <3>1. ExecOK(s)'
      BY <1>0, <1>2, <1>5, <2>1 DEF ExecOK, Calling, Holding, Moves, SameShape, Active
    <3>2. TurnOK(s)' /\ CommitOK(s)' /\ EvictOK(s)'
      BY <1>2, <2>1, <2>3 DEF TurnOK, CommitOK, EvictOK, Moves, SameShape
    <3>3. Rowed(x)
      BY <1>0 DEF Inv, SlotInv
    <3>4. EvRowOK(s)'
      <4>1. Rowed(x)'
        BY <1>2, <3>3, RowedKept
      <4>2. Rowed(ev[s].sid)'
        BY <2>3, <4>1 DEF Rowed, HasRow, Live
      <4>3. QED
        BY <4>2 DEF EvRowOK, Found, Rowed, Live, Active
    <3>5. HotOK(s)'
      BY <1>2, <1>5, <2>1, RowsFollowShape DEF Moves
    <3>6. QED
      BY <3>1, <3>2, <3>4, <3>5, Actor
  <2>6. ActorsWait({s})
    BY <2>1, <2>3 DEF ActorsWait, Moves, Inv, DivergenceNeedsDelete
  <2>7. QED
    BY <1>0, <1>1, <1>3, <1>4, <2>4, <2>5, <2>6, FlagStep
<1>6. CASE exec[s].at # "call"
  <2>1. PICK where \in {"retry", "busy", "idle"} : Moves(s, where)
    BY <1>0, <1>6, GotoMoves, TryAgainMoves DEF Trying, ExecStates
  <2>2. ev' = ev
    BY <1>6
  <2>3. TypeOK'
    BY <1>0, <1>1, <2>1, <2>2 DEF TypeOK, Flagged, Moves
  <2>4. ActorsOK({s})
    BY <1>2, <2>1, <2>2, WaitActor
  <2>5. ActorsWait({s})
    BY <2>1, <2>2 DEF ActorsWait, Moves, Inv, DivergenceNeedsDelete
  <2>6. QED
    BY <1>0, <1>1, <1>3, <1>4, <2>3, <2>4, <2>5, FlagStep
<1>7. QED
  BY <1>5, <1>6

(* A session n is created for s in the process h; X, the old ones of the    *)
(* subagent there, are closed. *)
Created(s, h, X, n) ==
    /\ DOMAIN sess' = DOMAIN sess \cup {n} /\ n \notin DOMAIN sess
    /\ \A x \in DOMAIN sess :
          /\ sess'[x].sub = sess[x].sub
          /\ x \in X => sess'[x].at = "gone"
          /\ x \notin X => sess'[x] = sess[x]
    /\ sess'[n].sub = s /\ sess'[n].h = h /\ sess'[n].at = "new" /\ sess'[n].busy

TakesTurn(s, n) ==
    /\ exec' \in [Subagents -> Executions]
    /\ \A t \in Subagents : t # s => exec'[t] = exec[t]
    /\ exec'[s].at = "turn" /\ exec'[s].on = n /\ exec'[s].h = exec[s].h

LEMMA CreateFacts ==
    ASSUME TypeOK, NEW s \in Subagents, NEW h \in Nat, NEW X,
           sess' = Append(Gone(X), [sub |-> s, h |-> h, at |-> "new",
                                    busy |-> TRUE, evicting |-> FALSE]),
           exec' = [exec EXCEPT ![s].at = "turn", ![s].on = Len(sess'), ![s].tries = 0]
    PROVE  /\ sess' \in Seq(Sessions)
           /\ \E n \in Nat : Created(s, h, X, n) /\ TakesTurn(s, n)
<1> DEFINE r == [sub |-> s, h |-> h, at |-> "new", busy |-> TRUE, evicting |-> FALSE]
           n == Len(sess) + 1
<1>1. /\ sess' \in Seq(Sessions) /\ n \in Nat /\ Len(sess') = n
      /\ DOMAIN sess' = DOMAIN sess \cup {n} /\ n \notin DOMAIN sess
      /\ \A x \in DOMAIN sess : sess'[x] = Gone(X)[x]
      /\ sess'[n] = r
  <2>1. r \in Sessions
    BY DEF Sessions
  <2>2. /\ Gone(X) \in Seq(Sessions) /\ DOMAIN Gone(X) = DOMAIN sess /\ Len(Gone(X)) = Len(sess)
        /\ sess \in Seq(Sessions) /\ Len(sess) \in Nat /\ DOMAIN sess = 1..Len(sess)
    BY GoneType DEF TypeOK
  <2>3. sess' = Append(Gone(X), r)
    OBVIOUS
  <2> HIDE DEF r
  <2>4. /\ sess' \in Seq(Sessions) /\ Len(sess') = Len(sess) + 1 /\ sess'[Len(sess) + 1] = r
        /\ DOMAIN sess' = 1..(Len(sess) + 1)
        /\ \A x \in 1..Len(sess) : sess'[x] = Gone(X)[x]
    BY <2>1, <2>2, <2>3
  <2>5. /\ 1..(Len(sess) + 1) = 1..Len(sess) \cup {Len(sess) + 1} /\ Len(sess) + 1 \notin 1..Len(sess)
        /\ Len(sess) + 1 \in Nat
    BY <2>2
  <2>6. QED
    BY <2>2, <2>4, <2>5
<1> HIDE DEF n
<1>2. \A x \in DOMAIN sess :
         /\ Gone(X)[x].sub = sess[x].sub
         /\ x \in X => Gone(X)[x].at = "gone"
         /\ x \notin X => Gone(X)[x] = sess[x]
  BY GoneType
<1>3. r.sub = s /\ r.h = h /\ r.at = "new" /\ r.busy
  OBVIOUS
<1> HIDE DEF r
<1>4. Created(s, h, X, n)
  BY <1>1, <1>2, <1>3 DEF Created
<1>5. exec' = [exec EXCEPT ![s].at = "turn", ![s].on = n, ![s].tries = 0]
  BY <1>1
<1>6. TakesTurn(s, n)
  BY <1>1, <1>5, TurnMoves DEF TakesTurn
<1>7. QED
  BY <1>1, <1>4, <1>6

LEMMA CreateWorld ==
    ASSUME Inv, TypeOK', NEW s \in Subagents, NEW h, NEW n, Alive(h),
           NEW X, \A x \in DOMAIN sess : x \in X <=> Live(x) /\ sess[x].h = h /\ sess[x].sub = s,
           Created(s, h, X, n), UNCHANGED <<run, spawned, workers>>
    PROVE  WorldOK
<1>1. /\ DOMAIN sess' = DOMAIN sess \cup {n} /\ n \notin DOMAIN sess
      /\ sess'[n].sub = s /\ sess'[n].h = h /\ sess'[n].at = "new"
  BY DEF Created
<1>2. \A x \in DOMAIN sess : Live(x)' => Live(x) /\ x \notin X /\ sess'[x] = sess[x]
  BY DEF Created, Live
<1>3. Keeps
  BY <1>2 DEF Keeps, Created, Live, Pending
<1>4. RunStep
  BY DEF RunStep, RunSame
<1>5. ProcInv'
  <2>1. \A v : Alive(v)' <=> Alive(v)
    BY DEF Alive
  <2>2. ASSUME NEW x \in DOMAIN sess', Live(x)' PROVE Alive(sess'[x].h)
    <3>1. CASE x = n
      BY <1>1, <3>1
    <3>2. CASE x \in DOMAIN sess
      BY <1>2, <2>2, <3>2 DEF Inv, ProcInv
    <3>3. QED
      BY <1>1, <3>1, <3>2
  <2>3. \A x \in DOMAIN sess' : Live(x)' => Alive(sess[x].h)'
    BY <2>2 DEF Alive
  <2>4. QED
    BY <2>3 DEF Inv, ProcInv
<1>6. UniqueInv'
  <2>1. \A x \in DOMAIN sess : Live(x)' => ~(sess'[x].sub = s /\ sess'[x].h = h)
    BY <1>2
  <2>2. ASSUME NEW x \in DOMAIN sess, NEW y \in DOMAIN sess, Live(x)', Live(y)',
               sess'[x].sub = sess'[y].sub, sess'[x].h = sess'[y].h
        PROVE  x = y
    BY <1>2, <2>2 DEF Inv, UniqueInv
  <2>3. QED
    BY <1>1, <2>1, <2>2 DEF UniqueInv
<1>7. ActiveInv'
  <2>1. ASSUME NEW x \in DOMAIN sess', Active(x)'
        PROVE  x \in DOMAIN sess /\ Active(x) /\ sess'[x] = sess[x]
    BY <1>1, <1>2, <2>1 DEF Active, Live
  <2>2. QED
    BY <2>1 DEF Inv, ActiveInv, RunningOf
<1>8. QED
  BY <1>3, <1>4, <1>5, <1>6, <1>7 DEF WorldOK

LEMMA CreateActor ==
    ASSUME Inv, NEW s \in Subagents, exec[s].at \in Trying, NEW n,
           NEW X, \A x \in DOMAIN sess :
                      x \in X <=> Live(x) /\ sess[x].h = exec[s].h /\ sess[x].sub = s,
           Created(s, exec[s].h, X, n), TakesTurn(s, n),
           UNCHANGED <<spawned, hot, deleted, orphaned, lost, ev>>, shed' = shed \cup X
    PROVE  ActorsOK({s})
<1>0. ExecOK(s) /\ HotOK(s) /\ ev[s].at = "none" /\ s \notin deleted
  BY DEF Inv, SubagentInv, ExecOK, Trying
<1>1. /\ DOMAIN sess' = DOMAIN sess \cup {n}
      /\ sess'[n].sub = s /\ sess'[n].h = exec[s].h /\ sess'[n].at = "new" /\ sess'[n].busy
      /\ exec'[s].at = "turn" /\ exec'[s].on = n /\ exec'[s].h = exec[s].h
  BY DEF Created, TakesTurn
<1>2. ASSUME NEW x \in DOMAIN sess', Active(x)', sess'[x].sub = s PROVE FALSE
  <2>1. x \in DOMAIN sess /\ Active(x) /\ x \notin X /\ sess[x].sub = s /\ Live(x)
    BY <1>1, <1>2 DEF Active, Live, Created
  <2>2. sess[x].h = exec[s].h
    BY <1>0, <2>1 DEF ExecOK, Calling, Trying
  <2>3. QED
    BY <2>1, <2>2
<1>3. ExecOK(s)'
  <2>1. Owned(s, exec[s].on)'
    BY <1>1 DEF Owned
  <2>2. exec'[s].h <= spawned'
    BY <1>0, <1>1 DEF ExecOK, Calling, Trying
  <2>3. QED
    BY <1>0, <1>1, <1>2, <2>1, <2>2 DEF ExecOK
<1>4. TurnOK(s)' /\ CommitOK(s)' /\ EvictOK(s)' /\ EvRowOK(s)'
  BY <1>0, <1>1 DEF TurnOK, CommitOK, EvictOK, EvRowOK, Live
<1>5. HotOK(s)'
  <2>1. ASSUME hot[s] # 0
        PROVE  /\ Owned(s, hot[s])' /\ (Pending(hot[s])' => hot[s] \in lost)
               /\ Live(hot[s])' \/ orphaned # {} \/ hot[s] \in lost \cup shed'
    <3>1. /\ hot[s] \in DOMAIN sess /\ sess[hot[s]].sub = s /\ (Pending(hot[s]) => hot[s] \in lost)
          /\ Live(hot[s]) \/ orphaned # {} \/ hot[s] \in lost \cup shed
      BY <1>0, <2>1 DEF HotOK, Owned, Activating, Trying
    <3>2. hot[s] \in X => hot[s] \in shed'
      OBVIOUS
    <3>3. QED
      BY <1>1, <3>1, <3>2 DEF Owned, Pending, Live, Created
  <2>2. QED
    BY <1>0, <1>1, <2>1 DEF HotOK
<1>6. QED
  BY <1>3, <1>4, <1>5, Actor

LEMMA CreateStep ==
    ASSUME Inv, TypeOK', NEW s \in Subagents, exec[s].at \in Trying, Alive(exec[s].h), NEW n,
           NEW X, \A x \in DOMAIN sess :
                      x \in X <=> Live(x) /\ sess[x].h = exec[s].h /\ sess[x].sub = s,
           Created(s, exec[s].h, X, n), TakesTurn(s, n),
           shed' = shed \cup X,
           UNCHANGED <<poolVars, dbVars, ev, faults, lost, late, diverged>>
    PROVE  Inv'
<1> USE DEF poolVars, dbVars, histVars
<1>0. {s} \in SUBSET Evictors
  BY EvictorFacts
<1>1. WorldOK
  BY CreateWorld
<1>2. ActorsOK({s})
  BY CreateActor
<1>3. \A x \in DOMAIN sess : sess'[x].sub = sess[x].sub /\ (x \notin X => sess'[x] = sess[x])
  BY DEF Created
<1>4. \A x \in DOMAIN sess : sess[x].sub # s => x \notin X
  OBVIOUS
<1>5. \A x \in DOMAIN sess : Live(x)' => Live(x) /\ sess'[x] = sess[x]
  BY DEF Created, Live
<1>8. OthersWait({s})
  BY DEF OthersWait, TakesTurn, Inv, DivergenceNeedsDelete
<1>9. TurnsKept({s})
  <2> SUFFICES ASSUME NEW t \in Subagents \ {s}, exec[t].at = "turn",
                      Live(exec[t].on), sess[exec[t].on].busy
               PROVE  Live(exec[t].on)' /\ sess'[exec[t].on].busy
    BY DEF TurnsKept
  <2>1. exec'[t] = exec[t] /\ Owned(t, exec[t].on)
    BY DEF TakesTurn, Inv, SubagentInv, ExecOK, Holding
  <2>2. sess'[exec[t].on] = sess[exec[t].on]
    BY <1>3, <1>4, <2>1 DEF Owned
  <2>3. QED
    BY <2>1, <2>2 DEF Live
<1>10. ReservationsKept({s})
  <2> SUFFICES ASSUME NEW a \in Evictors \ {s}, ev[a].at \in {"commit", "close"},
                      Live(ev[a].sid)', Reserved(ev[a].sid)
               PROVE  Reserved(ev[a].sid)'
    BY DEF ReservationsKept
  <2>1. ev[a].sid \in DOMAIN sess
    BY DEF Inv, EvictorInv, EvictOK
  <2>2. QED
    BY <1>5, <2>1 DEF Reserved, Live
<1>11. RowsBacked({s})
  <2>1. ASSUME NEW t \in Subagents \ {s}, hot[t] # 0, Active(hot[t]) PROVE Live(hot[t])'
    <3>1. Owned(t, hot[t])
      BY <2>1 DEF Inv, SubagentInv, HotOK
    <3>2. QED
      BY <1>3, <1>4, <2>1, <3>1 DEF Owned, Live, Active
  <2>2. QED
    BY <2>1 DEF RowsBacked
<1>12. RowsKept({s})
  BY DEF RowsKept, Rowed, HasRow
<1>13. SlotsKept({s})
  <2>1. ASSUME NEW x \in DOMAIN sess', Active(x)'
        PROVE  x \in DOMAIN sess /\ Active(x) /\ (Accounted(x) => Accounted(x)')
    <3>1. x \in DOMAIN sess /\ Active(x) /\ sess'[x] = sess[x]
      BY <1>5, <2>1 DEF Active, Live, Created
    <3>2. Closing(x) => Closing(x)'
      BY DEF Closing, Trying, TakesTurn
    <3>3. QED
      BY <3>1, <3>2 DEF Accounted
  <2>2. QED
    BY <2>1 DEF SlotsKept
<1>15. QED
  BY <1>0, <1>1, <1>2, <1>8, <1>9, <1>10, <1>11, <1>12, <1>13, QuietStep

LEMMA turn_auto_Step ==
    ASSUME Inv, NEW s \in Subagents, NEW other_model \in BOOLEAN, turn_auto(s, other_model)
    PROVE  Inv'
<1> USE DEF poolVars, carVars, dbVars, histVars
<1> DEFINE h    == exec[s].h
           mine == SessionOf(s, h)
           used == \E x \in mine : sess[x].busy \/ sess[x].evicting
<1>0. exec[s].at \in Trying /\ Alive(h) /\ UNCHANGED <<poolVars, dbVars, faults, lost, late, diverged>>
  BY DEF turn_auto, Trying
<1>1. CASE /\ IF exec[s].at = "call" THEN Goto(s, "busy") ELSE TryAgain(s)
           /\ UNCHANGED <<carVars, ev, shed>>
  BY <1>0, <1>1, WaitStep
<1>2. ASSUME NEW x \in mine, ~used, sess' = [sess EXCEPT ![x].busy = TRUE],
             exec' = [exec EXCEPT ![s].at = "turn", ![s].on = x, ![s].tries = 0], UNCHANGED <<ev, shed>>
      PROVE  Inv'
  BY <1>0, <1>2, ReuseStep
<1>3. CASE /\ sess' = Append(Gone(mine), [sub |-> s, h |-> h, at |-> "new",
                                          busy |-> TRUE, evicting |-> FALSE])
           /\ exec' = [exec EXCEPT ![s].at = "turn", ![s].on = Len(sess'), ![s].tries = 0]
           /\ shed' = shed \cup mine /\ UNCHANGED ev
  <2>1. TypeOK /\ h \in Nat
    BY DEF Inv, TypeOK, Executions
  <2>2. sess' \in Seq(Sessions) /\ \E n \in Nat : Created(s, h, mine, n) /\ TakesTurn(s, n)
    BY <1>3, <2>1, CreateFacts
  <2>3. PICK n \in Nat : Created(s, h, mine, n) /\ TakesTurn(s, n)
    BY <2>2
  <2>4. \A x \in DOMAIN sess : x \in mine <=> Live(x) /\ sess[x].h = h /\ sess[x].sub = s
    BY DEF SessionOf, On
  <2>5. TypeOK'
    <3>1. DOMAIN sess \subseteq DOMAIN sess' /\ mine \subseteq DOMAIN sess
      BY <2>3 DEF Created, SessionOf, On
    <3>2. QED
      BY <1>0, <1>3, <2>1, <2>2, <2>3, <3>1 DEF TypeOK, TakesTurn
  <2> HIDE DEF mine
  <2>6. QED
    BY <1>0, <1>3, <2>3, <2>4, <2>5, CreateStep
<1>4. CASE LimitReached(s, h) /\ UNCHANGED <<lru, shed>>
  <2>1. CASE /\ IF exec[s].at = "call" THEN Goto(s, "busy") ELSE TryAgain(s)
             /\ UNCHANGED <<sess, ev>>
    BY <1>0, <1>4, <2>1, WaitStep
  <2>2. ASSUME NEW x \in DOMAIN sess, getLruCandidate(h, x),
               sess' = [sess EXCEPT ![x].evicting = TRUE],
               \/ /\ exec[s].at = "call" /\ Goto(s, "evict")
                  /\ ev' = [ev EXCEPT ![s] = [at |-> "lookup", sid |-> x, h |-> 0]]
               \/ exec[s].at = "busy" /\ Goto(s, "idle") /\ UNCHANGED ev
               \/ exec[s].at = "retry" /\ TryAgain(s) /\ UNCHANGED ev
        PROVE  Inv'
    BY <1>0, <1>4, <2>2, CandidateStep
  <2>3. QED
    BY <1>4, <2>1, <2>2 DEF LimitReached
<1>5. QED
  BY <1>1, <1>2, <1>3, <1>4 DEF turn_auto

-----------------------------------------------------------------------------
(* The end of the turn, and what the manager does then.                    *)

LEMMA RowsFollowShut ==
    ASSUME Inv, NEW X, Shut(X), UNCHANGED <<hot, deleted>>, Recorded,
           orphaned \subseteq orphaned', NEW s \in Subagents,
           exec[s].at \notin {"activate", "rollback"}, exec'[s].at # "close",
           hot[s] # 0 /\ hot[s] \in X => orphaned' # {} \/ hot[s] \in lost' \cup shed'
    PROVE  HotOK(s)'
<1>1. HotOK(s) /\ ~Activating(s)
  BY DEF Inv, SubagentInv, Activating
<1>2. hot[s] # 0 => hot[s] \in DOMAIN sess
  BY <1>1 DEF HotOK, Owned
<1>3. QED
  BY <1>1, <1>2 DEF HotOK, Owned, Pending, Live, Shut

LEMMA TurnEnds_Step ==
    ASSUME Inv, NEW s \in Subagents, NEW how \in {"ok", "failed", "auth"}, TurnEnds(s, how)
    PROVE  Inv'
<1> USE DEF poolVars, carVars, dbVars, histVars
<1> DEFINE x == exec[s].on
           where == CASE how = "ok" -> "persist" [] how = "auth" -> "auth" [] OTHER -> "idle"
<1>0. /\ TypeOK /\ ExecOK(s) /\ TurnOK(s) /\ HotOK(s) /\ {s} \in SUBSET Evictors
      /\ exec[s].at = "turn" /\ Alive(exec[s].h)
      /\ UNCHANGED <<poolVars, dbVars, ev, lost, shed, late, diverged>>
  BY EvictorFacts DEF TurnEnds, Inv, SubagentInv
<1>1. /\ x \in DOMAIN sess /\ sess[x].sub = s
      /\ ev[s].at = "none" /\ s \notin deleted
      /\ \A y \in DOMAIN sess : Active(y) /\ sess[y].sub = s => y = x
  BY <1>0 DEF ExecOK, Holding, Owned
<1>2. where \in {"persist", "auth", "idle"} /\ Moves(s, where)
  <2>1. where \in {"persist", "auth", "idle"} /\ Goto(s, where)
    BY DEF TurnEnds
  <2>2. QED
    BY <1>0, <2>1, GotoMoves DEF ExecStates
<1>3. faults' \in Nat
  BY <1>0, FaultType DEF TurnEnds, TypeOK
<1>4. ActorsWait({s}) /\ ClosersAnswer({s})
  BY <1>0, <1>2, NoneClosing DEF ActorsWait, Moves, Inv, DivergenceNeedsDelete
<1>5. \A t \in Subagents : exec[t].at = "turn" /\ exec[t].on = x => t = s
  BY <1>1 DEF Inv, SubagentInv, ExecOK, Holding, Owned
<1> HIDE DEF where
<1>6. CASE how # "ok" /\ sess[x].at = "new"
  <2>1. Shut({x}) /\ where # "persist"
    BY <1>0, <1>6, CloseShuts DEF TurnEnds, SessionTurnEnds, where
  <2>2. TypeOK'
    BY <1>0, <1>2, <1>3, <2>1 DEF TypeOK, Shut, Moves
  <2>3. ExecOK(s)' /\ TurnOK(s)' /\ CommitOK(s)' /\ EvictOK(s)' /\ EvRowOK(s)'
    BY <1>0, <1>1, <1>2, <2>1
       DEF ExecOK, TurnOK, CommitOK, EvictOK, EvRowOK, Calling, Holding, Moves
  <2>4. hot[s] # x \/ x \in lost
    BY <1>0, <1>1, <1>6, SessFacts DEF HotOK, Pending, Activating
  <2>5. HotOK(s)'
    BY <1>0, <1>2, <2>1, <2>4, RowsFollowShut DEF Moves
  <2>6. ActorsOK({s})
    BY <2>3, <2>5, Actor
  <2>7. ~Active(x)
    BY <1>6 DEF Active
  <2>8. QED
    BY <1>0, <1>4, <1>5, <2>1, <2>2, <2>6, <2>7, SamePool, ShutStep
<1>7. CASE ~(how # "ok" /\ sess[x].at = "new")
  <2>1. Flagged(x) /\ ~sess'[x].busy /\ sess'[x].evicting = sess[x].evicting
    BY <1>0, <1>1, <1>7, FlagFacts DEF TurnEnds, SessionTurnEnds
  <2>2. TypeOK'
    BY <1>0, <1>2, <1>3, <2>1 DEF TypeOK, Flagged, Moves
  <2>3. SameShape
    BY <2>1 DEF Flagged, SameShape
  <2>4. ExecOK(s)'
    BY <1>0, <1>1, <1>2, <2>3 DEF ExecOK, Calling, Holding, Moves, Owned, SameShape, Active
  <2>5. TurnOK(s)' /\ CommitOK(s)' /\ EvictOK(s)' /\ EvRowOK(s)'
    BY <1>0, <1>1, <1>2 DEF TurnOK, CommitOK, EvictOK, EvRowOK, Moves
  <2>6. HotOK(s)'
    BY <1>0, <1>2, <2>3, RowsFollowShape DEF Moves
  <2>7. ActorsOK({s})
    BY <2>4, <2>5, <2>6, Actor
  <2>8. \A y : y = x /\ Reserved(y) => Reserved(y)'
    BY <2>1 DEF Reserved
  <2>9. QED
    BY <1>0, <1>1, <1>4, <1>5, <2>1, <2>2, <2>7, <2>8, FlagStep
<1>8. QED
  BY <1>6, <1>7

LEMMA commit_Step ==
    ASSUME Inv, NEW s \in Subagents, commit_hot_binding_and_status(s) PROVE Inv'
<1> USE DEF poolVars, carVars, dbVars, histVars
<1> DEFINE x == exec[s].on
<1>0. /\ TypeOK /\ ExecOK(s) /\ HotOK(s) /\ {s} \in SUBSET Evictors
      /\ exec[s].at = "persist" /\ s \notin deleted /\ hot' = [hot EXCEPT ![s] = x]
      /\ UNCHANGED <<poolVars, carVars, closed, deleted, ev, faults, shed, late, diverged>>
  BY EvictorFacts DEF commit_hot_binding_and_status, Inv, SubagentInv
<1>1. /\ Moves(s, "activate") /\ ev[s].at = "none"
      /\ x \in DOMAIN sess /\ sess[x].sub = s
      /\ \A y \in DOMAIN sess : Active(y) /\ sess[y].sub = s => y = x
  BY <1>0, GotoMoves DEF commit_hot_binding_and_status, ExecStates, ExecOK, Holding, Owned
<1>2. /\ hot' \in [Subagents -> {0} \cup DOMAIN sess] /\ hot'[s] = x
      /\ \A t \in Subagents : t # s => hot'[t] = hot[t]
  BY <1>0, <1>1 DEF TypeOK
<1>3. /\ Recorded /\ lost' \subseteq DOMAIN sess
      /\ \A a \in Evictors : ev[a].at = "close" /\ ev[a].sid = x => x \in lost'
  BY <1>0, <1>1 DEF commit_hot_binding_and_status, TypeOK
<1>4. TypeOK'
  BY <1>0, <1>1, <1>2, <1>3 DEF TypeOK, Moves
<1>5. OthersWait({s})
  BY <1>0, <1>1, <1>2, <1>3 DEF OthersWait, Moves, Inv, DivergenceNeedsDelete
<1>6. ActorsOK({s})
  <2>1. ExecOK(s)'
    BY <1>0, <1>1 DEF ExecOK, Calling, Holding, Moves, Owned, Active
  <2>2. TurnOK(s)' /\ EvictOK(s)' /\ EvRowOK(s)'
    BY <1>0, <1>1 DEF TurnOK, EvictOK, EvRowOK, Moves
  <2>3. exec'[s].on = x /\ exec'[s].at = "activate"
    BY <1>1 DEF Moves
  <2>4. HotOK(s)'
    BY <1>0, <1>1, <1>2, <2>3 DEF HotOK, Owned, Activating
  <2>5. CommitOK(s)'
    BY <1>2, <2>3 DEF CommitOK, Rowed, HasRow
  <2>6. QED
    BY <2>1, <2>2, <2>4, <2>5, Actor
<1>7. RowsKept({s})
  <2> SUFFICES ASSUME NEW y \in DOMAIN sess, HasRow(y)
               PROVE  Rowed(y)' \/ (sess[y].sub = s /\ ~Active(y)')
    BY DEF RowsKept
  <2>1. CASE hot[s] = y /\ y # x
    <3>1. sess[y].sub = s
      BY <1>0, <2>1, SessFacts DEF HotOK, Owned
    <3>2. ~Active(y)
      BY <1>1, <2>1, <3>1
    <3>3. QED
      BY <1>0, <3>1, <3>2 DEF Active
  <2>2. CASE hot[s] # y \/ y = x
    BY <1>0, <1>2, <2>2 DEF Rowed, HasRow
  <2>3. QED
    BY <2>1, <2>2
<1>8. ASSUME NEW a \in Evictors \ {s}, ev[a].at = "close", hot'[sess[ev[a].sid].sub] = ev[a].sid
      PROVE  hot[sess[ev[a].sid].sub] = ev[a].sid \/ ev[a].sid \in lost'
  <2>1. ev[a].sid \in DOMAIN sess
    BY <1>8 DEF Inv, EvictorInv, EvictOK
  <2>2. sess[ev[a].sid].sub \in Subagents
    BY <1>0, <2>1, SessFacts
  <2>3. QED
    BY <1>2, <1>3, <1>8, <2>2
<1>9. ASSUME NEW y \in DOMAIN sess, Active(y), hot[sess[y].sub] = y \/ Closes({s}, y)
      PROVE  Accounted(y)'
  <2>1. hot[sess[y].sub] = y /\ sess[y].sub \in Subagents
    BY <1>0, <1>1, <1>9, SessFacts DEF Closes
  <2>2. hot'[sess[y].sub] = y
    BY <1>1, <1>2, <1>9, <2>1
  <2>3. QED
    BY <1>0, <2>2 DEF Accounted
<1>10. QED
  BY <1>0, <1>2, <1>4, <1>5, <1>6, <1>7, <1>8, <1>9, SameSidecars

LEMMA activate_rollback_Step ==
    ASSUME Inv, NEW s \in Subagents, activate_rollback(s) PROVE Inv'
<1> USE DEF poolVars, carVars, dbVars, histVars
<1> DEFINE x == exec[s].on
<1>0. /\ TypeOK /\ ExecOK(s) /\ HotOK(s) /\ {s} \in SUBSET Evictors
      /\ exec[s].at = "rollback" /\ UNCHANGED <<poolVars, carVars, deleted, ev, histVars>>
  BY EvictorFacts DEF activate_rollback, Inv, SubagentInv
<1>1. /\ Moves(s, "close") /\ ev[s].at = "none" /\ s \notin deleted
      /\ x \in DOMAIN sess /\ sess[x].sub = s /\ x # 0
      /\ \A y \in DOMAIN sess : Active(y) /\ sess[y].sub = s => y = x
  BY <1>0, GotoMoves, SessFacts DEF activate_rollback, ExecStates, ExecOK, Holding, Owned
<1>2. /\ hot' \in [Subagents -> {0} \cup DOMAIN sess] /\ closed' \subseteq DOMAIN sess
      /\ \A t \in Subagents : t # s => hot'[t] = hot[t]
      /\ hot'[s] = IF hot[s] = x THEN 0 ELSE hot[s]
      /\ closed \subseteq closed' /\ (hot[s] = x => x \in closed')
  BY <1>0, <1>1 DEF activate_rollback, Cool, TypeOK
<1>3. TypeOK'
  BY <1>0, <1>1, <1>2 DEF TypeOK, Moves
<1>4. OthersWait({s})
  BY <1>0, <1>1, <1>2 DEF OthersWait, Moves, Inv, DivergenceNeedsDelete
<1>5. exec'[s].at = "close" /\ exec'[s].on = x
  BY <1>1 DEF Moves
<1>6. ActorsOK({s})
  <2>1. ExecOK(s)'
    BY <1>0, <1>1, <1>5 DEF ExecOK, Calling, Holding, Owned, Active
  <2>2. TurnOK(s)' /\ CommitOK(s)' /\ EvictOK(s)' /\ EvRowOK(s)'
    BY <1>0, <1>1, <1>5 DEF TurnOK, CommitOK, EvictOK, EvRowOK
  <2>3. HotOK(s)'
    BY <1>0, <1>1, <1>2, <1>5 DEF HotOK, Owned, Pending, Live, Activating
  <2>4. QED
    BY <2>1, <2>2, <2>3, Actor
<1>7. RowsKept({s})
  BY <1>0, <1>2 DEF RowsKept, Rowed, HasRow
<1>8. ASSUME NEW a \in Evictors \ {s}, ev[a].at = "close", hot'[sess[ev[a].sid].sub] = ev[a].sid
      PROVE  hot[sess[ev[a].sid].sub] = ev[a].sid
  <2>1. ev[a].sid \in DOMAIN sess
    BY <1>8 DEF Inv, EvictorInv, EvictOK
  <2>2. sess[ev[a].sid].sub \in Subagents /\ ev[a].sid # 0
    BY <1>0, <2>1, SessFacts
  <2>3. QED
    BY <1>2, <1>8, <2>2
<1>9. ASSUME NEW y \in DOMAIN sess, Active(y), hot[sess[y].sub] = y \/ Closes({s}, y)
      PROVE  Accounted(y)'
  <2>1. sess[y].sub \in Subagents
    BY <1>0, SessFacts
  <2>2. CASE y = x
    BY <1>5, <2>2 DEF Accounted, Closing
  <2>3. CASE y # x
    <3>1. hot[sess[y].sub] = y /\ sess[y].sub # s
      BY <1>0, <1>1, <1>9, <2>3 DEF Closes
    <3>2. QED
      BY <1>0, <1>2, <2>1, <3>1 DEF Accounted
  <2>4. QED
    BY <2>2, <2>3
<1>10. QED
  BY <1>0, <1>2, <1>3, <1>4, <1>6, <1>7, <1>8, <1>9, SameSidecars

(* Only a session in the process the provider has now is closed, and an     *)
(* activated one is there. *)
LEMMA RpcShuts ==
    ASSUME Inv, NEW s \in Subagents, NEW x \in DOMAIN sess, sess[x].sub = s,
           close_session_rpc(s, x)
    PROVE  \E X \in SUBSET {x} : Shut(X) /\ (Active(x) => x \in X)
<1>0. TypeOK /\ sess \in Seq(Sessions)
  BY DEF Inv, TypeOK
<1>1. Active(x) => Live(x) /\ sess[x].h = RunningOf(workers[ProviderOf[s]])
  BY DEF Inv, ActiveInv, Active, Live
<1>2. CASE Live(x) /\ sess[x].h = RunningOf(workers[ProviderOf[s]])
  <2>1. Shut({x})
    BY <1>0, <1>2, CloseShuts DEF close_session_rpc
  <2>2. QED
    BY <2>1
<1>3. CASE ~(Live(x) /\ sess[x].h = RunningOf(workers[ProviderOf[s]]))
  <2>1. sess' = sess
    BY <1>3 DEF close_session_rpc, carVars
  <2>2. Shut({})
    BY <1>0, <2>1 DEF Shut
  <2>3. QED
    BY <1>1, <1>3, <2>2
<1>4. QED
  BY <1>2, <1>3

LEMMA CloseSteps ==
    ASSUME Inv, NEW s \in Subagents, CloseAfterFailure(s) \/ HibernateClose(s) PROVE Inv'
<1> USE DEF poolVars, carVars, dbVars, histVars
<1> DEFINE x == exec[s].on
<1>0. /\ TypeOK /\ ExecOK(s) /\ HotOK(s) /\ {s} \in SUBSET Evictors
      /\ exec[s].at \in {"close", "hib_close"} /\ close_session_rpc(s, x)
      /\ UNCHANGED <<poolVars, dbVars, ev, histVars>>
  BY EvictorFacts DEF CloseAfterFailure, HibernateClose, Inv, SubagentInv
<1>1. /\ Moves(s, "idle") /\ ev[s].at = "none" /\ s \notin deleted
      /\ x \in DOMAIN sess /\ sess[x].sub = s /\ x # 0
      /\ hot[s] = x => x \in lost
  BY <1>0, GotoMoves, SessFacts
     DEF CloseAfterFailure, HibernateClose, ExecStates, ExecOK, HotOK, Holding, Owned
<1>2. PICK X \in SUBSET {x} : Shut(X) /\ (Active(x) => x \in X)
  BY <1>0, <1>1, RpcShuts
<1>3. TypeOK'
  BY <1>0, <1>1, <1>2 DEF TypeOK, Shut, Moves
<1>4. ActorsWait({s})
  BY <1>0, <1>1 DEF ActorsWait, Moves, Inv, DivergenceNeedsDelete
<1>5. ClosersAnswer({s})
  <2> SUFFICES ASSUME NEW y \in DOMAIN sess, Active(y)', Closes({s}, y) PROVE FALSE
    BY DEF ClosersAnswer
  <2>1. y = x
    BY <1>0, <1>1 DEF Closes
  <2>2. QED
    BY <1>2, <2>1 DEF Shut, Active
<1>6. ActorsOK({s})
  <2>1. ExecOK(s)' /\ TurnOK(s)' /\ CommitOK(s)' /\ EvictOK(s)' /\ EvRowOK(s)'
    BY <1>0, <1>1 DEF ExecOK, TurnOK, CommitOK, EvictOK, EvRowOK, Calling, Holding, Moves
  <2>2. HotOK(s)'
    BY <1>0, <1>1, <1>2, RowsFollowShut DEF Moves
  <2>3. QED
    BY <2>1, <2>2, Actor
<1>7. \A t \in Subagents : exec[t].at = "turn" => exec[t].on \notin X
  BY <1>0, <1>1, <1>2 DEF Inv, SubagentInv, ExecOK, Holding, Owned
<1>8. \A t \in Subagents : hot[t] # 0 /\ hot[t] \in X => hot[t] \in lost
  BY <1>1, <1>2 DEF Inv, SubagentInv, HotOK, Owned
<1>9. QED
  BY <1>0, <1>2, <1>3, <1>4, <1>5, <1>6, <1>7, <1>8, SamePool, ShutStep

-----------------------------------------------------------------------------
(* Hibernate, hard delete, reconcile: steps on the rows.                   *)

LEMMA hibernate_Step == ASSUME Inv, NEW s \in Subagents, hibernate(s) PROVE Inv'
<1> USE DEF poolVars, carVars, dbVars, histVars
<1> DEFINE x == hot[s]
           e == [exec[s] EXCEPT !.at = "hib_close", !.on = x]
<1>0. /\ TypeOK /\ ExecOK(s) /\ HotOK(s) /\ {s} \in SUBSET Evictors
      /\ exec[s].at = "idle" /\ s \notin deleted /\ x # 0 /\ Cool(s)
      /\ exec' = [exec EXCEPT ![s].at = "hib_close", ![s].on = x]
      /\ UNCHANGED <<poolVars, carVars, deleted, ev, histVars>>
  BY EvictorFacts DEF hibernate, Inv, SubagentInv
<1>1. /\ x \in DOMAIN sess /\ sess[x].sub = s /\ ev[s].at = "none" /\ x \in Nat
  BY <1>0, SessFacts DEF HotOK, Owned, ExecOK, Activating
<1>2. /\ exec' \in [Subagents -> Executions] /\ exec'[s].at = "hib_close" /\ exec'[s].on = x
      /\ \A t \in Subagents : t # s => exec'[t] = exec[t]
  <2>1. exec \in [Subagents -> Executions] /\ exec[s] \in Executions
    BY <1>0 DEF TypeOK
  <2>2. e \in Executions /\ e.at = "hib_close" /\ e.on = x
    BY <1>1, <2>1 DEF Executions, ExecStates
  <2>3. exec' = [exec EXCEPT ![s] = e]
    BY <1>0, <2>1
  <2> HIDE DEF e
  <2>4. QED
    BY <2>1, <2>2, <2>3
<1> HIDE DEF e
<1>3. /\ hot' \in [Subagents -> {0} \cup DOMAIN sess] /\ closed' \subseteq DOMAIN sess
      /\ hot'[s] = 0 /\ \A t \in Subagents : t # s => hot'[t] = hot[t]
      /\ closed \subseteq closed' /\ x \in closed'
  BY <1>0, <1>1 DEF Cool, TypeOK
<1>4. TypeOK'
  BY <1>0, <1>2, <1>3 DEF TypeOK
<1>5. OthersWait({s})
  BY <1>0, <1>2, <1>3 DEF OthersWait, Inv, DivergenceNeedsDelete
<1>6. ActorsOK({s})
  <2>1. ExecOK(s)'
    BY <1>0, <1>1, <1>2, <1>3 DEF ExecOK, Calling, Holding, Owned, Pending
  <2>2. TurnOK(s)' /\ CommitOK(s)' /\ EvictOK(s)' /\ EvRowOK(s)' /\ HotOK(s)'
    BY <1>0, <1>1, <1>2, <1>3 DEF TurnOK, CommitOK, EvictOK, EvRowOK, HotOK
  <2>3. QED
    BY <2>1, <2>2, Actor
<1>7. RowsKept({s})
  BY <1>0, <1>3 DEF RowsKept, Rowed, HasRow
<1>8. ASSUME NEW a \in Evictors \ {s}, ev[a].at = "close", hot'[sess[ev[a].sid].sub] = ev[a].sid
      PROVE  hot[sess[ev[a].sid].sub] = ev[a].sid
  <2>1. ev[a].sid \in DOMAIN sess
    BY <1>8 DEF Inv, EvictorInv, EvictOK
  <2>2. sess[ev[a].sid].sub \in Subagents /\ ev[a].sid # 0
    BY <1>0, <2>1, SessFacts
  <2>3. QED
    BY <1>3, <1>8, <2>2
<1>9. ASSUME NEW y \in DOMAIN sess, Active(y), hot[sess[y].sub] = y \/ Closes({s}, y)
      PROVE  Accounted(y)'
  <2>1. sess[y].sub \in Subagents /\ hot[sess[y].sub] = y
    BY <1>0, <1>1, <1>9, SessFacts DEF Closes
  <2>2. CASE sess[y].sub = s
    BY <1>2, <2>1, <2>2 DEF Accounted, Closing
  <2>3. CASE sess[y].sub # s
    BY <1>0, <1>3, <2>1, <2>3 DEF Accounted
  <2>4. QED
    BY <2>2, <2>3
<1>10. QED
  BY <1>0, <1>3, <1>4, <1>5, <1>6, <1>7, <1>8, <1>9, SameSidecars

LEMMA hard_delete_Step == ASSUME Inv, NEW s \in Subagents, hard_delete(s) PROVE Inv'
<1> USE DEF poolVars, carVars, dbVars, histVars
<1>0. /\ TypeOK /\ ExecOK(s) /\ HotOK(s) /\ {s} \in SUBSET Evictors
      /\ exec[s].at = "idle" /\ ev[s].at = "none" /\ deleted' = deleted \cup {s}
      /\ hot' = [hot EXCEPT ![s] = 0] /\ closed' = {x \in closed : sess[x].sub # s}
      /\ UNCHANGED <<poolVars, carVars, exec, ev, histVars>>
  BY EvictorFacts DEF hard_delete, Inv, SubagentInv, ExecOK
<1>1. /\ hot' \in [Subagents -> {0} \cup DOMAIN sess] /\ hot'[s] = 0
      /\ \A t \in Subagents : t # s => hot'[t] = hot[t]
  BY <1>0 DEF TypeOK
<1>2. TypeOK'
  BY <1>0, <1>1 DEF TypeOK
<1>3. OthersWait({s})
  BY <1>0, <1>1 DEF OthersWait, Inv, DivergenceNeedsDelete
<1>4. ActorsOK({s})
  <2>1. ExecOK(s)' /\ TurnOK(s)' /\ CommitOK(s)' /\ EvictOK(s)' /\ EvRowOK(s)' /\ HotOK(s)'
    BY <1>0, <1>1 DEF ExecOK, TurnOK, CommitOK, EvictOK, EvRowOK, HotOK, Calling, Holding
  <2>2. QED
    BY <2>1, Actor
<1>5. RowsKept({s})
  <2> SUFFICES ASSUME NEW x \in DOMAIN sess, HasRow(x), sess[x].sub # s PROVE HasRow(x)'
    BY <1>0 DEF RowsKept, Rowed
  <2>1. hot[s] # x
    BY <1>0, SessFacts DEF HotOK, Owned
  <2>2. QED
    BY <1>0, <1>1, <2>1 DEF HasRow
<1>6. ASSUME NEW a \in Evictors \ {s}, ev[a].at = "close", hot'[sess[ev[a].sid].sub] = ev[a].sid
      PROVE  hot[sess[ev[a].sid].sub] = ev[a].sid
  <2>1. ev[a].sid \in DOMAIN sess
    BY <1>6 DEF Inv, EvictorInv, EvictOK
  <2>2. sess[ev[a].sid].sub \in Subagents /\ ev[a].sid # 0
    BY <1>0, <2>1, SessFacts
  <2>3. QED
    BY <1>1, <1>6, <2>2
<1>7. ASSUME NEW y \in DOMAIN sess, Active(y), hot[sess[y].sub] = y \/ Closes({s}, y)
      PROVE  Accounted(y)'
  <2>1. sess[y].sub \in Subagents /\ hot[sess[y].sub] = y
    BY <1>0, <1>7, SessFacts DEF Closes
  <2>2. QED
    BY <1>0, <1>1, <2>1 DEF Accounted
<1>8. QED
  BY <1>0, <1>1, <1>2, <1>3, <1>4, <1>5, <1>6, <1>7, SameSidecars

LEMMA reconcile_Step ==
    ASSUME Inv, NEW w \in Workers, reconcile_sidecar_crash(w) PROVE Inv'
<1> USE DEF poolVars, carVars, dbVars, histVars
<1>0. /\ TypeOK /\ orphaned' = orphaned \ {w} /\ \A t \in Subagents : hot'[t] = 0
      /\ hot' = [s \in Subagents |-> 0]
      /\ UNCHANGED <<workers, made, run, spawned, carVars, deleted, exec, ev, faults, shed, late, diverged>>
  BY DEF reconcile_sidecar_crash, Inv
<1>1. /\ closed \subseteq closed' /\ closed' \subseteq DOMAIN sess
      /\ \A t \in Subagents : hot[t] # 0 => hot[t] \in closed'
  BY <1>0, SessFacts DEF reconcile_sidecar_crash, TypeOK
<1>2. /\ Recorded /\ lost' \subseteq DOMAIN sess
      /\ \A t \in Subagents : hot[t] # 0 /\ Live(hot[t]) => hot[t] \in lost'
  BY <1>0, SessFacts DEF reconcile_sidecar_crash, TypeOK
<1>3. TypeOK'
  BY <1>0, <1>1, <1>2 DEF TypeOK
<1>4. OthersWait({})
  BY <1>0, <1>2 DEF OthersWait, Inv, DivergenceNeedsDelete
<1>5. ActorsOK({}) /\ {} \in SUBSET Evictors
  BY DEF ActorsOK
<1>6. RowsKept({})
  BY <1>0, <1>1, SessFacts DEF RowsKept, Rowed, HasRow
<1>7. ASSUME NEW a \in Evictors, ev[a].at = "close", hot'[sess[ev[a].sid].sub] = ev[a].sid
      PROVE  FALSE
  <2>1. ev[a].sid \in DOMAIN sess
    BY <1>7 DEF Inv, EvictorInv, EvictOK
  <2>2. sess[ev[a].sid].sub \in Subagents /\ ev[a].sid # 0
    BY <1>0, <2>1, SessFacts
  <2>3. QED
    BY <1>0, <1>7, <2>2
<1>8. ASSUME NEW y \in DOMAIN sess, Active(y), hot[sess[y].sub] = y \/ Closes({}, y)
      PROVE  Accounted(y)'
  <2>1. sess[y].sub \in Subagents /\ hot[sess[y].sub] = y /\ y # 0 /\ Live(y)
    BY <1>0, <1>8, SessFacts DEF Closes, Active, Live
  <2>2. QED
    BY <1>2, <2>1 DEF Accounted
<1>9. ASSUME NEW t \in Subagents, exec[t].at = "activate", hot[t] = exec[t].on, Pending(exec[t].on)
      PROVE  exec[t].on \in lost'
  <2>1. exec[t].on \in DOMAIN sess
    BY <1>9 DEF Inv, SubagentInv, ExecOK, Holding, Owned
  <2>2. exec[t].on # 0 /\ Live(exec[t].on)
    BY <1>0, <1>9, <2>1, SessFacts DEF Pending, Live
  <2>3. QED
    BY <1>2, <1>9, <2>2
<1>10. QED
  BY <1>0, <1>3, <1>4, <1>5, <1>6, <1>7, <1>8, <1>9, SameSidecars

(* The rows are left as they are, and that is on record. *)
LEMMA ReconcileFails_Step == ASSUME Inv, NEW w \in Workers, ReconcileFails(w) PROVE Inv'
<1> USE DEF poolVars, carVars, dbVars, histVars
<1>0. /\ TypeOK /\ orphaned' = orphaned \ {w} /\ faults' \in Nat
      /\ UNCHANGED <<workers, made, run, spawned, carVars, dbVars, exec, ev, shed, late, diverged>>
  BY DEF ReconcileFails, Inv, TypeOK
<1>1. /\ Recorded /\ lost' \subseteq DOMAIN sess
      /\ \A t \in Subagents : hot[t] # 0 => hot[t] \in lost'
  BY <1>0, SessFacts DEF ReconcileFails, TypeOK
<1>2. TypeOK'
  BY <1>0, <1>1 DEF TypeOK
<1>3. OthersWait({}) /\ RowsKept({})
  BY <1>0, <1>1 DEF OthersWait, RowsKept, Rowed, HasRow, Inv, DivergenceNeedsDelete
<1>4. ActorsOK({}) /\ {} \in SUBSET Evictors
  BY DEF ActorsOK
<1>5. \A y \in DOMAIN sess :
         hot[sess[y].sub] = y \/ Closes({}, y) => Accounted(y)'
  BY <1>0 DEF Closes, Accounted
<1>6. QED
  BY <1>0, <1>1, <1>2, <1>3, <1>4, <1>5, SameSidecars

(* The binding is restored, whether or not the session was closed. *)
LEMMA RestoreStep ==
    ASSUME Inv, TypeOK', NEW s \in Subagents, exec[s].at = "hib_close",
           NEW X \in SUBSET {exec[s].on}, Shut(X), Moves(s, "idle"),
           hot'[s] = exec[s].on, \A t \in Subagents : t # s => hot'[t] = hot[t],
           closed' = closed \ {exec[s].on}, lost' = lost \cup {exec[s].on},
           UNCHANGED <<poolVars, deleted, ev, shed, late, diverged>>
    PROVE  Inv'
<1> USE DEF poolVars
<1> DEFINE x == exec[s].on
<1>0. /\ TypeOK /\ ExecOK(s) /\ {s} \in SUBSET Evictors /\ ev[s].at = "none" /\ s \notin deleted
      /\ x \in DOMAIN sess /\ sess[x].sub = s /\ hot[s] = 0 /\ x # 0
  BY EvictorFacts, SessFacts DEF Inv, SubagentInv, ExecOK, Owned
<1>1. Keeps /\ NoneActivated
  BY DEF Keeps, NoneActivated, Live, Pending, Active, Shut
<1>2. WorldOK
  BY <1>1, SamePool, CalmStep DEF WorldOK
<1>3. OthersWait({s})
  BY DEF OthersWait, Moves, Inv, DivergenceNeedsDelete
<1>4. \A y \in DOMAIN sess : y # x => sess'[y] = sess[y]
  BY DEF Shut
<1>5. TurnsKept({s})
  <2> SUFFICES ASSUME NEW t \in Subagents \ {s}, exec[t].at = "turn",
                      Live(exec[t].on), sess[exec[t].on].busy
               PROVE  Live(exec[t].on)' /\ sess'[exec[t].on].busy
    BY DEF TurnsKept
  <2>1. exec'[t] = exec[t] /\ Owned(t, exec[t].on)
    BY DEF Moves, Inv, SubagentInv, ExecOK, Holding
  <2>2. sess'[exec[t].on] = sess[exec[t].on]
    BY <1>0, <1>4, <2>1 DEF Owned
  <2>3. QED
    BY <2>1, <2>2 DEF Live
<1>6. ReservationsKept({s})
  <2> SUFFICES ASSUME NEW a \in Evictors \ {s}, ev[a].at \in {"commit", "close"}
               PROVE  /\ Live(ev[a].sid)' /\ Reserved(ev[a].sid) => Reserved(ev[a].sid)'
                      /\ hot'[sess[ev[a].sid].sub] = ev[a].sid =>
                            hot[sess[ev[a].sid].sub] = ev[a].sid \/ ev[a].sid \in lost'
    BY DEF ReservationsKept
  <2>1. ev[a].sid \in DOMAIN sess /\ sess[ev[a].sid].sub \in Subagents
    BY <1>0, SessFacts DEF Inv, EvictorInv, EvictOK
  <2>2. QED
    BY <2>1 DEF Reserved, Live, Shut
<1>7. RowsBacked({s})
  <2>1. ASSUME NEW t \in Subagents \ {s}, hot[t] # 0, Active(hot[t]) PROVE Live(hot[t])'
    <3>1. Owned(t, hot[t]) /\ hot[t] # x
      BY <1>0, <2>1 DEF Inv, SubagentInv, HotOK, Owned
    <3>2. QED
      BY <1>4, <2>1, <3>1 DEF Owned, Live, Active
  <2>2. QED
    BY <2>1 DEF RowsBacked
<1>8. RowsKept({s})
  BY <1>0, SessFacts DEF RowsKept, Rowed, HasRow
<1>9. SlotsKept({s})
  <2>1. ASSUME NEW y \in DOMAIN sess', Active(y)'
        PROVE  y \in DOMAIN sess /\ Active(y) /\ (Accounted(y) => Accounted(y)')
    <3>1. y \in DOMAIN sess /\ Active(y) /\ sess'[y].sub = sess[y].sub /\ y # 0
          /\ sess[y].sub \in Subagents
      BY <1>0, <1>1, <2>1, SessFacts DEF NoneActivated, Keeps
    <3>2. CASE y = x
      BY <3>1, <3>2 DEF Accounted
    <3>3. CASE y # x
      <4>1. Closing(y) => Closing(y)'
        BY <1>0, <3>3 DEF Closing, Moves
      <4>2. hot[sess[y].sub] = y => hot'[sess[y].sub] = y
        BY <1>0, <3>1
      <4>3. QED
        BY <3>1, <4>1, <4>2 DEF Accounted
    <3>4. QED
      BY <3>1, <3>2, <3>3
  <2>2. QED
    BY <2>1 DEF SlotsKept
<1>10. ActorsOK({s})
  <2>1. ExecOK(s)' /\ TurnOK(s)' /\ CommitOK(s)' /\ EvictOK(s)' /\ EvRowOK(s)'
    BY <1>0 DEF ExecOK, TurnOK, CommitOK, EvictOK, EvRowOK, Calling, Holding, Moves
  <2>2. HotOK(s)'
    <3>1. x \in DOMAIN sess' /\ sess'[x].sub = s /\ x \in lost'
      BY <1>0 DEF Shut
    <3>2. Owned(s, hot[s])' /\ hot'[s] \in lost' /\ exec'[s].at # "close"
      BY <3>1 DEF Owned, Moves
    <3>3. QED
      BY <1>0, <3>2 DEF HotOK
  <2>3. QED
    BY <2>1, <2>2, Actor
<1>11. QED
  BY <1>0, <1>2, <1>3, <1>5, <1>6, <1>7, <1>8, <1>9, <1>10, QuietStep

LEMMA restore_Step ==
    ASSUME Inv, NEW s \in Subagents, restore_hot_binding_and_status(s) PROVE Inv'
<1> USE DEF poolVars, carVars, dbVars, histVars
<1> DEFINE x == exec[s].on
<1>0. /\ TypeOK /\ ExecOK(s) /\ exec[s].at = "hib_close"
      /\ UNCHANGED carVars \/ close_session_rpc(s, x)
      /\ hot' = [hot EXCEPT ![s] = x] /\ closed' = closed \ {x} /\ lost' = lost \cup {x}
      /\ UNCHANGED <<poolVars, deleted, ev, shed, late, diverged>>
  BY DEF restore_hot_binding_and_status, Inv, SubagentInv
<1>1. Moves(s, "idle") /\ faults' \in Nat /\ x \in DOMAIN sess /\ sess[x].sub = s
  BY <1>0, GotoMoves, FaultType DEF restore_hot_binding_and_status, ExecStates, ExecOK, Owned
<1>2. PICK X \in SUBSET {x} : Shut(X)
  <2>1. CASE UNCHANGED carVars
    <3>1. Shut({})
      BY <1>0, <2>1 DEF Shut, TypeOK
    <3>2. QED
      BY <3>1
  <2>2. CASE close_session_rpc(s, x)
    BY <1>1, <2>2, RpcShuts
  <2>3. QED
    BY <1>0, <2>1, <2>2
<1>3. /\ hot' \in [Subagents -> {0} \cup DOMAIN sess] /\ hot'[s] = x
      /\ \A t \in Subagents : t # s => hot'[t] = hot[t]
  BY <1>0, <1>1 DEF TypeOK
<1>4. TypeOK'
  BY <1>0, <1>1, <1>2, <1>3 DEF TypeOK, Shut, Moves
<1>5. QED
  BY <1>0, <1>1, <1>2, <1>3, <1>4, RestoreStep

-----------------------------------------------------------------------------
(* Activation.                                                             *)

Activates(y) ==
    /\ sess' \in Seq(Sessions) /\ DOMAIN sess' = DOMAIN sess
    /\ \A x \in DOMAIN sess :
          /\ sess'[x].sub = sess[x].sub /\ sess'[x].h = sess[x].h
          /\ sess'[x].busy = sess[x].busy /\ sess'[x].evicting = sess[x].evicting
          /\ x # y => sess'[x] = sess[x]
    /\ sess'[y].at = "active"

LEMMA ActivateFacts ==
    ASSUME TypeOK, NEW y \in DOMAIN sess, sess' = [sess EXCEPT ![y].at = "active"]
    PROVE  Activates(y)
<1> DEFINE r == [sess[y] EXCEPT !.at = "active"]
<1>0. sess \in Seq(Sessions) /\ sess[y] \in Sessions
  BY SessFacts DEF TypeOK
<1>1. r \in Sessions /\ r.sub = sess[y].sub /\ r.h = sess[y].h /\ r.at = "active"
      /\ r.busy = sess[y].busy /\ r.evicting = sess[y].evicting
  BY <1>0 DEF Sessions
<1>2. sess' = [sess EXCEPT ![y] = r]
  OBVIOUS
<1> HIDE DEF r
<1>3. sess' \in Seq(Sessions) /\ DOMAIN sess' = DOMAIN sess /\ sess'[y] = r
      /\ \A x \in DOMAIN sess : x # y => sess'[x] = sess[x]
  BY <1>0, <1>1, <1>2
<1>4. QED
  BY <1>1, <1>3 DEF Activates

LEMMA ActivateStep ==
    ASSUME Inv, TypeOK', NEW s \in Subagents, exec[s].at = "activate", NEW x, x = exec[s].on,
           Pending(x), sess[x].h = RunningOf(workers[ProviderOf[s]]),
           Activates(x), Moves(s, "idle"), UNCHANGED <<poolVars, dbVars, ev, histVars>>
    PROVE  Inv'
<1> USE DEF poolVars, dbVars, histVars
<1>0. /\ TypeOK /\ ExecOK(s) /\ HotOK(s) /\ CommitOK(s) /\ {s} \in SUBSET Evictors
      /\ ev[s].at = "none" /\ s \notin deleted
      /\ x \in DOMAIN sess /\ sess[x].sub = s /\ Live(x)
  BY EvictorFacts DEF Inv, SubagentInv, ExecOK, Holding, Owned, Pending, Live
<1>1. \A y \in DOMAIN sess :
         /\ Live(y)' <=> Live(y)
         /\ Pending(y)' => Pending(y) /\ y # x
         /\ Active(y)' => Active(y) \/ y = x
         /\ sess'[y].sub = sess[y].sub /\ sess'[y].h = sess[y].h
  BY <1>0 DEF Live, Pending, Active, Activates
<1>2. Keeps /\ DOMAIN sess' = DOMAIN sess
  BY <1>1 DEF Keeps, Activates
<1>3. WorldOK
  <2>1. RunStep
    BY DEF RunStep, RunSame
  <2>2. ProcInv'
    BY <1>1, <1>2 DEF Inv, ProcInv, Alive
  <2>3. UniqueInv'
    BY <1>1, <1>2 DEF Inv, UniqueInv
  <2>4. ActiveInv'
    BY <1>0, <1>1, <1>2 DEF Inv, ActiveInv, RunningOf
  <2>5. QED
    BY <1>2, <2>1, <2>2, <2>3, <2>4 DEF WorldOK
<1>4. OthersWait({s})
  BY DEF OthersWait, Moves, Inv, DivergenceNeedsDelete
<1>5. TurnsKept({s})
  <2> SUFFICES ASSUME NEW t \in Subagents \ {s}, exec[t].at = "turn",
                      Live(exec[t].on), sess[exec[t].on].busy
               PROVE  Live(exec[t].on)' /\ sess'[exec[t].on].busy
    BY DEF TurnsKept
  <2>1. exec'[t] = exec[t] /\ exec[t].on \in DOMAIN sess
    BY DEF Moves, Inv, SubagentInv, ExecOK, Holding, Owned
  <2>2. sess'[exec[t].on].at # "gone" /\ sess'[exec[t].on].busy
    BY <1>1, <2>1 DEF Activates, Live
  <2>3. QED
    BY <2>1, <2>2 DEF Live
<1>6. ReservationsKept({s})
  <2> SUFFICES ASSUME NEW a \in Evictors \ {s}, ev[a].at \in {"commit", "close"}, Reserved(ev[a].sid)
               PROVE  Reserved(ev[a].sid)'
    BY DEF ReservationsKept
  <2>1. ev[a].sid \in DOMAIN sess
    BY DEF Inv, EvictorInv, EvictOK
  <2>2. QED
    BY <2>1 DEF Reserved, Activates
<1>7. RowsBacked({s})
  <2>1. ASSUME NEW t \in Subagents \ {s}, hot[t] # 0, Active(hot[t]) PROVE Live(hot[t])'
    BY <1>0, <1>1, <2>1, SessFacts DEF Active, Live
  <2>2. QED
    BY <2>1 DEF RowsBacked
<1>8. RowsKept({s})
  BY DEF RowsKept, Rowed, HasRow
<1>9. Rowed(x)' /\ Accounted(x)'
  <2>1. HasRow(x) /\ (hot[s] = x \/ x \in lost)
    BY <1>0 DEF CommitOK, Rowed
  <2>2. QED
    BY <1>0, <1>1, <2>1 DEF Rowed, HasRow, Accounted
<1>10. SlotsKept({s})
  <2>1. ASSUME NEW y \in DOMAIN sess, Active(y) PROVE Accounted(y) => Accounted(y)'
    <3>1. Closing(y) => Closing(y)'
      BY DEF Closing, Moves
    <3>2. QED
      BY <1>1, <3>1 DEF Accounted
  <2>2. QED
    BY <1>0, <1>1, <1>2, <1>9, <2>1 DEF SlotsKept
<1>11. ActorsOK({s})
  <2>1. ExecOK(s)' /\ TurnOK(s)' /\ CommitOK(s)' /\ EvictOK(s)' /\ EvRowOK(s)'
    BY <1>0 DEF ExecOK, TurnOK, CommitOK, EvictOK, EvRowOK, Calling, Holding, Moves
  <2>2. HotOK(s)'
    <3>1. ASSUME hot[s] # 0
          PROVE  /\ Owned(s, hot[s])' /\ (Pending(hot[s])' => hot[s] \in lost')
                 /\ Live(hot[s])' \/ orphaned' # {} \/ hot[s] \in lost' \cup shed'
      <4>1. /\ hot[s] \in DOMAIN sess /\ sess[hot[s]].sub = s
            /\ Pending(hot[s]) => hot[s] = x \/ hot[s] \in lost
        BY <1>0, <3>1 DEF HotOK, Owned, Activating
      <4>2. Owned(s, hot[s])' /\ (Pending(hot[s])' => hot[s] \in lost')
        BY <1>1, <1>2, <4>1 DEF Owned, Pending
      <4>3. hot[s] = x => Live(hot[s])'
        BY <1>0, <1>1 DEF Live
      <4>4. QED
        BY <1>0, <1>1, <3>1, <4>1, <4>2, <4>3 DEF HotOK, Activating, Live
    <3>2. QED
      BY <1>0, <3>1 DEF HotOK, Moves
  <2>3. QED
    BY <2>1, <2>2, Actor
<1>12. QED
  BY <1>0, <1>3, <1>4, <1>5, <1>6, <1>7, <1>8, <1>10, <1>11, QuietStep

LEMMA activate_session_Step ==
    ASSUME Inv, NEW s \in Subagents, activate_session(s) PROVE Inv'
<1> USE DEF poolVars, carVars, dbVars, histVars
<1> DEFINE w == workers[ProviderOf[s]]
           x == exec[s].on
           there == w # 0 /\ x \in On(run[w])
<1>0. /\ TypeOK /\ ExecOK(s) /\ HotOK(s) /\ w \in Workers \cup {0}
      /\ exec[s].at = "activate" /\ Started(w)
      /\ UNCHANGED <<workers, made, orphaned, dbVars, ev, histVars>>
  BY WorkerFacts, HotAssumption DEF activate_session, Inv, SubagentInv
<1>1. ev[s].at = "none" /\ s \notin deleted /\ Owned(s, x)
  BY <1>0 DEF ExecOK, Holding
<1>2. RunStep /\ spawned' \in Nat /\ run' \in [Workers -> 0..spawned']
  BY <1>0, StartedFacts
<1>3. CASE there
  <2>1. Moves(s, "idle")
    BY <1>0, <1>3, GotoMoves DEF activate_session, ExecStates
  <2>2. x \in DOMAIN sess /\ Live(x) /\ sess[x].h = run[w] /\ run[w] # 0
    BY <1>3 DEF On, Inv, ProcInv, Alive
  <2>3. UNCHANGED <<run, spawned>>
    BY <1>0, <2>2 DEF Started
  <2>4. CASE Pending(x)
    <3>1. Activates(x)
      BY <1>0, <1>3, <2>2, <2>4, ActivateFacts DEF activate_session, Pending
    <3>2. TypeOK'
      BY <1>0, <1>2, <2>1, <3>1 DEF TypeOK, Moves, Activates
    <3>3. sess[x].h = RunningOf(w)
      BY <1>3, <2>2 DEF RunningOf
    <3>4. QED
      BY <1>0, <2>1, <2>3, <2>4, <3>1, <3>2, <3>3, ActivateStep
  <2>5. CASE ~Pending(x)
    <3>1. UNCHANGED carVars
      <4>1. sess[x].at = "active"
        BY <1>0, <2>2, <2>5, SessFacts DEF Pending, Live, Sessions
      <4>2. QED
        BY <1>3, <4>1 DEF activate_session
    <3>2. TypeOK'
      BY <1>0, <1>2, <2>1, <3>1 DEF TypeOK, Moves
    <3>3. ActorsOK({s})
      <4>1. ExecOK(s)' /\ TurnOK(s)' /\ CommitOK(s)' /\ EvictOK(s)' /\ EvRowOK(s)'
        BY <1>0, <1>1, <2>1 DEF ExecOK, TurnOK, CommitOK, EvictOK, EvRowOK, Calling, Holding, Moves
      <4>2. HotOK(s)'
        BY <1>0, <1>1, <2>1, <2>2, <2>5, <3>1
           DEF HotOK, Owned, Pending, Live, Activating, Moves
      <4>3. QED
        BY <4>1, <4>2, Actor
    <3>4. QED
      BY <1>0, <2>1, <2>3, <3>1, <3>2, <3>3, NoneClosing, OwnStep, SamePool DEF Moves
  <2>6. QED
    BY <2>4, <2>5
<1>4. CASE ~there
  <2>1. Moves(s, "rollback") /\ UNCHANGED carVars
    BY <1>0, <1>4, GotoMoves DEF activate_session, ExecStates
  <2>2. TypeOK'
    BY <1>0, <1>2, <2>1 DEF TypeOK, Moves
  <2>3. ActorsOK({s})
    <3>1. ExecOK(s)'
      BY <1>0, <1>1, <2>1 DEF ExecOK, Moves, Calling, Holding, Owned, Active
    <3>2. TurnOK(s)' /\ CommitOK(s)' /\ EvictOK(s)' /\ EvRowOK(s)'
      BY <1>0, <1>1, <2>1 DEF Moves, TurnOK, CommitOK, EvictOK, EvRowOK
    <3>3. HotOK(s)'
      BY <1>0, <2>1 DEF Moves, HotOK, Owned, Pending, Live, Activating
    <3>4. QED
      BY <3>1, <3>2, <3>3, Actor
  <2>4. WorkersStep
    BY <1>0 DEF WorkersStep
  <2>5. QED
    BY <1>0, <1>2, <2>1, <2>2, <2>3, <2>4, NoneClosing, OwnStep DEF Moves
<1>5. QED
  BY <1>3, <1>4

-----------------------------------------------------------------------------
(* Evictions.                                                              *)

(* What an evictor's step does to its eviction and its execution. *)
Evicts(a, where) ==
    /\ ev' \in [Evictors -> Evictions]
    /\ \A b \in Evictors : b # a => ev'[b] = ev[b]
    /\ ev'[a].at = where
    /\ where # "none" => ev'[a].sid = ev[a].sid /\ ev'[a].h = ev[a].h

Resumes(a) ==
    /\ exec' \in [Subagents -> Executions]
    /\ \A t \in Subagents : t # a => exec'[t] = exec[t]
    /\ a \in Subagents => exec'[a] = exec[a] \/ Moves(a, "retry") \/ Moves(a, "idle")
    /\ a \in Subagents /\ ev'[a].at # "none" => exec'[a] = exec[a]

LEMMA EvictFacts ==
    ASSUME TypeOK, NEW a \in Evictors, NEW where \in {"none", "commit", "close"}, Evict(a, where)
    PROVE  Evicts(a, where)
<1>0. ev \in [Evictors -> Evictions] /\ ev[a] \in Evictions
  BY DEF TypeOK
<1>1. CASE where = "none"
  BY <1>0, <1>1, NoEvictionType DEF Evict, Evicts
<1>2. CASE where # "none"
  <2> DEFINE e == [ev[a] EXCEPT !.at = where]
  <2>1. ev' = [ev EXCEPT ![a] = e]
    BY <1>0, <1>2 DEF Evict
  <2>2. e \in Evictions /\ e.at = where /\ e.sid = ev[a].sid /\ e.h = ev[a].h
    BY <1>0, <1>2 DEF Evictions
  <2> HIDE DEF e
  <2>3. QED
    BY <1>0, <2>1, <2>2 DEF Evicts
<1>3. QED
  BY <1>1, <1>2

LEMMA OverFacts ==
    ASSUME TypeOK, NEW a \in Evictors, NEW ok \in BOOLEAN, EvictionOver(a, ok)
    PROVE  Evicts(a, "none") /\ Resumes(a)
<1>1. Evicts(a, "none")
  BY EvictFacts DEF EvictionOver
<1>2. CASE a \in Subagents
  <2>1. Moves(a, "retry") \/ Moves(a, "idle")
    BY <1>2, GotoMoves DEF EvictionOver, ExecStates
  <2>2. QED
    BY <1>1, <1>2, <2>1 DEF Resumes, Moves, Evicts
<1>3. CASE a \notin Subagents
  BY <1>1, <1>3 DEF EvictionOver, Resumes, Evicts, TypeOK
<1>4. QED
  BY <1>2, <1>3

(* An evictor that is a subagent is in its execution, at the eviction. *)
LEMMA Evicting ==
    ASSUME Inv, NEW a \in Evictors, ev[a].at # "none"
    PROVE  /\ a \in Subagents => exec[a].at = "evict" /\ a \notin deleted
           /\ ev[a].sid \in DOMAIN sess /\ sess[ev[a].sid].sub \in Subagents /\ ev[a].sid # 0
           /\ EvictOK(a) /\ EvRowOK(a) /\ {a} \in SUBSET Evictors
<1>1. EvictOK(a) /\ EvRowOK(a)
  BY DEF Inv, EvictorInv
<1>2. a \in Subagents => ExecOK(a)
  BY DEF Inv, SubagentInv
<1>3. ev[a].sid \in DOMAIN sess
  BY <1>1 DEF EvictOK
<1>4. QED
  BY <1>1, <1>2, <1>3, SessFacts DEF ExecOK, Inv

LEMMA EvictorActor ==
    ASSUME Inv, TypeOK', NEW a \in Evictors, ev[a].at # "none", Resumes(a), Keeps, NoneActivated,
           RunStep, UNCHANGED deleted, EvictOK(a)', EvRowOK(a)',
           a \in Subagents => HotOK(a)'
    PROVE  ActorsOK({a})
<1> SUFFICES ASSUME a \in Subagents
             PROVE  ExecOK(a)' /\ TurnOK(a)' /\ CommitOK(a)'
  BY DEF ActorsOK
<1>0. /\ exec[a].at = "evict" /\ a \notin deleted /\ ExecOK(a)
      /\ exec'[a] = exec[a] \/ Moves(a, "retry") \/ Moves(a, "idle")
      /\ ev'[a].at # "none" => exec'[a] = exec[a]
  BY Evicting DEF Resumes, Inv, SubagentInv
<1>1. exec'[a].at \in {"evict", "retry", "idle"} /\ (exec'[a].at # "idle" => exec'[a].h = exec[a].h)
  BY <1>0 DEF Moves
<1>2. TurnOK(a)' /\ CommitOK(a)'
  BY <1>1 DEF TurnOK, CommitOK
<1>3. exec'[a].at # "idle" => exec'[a].h <= spawned'
  <2>1. exec[a].h \in Nat /\ exec[a].h <= spawned /\ spawned \in Nat /\ spawned' \in Nat
        /\ spawned <= spawned'
    BY <1>0, RunFacts DEF Inv, TypeOK, Executions, ExecOK, Calling, RunFresh
  <2>2. QED
    BY <1>1, <2>1
<1>4. \A x \in DOMAIN sess' : Active(x)' /\ sess'[x].sub = a => sess'[x].h = exec[a].h
  <2> SUFFICES ASSUME NEW x \in DOMAIN sess', Active(x)', sess'[x].sub = a
               PROVE  sess'[x].h = exec[a].h
    OBVIOUS
  <2>1. x \in DOMAIN sess /\ Active(x) /\ Live(x)' /\ sess[x].sub = a
    BY DEF NoneActivated, Keeps, Active, Live
  <2>2. QED
    BY <1>0, <2>1 DEF ExecOK, Calling, Keeps
<1>5. exec'[a].at # "evict" => ev'[a].at = "none"
  BY <1>0, <1>1
<1>6. QED
  BY <1>0, <1>1, <1>2, <1>3, <1>4, <1>5 DEF ExecOK, Calling, Holding

LEMMA evict_lru_Step == ASSUME Inv, NEW s \in Subagents, evict_lru(s) PROVE Inv'
<1> USE DEF poolVars, carVars, dbVars, histVars
<1> DEFINE e == [at |-> "lookup", sid |-> hot[s], h |-> 0]
<1>0. /\ TypeOK /\ Pressure \in Evictors /\ Pressure \notin Subagents
      /\ ev[Pressure].at = "none" /\ hot[s] # 0 /\ ev' = [ev EXCEPT ![Pressure] = e]
      /\ UNCHANGED <<poolVars, carVars, dbVars, exec, histVars>>
  BY EvictorFacts DEF evict_lru, Inv
<1>1. hot[s] \in DOMAIN sess /\ hot[s] \in Nat
  BY <1>0, SessFacts
<1>2. e \in Evictions /\ e.at = "lookup" /\ e.sid = hot[s]
  BY <1>1 DEF Evictions
<1> HIDE DEF e
<1>3. /\ ev' \in [Evictors -> Evictions] /\ ev'[Pressure].at = "lookup" /\ ev'[Pressure].sid = hot[s]
      /\ \A a \in Evictors : a # Pressure => ev'[a] = ev[a]
  BY <1>0, <1>2 DEF TypeOK
<1>4. TypeOK'
  BY <1>0, <1>3 DEF TypeOK
<1>5. EvictOK(Pressure)' /\ EvRowOK(Pressure)'
  BY <1>0, <1>1, <1>3 DEF EvictOK, EvRowOK, Found, HasRow
<1>6. ActorsOK({Pressure})
  BY <1>0, <1>5 DEF ActorsOK
<1>7. ActorsWait({Pressure}) /\ {Pressure} \in SUBSET Evictors
  BY <1>0, <1>3 DEF ActorsWait, Inv, DivergenceNeedsDelete
<1>8. ClosersAnswer({Pressure})
  BY <1>0 DEF ClosersAnswer, Closes
<1>9. QED
  BY <1>0, <1>4, <1>6, <1>7, <1>8, SamePool, SameSessions

(* The eviction of a ends, or goes on, and no row or session changes. *)
LEMMA EvictorStep ==
    ASSUME Inv, TypeOK', NEW a \in Evictors, ev[a].at # "none", Resumes(a), RunStep,
           UNCHANGED <<workers, orphaned, sess, hot, closed, deleted>>, Recorded,
           DivergenceNeedsDelete', \A b \in Evictors : b # a => ev'[b] = ev[b],
           EvictOK(a)', EvRowOK(a)', ev[a].at = "close" => ev[a].sid \in lost'
    PROVE  Inv'
<1>0. /\ a \in Subagents => exec[a].at = "evict"
      /\ {a} \in SUBSET Evictors
  BY Evicting
<1>1. Keeps /\ NoneActivated /\ SameShape /\ WorkersStep
  BY DEF Keeps, NoneActivated, Live, Pending, Active, SameShape, WorkersStep
<1>2. a \in Subagents => HotOK(a)'
  <2>1. a \in Subagents => exec'[a].at # "close"
    BY <1>0 DEF Resumes, Moves
  <2>2. QED
    BY <1>0, <1>1, <2>1, RowsFollowShape
<1>3. ActorsOK({a})
  BY <1>1, <1>2, EvictorActor
<1>4. ActorsWait({a})
  BY DEF ActorsWait, Resumes
<1>5. ClosersAnswer({a})
  BY <1>0 DEF ClosersAnswer, Closes, Accounted
<1>6. QED
  BY <1>0, <1>1, <1>3, <1>4, <1>5, SameSessions

LEMMA supervisor_for_session_Step ==
    ASSUME Inv, NEW a \in Evictors, NEW p \in Providers, supervisor_for_session(a, p) PROVE Inv'
<1> USE DEF poolVars, carVars, dbVars, histVars
<1> DEFINE w == workers[p]
           e == [ev[a] EXCEPT !.at = "prepare", !.h = run'[w]]
<1>0. /\ TypeOK /\ ev[a].at = "lookup" /\ w # 0 /\ HasRow(ev[a].sid) /\ Started(w)
      /\ ev' = [ev EXCEPT ![a].at = "prepare", ![a].h = run'[w]]
      /\ UNCHANGED <<workers, made, orphaned, carVars, dbVars, exec, histVars>>
      /\ ev[a].sid \in DOMAIN sess /\ w \in Workers
  BY WorkerFacts, Evicting DEF supervisor_for_session, Inv
<1>1. RunStep /\ spawned' \in Nat /\ run' \in [Workers -> 0..spawned']
  BY <1>0, StartedFacts
<1>2. run'[w] \in Nat
  BY <1>0, <1>1
<1>3. /\ ev' \in [Evictors -> Evictions] /\ ev'[a].at = "prepare" /\ ev'[a].sid = ev[a].sid
      /\ \A b \in Evictors : b # a => ev'[b] = ev[b]
  <2>1. ev \in [Evictors -> Evictions] /\ ev[a] \in Evictions
    BY <1>0 DEF TypeOK
  <2>2. e \in Evictions /\ e.at = "prepare" /\ e.sid = ev[a].sid
    BY <1>2, <2>1 DEF Evictions
  <2>3. ev' = [ev EXCEPT ![a] = e]
    BY <1>0, <2>1
  <2> HIDE DEF e
  <2>4. QED
    BY <2>1, <2>2, <2>3
<1> HIDE DEF e
<1>4. TypeOK'
  BY <1>0, <1>1, <1>3 DEF TypeOK
<1>5. EvictOK(a)' /\ EvRowOK(a)'
  BY <1>0, <1>3 DEF EvictOK, EvRowOK, Found, HasRow
<1>6. Resumes(a) /\ DivergenceNeedsDelete'
  BY <1>0 DEF Resumes, TypeOK, Inv, DivergenceNeedsDelete
<1>7. QED
  BY <1>0, <1>1, <1>3, <1>4, <1>5, <1>6, EvictorStep

(* A session that nobody has a row of and that is not of a deleted subagent *)
(* is not activated. *)
LEMMA Divergence ==
    ASSUME Inv, NEW a \in Evictors, ev[a].at # "none", ~HasRow(ev[a].sid), Active(ev[a].sid)
    PROVE  sess[ev[a].sid].sub \in deleted
  BY Evicting DEF EvRowOK, Found

LEMMA NoBinding_Step == ASSUME Inv, NEW a \in Evictors, NoBinding(a) PROVE Inv'
<1> USE DEF poolVars, carVars, dbVars, histVars
<1>0. /\ TypeOK /\ ev[a].at = "lookup" /\ EvictionOver(a, FALSE)
      /\ UNCHANGED <<poolVars, carVars, dbVars, faults, lost, shed, late>>
  BY DEF NoBinding, Inv
<1>1. Evicts(a, "none") /\ Resumes(a)
  BY <1>0, OverFacts
<1>2. DivergenceNeedsDelete' /\ diverged' \subseteq Subagents
  <2>1. deleted \subseteq Subagents /\ diverged \subseteq deleted
    BY <1>0 DEF TypeOK, Inv, DivergenceNeedsDelete
  <2>2. diverged' \subseteq deleted
    BY <1>0, <2>1, Divergence DEF NoBinding, Active
  <2>3. QED
    BY <1>0, <2>1, <2>2 DEF DivergenceNeedsDelete
<1>3. TypeOK'
  BY <1>0, <1>1, <1>2 DEF TypeOK, Evicts, Resumes
<1>4. EvictOK(a)' /\ EvRowOK(a)'
  BY <1>1 DEF EvictOK, EvRowOK, Evicts
<1>5. QED
  BY <1>0, <1>1, <1>2, <1>3, <1>4, SamePool, EvictorStep DEF Evicts

LEMMA EvictFails_Step == ASSUME Inv, NEW a \in Evictors, EvictFails(a) PROVE Inv'
<1> USE DEF poolVars, carVars, dbVars, histVars
<1>0. /\ TypeOK /\ ev[a].at # "none" /\ EvictionOver(a, FALSE)
      /\ lost' = IF ev[a].at = "close" THEN lost \cup {ev[a].sid} ELSE lost
      /\ UNCHANGED <<poolVars, carVars, dbVars, shed, late, diverged>>
  BY DEF EvictFails, Inv
<1>1. Evicts(a, "none") /\ Resumes(a)
  BY <1>0, OverFacts
<1>2. ev[a].sid \in DOMAIN sess /\ faults' \in Nat
  BY <1>0, Evicting, FaultType DEF EvictFails, TypeOK
<1>3. TypeOK'
  BY <1>0, <1>1, <1>2 DEF TypeOK, Evicts, Resumes
<1>4. EvictOK(a)' /\ EvRowOK(a)' /\ DivergenceNeedsDelete'
  BY <1>0, <1>1 DEF EvictOK, EvRowOK, Evicts, Inv, DivergenceNeedsDelete
<1>5. QED
  BY <1>0, <1>1, <1>3, <1>4, SamePool, EvictorStep DEF Evicts

LEMMA prepare_hibernate_Step == ASSUME Inv, NEW a \in Evictors, prepare_hibernate(a) PROVE Inv'
<1> USE DEF poolVars, carVars, dbVars, histVars
<1> DEFINE x == ev[a].sid
<1>0. /\ TypeOK /\ ev[a].at = "prepare"
      /\ UNCHANGED <<poolVars, lru, dbVars, histVars>>
      /\ x \in DOMAIN sess /\ EvRowOK(a) /\ {a} \in SUBSET Evictors
      /\ a \in Subagents => exec[a].at = "evict"
  BY Evicting DEF prepare_hibernate, Inv
<1>1. ASSUME NEW ok \in BOOLEAN, EvictionOver(a, ok), UNCHANGED sess
      PROVE  Inv'
  <2>1. Evicts(a, "none") /\ Resumes(a)
    BY <1>0, <1>1, OverFacts
  <2>2. TypeOK'
    BY <1>0, <1>1, <2>1 DEF TypeOK, Evicts, Resumes
  <2>3. EvictOK(a)' /\ EvRowOK(a)' /\ DivergenceNeedsDelete'
    BY <1>0, <2>1 DEF EvictOK, EvRowOK, Evicts, Inv, DivergenceNeedsDelete
  <2>4. QED
    BY <1>0, <1>1, <2>1, <2>2, <2>3, SamePool, EvictorStep DEF Evicts
<1>2. ASSUME x \in On(ev[a].h), prepare_hibernate_allowed(x),
             sess' = [sess EXCEPT ![x].evicting = TRUE], Evict(a, "commit"), UNCHANGED exec
      PROVE  Inv'
  <2>1. Flagged(x) /\ sess'[x].busy = sess[x].busy /\ sess'[x].evicting
    BY <1>0, <1>2, FlagFacts
  <2>2. Evicts(a, "commit") /\ Resumes(a)
    BY <1>0, <1>2, EvictFacts DEF Resumes, TypeOK
  <2>3. TypeOK'
    BY <1>0, <2>1, <2>2 DEF TypeOK, Flagged, Evicts, Resumes
  <2>4. /\ sess[x].at = "active" /\ ~sess[x].busy /\ sess[x].h = ev[a].h
        /\ ev'[a].at = "commit" /\ ev'[a].sid = x /\ ev'[a].h = ev[a].h
    BY <1>2, <2>2 DEF prepare_hibernate_allowed, On, Evicts
  <2>5. SameShape /\ Keeps /\ NoneActivated
    BY <2>1 DEF Flagged, SameShape, Keeps, NoneActivated, Live, Pending, Active
  <2>6. EvictOK(a)'
    <3>1. sess'[x].at = "active" /\ ~sess'[x].busy /\ sess'[x].evicting /\ sess'[x].h = ev[a].h
          /\ x \in DOMAIN sess'
      BY <1>0, <2>1, <2>4, <2>5 DEF SameShape
    <3>2. QED
      BY <2>4, <3>1 DEF EvictOK, Pending, Reserved
  <2>7. EvRowOK(a)'
    <3>1. Found(x)
      BY <1>0 DEF EvRowOK
    <3>2. HasRow(x) \/ sess[x].sub \in deleted
      BY <2>4, <3>1 DEF Found, Active
    <3>3. QED
      BY <1>0, <2>4, <2>5, <3>2 DEF EvRowOK, Found, HasRow, SameShape
  <2>8. a \in Subagents => HotOK(a)'
    BY <1>0, <1>2, <2>5, RowsFollowShape
  <2>9. ActorsOK({a})
    BY <1>0, <2>2, <2>3, <2>5, <2>6, <2>7, <2>8, SamePool, EvictorActor
  <2>10. ActorsWait({a})
    BY <1>0, <1>2, <2>2 DEF ActorsWait, Evicts, Inv, DivergenceNeedsDelete
  <2>11. ClosersAnswer({a})
    BY <1>0 DEF ClosersAnswer, Closes
  <2>12. sess'[x].evicting /\ ~sess'[x].busy
    BY <2>1, <2>4
  <2> HIDE DEF x
  <2>13. \A y : y = x => Reserved(y)'
    BY <2>12 DEF Reserved
  <2>14. QED
    BY <1>0, <2>1, <2>3, <2>9, <2>10, <2>11, <2>12, <2>13, FlagStep
<1>3. QED
  BY <1>1, <1>2 DEF prepare_hibernate

LEMMA CoolStep ==
    ASSUME Inv, NEW a \in Evictors, NEW x, x = ev[a].sid, NEW s, s = sess[x].sub,
           ev[a].at = "commit", hot[s] = x, Cool(s), Evict(a, "close"),
           UNCHANGED <<poolVars, carVars, deleted, exec, faults, lost, shed, late, diverged>>
    PROVE  Inv'
<1> USE DEF poolVars, carVars
<1>0. /\ TypeOK /\ x \in DOMAIN sess /\ s \in Subagents /\ x # 0 /\ {a} \in SUBSET Evictors
      /\ EvictOK(a) /\ (a \in Subagents => exec[a].at = "evict")
  BY Evicting DEF Inv
<1>1. Evicts(a, "close") /\ Resumes(a)
  BY <1>0, EvictFacts DEF Resumes, TypeOK
<1>2. ev'[a].at = "close" /\ ev'[a].sid = x /\ ev'[a].h = ev[a].h /\ ~Pending(x)
  BY <1>0, <1>1 DEF Evicts, EvictOK
<1>3. /\ hot' \in [Subagents -> {0} \cup DOMAIN sess] /\ closed' \subseteq DOMAIN sess
      /\ hot'[s] = 0 /\ \A t \in Subagents : t # s => hot'[t] = hot[t]
      /\ closed \subseteq closed' /\ x \in closed'
  BY <1>0 DEF Cool, TypeOK
<1>4. TypeOK'
  BY <1>0, <1>1, <1>3 DEF TypeOK, Evicts, Resumes
<1>5. OthersWait({a})
  BY <1>1, <1>3 DEF OthersWait, Evicts, Inv, DivergenceNeedsDelete
<1>6. ActorsOK({a})
  <2>1. Keeps /\ NoneActivated
    BY DEF Keeps, NoneActivated, Live, Pending, Active
  <2>2. EvictOK(a)'
    BY <1>0, <1>2, <1>3 DEF EvictOK, Pending, Live, Reserved
  <2>3. EvRowOK(a)'
    BY <1>2, <1>3 DEF EvRowOK, Found, HasRow
  <2>4. ASSUME a \in Subagents PROVE HotOK(a)'
    <3>1. CASE a = s
      BY <1>0, <1>3, <2>4, <3>1 DEF HotOK
    <3>2. CASE a # s
      <4>1. HotOK(a) /\ hot'[a] = hot[a]
        BY <1>3, <2>4, <3>2 DEF Inv, SubagentInv
      <4>2. QED
        BY <1>0, <2>4, <4>1 DEF HotOK, Owned, Pending, Live, Activating
    <3>3. QED
      BY <3>1, <3>2
  <2>5. QED
    BY <1>0, <1>1, <1>4, <2>1, <2>2, <2>3, <2>4, SamePool, EvictorActor
<1>7. RowsKept({a})
  BY <1>3 DEF RowsKept, Rowed, HasRow
<1>8. ASSUME NEW b \in Evictors \ {a}, ev[b].at = "close", hot'[sess[ev[b].sid].sub] = ev[b].sid
      PROVE  hot[sess[ev[b].sid].sub] = ev[b].sid
  <2>1. sess[ev[b].sid].sub \in Subagents /\ ev[b].sid # 0
    BY <1>8, Evicting
  <2>2. QED
    BY <1>3, <1>8, <2>1
<1>9. ASSUME NEW y \in DOMAIN sess, Active(y), hot[sess[y].sub] = y \/ Closes({a}, y)
      PROVE  Accounted(y)'
  <2>1. sess[y].sub \in Subagents /\ hot[sess[y].sub] = y
    BY <1>0, <1>9, SessFacts DEF Closes
  <2>2. CASE sess[y].sub = s
    BY <1>2, <2>1, <2>2 DEF Accounted, Closing
  <2>3. CASE sess[y].sub # s
    BY <1>3, <2>1, <2>3 DEF Accounted
  <2>4. QED
    BY <2>2, <2>3
<1>10. ASSUME NEW t \in Subagents \ {a}, exec[t].at = "activate", hot[t] = exec[t].on
       PROVE  hot'[t] = hot[t] \/ ~Pending(exec[t].on)
  BY <1>2, <1>3, <1>10
<1>11. QED
  BY <1>0, <1>4, <1>5, <1>6, <1>7, <1>8, <1>9, <1>10, SameSidecars

LEMMA commit_eviction_Step == ASSUME Inv, NEW a \in Evictors, commit_eviction(a) PROVE Inv'
<1> USE DEF poolVars, carVars, dbVars, histVars
<1> DEFINE x == ev[a].sid
           s == sess[x].sub
<1>0. /\ TypeOK /\ ev[a].at = "commit"
      /\ UNCHANGED <<poolVars, carVars, deleted, faults, lost, shed, late>>
  BY DEF commit_eviction, Inv
<1>1. CASE hot[s] = x
  BY <1>0, <1>1, CoolStep DEF commit_eviction
<1>2. CASE hot[s] # x
  <2>1. /\ EvictionOver(a, x \in closed) /\ UNCHANGED <<hot, closed>>
        /\ diverged' = IF HasRow(x) \/ ~Active(x) THEN diverged ELSE diverged \cup {s}
    BY <1>2 DEF commit_eviction, Active
  <2>2. Evicts(a, "none") /\ Resumes(a)
    <3>1. EvictionOver(a, TRUE) \/ EvictionOver(a, FALSE)
      BY <2>1 DEF EvictionOver
    <3>2. QED
      BY <1>0, <3>1, OverFacts
  <2>3. DivergenceNeedsDelete' /\ diverged' \subseteq Subagents
    <3>1. deleted \subseteq Subagents /\ diverged \subseteq deleted
      BY <1>0 DEF TypeOK, Inv, DivergenceNeedsDelete
    <3>2. diverged' \subseteq deleted
      BY <1>0, <2>1, <3>1, Divergence
    <3>3. QED
      BY <1>0, <3>1, <3>2 DEF DivergenceNeedsDelete
  <2>4. TypeOK'
    BY <1>0, <2>1, <2>2, <2>3 DEF TypeOK, Evicts, Resumes
  <2>5. EvictOK(a)' /\ EvRowOK(a)'
    BY <2>2 DEF EvictOK, EvRowOK, Evicts
  <2>6. QED
    BY <1>0, <2>1, <2>2, <2>3, <2>4, <2>5, SamePool, EvictorStep DEF Evicts
<1>3. QED
  BY <1>1, <1>2

LEMMA EvictClose_Step == ASSUME Inv, NEW a \in Evictors, EvictClose(a) PROVE Inv'
<1> USE DEF poolVars, carVars, dbVars, histVars
<1> DEFINE x == ev[a].sid
           X == On(ev[a].h) \cap {x}
<1>0. /\ TypeOK /\ ev[a].at = "close" /\ CloseIn(X) /\ EvictionOver(a, x \in On(ev[a].h))
      /\ UNCHANGED <<poolVars, dbVars, histVars>>
      /\ x \in DOMAIN sess /\ EvictOK(a) /\ {a} \in SUBSET Evictors
      /\ a \in Subagents => exec[a].at = "evict"
  BY Evicting DEF EvictClose, Inv
<1>1. Evicts(a, "none") /\ Resumes(a) /\ Shut(X)
  <2>1. EvictionOver(a, TRUE) \/ EvictionOver(a, FALSE)
    BY <1>0 DEF EvictionOver
  <2>2. QED
    BY <1>0, <2>1, OverFacts, CloseShuts
<1>2. TypeOK'
  BY <1>0, <1>1 DEF TypeOK, Evicts, Resumes, Shut
<1>3. /\ Live(x) => (~sess[x].busy \/ x \in late) /\ x \in X
      /\ hot[sess[x].sub] # x \/ x \in lost
  BY <1>0 DEF EvictOK, Reserved, On
<1>4. \A y \in X : y = x
  OBVIOUS
<1>5. \A t \in Subagents : hot[t] # 0 /\ hot[t] \in X => hot[t] \in lost
  BY <1>3, <1>4 DEF Inv, SubagentInv, HotOK, Owned
<1> HIDE DEF X
<1>6. ActorsOK({a})
  <2>1. Keeps /\ NoneActivated
    BY <1>1 DEF Keeps, NoneActivated, Live, Pending, Active, Shut
  <2>2. EvictOK(a)' /\ EvRowOK(a)'
    BY <1>1 DEF EvictOK, EvRowOK, Evicts
  <2>3. ASSUME a \in Subagents PROVE HotOK(a)'
    <3>1. exec'[a].at # "close"
      BY <1>0, <1>1, <2>3 DEF Resumes, Moves
    <3>2. QED
      BY <1>0, <1>1, <1>5, <2>3, <3>1, RowsFollowShut
  <2>4. QED
    BY <1>0, <1>1, <1>2, <2>1, <2>2, <2>3, SamePool, EvictorActor
<1>7. ActorsWait({a})
  BY <1>0, <1>1 DEF ActorsWait, Evicts, Resumes, Inv, DivergenceNeedsDelete
<1>8. ClosersAnswer({a})
  <2> SUFFICES ASSUME NEW y \in DOMAIN sess, Active(y)', Closes({a}, y) PROVE FALSE
    BY DEF ClosersAnswer
  <2>1. y = x
    BY <1>0 DEF Closes
  <2>2. Live(x) /\ x \notin X
    BY <1>1, <2>1 DEF Shut, Active, Live
  <2>3. QED
    BY <1>3, <2>2
<1>9. QED
  BY <1>0, <1>1, <1>2, <1>3, <1>4, <1>5, <1>6, <1>7, <1>8, SamePool, ShutStep

-----------------------------------------------------------------------------
(* The invariant, and what it says.                                        *)

LEMMA InitInv == Init => Inv
<1> SUFFICES ASSUME Init PROVE Inv
  OBVIOUS
<1>1. DOMAIN sess = {} /\ sess \in Seq(Sessions)
  BY DEF Init
<1>2. Idle \in Executions /\ NoEviction \in Evictions
  BY HotAssumption DEF Idle, NoEviction, Executions, Evictions, ExecStates
<1>3. made \in 0..MaxWorkers /\ 0 \in 0..0 /\ made = 0 /\ spawned = 0
  BY HotAssumption DEF Init
<1>4. TypeOK
  BY <1>1, <1>2, <1>3 DEF Init, TypeOK
<1>5. ProcInv /\ UniqueInv /\ ActiveInv /\ SlotInv /\ DivergenceNeedsDelete
  BY <1>1 DEF Init, ProcInv, UniqueInv, ActiveInv, SlotInv, DivergenceNeedsDelete
<1>6. \A s \in Subagents : exec[s].at = "idle" /\ hot[s] = 0
  BY DEF Init, Idle
<1>7. \A a \in Evictors : ev[a].at = "none"
  BY DEF Init, NoEviction
<1>8. SubagentInv
  BY <1>6, <1>7, EvictorFacts
     DEF SubagentInv, ExecOK, TurnOK, HotOK, CommitOK, Calling, Holding
<1>9. EvictorInv
  BY <1>7 DEF EvictorInv, EvictOK, EvRowOK
<1>10. QED
  BY <1>4, <1>5, <1>8, <1>9 DEF Inv

LEMMA NextStep == ASSUME Inv, Next PROVE Inv'
<1>1. ASSUME NEW s \in Subagents, Execution(s) PROVE Inv'
  BY <1>1, ensure_worker_Step, ensure_started_Step, CallFails_Step, turn_auto_Step,
     TurnEnds_Step, ExecutionDropped_Step, AuthKill_Step, commit_Step, PersistFails_Step,
     activate_session_Step, ActivateFails_Step, activate_rollback_Step, CloseSteps, SkippedSteps
     DEF Execution
<1>2. ASSUME NEW s \in Subagents, Control(s) PROVE Inv'
  BY <1>2, hibernate_Step, CloseSteps, restore_Step, SkippedSteps, hard_delete_Step DEF Control
<1>3. ASSUME NEW a \in Evictors, Eviction(a) PROVE Inv'
  BY <1>3, supervisor_for_session_Step, NoBinding_Step, prepare_hibernate_Step,
     commit_eviction_Step, EvictClose_Step, EvictFails_Step DEF Eviction
<1>4. ASSUME NEW x \in DOMAIN sess, Sidecar(x) PROVE Inv'
  BY <1>4, AbandonedTurnEnds_Step, CancelFallback_Step, ReservationExpires_Step, PendingExpires_Step
     DEF Sidecar
<1>5. QED
  BY <1>1, <1>2, <1>3, <1>4, evict_lru_Step, update_provider_Step, Crash_Step, reconcile_Step,
     ReconcileFails_Step DEF Next

LEMMA Stutter == ASSUME Inv, UNCHANGED vars PROVE Inv'
<1> USE DEF vars, poolVars, carVars, dbVars, histVars
<1>1. TypeOK'
  BY DEF Inv, TypeOK
<1>2. QED
  BY <1>1, NoActor, SamePool, SameSessions

(* The inductive invariant: the rows, the sessions, the workers and the     *)
(* steps of executions and evictions account for each other. *)
THEOREM Invariance == Spec => []Inv
<1>1. Inv /\ [Next]_vars => Inv'
  BY NextStep, Stutter
<1>2. QED
  BY InitInv, <1>1, PTL DEF Spec

(* Rows name sessions that were created, the pool names supervisors that    *)
(* were made, and every record stays in its type. *)
THEOREM TypeCorrect == Spec => []TypeOK
<1>1. Inv => TypeOK
  BY DEF Inv
<1>2. QED
  BY Invariance, <1>1, PTL

(* No slot leaks: a session that takes up a slot of a reachable worker is   *)
(* in a hot row or about to be closed, or the loss of its release is on     *)
(* record (evict_session, hibernate, execute_task). *)
THEOREM SlotsAreAccounted == Spec => []SlotAccounted
<1>1. Inv => SlotAccounted
  BY DEF Inv, SlotInv, SlotAccounted, Accounted, Active
<1>2. QED
  BY Invariance, <1>1, PTL

(* A hot binding row is not false without a reason on record: there is a    *)
(* live session behind it, or the subagent's own task or a reconciliation   *)
(* is about to settle the row, or the release of the session was lost, or   *)
(* the sidecar closed it of its own accord, for another model or after a    *)
(* cancel (execute_task, reconcile_sidecar_crash, session_pool.ts). *)
THEOREM HotRowsAreTrue == Spec => []HotRowHasSession
<1>1. Inv => HotRowHasSession
  <2> SUFFICES ASSUME Inv, NEW s \in Subagents, hot[s] # 0
               PROVE  \/ Live(hot[s]) /\ sess[hot[s]].sub = s
                      \/ orphaned # {} \/ exec[s].at # "idle" \/ hot[s] \in lost \cup shed
    BY DEF HotRowHasSession
  <2>1. HotOK(s)
    BY DEF Inv, SubagentInv
  <2>2. QED
    BY <2>1 DEF HotOK, Owned, Activating
<1>2. QED
  BY Invariance, <1>1, PTL

(* Nothing but the end of its process closes a session under a turn: not a  *)
(* hibernate, a close after a failure, an expiry of the session or a        *)
(* cancel's fallback, and no eviction within the life of its reservation. *)
THEOREM TurnsKeepSessions == Spec => []TurnKeepsSession
<1>1. Inv => TurnKeepsSession
  BY DEF Inv, SubagentInv, TurnOK, TurnKeepsSession
<1>2. QED
  BY Invariance, <1>1, PTL

(* evict_session meets a live session without a row only after a hard       *)
(* delete of its subagent. *)
THEOREM OnlyDeletesDiverge == Spec => []DivergenceNeedsDelete
<1>1. Inv => DivergenceNeedsDelete
  BY DEF Inv
<1>2. QED
  BY Invariance, <1>1, PTL
=============================================================================
