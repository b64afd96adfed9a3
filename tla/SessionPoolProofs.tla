-------------------------- MODULE SessionPoolProofs --------------------------
(***************************************************************************)
(* Proofs about SessionPool, for every set of turns and subagents, every    *)
(* assignment of owners and models and every limit of the pool.             *)
(*                                                                         *)
(* The invariants are predicates on a pool p rather than on the variable,   *)
(* because an action is a chain of method calls: ensureForTurn releases     *)
(* reservations, closes what has expired, closes a session of the wrong     *)
(* model, and only then admits or creates.  Every method but the last of a  *)
(* chain only closes sessions (ClosedBy), and closing keeps the invariants  *)
(* (CloseKeeps).  They say:                                                 *)
(*                                                                         *)
(*   CapacityIn   sessions and creations fit into max_hot_sessions          *)
(*   OneIn        the map names the one session of a subagent               *)
(*   CreatingIn   which turn creates, and whose creation is cancelled       *)
(*   FreshIn      a session that is not yet created leaves no trace         *)
(*   TurnIn       busy sessions, and no two handlers on one session         *)
(*   LeaseIn      a lease belongs to the handler on the session             *)
(*   SdkInv       the turn in the SDK's hands, and its generation           *)
(*   AckIn        where an acknowledged cancel is remembered                *)
(***************************************************************************)
EXTENDS SessionPool, TLAPS, FiniteSetTheorems, SequenceTheorems, WellFoundedInduction

CapacityIn(p) ==
    /\ IsFiniteSet(p.sessions) /\ IsFiniteSet(Creating(p))
    /\ Cardinality(p.sessions) + Cardinality(Creating(p)) <= MaxHot

OneIn(p) ==
    \A s \in Subagents :
        /\ p.subagentMap[s] # NoTurn =>
              p.subagentMap[s] \in p.sessions /\ Owner[p.subagentMap[s]] = s
        /\ p.creating[s] # NoTurn => p.subagentMap[s] = NoTurn
        /\ \A x \in p.sessions : Owner[x] = s => x = p.subagentMap[s]

CreatingIn(p) ==
    /\ \A t \in Turns : pc[t] = "creating" => p.creating[Owner[t]] = t
    /\ \A s \in Subagents : p.creating[s] # NoTurn =>
          Owner[p.creating[s]] = s /\ pc[p.creating[s]] = "creating"
    /\ \A s \in p.cancelledCreations :
          p.creating[s] # NoTurn /\ cancelled[p.creating[s]] = "acknowledged"

FreshIn(p) ==
    \A t \in Turns : pc[t] \in {"none", "creating"} =>
        t \notin p.sessions /\ \A u \in Turns : on[u] # t

TurnIn(p) ==
    /\ p.busy \subseteq p.sessions
    /\ \A t \in Turns : pc[t] \in Running =>
          on[t] \in Turns /\ (on[t] \in p.sessions => on[t] \in p.busy)
    /\ \A t, u \in Turns :
          pc[t] \in Running /\ pc[u] \in Running /\ on[t] = on[u] => t = u

LeaseIn(p) ==
    \A x \in Turns :
        LET l == p.lease[x] IN
        /\ x \notin p.busy => l = NoLease
        /\ x \in p.busy =>
              /\ l.task \in Turns /\ on[l.task] = x
              /\ \/ pc[l.task] = "leased" /\ l.state \in {"admitted", "cancelled"}
                 \/ pc[l.task] = "prompt" /\ l.state = "started"
              /\ l.state = "cancelled" => cancelled[l.task] = "acknowledged"

SdkInv ==
    /\ \A t \in Turns : pc[t] = "prompt" => gen[on[t]] = t /\ active[on[t]] = t
    /\ \A x \in Turns : active[x] # NoTurn => pc[active[x]] = "prompt" /\ on[active[x]] = x
    /\ \A x \in Turns : cancelledGen[x] # NoTurn => cancelled[cancelledGen[x]] = "acknowledged"

AckIn(p) ==
    \A t \in Turns :
        /\ pc[t] # "done" => res[t] = "none"
        /\ res[t] = "cancelled" => cancelled[t] = "acknowledged"
        /\ cancelled[t] = "acknowledged" =>
              /\ pc[t] # "none" /\ res[t] # "completed"
              /\ pc[t] = "creating" => Owner[t] \in p.cancelledCreations
              /\ pc[t] = "leased" => p.lease[on[t]].state \in {"cancelled", "none"}
              /\ pc[t] = "prompt" => cancelledGen[on[t]] = t

Core(p) ==
    /\ CapacityIn(p) /\ OneIn(p) /\ CreatingIn(p) /\ FreshIn(p)
    /\ TurnIn(p) /\ LeaseIn(p) /\ AckIn(p)

Inv == TypeOK /\ Core(pool) /\ SdkInv

\* What the methods that only close sessions do to the fields the invariants
\* speak of.
ClosedBy(p, q, C) ==
    /\ C \subseteq p.sessions
    /\ q.sessions = p.sessions \ C
    /\ q.subagentMap = [s \in Subagents |->
          IF \E x \in C : Owner[x] = s THEN NoTurn ELSE p.subagentMap[s]]
    /\ q.busy = p.busy \ C
    /\ q.lease = [x \in Turns |-> IF x \in C THEN NoLease ELSE p.lease[x]]
    /\ q.creating = p.creating /\ q.cancelledCreations = p.cancelledCreations

\* The same for a method that closes nothing.
Same(p, q) ==
    /\ q.sessions = p.sessions /\ q.subagentMap = p.subagentMap
    /\ q.busy = p.busy /\ q.lease = p.lease
    /\ q.creating = p.creating /\ q.cancelledCreations = p.cancelledCreations

\* The turn on x ends.
Ended(p, q, x) ==
    /\ q.sessions = p.sessions /\ q.subagentMap = p.subagentMap
    /\ q.busy = p.busy \ {x}
    /\ q.lease = [p.lease EXCEPT ![x] = NoLease]
    /\ q.creating = p.creating /\ q.cancelledCreations = p.cancelledCreations

PoolOK(p) == p \in Pools /\ p.agedEvictions \subseteq p.evicting

-----------------------------------------------------------------------------
(* Natural numbers and the LRU list.                                       *)

\* A set of naturals has a least element.
LEMMA MinExists ==
    ASSUME NEW E \in SUBSET Nat, E # {}
    PROVE  \E i \in E : \A j \in E : i <= j
<1> DEFINE R == OpToRel(<, Nat)
<1>1. IsWellFoundedOn(R, Nat)
  BY NatLessThanWellFounded
<1>2. \A a, b \in Nat : <<a, b>> \in R <=> a < b
  BY Zenon DEF OpToRel
<1> HIDE DEF R
<1>3. PICK i \in E : \A j \in E : ~(<<j, i>> \in R)
  BY <1>1, WFMin
<1>4. ASSUME NEW j \in E PROVE i <= j
  <2>1. ~(j < i)
    BY <1>2, <1>3, Zenon
  <2>2. i \in Nat /\ j \in Nat
    OBVIOUS
  <2>3. QED
    BY <2>1, <2>2
<1>5. QED
  BY <1>4, Zenon

\* A bounded set of naturals has a greatest element.
LEMMA MaxExists ==
    ASSUME NEW n \in Nat, NEW E \in SUBSET (0..n), E # {}
    PROVE  \E i \in E : \A j \in E : j <= i
<1> DEFINE D == {k \in Nat : n - k \in E}
<1>1. ASSUME NEW i \in E PROVE n - i \in D /\ i \in 0..n
  OBVIOUS
<1>2. D \in SUBSET Nat /\ D # {}
  BY <1>1
<1>3. PICK d \in D : \A e \in D : d <= e
  BY <1>2, MinExists
<1>4. \A j \in E : j <= n - d
  BY <1>1, <1>3
<1>5. QED
  BY <1>3, <1>4

\* Splicing keeps the type of the list.
LEMMA UnlistType ==
    ASSUME NEW list \in Seq(Turns), NEW C
    PROVE  Unlist(list, C) \in Seq(Turns)
<1> DEFINE at == {i \in DOMAIN list : list[i] \in C}
           idx == CHOOSE i \in at : \A j \in at : i <= j
<1>0. Len(list) \in Nat /\ DOMAIN list = 1..Len(list)
  BY LenProperties
<1>1. CASE at = {}
  BY <1>1 DEF Unlist
<1>2. CASE at # {}
  <2>1. at \in SUBSET Nat
    BY <1>0
  <2>2. idx \in at
    BY <1>2, <2>1, MinExists
  <2> HIDE DEF idx
  <2>3. idx \in 1..Len(list)
    BY <1>0, <2>2
  <2>4. /\ \A i \in 1..(idx - 1) : list[i] \in Turns
        /\ \A i \in (idx + 1)..Len(list) : list[i] \in Turns
    BY <1>0, <2>3, ElementOfSeq
  <2>5. SubSeq(list, 1, idx - 1) \in Seq(Turns)
    BY <1>0, <2>3, <2>4, SubSeqProperties
  <2>6. SubSeq(list, idx + 1, Len(list)) \in Seq(Turns)
    BY <1>0, <2>3, <2>4, SubSeqProperties
  <2>7. SubSeq(list, 1, idx - 1) \o SubSeq(list, idx + 1, Len(list)) \in Seq(Turns)
    BY <2>5, <2>6, ConcatProperties
  <2>8. QED
    BY <1>2, <2>7 DEF Unlist, idx
<1>3. QED
  BY <1>1, <1>2

\* The candidate is a listed session that runs no turn and is not reserved.
LEMMA CandidateListed ==
    ASSUME NEW p \in Pools, Evictable(p) # {}
    PROVE  /\ LruCandidate(p) \in Elements(p.lru) /\ LruCandidate(p) \in Turns
           /\ LruCandidate(p) \notin p.busy /\ LruCandidate(p) \notin p.evicting
<1>0. p.lru \in Seq(Turns)
  BY DEF Pools
<1>1. Len(p.lru) \in Nat /\ DOMAIN p.lru = 1..Len(p.lru)
  BY <1>0, LenProperties
<1>2. Evictable(p) \in SUBSET (0..Len(p.lru))
  BY <1>1 DEF Evictable
<1>3. (CHOOSE i \in Evictable(p) : \A j \in Evictable(p) : j <= i) \in Evictable(p)
  BY <1>1, <1>2, MaxExists
<1>4. PICK i \in Evictable(p) : LruCandidate(p) = p.lru[i]
  BY <1>3 DEF LruCandidate
<1>5. i \in DOMAIN p.lru /\ p.lru[i] \in Turns
  BY <1>0, <1>1, <1>4, ElementOfSeq DEF Evictable
<1>6. QED
  BY <1>4, <1>5 DEF Evictable, Elements

-----------------------------------------------------------------------------
(* The methods of the pool, field by field.                                *)

LEMMA CloseFacts ==
    ASSUME NEW p, PoolOK(p), NEW X
    PROVE  /\ PoolOK(CloseSessions(p, X))
           /\ ClosedBy(p, CloseSessions(p, X), X \cap p.sessions)
<1> DEFINE C == X \cap p.sessions
           q == CloseSessions(p, X)
<1>0. p \in Pools /\ Unlist(p.lru, C) \in Seq(Turns)
  BY UnlistType DEF PoolOK, Pools
<1>1. q = [p EXCEPT
            !.sessions = @ \ C,
            !.subagentMap = [s \in Subagents |->
                IF \E x \in C : Owner[x] = s THEN NoTurn ELSE @[s]],
            !.lru = Unlist(@, C),
            !.busy = @ \ C,
            !.lease = [x \in Turns |-> IF x \in C THEN NoLease ELSE @[x]],
            !.evicting = @ \ C, !.agedEvictions = @ \ C, !.cancelCleanup = @ \ C,
            !.pending = @ \ C,  !.agedPending = @ \ C]
  BY DEF CloseSessions
<1> HIDE DEF q, C
<1>2. /\ q.sessions = p.sessions \ C
      /\ q.busy = p.busy \ C
      /\ q.lru = Unlist(p.lru, C)
      /\ q.evicting = p.evicting \ C /\ q.agedEvictions = p.agedEvictions \ C
      /\ q.cancelCleanup = p.cancelCleanup \ C /\ q.pending = p.pending \ C
      /\ q.agedPending = p.agedPending \ C
      /\ q.creating = p.creating /\ q.cancelledCreations = p.cancelledCreations
  BY <1>0, <1>1 DEF Pools
<1>3. q.subagentMap = [s \in Subagents |->
          IF \E x \in C : Owner[x] = s THEN NoTurn ELSE p.subagentMap[s]]
  BY <1>0, <1>1 DEF Pools
<1>4. q.lease = [x \in Turns |-> IF x \in C THEN NoLease ELSE p.lease[x]]
  BY <1>0, <1>1 DEF Pools
<1>5. NoLease \in Leases /\ NoTurn \in SomeTurn
  BY DEF NoLease, Leases, SomeTurn
<1>6. q.subagentMap \in [Subagents -> SomeTurn] /\ q.lease \in [Turns -> Leases]
  BY <1>0, <1>3, <1>4, <1>5 DEF Pools
<1>7. q \in Pools
  <2>1. /\ q.sessions \in SUBSET Turns /\ q.busy \in SUBSET Turns /\ q.lru \in Seq(Turns)
        /\ q.evicting \in SUBSET Turns /\ q.agedEvictions \in SUBSET Turns
        /\ q.cancelCleanup \in SUBSET Turns /\ q.pending \in SUBSET Turns
        /\ q.agedPending \in SUBSET Turns
    BY <1>0, <1>2 DEF Pools
  <2>2. q = [p EXCEPT
            !.sessions = q.sessions, !.subagentMap = q.subagentMap, !.lru = q.lru,
            !.busy = q.busy, !.lease = q.lease, !.evicting = q.evicting,
            !.agedEvictions = q.agedEvictions, !.cancelCleanup = q.cancelCleanup,
            !.pending = q.pending, !.agedPending = q.agedPending]
    BY <1>0, <1>1 DEF Pools
  <2> HIDE <1>1
  <2>3. QED
    BY <1>0, <1>6, <2>1, <2>2 DEF Pools
<1>8. q.agedEvictions \subseteq q.evicting
  BY <1>2 DEF PoolOK
<1>9. QED
  BY <1>2, <1>3, <1>4, <1>7, <1>8 DEF PoolOK, ClosedBy, q, C

LEMMA ReleaseFacts ==
    ASSUME NEW p, PoolOK(p)
    PROVE  /\ PoolOK(ReleaseExpiredEvictions(p))
           /\ Same(p, ReleaseExpiredEvictions(p))
           /\ ReleaseExpiredEvictions(p).pending = p.pending
           /\ ReleaseExpiredEvictions(p).agedPending = p.agedPending
  BY DEF PoolOK, Pools, Same, ReleaseExpiredEvictions

LEMMA TouchFacts ==
    ASSUME NEW p, PoolOK(p), NEW x \in Turns
    PROVE  PoolOK(Touch(p, x)) /\ Same(p, Touch(p, x))
<1>1. CASE x \in Elements(p.lru)
  <2>1. <<x>> \o Unlist(p.lru, {x}) \in Seq(Turns)
    <3>1. Unlist(p.lru, {x}) \in Seq(Turns) /\ <<x>> \in Seq(Turns)
      BY UnlistType DEF PoolOK, Pools
    <3>2. QED
      BY <3>1, ConcatProperties
  <2>2. Touch(p, x) = [p EXCEPT !.lru = <<x>> \o Unlist(p.lru, {x})]
    BY <1>1 DEF Touch
  <2>3. QED
    BY <2>1, <2>2 DEF PoolOK, Pools, Same
<1>2. CASE x \notin Elements(p.lru)
  BY <1>2 DEF Touch, Same
<1>3. QED
  BY <1>1, <1>2

LEMMA AcquireFacts ==
    ASSUME NEW p, PoolOK(p), NEW x \in Turns, NEW t \in Turns
    PROVE  LET q == AcquireTurn(p, x, t) IN
           /\ PoolOK(q)
           /\ q.sessions = p.sessions /\ q.subagentMap = p.subagentMap
           /\ q.busy = p.busy \cup {x}
           /\ q.lease = [p.lease EXCEPT ![x] = [task |-> t, state |-> "admitted"]]
           /\ q.creating = p.creating /\ q.cancelledCreations = p.cancelledCreations
<1> DEFINE q == AcquireTurn(p, x, t)
           l == [task |-> t, state |-> "admitted"]
<1>1. l \in Leases
  BY DEF Leases, SomeTurn
<1> HIDE DEF l
<1>2. [p.lease EXCEPT ![x] = l] \in [Turns -> Leases]
  BY <1>1 DEF PoolOK, Pools
<1>3. q = [p EXCEPT !.busy = p.busy \cup {x}, !.lease = [p.lease EXCEPT ![x] = l]]
  BY DEF AcquireTurn, PoolOK, Pools, l
<1> HIDE DEF q
<1>4. /\ PoolOK(q)
      /\ q.sessions = p.sessions /\ q.subagentMap = p.subagentMap
      /\ q.busy = p.busy \cup {x} /\ q.lease = [p.lease EXCEPT ![x] = l]
      /\ q.creating = p.creating /\ q.cancelledCreations = p.cancelledCreations
  BY <1>2, <1>3 DEF PoolOK, Pools
<1>5. QED
  BY <1>4 DEF q, l

LEMMA EndTurnFacts ==
    ASSUME NEW p, PoolOK(p), NEW x \in Turns
    PROVE  PoolOK(EndTurn(p, x)) /\ Ended(p, EndTurn(p, x), x)
<1> DEFINE q == EndTurn(p, x)
<1>1. [p.lease EXCEPT ![x] = NoLease] \in [Turns -> Leases]
  BY DEF PoolOK, Pools, NoLease, Leases, SomeTurn
<1>2. q = [p EXCEPT !.busy = p.busy \ {x}, !.lease = [p.lease EXCEPT ![x] = NoLease],
                    !.agedPending = p.agedPending \ {x}]
  BY DEF EndTurn, PoolOK, Pools
<1> HIDE DEF q
<1>3. /\ PoolOK(q)
      /\ q.sessions = p.sessions /\ q.subagentMap = p.subagentMap
      /\ q.busy = p.busy \ {x} /\ q.lease = [p.lease EXCEPT ![x] = NoLease]
      /\ q.creating = p.creating /\ q.cancelledCreations = p.cancelledCreations
  BY <1>1, <1>2 DEF PoolOK, Pools
<1>4. QED
  BY <1>3 DEF q, Ended

-----------------------------------------------------------------------------
(* Closing keeps the invariants.                                           *)

LEMMA CloseKeeps ==
    ASSUME NEW p, p \in Pools, NEW q, NEW C, ClosedBy(p, q, C), TypeOK, Core(p)
    PROVE  Core(q)
<1> USE DEF ClosedBy
<1>0. /\ p.sessions \subseteq Turns /\ p.subagentMap \in [Subagents -> SomeTurn]
      /\ p.lease \in [Turns -> Leases] /\ C \subseteq Turns
      /\ Owner \in [Turns -> Subagents] /\ NoTurn \notin Turns
  BY PoolOwnerAssumption, NoTurnAssumption DEF Pools
<1>1. CapacityIn(q)
  <2>1. Creating(q) = Creating(p)
    BY DEF Creating
  <2>2. IsFiniteSet(q.sessions) /\ Cardinality(q.sessions) <= Cardinality(p.sessions)
    BY FS_Subset DEF Core, CapacityIn
  <2>3. /\ Cardinality(q.sessions) \in Nat /\ Cardinality(p.sessions) \in Nat
        /\ Cardinality(Creating(p)) \in Nat
    BY <2>2, FS_CardinalityType DEF Core, CapacityIn
  <2>4. QED
    BY <2>1, <2>2, <2>3, MaxHotAssumption DEF Core, CapacityIn
<1>2. OneIn(q)
  BY <1>0 DEF Core, OneIn
<1>3. CreatingIn(q) /\ FreshIn(q)
  BY DEF Core, CreatingIn, FreshIn
<1>4. TurnIn(q)
  BY DEF Core, TurnIn
<1>5. LeaseIn(q)
  <2> SUFFICES ASSUME NEW x \in Turns
               PROVE  LeaseIn(q)!(x)
    BY DEF LeaseIn
  <2>1. CASE x \in C
    BY <1>0, <2>1 DEF LeaseIn
  <2>2. CASE x \notin C
    <3>1. q.lease[x] = p.lease[x] /\ (x \in q.busy <=> x \in p.busy)
      BY <1>0, <2>2
    <3>2. QED
      BY <3>1 DEF Core, LeaseIn
  <2>3. QED
    BY <2>1, <2>2
<1>6. AckIn(q)
  <2>1. ASSUME NEW t \in Turns, pc[t] = "leased", p.lease[on[t]].state \in {"cancelled", "none"}
        PROVE  q.lease[on[t]].state \in {"cancelled", "none"}
    <3>1. on[t] \in Turns
      BY <2>1 DEF Core, TurnIn, Running
    <3>2. NoLease.state = "none"
      BY DEF NoLease
    <3>3. QED
      BY <2>1, <3>1, <3>2
  <2>2. QED
    BY <2>1 DEF Core, AckIn
<1>7. QED
  BY <1>1, <1>2, <1>3, <1>4, <1>5, <1>6 DEF Core

\* A method that closes nothing is the special case of the empty set.
LEMMA SameCloses ==
    ASSUME NEW p, p \in Pools, NEW q, Same(p, q)
    PROVE  ClosedBy(p, q, {})
  BY DEF Same, ClosedBy, Pools

\* A step that changes nothing but the pool, and of it only by closing.
LEMMA ClosingStep ==
    ASSUME TypeOK, Core(pool), SdkInv, NEW C, ClosedBy(pool, pool', C),
           UNCHANGED <<turnVars, sdkVars, cancelled>>
    PROVE  Core(pool)' /\ SdkInv'
<1>1. Core(pool')
  BY CloseKeeps DEF TypeOK
<1>2. CapacityIn(pool)' /\ OneIn(pool)'
  BY <1>1 DEF Core, CapacityIn, OneIn, Creating
<1>3. CreatingIn(pool)' /\ FreshIn(pool)' /\ TurnIn(pool)'
  BY <1>1 DEF Core, CreatingIn, FreshIn, TurnIn, turnVars
<1>4. LeaseIn(pool)'
  BY <1>1 DEF Core, LeaseIn, turnVars
<1>5. AckIn(pool)' /\ SdkInv'
  BY <1>1 DEF Core, AckIn, SdkInv, turnVars, sdkVars
<1>6. QED
  BY <1>2, <1>3, <1>4, <1>5 DEF Core

\* A turn that has not begun is refused.
LEMMA RefuseStep ==
    ASSUME TypeOK, SdkInv, NEW p, p \in Pools, Core(p), Same(p, pool'),
           NEW t \in Turns, pc[t] = "none", NEW r \in {"all_busy", "limit"},
           Answer(t, r), UNCHANGED <<on, sdkVars, cancelled>>
    PROVE  Core(pool)' /\ SdkInv'
<1> USE DEF Same
<1>0. /\ pc \in [Turns -> {"none", "creating", "done"} \cup Running]
      /\ \A u \in Turns : pc'[u] = IF u = t THEN "done" ELSE pc[u]
      /\ \A u \in Turns : res'[u] = IF u = t THEN r ELSE res[u]
  BY DEF TypeOK, Answer
<1>1. CapacityIn(pool)' /\ OneIn(pool)'
  BY DEF Core, CapacityIn, OneIn, Creating
<1>3. CreatingIn(pool)'
  <2>1. \A s \in Subagents : p.creating[s] # NoTurn => p.creating[s] \in Turns
    BY DEF Pools, SomeTurn
  <2>2. QED
    BY <1>0, <2>1 DEF Core, CreatingIn
<1>4. FreshIn(pool)' /\ TurnIn(pool)'
  BY <1>0 DEF Core, FreshIn, TurnIn, Running
<1>5. LeaseIn(pool)'
  BY <1>0 DEF Core, LeaseIn
<1>6. AckIn(pool)'
  BY <1>0 DEF Core, AckIn, sdkVars
<1>7. SdkInv'
  BY <1>0 DEF SdkInv, sdkVars, TypeOK, SomeTurn
<1>8. QED
  BY <1>1, <1>3, <1>4, <1>5, <1>6, <1>7 DEF Core

\* A turn is admitted to a session that is in the pool and not busy.
LEMMA AdmitStep ==
    ASSUME TypeOK, SdkInv, NEW p, p \in Pools, Core(p),
           NEW t \in Turns, pc[t] = "none", NEW x \in p.sessions, x \notin p.busy,
           pool'.sessions = p.sessions, pool'.subagentMap = p.subagentMap,
           pool'.busy = p.busy \cup {x},
           pool'.lease = [p.lease EXCEPT ![x] = [task |-> t, state |-> "admitted"]],
           pool'.creating = p.creating, pool'.cancelledCreations = p.cancelledCreations,
           on' = [on EXCEPT ![t] = x], pc' = [pc EXCEPT ![t] = "leased"],
           UNCHANGED <<res, sdkVars, cancelled>>
    PROVE  Core(pool)' /\ SdkInv'
<1>0. /\ x \in Turns
      /\ \A u \in Turns : pc'[u] = IF u = t THEN "leased" ELSE pc[u]
      /\ \A u \in Turns : on'[u] = IF u = t THEN x ELSE on[u]
      /\ \A y \in Turns : pool'.lease[y] =
            IF y = x THEN [task |-> t, state |-> "admitted"] ELSE p.lease[y]
  BY DEF TypeOK, Pools
<1>a. \A u \in Turns : pc[u] \in Running => on[u] # x
  BY DEF Core, TurnIn
<1>1. CapacityIn(pool)' /\ OneIn(pool)'
  BY DEF Core, CapacityIn, OneIn, Creating
<1>2. CreatingIn(pool)'
  <2>1. \A s \in Subagents : p.creating[s] # NoTurn => p.creating[s] \in Turns
    BY DEF Pools, SomeTurn
  <2>2. QED
    BY <1>0, <2>1 DEF Core, CreatingIn
<1>3. FreshIn(pool)'
  BY <1>0 DEF Core, FreshIn
<1>4. TurnIn(pool)'
  BY <1>0, <1>a DEF Core, TurnIn, Running
<1>5. LeaseIn(pool)'
  <2> SUFFICES ASSUME NEW y \in Turns PROVE LeaseIn(pool)!(y)'
    BY DEF LeaseIn
  <2>1. CASE y = x
    BY <1>0, <2>1 DEF LeaseIn
  <2>2. CASE y # x
    <3>1. pool'.lease[y] = p.lease[y] /\ (y \in pool'.busy <=> y \in p.busy)
      BY <1>0, <2>2
    <3>2. QED
      BY <1>0, <3>1 DEF Core, LeaseIn
  <2>3. QED
    BY <2>1, <2>2
<1>6. AckIn(pool)'
  <2>1. ASSUME NEW u \in Turns, pc'[u] = "leased", cancelled[u] = "acknowledged"
        PROVE  pool'.lease[on'[u]].state \in {"cancelled", "none"}
    <3>1. u # t /\ pc[u] = "leased" /\ on[u] \in Turns /\ on[u] # x
      BY <1>0, <1>a, <2>1 DEF Core, AckIn, TurnIn, Running
    <3>2. QED
      BY <1>0, <2>1, <3>1 DEF Core, AckIn
  <2>2. QED
    BY <1>0, <2>1 DEF Core, AckIn, sdkVars
<1>7. SdkInv'
  BY <1>0 DEF SdkInv, sdkVars, TypeOK, SomeTurn
<1>8. QED
  BY <1>1, <1>2, <1>3, <1>4, <1>5, <1>6, <1>7 DEF Core

\* A slot is reserved and the factory called.
LEMMA ReserveStep ==
    ASSUME TypeOK, SdkInv, NEW p, p \in Pools, Core(p),
           NEW t \in Turns, pc[t] = "none",
           p.creating[Owner[t]] = NoTurn, p.subagentMap[Owner[t]] = NoTurn,
           ~(Cardinality(p.sessions) + Cardinality(Creating(p)) >= MaxHot),
           pool' = [p EXCEPT !.creating[Owner[t]] = t], pc' = [pc EXCEPT ![t] = "creating"],
           UNCHANGED <<on, res, sdkVars, cancelled>>
    PROVE  Core(pool)' /\ SdkInv'
<1> DEFINE s == Owner[t]
<1>0. /\ s \in Subagents /\ t # NoTurn
      /\ pool'.sessions = p.sessions /\ pool'.subagentMap = p.subagentMap
      /\ pool'.busy = p.busy /\ pool'.lease = p.lease
      /\ pool'.cancelledCreations = p.cancelledCreations
      /\ pool'.creating = [p.creating EXCEPT ![s] = t]
  BY PoolOwnerAssumption, NoTurnAssumption DEF Pools
<1>a. /\ \A r \in Subagents : pool'.creating[r] = IF r = s THEN t ELSE p.creating[r]
      /\ \A r \in Subagents : p.creating[r] # NoTurn => p.creating[r] \in Turns /\ r # s
      /\ \A u \in Turns : pc'[u] = IF u = t THEN "creating" ELSE pc[u]
  BY <1>0 DEF Pools, SomeTurn, TypeOK
<1>1. CapacityIn(pool)'
  <2>1. Creating(pool') = Creating(p) \cup {s} /\ s \notin Creating(p)
    BY <1>0, <1>a DEF Creating
  <2>2. /\ IsFiniteSet(Creating(p)) /\ IsFiniteSet(p.sessions)
        /\ Cardinality(Creating(p)) \in Nat /\ Cardinality(p.sessions) \in Nat
    BY FS_CardinalityType DEF Core, CapacityIn
  <2>3. /\ IsFiniteSet(Creating(pool'))
        /\ Cardinality(Creating(pool')) = Cardinality(Creating(p)) + 1
    BY <2>1, <2>2, FS_AddElement
  <2>4. Cardinality(p.sessions) + Cardinality(Creating(pool')) <= MaxHot
    BY <2>2, <2>3, MaxHotAssumption
  <2>5. QED
    BY <1>0, <2>2, <2>3, <2>4 DEF CapacityIn, Creating
<1>2. OneIn(pool)'
  BY <1>0, <1>a DEF Core, OneIn
<1>3. CreatingIn(pool)'
  <2>1. \A u \in Turns : Owner[u] \in Subagents
    BY PoolOwnerAssumption
  <2>2. \A u \in Turns : pc'[u] = "creating" => pool'.creating[Owner[u]] = u
    <3> SUFFICES ASSUME NEW u \in Turns, pc'[u] = "creating" PROVE pool'.creating[Owner[u]] = u
      OBVIOUS
    <3>1. CASE u = t
      BY <1>0, <1>a, <3>1
    <3>2. CASE u # t
      <4>1. pc[u] = "creating" /\ p.creating[Owner[u]] = u
        BY <1>a, <3>2 DEF Core, CreatingIn
      <4>2. u # NoTurn /\ Owner[u] # s
        BY <4>1, NoTurnAssumption
      <4>3. QED
        BY <1>a, <2>1, <4>1, <4>2
    <3>3. QED
      BY <3>1, <3>2
  <2>3. \A r \in Subagents : pool'.creating[r] # NoTurn =>
          Owner[pool'.creating[r]] = r /\ pc'[pool'.creating[r]] = "creating"
    BY <1>a DEF Core, CreatingIn
  <2>4. \A r \in pool'.cancelledCreations :
          pool'.creating[r] # NoTurn /\ cancelled[pool'.creating[r]] = "acknowledged"
    BY <1>0, <1>a DEF Core, CreatingIn, Pools
  <2>5. QED
    BY <2>2, <2>3, <2>4 DEF CreatingIn
<1>4. FreshIn(pool)' /\ TurnIn(pool)'
  BY <1>0, <1>a DEF Core, FreshIn, TurnIn, Running
<1>5. LeaseIn(pool)'
  BY <1>0, <1>a DEF Core, LeaseIn
<1>6. AckIn(pool)'
  BY <1>0, <1>a DEF Core, AckIn, sdkVars
<1>7. SdkInv'
  BY <1>0, <1>a DEF SdkInv, sdkVars, TypeOK, SomeTurn
<1>8. QED
  BY <1>1, <1>2, <1>3, <1>4, <1>5, <1>6, <1>7 DEF Core

\* A creation ends without a session, and frees its slot and its marker.
LEMMA AbandonStep ==
    ASSUME TypeOK, SdkInv, Core(pool),
           NEW t \in Turns, pc[t] = "creating", NEW r \in {"cancelled", "failed"},
           r = "cancelled" => Owner[t] \in pool.cancelledCreations,
           pool' = [pool EXCEPT !.creating[Owner[t]] = NoTurn,
                                !.cancelledCreations = @ \ {Owner[t]}],
           Answer(t, r), UNCHANGED <<on, sdkVars, cancelled>>
    PROVE  Core(pool)' /\ SdkInv'
<1> DEFINE s == Owner[t]
<1>0. /\ s \in Subagents /\ t # NoTurn /\ pool.creating[s] = t
      /\ pool'.sessions = pool.sessions /\ pool'.subagentMap = pool.subagentMap
      /\ pool'.busy = pool.busy /\ pool'.lease = pool.lease
      /\ pool'.cancelledCreations = pool.cancelledCreations \ {s}
      /\ pool'.creating = [pool.creating EXCEPT ![s] = NoTurn]
  BY PoolOwnerAssumption, NoTurnAssumption DEF Pools, TypeOK, Core, CreatingIn
<1>a. /\ \A q \in Subagents : pool'.creating[q] = IF q = s THEN NoTurn ELSE pool.creating[q]
      /\ \A q \in Subagents : pool.creating[q] # NoTurn => pool.creating[q] \in Turns
      /\ \A u \in Turns : pc'[u] = IF u = t THEN "done" ELSE pc[u]
      /\ \A u \in Turns : res'[u] = IF u = t THEN r ELSE res[u]
  BY <1>0 DEF Pools, SomeTurn, TypeOK, Answer
<1>b. \A q \in Subagents : q # s => pool.creating[q] # t
  BY <1>0 DEF Core, CreatingIn
<1>1. CapacityIn(pool)'
  <2>1. Creating(pool') \subseteq Creating(pool)
    BY <1>0, <1>a DEF Creating
  <2>2. /\ IsFiniteSet(Creating(pool')) /\ Cardinality(Creating(pool')) <= Cardinality(Creating(pool))
    BY <2>1, FS_Subset DEF Core, CapacityIn
  <2>3. /\ Cardinality(Creating(pool)) \in Nat /\ Cardinality(pool.sessions) \in Nat
        /\ Cardinality(Creating(pool')) \in Nat
    BY <2>2, FS_CardinalityType DEF Core, CapacityIn
  <2>4. Cardinality(pool'.sessions) + Cardinality(Creating(pool')) <= MaxHot
    BY <1>0, <2>2, <2>3, MaxHotAssumption DEF Core, CapacityIn
  <2>5. QED
    BY <1>0, <2>2, <2>4 DEF Core, CapacityIn, Creating
<1>2. OneIn(pool)'
  BY <1>0, <1>a DEF Core, OneIn
<1>3. CreatingIn(pool)'
  <2>1. \A u \in Turns : Owner[u] \in Subagents
    BY PoolOwnerAssumption
  <2>2. \A u \in Turns : pc'[u] = "creating" => pool'.creating[Owner[u]] = u
    BY <1>0, <1>a, <2>1 DEF Core, CreatingIn
  <2>3. \A q \in Subagents : pool'.creating[q] # NoTurn =>
          Owner[pool'.creating[q]] = q /\ pc'[pool'.creating[q]] = "creating"
    BY <1>a, <1>b DEF Core, CreatingIn
  <2>4. \A q \in pool'.cancelledCreations :
          pool'.creating[q] # NoTurn /\ cancelled[pool'.creating[q]] = "acknowledged"
    BY <1>0, <1>a DEF Core, CreatingIn, Pools, TypeOK
  <2>5. QED
    BY <2>2, <2>3, <2>4 DEF CreatingIn
<1>4. FreshIn(pool)' /\ TurnIn(pool)'
  BY <1>0, <1>a DEF Core, FreshIn, TurnIn, Running
<1>5. LeaseIn(pool)'
  BY <1>0, <1>a DEF Core, LeaseIn
<1>6. AckIn(pool)'
  <2>1. r = "cancelled" => cancelled[t] = "acknowledged"
    BY <1>0 DEF Core, CreatingIn
  <2>2. \A u \in Turns : u # t /\ pc[u] = "creating" => Owner[u] # s
    BY <1>0 DEF Core, CreatingIn
  <2>3. QED
    BY <1>0, <1>a, <2>1, <2>2 DEF Core, AckIn, sdkVars
<1>7. SdkInv'
  BY <1>0, <1>a DEF SdkInv, sdkVars, TypeOK, SomeTurn
<1>8. QED
  BY <1>1, <1>2, <1>3, <1>4, <1>5, <1>6, <1>7 DEF Core

\* The session a turn has created is published, with the turn on it.
LEMMA PublishStep ==
    ASSUME TypeOK, SdkInv, Core(pool),
           NEW t \in Turns, pc[t] = "creating", Owner[t] \notin pool.cancelledCreations,
           pool'.sessions = pool.sessions \cup {t},
           pool'.subagentMap = [pool.subagentMap EXCEPT ![Owner[t]] = t],
           pool'.busy = pool.busy \cup {t},
           pool'.lease = [pool.lease EXCEPT ![t] = [task |-> t, state |-> "admitted"]],
           pool'.creating = [pool.creating EXCEPT ![Owner[t]] = NoTurn],
           pool'.cancelledCreations = pool.cancelledCreations,
           on' = [on EXCEPT ![t] = t], pc' = [pc EXCEPT ![t] = "leased"],
           UNCHANGED <<res, sdkVars, cancelled>>
    PROVE  Core(pool)' /\ SdkInv'
<1> DEFINE s == Owner[t]
<1>0. /\ s \in Subagents /\ t # NoTurn /\ pool.creating[s] = t
      /\ t \notin pool.sessions /\ t \notin pool.busy /\ \A u \in Turns : on[u] # t
      /\ pool.sessions \subseteq Turns
  BY PoolOwnerAssumption, NoTurnAssumption
     DEF Pools, TypeOK, Core, CreatingIn, FreshIn, TurnIn
<1>a. /\ \A q \in Subagents : pool'.creating[q] = IF q = s THEN NoTurn ELSE pool.creating[q]
      /\ \A q \in Subagents : pool'.subagentMap[q] = IF q = s THEN t ELSE pool.subagentMap[q]
      /\ \A q \in Subagents : pool.creating[q] # NoTurn => pool.creating[q] \in Turns
      /\ \A y \in Turns : pool'.lease[y] =
            IF y = t THEN [task |-> t, state |-> "admitted"] ELSE pool.lease[y]
      /\ \A u \in Turns : pc'[u] = IF u = t THEN "leased" ELSE pc[u]
      /\ \A u \in Turns : on'[u] = IF u = t THEN t ELSE on[u]
  BY <1>0 DEF Pools, SomeTurn, TypeOK
<1>b. \A q \in Subagents : q # s => pool.creating[q] # t
  BY <1>0 DEF Core, CreatingIn
<1>1. CapacityIn(pool)'
  <2>1. Creating(pool') = Creating(pool) \ {s} /\ s \in Creating(pool)
    BY <1>0, <1>a DEF Creating
  <2>2. /\ IsFiniteSet(Creating(pool)) /\ IsFiniteSet(pool.sessions)
        /\ Cardinality(Creating(pool)) \in Nat /\ Cardinality(pool.sessions) \in Nat
        /\ Cardinality(pool.sessions) + Cardinality(Creating(pool)) <= MaxHot
    BY FS_CardinalityType DEF Core, CapacityIn
  <2>3. /\ IsFiniteSet(Creating(pool'))
        /\ Cardinality(Creating(pool')) = Cardinality(Creating(pool)) - 1
    <3>1. /\ IsFiniteSet(Creating(pool) \ {s})
          /\ Cardinality(Creating(pool) \ {s}) = Cardinality(Creating(pool)) - 1
      BY <2>1, <2>2, FS_RemoveElement
    <3>2. QED
      BY <2>1, <3>1
  <2>4. /\ IsFiniteSet(pool'.sessions)
        /\ Cardinality(pool'.sessions) = Cardinality(pool.sessions) + 1
    <3>1. /\ IsFiniteSet(pool.sessions \cup {t})
          /\ Cardinality(pool.sessions \cup {t}) = Cardinality(pool.sessions) + 1
      BY <1>0, <2>2, FS_AddElement
    <3>2. QED
      BY <3>1
  <2>5. Cardinality(pool'.sessions) + Cardinality(Creating(pool')) <= MaxHot
    BY <2>2, <2>3, <2>4, MaxHotAssumption
  <2>6. QED
    BY <2>3, <2>4, <2>5 DEF CapacityIn, Creating
<1>2. OneIn(pool)'
  <2>1. \A x \in pool.sessions : Owner[x] # s
    BY <1>0, NoTurnAssumption DEF Core, OneIn
  <2>2. QED
    BY <1>0, <1>a, <2>1 DEF Core, OneIn
<1>3. CreatingIn(pool)'
  <2>1. \A u \in Turns : Owner[u] \in Subagents
    BY PoolOwnerAssumption
  <2>2. \A u \in Turns : pc'[u] = "creating" => pool'.creating[Owner[u]] = u
    BY <1>0, <1>a, <2>1 DEF Core, CreatingIn
  <2>3. \A q \in Subagents : pool'.creating[q] # NoTurn =>
          Owner[pool'.creating[q]] = q /\ pc'[pool'.creating[q]] = "creating"
    BY <1>a, <1>b DEF Core, CreatingIn
  <2>4. \A q \in pool'.cancelledCreations :
          pool'.creating[q] # NoTurn /\ cancelled[pool'.creating[q]] = "acknowledged"
    BY <1>0, <1>a DEF Core, CreatingIn, Pools, TypeOK
  <2>5. QED
    BY <2>2, <2>3, <2>4 DEF CreatingIn
<1>4. FreshIn(pool)'
  BY <1>0, <1>a DEF Core, FreshIn
<1>5. TurnIn(pool)'
  BY <1>0, <1>a DEF Core, TurnIn, Running
<1>6. LeaseIn(pool)'
  <2> SUFFICES ASSUME NEW y \in Turns PROVE LeaseIn(pool)!(y)'
    BY DEF LeaseIn
  <2>1. CASE y = t
    BY <1>a, <2>1 DEF LeaseIn
  <2>2. CASE y # t
    <3>1. pool'.lease[y] = pool.lease[y] /\ (y \in pool'.busy <=> y \in pool.busy)
      BY <1>a, <2>2
    <3>2. QED
      BY <1>a, <3>1 DEF Core, LeaseIn
  <2>3. QED
    BY <2>1, <2>2
<1>7. AckIn(pool)'
  <2>1. cancelled[t] # "acknowledged"
    BY DEF Core, AckIn
  <2>2. \A u \in Turns : u # t /\ pc[u] = "leased" => on[u] \in Turns /\ on[u] # t
    BY <1>0 DEF Core, TurnIn, Running
  <2>3. QED
    BY <1>0, <1>a, <2>1, <2>2 DEF Core, AckIn, sdkVars
<1>8. SdkInv'
  BY <1>0, <1>a DEF SdkInv, sdkVars, TypeOK, SomeTurn
<1>9. QED
  BY <1>1, <1>2, <1>3, <1>4, <1>5, <1>6, <1>7, <1>8 DEF Core

\* An admitted turn is handed to the SDK.
LEMMA StartStep ==
    ASSUME TypeOK, SdkInv, Core(pool), NEW t \in Turns, pc[t] = "leased",
           pool.lease[on[t]].state = "admitted", pool.lease[on[t]].task = t,
           pool' = [pool EXCEPT !.lease[on[t]].state = "started"],
           pc' = [pc EXCEPT ![t] = "prompt"],
           gen' = [gen EXCEPT ![on[t]] = t], active' = [active EXCEPT ![on[t]] = t],
           UNCHANGED <<on, res, cancelledGen, cancelled>>
    PROVE  Core(pool)' /\ SdkInv'
<1> DEFINE x == on[t]
<1>0. /\ x \in Turns /\ t # NoTurn
      /\ \A u \in Turns : pc[u] \in Running /\ on[u] = x => u = t
  BY NoTurnAssumption DEF Core, TurnIn, Running
<1>1. /\ pool'.sessions = pool.sessions /\ pool'.subagentMap = pool.subagentMap
      /\ pool'.busy = pool.busy /\ pool'.creating = pool.creating
      /\ pool'.cancelledCreations = pool.cancelledCreations
      /\ pool'.lease = [pool.lease EXCEPT ![x].state = "started"]
  BY <1>0 DEF TypeOK, Pools
<1>2. /\ \A u \in Turns : pc'[u] = IF u = t THEN "prompt" ELSE pc[u]
      /\ \A y \in Turns : gen'[y] = IF y = x THEN t ELSE gen[y]
      /\ \A y \in Turns : active'[y] = IF y = x THEN t ELSE active[y]
  BY <1>0 DEF TypeOK
<1>3. /\ pool'.lease[x].task = t /\ pool'.lease[x].state = "started"
      /\ \A y \in Turns : y # x => pool'.lease[y] = pool.lease[y]
  BY <1>0, <1>1 DEF TypeOK, Pools, Leases
<1>4. CapacityIn(pool)' /\ OneIn(pool)'
  BY <1>1 DEF Core, CapacityIn, OneIn, Creating
<1>5. CreatingIn(pool)'
  <2>1. \A q \in Subagents : pool.creating[q] # NoTurn => pool.creating[q] \in Turns
    BY DEF Pools, SomeTurn, TypeOK
  <2>2. QED
    BY <1>1, <1>2, <2>1 DEF Core, CreatingIn
<1>6. FreshIn(pool)' /\ TurnIn(pool)'
  BY <1>1, <1>2 DEF Core, FreshIn, TurnIn, Running
<1>7. x \in pool.busy
  <2>1. x \notin pool.busy => pool.lease[x] = NoLease
    BY <1>0 DEF Core, LeaseIn
  <2>2. QED
    BY <2>1 DEF NoLease
<1>8. LeaseIn(pool)'
  <2> SUFFICES ASSUME NEW y \in Turns PROVE LeaseIn(pool)!(y)'
    BY DEF LeaseIn
  <2>1. CASE y = x
    BY <1>1, <1>2, <1>3, <1>7, <2>1 DEF LeaseIn
  <2>2. CASE y # x
    <3>1. y \in pool.busy => pool.lease[y].task # t
      BY <2>2 DEF Core, LeaseIn
    <3>2. pool'.lease[y] = pool.lease[y] /\ (y \in pool'.busy <=> y \in pool.busy)
      BY <1>1, <1>3, <2>2
    <3>3. QED
      BY <1>2, <3>1, <3>2 DEF Core, LeaseIn
  <2>3. QED
    BY <2>1, <2>2
<1>9. AckIn(pool)'
  <2>1. cancelled[t] # "acknowledged"
    BY DEF Core, AckIn
  <2>2. \A u \in Turns : u # t /\ pc[u] = "leased" => on[u] \in Turns /\ on[u] # x
    BY <1>0 DEF Core, TurnIn, Running
  <2>3. QED
    BY <1>1, <1>2, <1>3, <2>1, <2>2 DEF Core, AckIn
<1>10. SdkInv'
  <2>1. \A u \in Turns : pc[u] = "prompt" => on[u] \in Turns /\ on[u] # x
    BY <1>0 DEF Core, TurnIn, Running
  <2>2. \A y \in Turns : active[y] # NoTurn => active[y] \in Turns
    BY DEF TypeOK, SomeTurn
  <2>3. QED
    BY <1>0, <1>2, <2>1, <2>2 DEF SdkInv
<1>11. QED
  BY <1>4, <1>5, <1>6, <1>8, <1>9, <1>10 DEF Core

\* A turn ends, and its session with it or not.
LEMMA EndStep ==
    ASSUME TypeOK, SdkInv, NEW p, p \in Pools, Core(p), NEW t \in Turns, pc[t] \in Running,
           Ended(p, pool', on[t]),
           NEW r \in {"completed", "failed", "cancelled"}, Answer(t, r),
           r = "cancelled" => cancelled[t] = "acknowledged",
           cancelled[t] = "acknowledged" => r # "completed",
           \A y \in Turns : active'[y] = IF active[y] = t THEN NoTurn ELSE active[y],
           UNCHANGED <<on, gen, cancelledGen, cancelled>>
    PROVE  Core(pool)' /\ SdkInv'
<1> USE DEF Ended
<1> DEFINE x == on[t]
<1>0. /\ x \in Turns /\ t # NoTurn
      /\ \A u \in Turns : pc[u] \in Running /\ on[u] = x => u = t
  BY NoTurnAssumption DEF Core, TurnIn
<1>1. /\ \A u \in Turns : pc'[u] = IF u = t THEN "done" ELSE pc[u]
      /\ \A u \in Turns : res'[u] = IF u = t THEN r ELSE res[u]
      /\ \A y \in Turns : pool'.lease[y] = IF y = x THEN NoLease ELSE p.lease[y]
  BY DEF TypeOK, Pools, Answer
<1>2. CapacityIn(pool)' /\ OneIn(pool)'
  BY DEF Core, CapacityIn, OneIn, Creating
<1>3. CreatingIn(pool)'
  <2>1. \A q \in Subagents : p.creating[q] # NoTurn => p.creating[q] \in Turns
    BY DEF Pools, SomeTurn
  <2>2. pc[t] # "creating"
    BY DEF Running
  <2>3. QED
    BY <1>1, <2>1, <2>2 DEF Core, CreatingIn
<1>4. FreshIn(pool)'
  BY <1>1 DEF Core, FreshIn
<1>5. TurnIn(pool)'
  BY <1>0, <1>1 DEF Core, TurnIn, Running
<1>6. LeaseIn(pool)'
  <2> SUFFICES ASSUME NEW y \in Turns PROVE LeaseIn(pool)!(y)'
    BY DEF LeaseIn
  <2>1. CASE y = x
    BY <1>1, <2>1 DEF LeaseIn
  <2>2. CASE y # x
    <3>1. y \in p.busy => p.lease[y].task # t
      BY <2>2 DEF Core, LeaseIn
    <3>2. pool'.lease[y] = p.lease[y] /\ (y \in pool'.busy <=> y \in p.busy)
      BY <1>1, <2>2
    <3>3. QED
      BY <1>1, <3>1, <3>2 DEF Core, LeaseIn
  <2>3. QED
    BY <2>1, <2>2
<1>7. AckIn(pool)'
  <2>1. \A u \in Turns : u # t /\ pc[u] = "leased" => on[u] \in Turns /\ on[u] # x
    BY <1>0 DEF Core, TurnIn, Running
  <2>2. QED
    BY <1>1, <2>1 DEF Core, AckIn
<1>8. SdkInv'
  <2>1. \A u \in Turns : pc[u] = "prompt" => on[u] \in Turns
    BY DEF Core, TurnIn, Running
  <2>2. \A y \in Turns : active[y] # NoTurn => active[y] \in Turns
    BY DEF TypeOK, SomeTurn
  <2>3. QED
    BY <1>0, <1>1, <2>1, <2>2 DEF SdkInv
<1>9. QED
  BY <1>2, <1>3, <1>4, <1>5, <1>6, <1>7, <1>8 DEF Core

\* Closing the turn's session after its end is ending it in the closed pool.
LEMMA FinallyFacts ==
    ASSUME TypeOK, Core(pool), NEW t \in Turns, on[t] \in Turns, NEW ok \in BOOLEAN,
           Finally(t, pool, ok)
    PROVE  /\ PoolOK(pool')
           /\ \E p \in Pools : Core(p) /\ Ended(p, pool', on[t])
           /\ pool.sessions \subseteq pool'.sessions \/ (on[t] = t /\ pool.sessions \subseteq pool'.sessions \cup {t})
<1> DEFINE x == on[t]
           q == EndTurn(pool, x)
<1>0. PoolOK(pool) /\ pool \in Pools /\ pool.lease \in [Turns -> Leases]
  BY DEF TypeOK, PoolOK, Pools
<1>1. /\ PoolOK(q)
      /\ q.sessions = pool.sessions /\ q.subagentMap = pool.subagentMap
      /\ q.busy = pool.busy \ {x}
      /\ q.lease = [pool.lease EXCEPT ![x] = NoLease]
      /\ q.creating = pool.creating /\ q.cancelledCreations = pool.cancelledCreations
  BY <1>0, EndTurnFacts DEF Ended
<1>2. pool' = IF x = t /\ ~ok THEN CloseSessions(q, {t}) ELSE q
  BY DEF Finally
<1> HIDE DEF q
<1>3. CASE ~(x = t /\ ~ok)
  <2>1. pool' = q
    BY <1>2, <1>3
  <2>2. QED
    BY <1>0, <1>1, <2>1 DEF Ended
<1>4. CASE x = t /\ ~ok
  <2> DEFINE p == CloseSessions(pool, {t})
             C == {t} \cap pool.sessions
  <2>1. /\ PoolOK(p) /\ ClosedBy(pool, p, C)
    BY <1>0, CloseFacts
  <2>2. PoolOK(pool') /\ ClosedBy(q, pool', C)
    BY <1>1, <1>2, <1>4, CloseFacts
  <2>3. Core(p) /\ p \in Pools
    BY <1>0, <2>1, CloseKeeps DEF PoolOK
  <2> HIDE DEF p
  <2>4. /\ pool'.sessions = p.sessions /\ pool'.subagentMap = p.subagentMap
        /\ pool'.creating = p.creating /\ pool'.cancelledCreations = p.cancelledCreations
    BY <1>1, <2>1, <2>2 DEF ClosedBy
  <2>5. pool'.busy = p.busy \ {x}
    BY <1>1, <2>1, <2>2 DEF ClosedBy
  <2>6. pool'.lease = [p.lease EXCEPT ![x] = NoLease]
    <3>1. q.lease = [pool.lease EXCEPT ![x] = NoLease]
      BY <1>1
    <3>2. pool'.lease = [y \in Turns |-> IF y \in C THEN NoLease ELSE q.lease[y]]
      BY <2>2 DEF ClosedBy
    <3>3. p.lease = [y \in Turns |-> IF y \in C THEN NoLease ELSE pool.lease[y]]
      BY <2>1 DEF ClosedBy
    <3>4. QED
      BY <1>0, <3>1, <3>2, <3>3
  <2>7. pool.sessions \subseteq pool'.sessions \cup {t}
    BY <1>1, <2>2 DEF ClosedBy
  <2>8. Ended(p, pool', x)
    BY <2>4, <2>5, <2>6 DEF Ended
  <2>9. QED
    BY <1>4, <2>2, <2>3, <2>7, <2>8
<1>5. QED
  BY <1>3, <1>4

-----------------------------------------------------------------------------
(* session.cancel.                                                         *)

\* A cancel that is declined marks nothing.
LEMMA DeclineStep ==
    ASSUME TypeOK, SdkInv, Core(pool), Same(pool, pool'), NEW t \in Turns,
           cancelled[t] = "none", Decline(t), UNCHANGED <<turnVars, sdkVars>>
    PROVE  Core(pool)' /\ SdkInv'
<1> USE DEF Same, turnVars, sdkVars
<1>1. \A u \in Turns : cancelled'[u] = "acknowledged" <=> cancelled[u] = "acknowledged"
  BY DEF Decline, TypeOK
<1>2. CapacityIn(pool)' /\ OneIn(pool)' /\ FreshIn(pool)' /\ TurnIn(pool)'
  BY DEF Core, CapacityIn, OneIn, Creating, FreshIn, TurnIn
<1>3. CreatingIn(pool)'
  <2>1. \A s \in Subagents : pool.creating[s] # NoTurn => pool.creating[s] \in Turns
    BY DEF TypeOK, Pools, SomeTurn
  <2>2. pool.cancelledCreations \subseteq Subagents
    BY DEF TypeOK, Pools
  <2>3. QED
    BY <1>1, <2>1, <2>2 DEF Core, CreatingIn
<1>4. LeaseIn(pool)'
  BY <1>1 DEF Core, LeaseIn
<1>5. AckIn(pool)'
  BY <1>1 DEF Core, AckIn
<1>6. SdkInv'
  BY <1>1 DEF SdkInv, TypeOK, SomeTurn
<1>7. QED
  BY <1>2, <1>3, <1>4, <1>5, <1>6 DEF Core

\* The creation of a session is marked as cancelled.
LEMMA MarkStep ==
    ASSUME TypeOK, SdkInv, Core(pool), NEW t \in Turns, pool.creating[Owner[t]] = t,
           pool' = [pool EXCEPT !.cancelledCreations = @ \cup {Owner[t]}],
           Acknowledge(t), UNCHANGED <<turnVars, sdkVars>>
    PROVE  Core(pool)' /\ SdkInv'
<1> USE DEF turnVars, sdkVars
<1>0. /\ pool'.sessions = pool.sessions /\ pool'.subagentMap = pool.subagentMap
      /\ pool'.busy = pool.busy /\ pool'.lease = pool.lease
      /\ pool'.creating = pool.creating
      /\ pool'.cancelledCreations = pool.cancelledCreations \cup {Owner[t]}
      /\ Owner[t] \in Subagents /\ t # NoTurn
  BY PoolOwnerAssumption, NoTurnAssumption DEF TypeOK, Pools
<1>1. \A u \in Turns : cancelled'[u] = IF u = t THEN "acknowledged" ELSE cancelled[u]
  BY DEF Acknowledge, TypeOK
<1>2. CapacityIn(pool)' /\ OneIn(pool)' /\ FreshIn(pool)' /\ TurnIn(pool)'
  BY <1>0 DEF Core, CapacityIn, OneIn, Creating, FreshIn, TurnIn
<1>3. CreatingIn(pool)' /\ pc[t] = "creating"
  <2>1. \A s \in Subagents : pool.creating[s] # NoTurn => pool.creating[s] \in Turns
    BY DEF TypeOK, Pools, SomeTurn
  <2>2. pool.cancelledCreations \subseteq Subagents
    BY DEF TypeOK, Pools
  <2>3. QED
    BY <1>0, <1>1, <2>1, <2>2 DEF Core, CreatingIn
<1>4. LeaseIn(pool)'
  BY <1>0, <1>1 DEF Core, LeaseIn
<1>5. AckIn(pool)'
  <2>1. res[t] = "none"
    BY <1>3 DEF Core, AckIn
  <2>2. QED
    BY <1>0, <1>1, <1>3, <2>1 DEF Core, AckIn
<1>6. SdkInv'
  BY <1>1 DEF SdkInv, TypeOK, SomeTurn
<1>7. QED
  BY <1>2, <1>3, <1>4, <1>5, <1>6 DEF Core

\* The lease of a turn that has not started is marked as cancelled.
LEMMA CancelLeaseStep ==
    ASSUME TypeOK, SdkInv, Core(pool), NEW t \in Turns, NEW x \in Turns,
           pool.lease[x].task = t, pool.lease[x].state \in {"admitted", "cancelled"},
           pool' = [pool EXCEPT !.lease[x].state = "cancelled"],
           Acknowledge(t), UNCHANGED <<turnVars, sdkVars>>
    PROVE  Core(pool)' /\ SdkInv'
<1> USE DEF turnVars, sdkVars
<1>0. /\ pool'.sessions = pool.sessions /\ pool'.subagentMap = pool.subagentMap
      /\ pool'.busy = pool.busy /\ pool'.creating = pool.creating
      /\ pool'.cancelledCreations = pool.cancelledCreations
      /\ pool'.lease = [pool.lease EXCEPT ![x].state = "cancelled"]
  BY DEF TypeOK, Pools
<1>1. /\ pool'.lease[x].task = t /\ pool'.lease[x].state = "cancelled"
      /\ \A y \in Turns : y # x => pool'.lease[y] = pool.lease[y]
  BY <1>0 DEF TypeOK, Pools, Leases
<1>2. \A u \in Turns : cancelled'[u] = IF u = t THEN "acknowledged" ELSE cancelled[u]
  BY DEF Acknowledge, TypeOK
<1>3. x \in pool.busy
  <2>1. x \notin pool.busy => pool.lease[x] = NoLease
    BY DEF Core, LeaseIn
  <2>2. QED
    BY <2>1 DEF NoLease
<1>4. on[t] = x /\ pc[t] = "leased"
  BY <1>3 DEF Core, LeaseIn
<1>5. CapacityIn(pool)' /\ OneIn(pool)' /\ FreshIn(pool)' /\ TurnIn(pool)'
  BY <1>0 DEF Core, CapacityIn, OneIn, Creating, FreshIn, TurnIn
<1>6. CreatingIn(pool)'
  <2>1. \A s \in Subagents : pool.creating[s] # NoTurn => pool.creating[s] \in Turns
    BY DEF TypeOK, Pools, SomeTurn
  <2>2. pool.cancelledCreations \subseteq Subagents
    BY DEF TypeOK, Pools
  <2>3. QED
    BY <1>0, <1>2, <2>1, <2>2 DEF Core, CreatingIn
<1>7. LeaseIn(pool)'
  <2> SUFFICES ASSUME NEW y \in Turns PROVE LeaseIn(pool)!(y)'
    BY DEF LeaseIn
  <2>1. CASE y = x
    BY <1>0, <1>1, <1>2, <1>3, <1>4, <2>1 DEF LeaseIn
  <2>2. CASE y # x
    <3>1. pool'.lease[y] = pool.lease[y] /\ (y \in pool'.busy <=> y \in pool.busy)
      BY <1>0, <1>1, <2>2
    <3>2. QED
      BY <1>2, <3>1 DEF Core, LeaseIn
  <2>3. QED
    BY <2>1, <2>2
<1>8. AckIn(pool)'
  <2>1. \A u \in Turns : u # t /\ pc[u] = "leased" => on[u] \in Turns /\ on[u] # x
    BY <1>4 DEF Core, TurnIn, Running
  <2>2. res[t] = "none"
    BY <1>4 DEF Core, AckIn
  <2>3. QED
    BY <1>0, <1>1, <1>2, <1>4, <2>1, <2>2 DEF Core, AckIn
<1>9. SdkInv'
  BY <1>2 DEF SdkInv, TypeOK, SomeTurn
<1>10. QED
  BY <1>5, <1>6, <1>7, <1>8, <1>9 DEF Core

\* The generation of the turn in the SDK's hands is marked as cancelled.
LEMMA AbortStep ==
    ASSUME TypeOK, SdkInv, Core(pool), NEW t \in Turns, NEW x \in Turns,
           AbortActive(t, x), UNCHANGED turnVars
    PROVE  Core(pool)' /\ SdkInv'
<1> USE DEF turnVars
<1>0. /\ active[x] = t /\ UNCHANGED <<gen, active>> /\ t # NoTurn
      /\ cancelledGen' = [cancelledGen EXCEPT ![x] = gen[x]]
      /\ pool' = [pool EXCEPT !.cancelCleanup = @ \cup {x}]
      /\ cancelled' = [cancelled EXCEPT ![t] = "acknowledged"]
  BY NoTurnAssumption DEF AbortActive, Acknowledge
<1>1. pc[t] = "prompt" /\ on[t] = x /\ gen[x] = t
  BY <1>0 DEF SdkInv
<1>2. Same(pool, pool')
  BY <1>0 DEF Same, TypeOK, Pools
<1>3. /\ \A u \in Turns : cancelled'[u] = IF u = t THEN "acknowledged" ELSE cancelled[u]
      /\ \A y \in Turns : cancelledGen'[y] = IF y = x THEN t ELSE cancelledGen[y]
  BY <1>0, <1>1 DEF TypeOK
<1> USE DEF Same
<1>4. CapacityIn(pool)' /\ OneIn(pool)' /\ FreshIn(pool)' /\ TurnIn(pool)'
  BY <1>2 DEF Core, CapacityIn, OneIn, Creating, FreshIn, TurnIn
<1>5. CreatingIn(pool)'
  <2>1. \A s \in Subagents : pool.creating[s] # NoTurn => pool.creating[s] \in Turns
    BY DEF TypeOK, Pools, SomeTurn
  <2>2. pool.cancelledCreations \subseteq Subagents
    BY DEF TypeOK, Pools
  <2>3. QED
    BY <1>2, <1>3, <2>1, <2>2 DEF Core, CreatingIn
<1>6. LeaseIn(pool)'
  BY <1>2, <1>3 DEF Core, LeaseIn
<1>7. AckIn(pool)'
  <2>1. \A u \in Turns : u # t /\ pc[u] = "prompt" => on[u] \in Turns /\ on[u] # x
    BY <1>1 DEF Core, TurnIn, Running
  <2>2. res[t] = "none"
    BY <1>1 DEF Core, AckIn
  <2>3. QED
    BY <1>1, <1>2, <1>3, <2>1, <2>2 DEF Core, AckIn
<1>8. SdkInv'
  BY <1>0, <1>3 DEF SdkInv, TypeOK, SomeTurn
<1>9. QED
  BY <1>4, <1>5, <1>6, <1>7, <1>8 DEF Core

-----------------------------------------------------------------------------
(* The actions.                                                            *)

LEMMA InitInv == Init => Inv
<1> SUFFICES ASSUME Init PROVE Inv
  OBVIOUS
<1>1. /\ pool.sessions = {} /\ pool.busy = {} /\ pool.cancelledCreations = {}
      /\ pool.subagentMap = [s \in Subagents |-> NoTurn]
      /\ pool.creating = [s \in Subagents |-> NoTurn]
      /\ pool.lease = [x \in Turns |-> NoLease]
      /\ pool.evicting = {} /\ pool.agedEvictions = {}
  BY DEF Init
<1>2. NoLease \in Leases /\ NoTurn \in SomeTurn /\ << >> \in Seq(Turns)
  BY DEF NoLease, Leases, SomeTurn
<1>3. pool \in Pools
  BY <1>2 DEF Init, Pools
<1>4. TypeOK
  BY <1>1, <1>2, <1>3 DEF Init, TypeOK
<1>5. CapacityIn(pool)
  <2>1. Creating(pool) = {}
    BY <1>1 DEF Creating
  <2>2. IsFiniteSet({}) /\ Cardinality({}) = 0
    BY FS_EmptySet
  <2>3. QED
    BY <1>1, <2>1, <2>2, MaxHotAssumption DEF CapacityIn
<1>6. OneIn(pool) /\ CreatingIn(pool) /\ FreshIn(pool) /\ TurnIn(pool)
  BY <1>1, NoTurnAssumption DEF Init, OneIn, CreatingIn, FreshIn, TurnIn, Running
<1>7. LeaseIn(pool) /\ AckIn(pool) /\ SdkInv
  BY <1>1 DEF Init, LeaseIn, AckIn, SdkInv
<1>8. QED
  BY <1>4, <1>5, <1>6, <1>7 DEF Inv, Core

\* The housekeeping at the head of ensureForTurn leaves busy sessions alone.
LEMMA EnsurePool ==
    ASSUME TypeOK, Core(pool), NEW p,
           p = EvictExpiredPending(ReleaseExpiredEvictions(pool))
    PROVE  PoolOK(p) /\ Core(p) /\ p.busy = pool.busy
<1> DEFINE r == ReleaseExpiredEvictions(pool)
           C == (r.agedPending \ r.busy) \cap r.sessions
<1>1. PoolOK(pool)
  BY DEF TypeOK, PoolOK
<1>2. PoolOK(r) /\ Same(pool, r)
  BY <1>1, ReleaseFacts
<1>3. Core(r)
  BY <1>1, <1>2, SameCloses, CloseKeeps DEF PoolOK
<1>4. p = CloseSessions(r, r.agedPending \ r.busy)
  BY DEF EvictExpiredPending
<1> HIDE DEF r
<1>5. PoolOK(p) /\ ClosedBy(r, p, C)
  BY <1>2, <1>4, CloseFacts
<1>6. Core(p)
  BY <1>2, <1>3, <1>5, CloseKeeps DEF PoolOK
<1>7. p.busy = pool.busy
  BY <1>2, <1>5 DEF ClosedBy, Same
<1>8. QED
  BY <1>5, <1>6, <1>7

\* The miss path: refused, turned away with a candidate, or a creation.
LEMMA MissStep ==
    ASSUME TypeOK, SdkInv, NEW q, PoolOK(q), Core(q), NEW t \in Turns, pc[t] = "none",
           q.subagentMap[Owner[t]] = NoTurn, EnsureMiss(t, q),
           UNCHANGED <<sdkVars, cancelled>>
    PROVE  Inv' /\ pool'.sessions = q.sessions
<1> DEFINE s == Owner[t]
           full == Cardinality(q.sessions) + Cardinality(Creating(q)) >= MaxHot
<1>0. q \in Pools /\ s \in Subagents
  BY PoolOwnerAssumption DEF PoolOK
<1>1. CASE /\ pool' = q /\ Answer(t, "all_busy")
           /\ UNCHANGED <<on, candidate>>
  <2>1. Same(q, pool')
    BY <1>1 DEF Same
  <2>2. Core(pool)' /\ SdkInv'
    BY <1>0, <1>1, <2>1, RefuseStep
  <2>3. TypeOK'
    BY <1>1 DEF PoolOK, TypeOK, Answer, sdkVars
  <2>4. QED
    BY <1>1, <2>2, <2>3 DEF Inv
<1>2. CASE /\ Evictable(q) # {}
           /\ pool' = [q EXCEPT !.evicting = @ \cup {LruCandidate(q)}]
           /\ candidate' = [candidate EXCEPT ![t] = LruCandidate(q)]
           /\ Answer(t, "limit") /\ UNCHANGED on
  <2>1. LruCandidate(q) \in Turns
    BY <1>0, <1>2, CandidateListed
  <2>2. Same(q, pool') /\ PoolOK(pool')
    BY <1>2, <2>1 DEF Same, PoolOK, Pools
  <2>3. Core(pool)' /\ SdkInv'
    BY <1>0, <1>2, <2>2, RefuseStep
  <2>4. TypeOK'
    BY <1>2, <2>1, <2>2 DEF PoolOK, TypeOK, Answer, sdkVars, SomeTurn
  <2>5. QED
    BY <2>2, <2>3, <2>4 DEF Inv, Same
<1>3. CASE /\ q.creating[s] = NoTurn /\ ~full
           /\ pool' = [q EXCEPT !.creating[s] = t]
           /\ pc' = [pc EXCEPT ![t] = "creating"]
           /\ UNCHANGED <<on, res, candidate>>
  <2>1. Core(pool)' /\ SdkInv'
    BY <1>0, <1>3, ReserveStep
  <2>2. PoolOK(pool') /\ pool'.sessions = q.sessions
    <3>1. [q.creating EXCEPT ![s] = t] \in [Subagents -> SomeTurn]
      BY <1>0 DEF Pools, SomeTurn
    <3>2. pool' = [q EXCEPT !.creating = [q.creating EXCEPT ![s] = t]]
      BY <1>0, <1>3
    <3>3. QED
      BY <3>1, <3>2 DEF PoolOK, Pools
  <2>3. TypeOK'
    BY <1>3, <2>2 DEF PoolOK, TypeOK, sdkVars
  <2>4. QED
    BY <2>1, <2>2, <2>3 DEF Inv
<1>4. QED
  BY <1>1, <1>2, <1>3 DEF EnsureMiss

LEMMA EnsureStep ==
    ASSUME Inv, NEW t \in Turns, Ensure(t)
    PROVE  Inv' /\ pool.busy \subseteq pool'.sessions
<1> DEFINE p == EvictExpiredPending(ReleaseExpiredEvictions(pool))
           s == Owner[t]
           x == p.subagentMap[s]
           hit == x # NoTurn /\ x \in p.sessions
           unavailable == x \in p.evicting \cup cancelPending \cup p.busy
<1>0. TypeOK /\ SdkInv /\ Core(pool) /\ s \in Subagents
  BY PoolOwnerAssumption DEF Inv
<1>1. /\ pc[t] = "none" /\ UNCHANGED <<sdkVars, cancelled>>
      /\ \/ /\ hit /\ unavailable
            /\ pool' = p
            /\ Answer(t, "all_busy")
            /\ UNCHANGED <<on, candidate>>
         \/ /\ hit /\ ~unavailable
            /\ pool' = AcquireTurn(Touch(p, x), x, t)
            /\ on' = [on EXCEPT ![t] = x]
            /\ pc' = [pc EXCEPT ![t] = "leased"]
            /\ UNCHANGED <<res, candidate>>
         \/ /\ hit /\ ~unavailable
            /\ EnsureMiss(t, CloseSessions(p, {x}))
         \/ /\ ~hit
            /\ EnsureMiss(t, [p EXCEPT !.subagentMap[s] = NoTurn])
  BY DEF Ensure
<1>2. PoolOK(p) /\ Core(p) /\ p.busy = pool.busy
  BY <1>0, EnsurePool
<1> HIDE DEF p
<1>3. p \in Pools /\ p.busy \subseteq p.sessions
  BY <1>2 DEF PoolOK, Core, TurnIn
<1>4. CASE /\ pool' = p /\ Answer(t, "all_busy") /\ UNCHANGED <<on, candidate>>
  <2>1. Same(p, pool')
    BY <1>4 DEF Same
  <2>2. Core(pool)' /\ SdkInv'
    BY <1>0, <1>1, <1>2, <1>3, <1>4, <2>1, RefuseStep
  <2>3. TypeOK'
    BY <1>0, <1>1, <1>2, <1>4 DEF PoolOK, TypeOK, Answer, sdkVars
  <2>4. QED
    BY <1>2, <1>3, <1>4, <2>2, <2>3 DEF Inv
<1>5. CASE /\ hit /\ ~unavailable
           /\ pool' = AcquireTurn(Touch(p, x), x, t)
           /\ on' = [on EXCEPT ![t] = x]
           /\ pc' = [pc EXCEPT ![t] = "leased"]
           /\ UNCHANGED <<res, candidate>>
  <2>1. x \in Turns /\ x \in p.sessions /\ x \notin p.busy
    BY <1>3, <1>5 DEF Pools
  <2> DEFINE q == Touch(p, x)
  <2>2. PoolOK(q) /\ Same(p, q)
    BY <1>2, <2>1, TouchFacts
  <2> HIDE DEF x, q
  <2>3. /\ PoolOK(AcquireTurn(q, x, t))
        /\ pool'.sessions = q.sessions /\ pool'.subagentMap = q.subagentMap
        /\ pool'.busy = q.busy \cup {x}
        /\ pool'.lease = [q.lease EXCEPT ![x] = [task |-> t, state |-> "admitted"]]
        /\ pool'.creating = q.creating /\ pool'.cancelledCreations = q.cancelledCreations
    BY <1>5, <2>1, <2>2, AcquireFacts DEF q, x
  <2>4. /\ pool'.sessions = p.sessions /\ pool'.subagentMap = p.subagentMap
        /\ pool'.busy = p.busy \cup {x}
        /\ pool'.lease = [p.lease EXCEPT ![x] = [task |-> t, state |-> "admitted"]]
        /\ pool'.creating = p.creating /\ pool'.cancelledCreations = p.cancelledCreations
    BY <2>2, <2>3 DEF Same
  <2>5. /\ on' = [on EXCEPT ![t] = x] /\ pc' = [pc EXCEPT ![t] = "leased"]
        /\ UNCHANGED <<res, candidate>>
    BY <1>5 DEF x
  <2>6. Core(pool)' /\ SdkInv'
    BY <1>0, <1>1, <1>2, <1>3, <2>1, <2>4, <2>5, AdmitStep
  <2>7. PoolOK(pool')
    BY <1>5, <2>3 DEF q, x
  <2>8. TypeOK'
    BY <1>0, <1>1, <2>1, <2>5, <2>7 DEF PoolOK, TypeOK, sdkVars, SomeTurn, Running
  <2>9. QED
    BY <1>2, <1>3, <2>4, <2>6, <2>8 DEF Inv
<1>6. CASE hit /\ ~unavailable /\ EnsureMiss(t, CloseSessions(p, {x}))
  <2> DEFINE q == CloseSessions(p, {x})
  <2>1. PoolOK(q) /\ ClosedBy(p, q, {x} \cap p.sessions)
    BY <1>2, CloseFacts
  <2>2. Core(q)
    BY <1>0, <1>2, <1>3, <2>1, CloseKeeps
  <2>3. Owner[x] = s /\ x \in p.sessions /\ x \notin p.busy
    BY <1>0, <1>2, <1>6 DEF Core, OneIn
  <2>4. EnsureMiss(t, q)
    BY <1>6
  <2> HIDE DEF q, x
  <2>5. q.subagentMap[s] = NoTurn /\ p.busy \subseteq q.sessions
    BY <1>0, <1>3, <2>1, <2>3 DEF ClosedBy
  <2>6. Inv' /\ pool'.sessions = q.sessions
    BY <1>0, <1>1, <2>1, <2>2, <2>4, <2>5, MissStep
  <2>7. QED
    BY <1>2, <2>5, <2>6
<1>7. CASE ~hit /\ EnsureMiss(t, [p EXCEPT !.subagentMap[s] = NoTurn])
  <2> DEFINE q == [p EXCEPT !.subagentMap[s] = NoTurn]
  <2>1. x = NoTurn
    BY <1>0, <1>2, <1>7 DEF Core, OneIn
  <2>2. p.subagentMap = [p.subagentMap EXCEPT ![s] = NoTurn]
    BY <1>0, <1>3, <2>1 DEF Pools
  <2>3. q = p
    BY <1>3, <2>2 DEF Pools
  <2>4. EnsureMiss(t, p)
    BY <1>7, <2>3
  <2>5. Inv' /\ pool'.sessions = p.sessions
    BY <1>0, <1>1, <1>2, <2>1, <2>4, MissStep
  <2>6. QED
    BY <1>2, <1>3, <2>5
<1>8. QED
  BY <1>1, <1>4, <1>5, <1>6, <1>7

LEMMA CreatedStep ==
    ASSUME Inv, NEW t \in Turns, Created(t)
    PROVE  Inv' /\ pool.sessions \subseteq pool'.sessions
<1> DEFINE s == Owner[t]
<1>0. /\ TypeOK /\ SdkInv /\ Core(pool) /\ s \in Subagents /\ PoolOK(pool) /\ pool \in Pools
      /\ NoTurn \in SomeTurn /\ t \in SomeTurn
  BY PoolOwnerAssumption DEF Inv, PoolOK, TypeOK, SomeTurn
<1>1. pc[t] = "creating" /\ UNCHANGED <<candidate, sdkVars, cancelled>>
  BY DEF Created
<1>2. [pool.creating EXCEPT ![s] = NoTurn] \in [Subagents -> SomeTurn]
  BY <1>0 DEF Pools
<1>3. CASE s \in pool.cancelledCreations
  <2>1. /\ pool' = [pool EXCEPT !.creating[s] = NoTurn, !.cancelledCreations = @ \ {s}]
        /\ Answer(t, "cancelled") /\ UNCHANGED on
    BY <1>3 DEF Created
  <2>2. Core(pool)' /\ SdkInv'
    BY <1>0, <1>1, <1>3, <2>1, AbandonStep
  <2>3. PoolOK(pool') /\ pool'.sessions = pool.sessions
    BY <1>0, <1>2, <2>1 DEF PoolOK, Pools
  <2>4. TypeOK'
    BY <1>0, <1>1, <2>1, <2>3 DEF PoolOK, TypeOK, Answer, sdkVars
  <2>5. QED
    BY <2>2, <2>3, <2>4 DEF Inv
<1>4. CASE s \notin pool.cancelledCreations
  <2> DEFINE q == [pool EXCEPT !.creating[s] = NoTurn, !.sessions = @ \cup {t},
                               !.subagentMap[s] = t, !.pending = @ \cup {t}]
  <2>1. /\ pool' = AcquireTurn(q, t, t)
        /\ on' = [on EXCEPT ![t] = t] /\ pc' = [pc EXCEPT ![t] = "leased"] /\ UNCHANGED res
    BY <1>4 DEF Created
  <2>2. [pool.subagentMap EXCEPT ![s] = t] \in [Subagents -> SomeTurn]
    BY <1>0 DEF Pools
  <2>3. /\ PoolOK(q)
        /\ q.sessions = pool.sessions \cup {t}
        /\ q.subagentMap = [pool.subagentMap EXCEPT ![s] = t]
        /\ q.busy = pool.busy /\ q.lease = pool.lease
        /\ q.creating = [pool.creating EXCEPT ![s] = NoTurn]
        /\ q.cancelledCreations = pool.cancelledCreations
    BY <1>0, <1>2, <2>2 DEF PoolOK, Pools
  <2> HIDE DEF q
  <2>4. /\ PoolOK(pool')
        /\ pool'.sessions = q.sessions /\ pool'.subagentMap = q.subagentMap
        /\ pool'.busy = q.busy \cup {t}
        /\ pool'.lease = [q.lease EXCEPT ![t] = [task |-> t, state |-> "admitted"]]
        /\ pool'.creating = q.creating /\ pool'.cancelledCreations = q.cancelledCreations
    BY <2>1, <2>3, AcquireFacts
  <2>5. Core(pool)' /\ SdkInv'
    BY <1>0, <1>1, <1>4, <2>1, <2>3, <2>4, PublishStep
  <2>6. TypeOK'
    BY <1>0, <1>1, <2>1, <2>4 DEF PoolOK, TypeOK, sdkVars, Running
  <2>7. QED
    BY <2>3, <2>4, <2>5, <2>6 DEF Inv
<1>5. QED
  BY <1>3, <1>4

LEMMA CreateFailsStep ==
    ASSUME Inv, NEW t \in Turns, CreateFails(t)
    PROVE  Inv' /\ pool'.sessions = pool.sessions
<1> DEFINE s == Owner[t]
<1>0. TypeOK /\ SdkInv /\ Core(pool) /\ s \in Subagents /\ PoolOK(pool) /\ pool \in Pools
  BY PoolOwnerAssumption DEF Inv, PoolOK, TypeOK
<1>1. /\ pc[t] = "creating" /\ UNCHANGED <<on, candidate, sdkVars, cancelled>>
      /\ pool' = [pool EXCEPT !.creating[s] = NoTurn, !.cancelledCreations = @ \ {s}]
      /\ Answer(t, "failed")
  BY DEF CreateFails
<1>2. Core(pool)' /\ SdkInv'
  BY <1>0, <1>1, AbandonStep
<1>3. [pool.creating EXCEPT ![s] = NoTurn] \in [Subagents -> SomeTurn]
  BY <1>0 DEF Pools, SomeTurn
<1>4. PoolOK(pool') /\ pool'.sessions = pool.sessions
  BY <1>0, <1>1, <1>3 DEF PoolOK, Pools
<1>5. TypeOK'
  BY <1>0, <1>1, <1>4 DEF PoolOK, TypeOK, Answer, sdkVars
<1>6. QED
  BY <1>2, <1>4, <1>5 DEF Inv

\* A turn that is over, whatever it reports.
LEMMA EndingStep ==
    ASSUME Inv, NEW t \in Turns, pc[t] \in Running, NEW ok \in BOOLEAN,
           Finally(t, pool, ok), NEW r \in {"completed", "failed", "cancelled"}, Answer(t, r),
           r = "cancelled" => cancelled[t] = "acknowledged",
           cancelled[t] = "acknowledged" => r # "completed",
           \A y \in Turns : active'[y] = IF active[y] = t THEN NoTurn ELSE active[y],
           active' \in [Turns -> SomeTurn], cancelPending' \subseteq Turns,
           UNCHANGED <<on, candidate, gen, cancelledGen, cancelled>>
    PROVE  /\ Inv' /\ pc'[t] = "done"
           /\ \A x \in pool.sessions \ pool'.sessions : x = on[t]
<1>0. TypeOK /\ SdkInv /\ Core(pool) /\ on[t] \in Turns
  BY DEF Inv, Core, TurnIn
<1>1. /\ PoolOK(pool')
      /\ pool.sessions \subseteq pool'.sessions
            \/ (on[t] = t /\ pool.sessions \subseteq pool'.sessions \cup {t})
  BY <1>0, FinallyFacts
<1>2. PICK p \in Pools : Core(p) /\ Ended(p, pool', on[t])
  BY <1>0, FinallyFacts
<1>3. Core(pool)' /\ SdkInv'
  BY <1>0, <1>2, EndStep
<1>4. TypeOK' /\ pc'[t] = "done"
  BY <1>0, <1>1 DEF PoolOK, TypeOK, Answer
<1>5. \A x \in pool.sessions \ pool'.sessions : x = on[t]
  BY <1>1
<1>6. QED
  BY <1>3, <1>4, <1>5 DEF Inv

LEMMA StartTurnStep ==
    ASSUME Inv, NEW t \in Turns, StartTurn(t)
    PROVE  /\ Inv' /\ pc[t] \in Running
           /\ \A x \in pool.sessions \ pool'.sessions : x = on[t] /\ pc'[t] = "done"
<1> DEFINE x == on[t]
           lease == pool.lease[x]
<1>0. /\ TypeOK /\ SdkInv /\ Core(pool) /\ pc[t] = "leased" /\ pc[t] \in Running /\ x \in Turns
      /\ pool \in Pools /\ UNCHANGED <<on, candidate, cancelled>>
  BY DEF Inv, StartTurn, Running, Core, TurnIn, TypeOK
<1>1. UNCHANGED sdkVars =>
        /\ active' \in [Turns -> SomeTurn] /\ cancelPending' \subseteq Turns
        /\ \A y \in Turns : active'[y] = IF active[y] = t THEN NoTurn ELSE active[y]
        /\ UNCHANGED <<gen, cancelledGen>>
  BY <1>0, NoTurnAssumption DEF SdkInv, sdkVars, TypeOK
<1>2. CASE /\ lease.state = "cancelled" /\ Answer(t, "cancelled")
           /\ Finally(t, pool, FALSE) /\ UNCHANGED sdkVars
  <2>1. x \in pool.busy
    <3>1. x \notin pool.busy => lease = NoLease
      BY <1>0 DEF Core, LeaseIn
    <3>2. QED
      BY <1>2, <3>1 DEF NoLease
  <2>2. /\ lease.task \in Turns /\ on[lease.task] = x /\ pc[lease.task] = "leased"
        /\ cancelled[lease.task] = "acknowledged"
    BY <1>0, <1>2, <2>1 DEF Core, LeaseIn
  <2>3. lease.task = t
    BY <1>0, <2>2 DEF Core, TurnIn, Running
  <2>4. QED
    BY <1>0, <1>1, <1>2, <2>2, <2>3, EndingStep
<1>3. CASE /\ lease = NoLease /\ Answer(t, "failed")
           /\ Finally(t, pool, FALSE) /\ UNCHANGED sdkVars
  BY <1>0, <1>1, <1>3, EndingStep
<1>4. CASE /\ lease.state = "admitted" /\ lease.task = t
           /\ pool' = [pool EXCEPT !.lease[x].state = "started"]
           /\ pc' = [pc EXCEPT ![t] = "prompt"]
           /\ gen' = [gen EXCEPT ![x] = t]
           /\ active' = [active EXCEPT ![x] = t]
           /\ cancelPending' = cancelPending \ {x}
           /\ UNCHANGED <<res, cancelledGen>>
  <2>1. Core(pool)' /\ SdkInv'
    BY <1>0, <1>4, StartStep
  <2>2. [pool.lease EXCEPT ![x].state = "started"] \in [Turns -> Leases]
    BY <1>0 DEF Pools, Leases
  <2>3. pool' = [pool EXCEPT !.lease = [pool.lease EXCEPT ![x].state = "started"]]
    BY <1>0, <1>4
  <2>4. PoolOK(pool') /\ pool'.sessions = pool.sessions
    BY <1>0, <2>2, <2>3 DEF PoolOK, Pools, TypeOK
  <2>5. TypeOK'
    BY <1>0, <1>4, <2>4 DEF PoolOK, TypeOK, SomeTurn, Running
  <2>6. QED
    BY <1>0, <2>1, <2>4, <2>5 DEF Inv
<1>5. QED
  BY <1>2, <1>3, <1>4 DEF StartTurn

LEMMA SettleStep ==
    ASSUME Inv, NEW t \in Turns, NEW resolved \in BOOLEAN, Settle(t, resolved)
    PROVE  /\ Inv' /\ pc[t] \in Running
           /\ \A x \in pool.sessions \ pool'.sessions : x = on[t] /\ pc'[t] = "done"
<1> DEFINE x == on[t]
           r == Outcome(t, resolved)
<1>0. /\ TypeOK /\ SdkInv /\ Core(pool) /\ pc[t] = "prompt" /\ pc[t] \in Running /\ x \in Turns
      /\ Answer(t, r) /\ Finally(t, pool, r = "completed")
      /\ UNCHANGED <<on, candidate, gen, cancelledGen, cancelled>>
  BY DEF Inv, Settle, Running, Core, TurnIn
<1>1. gen[x] = t /\ active[x] = t
  BY <1>0 DEF SdkInv
<1>2. active' = [active EXCEPT ![x] = NoTurn] /\ cancelPending' = cancelPending \ {x}
  BY <1>1 DEF Settle
<1>3. /\ active' \in [Turns -> SomeTurn] /\ cancelPending' \subseteq Turns
      /\ \A y \in Turns : active'[y] = IF active[y] = t THEN NoTurn ELSE active[y]
  BY <1>0, <1>1, <1>2, NoTurnAssumption DEF TypeOK, SomeTurn, SdkInv
<1>4. /\ r \in {"completed", "failed", "cancelled"}
      /\ r = "cancelled" <=> cancelledGen[x] = t
  BY DEF Outcome
<1>5. cancelledGen[x] = t <=> cancelled[t] = "acknowledged"
  BY <1>0, NoTurnAssumption DEF SdkInv, Core, AckIn
<1> HIDE DEF r, x
<1>6. /\ r = "cancelled" => cancelled[t] = "acknowledged"
      /\ cancelled[t] = "acknowledged" => r # "completed"
      /\ (r = "completed") \in BOOLEAN
  BY <1>4, <1>5
<1>7. /\ Inv' /\ pc'[t] = "done"
      /\ \A y \in pool.sessions \ pool'.sessions : y = on[t]
  BY <1>0, <1>3, <1>4, <1>6, EndingStep
<1>8. QED
  BY <1>0, <1>7

LEMMA CancelStep ==
    ASSUME Inv, NEW t \in Turns, CancelTurn(t)
    PROVE  Inv' /\ pool'.sessions = pool.sessions
<1> DEFINE s == Owner[t]
           x == pool.subagentMap[s]
<1>0. /\ TypeOK /\ SdkInv /\ Core(pool) /\ s \in Subagents /\ PoolOK(pool) /\ pool \in Pools
      /\ cancelled[t] = "none" /\ UNCHANGED turnVars
  BY PoolOwnerAssumption DEF Inv, PoolOK, TypeOK, CancelTurn
<1>1. x # NoTurn => x \in Turns
  BY <1>0 DEF Pools, SomeTurn
<1>2. ASSUME Same(pool, pool'), PoolOK(pool'), Decline(t), UNCHANGED sdkVars
      PROVE  Inv' /\ pool'.sessions = pool.sessions
  <2>1. Core(pool)' /\ SdkInv'
    BY <1>0, <1>2, DeclineStep
  <2>2. TypeOK'
    BY <1>0, <1>2 DEF TypeOK, PoolOK, Decline, turnVars, sdkVars
  <2>3. QED
    BY <1>2, <2>1, <2>2 DEF Inv, Same
<1>3. CASE /\ pool.creating[s] = t
           /\ pool' = [pool EXCEPT !.cancelledCreations = @ \cup {s}]
           /\ Acknowledge(t) /\ UNCHANGED sdkVars
  <2>1. Core(pool)' /\ SdkInv'
    BY <1>0, <1>3, MarkStep
  <2>2. PoolOK(pool') /\ pool'.sessions = pool.sessions
    BY <1>0, <1>3 DEF PoolOK, Pools
  <2>3. TypeOK'
    BY <1>0, <1>3, <2>2 DEF TypeOK, PoolOK, Acknowledge, turnVars, sdkVars
  <2>4. QED
    BY <2>1, <2>2, <2>3 DEF Inv
<1>4. CASE UNCHANGED pool /\ Decline(t) /\ UNCHANGED sdkVars
  BY <1>0, <1>2, <1>4 DEF Same
<1>5. CASE /\ x # NoTurn /\ pool.lease[x].state \in {"admitted", "cancelled"}
           /\ pool.lease[x].task = t
           /\ pool' = [pool EXCEPT !.lease[x].state = "cancelled"]
           /\ Acknowledge(t) /\ UNCHANGED sdkVars
  <2>1. Core(pool)' /\ SdkInv'
    BY <1>0, <1>1, <1>5, CancelLeaseStep
  <2>2. [pool.lease EXCEPT ![x].state = "cancelled"] \in [Turns -> Leases]
    BY <1>0, <1>1, <1>5 DEF Pools, Leases
  <2>3. pool' = [pool EXCEPT !.lease = [pool.lease EXCEPT ![x].state = "cancelled"]]
    BY <1>0, <1>5
  <2>4. PoolOK(pool') /\ pool'.sessions = pool.sessions
    BY <1>0, <2>2, <2>3 DEF PoolOK, Pools
  <2>5. TypeOK'
    BY <1>0, <1>5, <2>4 DEF TypeOK, PoolOK, Acknowledge, turnVars, sdkVars
  <2>6. QED
    BY <2>1, <2>4, <2>5 DEF Inv
<1>6. CASE x # NoTurn /\ AbortActive(t, x)
  <2>1. Core(pool)' /\ SdkInv'
    BY <1>0, <1>1, <1>6, AbortStep
  <2>2. PoolOK(pool') /\ pool'.sessions = pool.sessions
    BY <1>0, <1>1, <1>6 DEF AbortActive, PoolOK, Pools
  <2>3. TypeOK'
    BY <1>0, <1>1, <1>6, <2>2 DEF AbortActive, TypeOK, PoolOK, Acknowledge, turnVars
  <2>4. QED
    BY <2>1, <2>2, <2>3 DEF Inv
<1>7. CASE x # NoTurn /\ AbortOther(t, x)
  <2>1. Decline(t) /\ UNCHANGED sdkVars
    BY <1>7 DEF AbortOther
  <2>2. pool' = pool \/ pool' = [pool EXCEPT !.cancelCleanup = @ \ {x}]
    BY <1>7 DEF AbortOther
  <2>3. Same(pool, pool') /\ PoolOK(pool')
    BY <1>0, <2>2 DEF Same, PoolOK, Pools
  <2>4. QED
    BY <1>2, <2>1, <2>3
<1>8. QED
  BY <1>3, <1>4, <1>5, <1>6, <1>7 DEF CancelTurn

LEMMA SessionSteps ==
    ASSUME Inv, NEW x \in Turns, SessionStep(x)
    PROVE  /\ Inv'
           /\ \A y \in pool.sessions \ pool'.sessions :
                (y \in cancelPending /\ y \in pool.cancelCleanup) \/ CloseRpc(y)
<1>0. /\ TypeOK /\ SdkInv /\ Core(pool) /\ PoolOK(pool) /\ pool \in Pools
      /\ UNCHANGED <<turnVars, sdkVars, cancelled>>
  BY DEF Inv, PoolOK, TypeOK, SessionStep, CancelCleanup, ActivateSession,
         PrepareHibernate, CloseRpc, Age
<1>1. ASSUME NEW C, ClosedBy(pool, pool', C), PoolOK(pool')
      PROVE  Inv' /\ \A y \in pool.sessions \ pool'.sessions : y \in C
  <2>1. Core(pool)' /\ SdkInv'
    BY <1>0, <1>1, ClosingStep
  <2>2. TypeOK'
    BY <1>0, <1>1 DEF TypeOK, PoolOK, turnVars, sdkVars
  <2>3. QED
    BY <1>1, <2>1, <2>2 DEF Inv, ClosedBy
<1>2. ASSUME Same(pool, pool'), PoolOK(pool')
      PROVE  Inv' /\ \A y \in pool.sessions \ pool'.sessions : FALSE
  <2>1. ClosedBy(pool, pool', {})
    BY <1>0, <1>2, SameCloses
  <2>2. QED
    BY <1>1, <1>2, <2>1
<1>3. CASE CancelCleanup(x)
  <2> DEFINE p == [pool EXCEPT !.cancelCleanup = @ \ {x}]
  <2>1. x \in pool.cancelCleanup
    BY <1>3 DEF CancelCleanup
  <2>2. pool' = IF x \in cancelPending THEN CloseSessions(p, {x}) ELSE p
    BY <1>3 DEF CancelCleanup
  <2>3. PoolOK(p) /\ Same(pool, p)
    BY <1>0 DEF PoolOK, Pools, Same
  <2> HIDE DEF p
  <2>4. CASE x \notin cancelPending
    BY <1>2, <2>2, <2>3, <2>4
  <2>5. CASE x \in cancelPending
    <3>1. PoolOK(pool') /\ ClosedBy(p, pool', {x} \cap p.sessions)
      BY <2>2, <2>3, <2>5, CloseFacts
    <3>2. ClosedBy(pool, pool', {x} \cap pool.sessions)
      BY <2>3, <3>1 DEF Same, ClosedBy
    <3>3. QED
      BY <1>1, <2>1, <2>5, <3>1, <3>2
  <2>6. QED
    BY <2>4, <2>5
<1>4. CASE ActivateSession(x)
  <2>1. pool.lru \in Seq(Turns) /\ <<x>> \in Seq(Turns)
    BY <1>0 DEF Pools
  <2>2. <<x>> \o pool.lru \in Seq(Turns)
    BY <2>1, ConcatProperties
  <2>3. pool' = [pool EXCEPT !.pending = @ \ {x}, !.agedPending = @ \ {x},
                             !.cancelCleanup = @ \ {x}, !.lru = <<x>> \o pool.lru]
    BY <1>4 DEF ActivateSession
  <2>4. PoolOK(pool') /\ Same(pool, pool')
    BY <1>0, <2>2, <2>3 DEF PoolOK, Pools, Same
  <2>5. QED
    BY <1>2, <2>4
<1>5. CASE PrepareHibernate(x)
  <2> DEFINE p == ReleaseExpiredEvictions(pool)
  <2>1. pool' = p \/ pool' = [p EXCEPT !.evicting = @ \cup {x}]
    BY <1>5 DEF PrepareHibernate
  <2>2. PoolOK(p) /\ Same(pool, p)
    BY <1>0, ReleaseFacts
  <2> HIDE DEF p
  <2>3. PoolOK(pool') /\ Same(pool, pool')
    BY <2>1, <2>2 DEF PoolOK, Pools, Same
  <2>4. QED
    BY <1>2, <2>3
<1>6. CASE CloseRpc(x)
  <2>1. PoolOK(pool') /\ ClosedBy(pool, pool', {x} \cap pool.sessions)
    BY <1>0, <1>6, CloseFacts DEF CloseRpc
  <2>2. QED
    BY <1>1, <1>6, <2>1
<1>7. CASE Age(x)
  <2>1. PoolOK(pool') /\ Same(pool, pool')
    BY <1>0, <1>7 DEF Age, PoolOK, Pools, Same
  <2>2. QED
    BY <1>2, <2>1
<1>8. QED
  BY <1>3, <1>4, <1>5, <1>6, <1>7 DEF SessionStep

\* What TurnsKeepTheirSession asks of a step.
KeepsSessions ==
    \A x \in pool.busy \ pool'.sessions :
        \/ \E t \in Turns : on[t] = x /\ pc[t] \in Running /\ pc'[t] = "done"
        \/ x \in cancelPending /\ x \in pool.cancelCleanup
        \/ CloseRpc(x)

LEMMA NextStep ==
    ASSUME Inv, Next
    PROVE  Inv' /\ KeepsSessions
<1>0. pool.busy \subseteq pool.sessions
  BY DEF Inv, Core, TurnIn
<1>1. ASSUME NEW t \in Turns, TurnStep(t) PROVE Inv' /\ KeepsSessions
  <2>1. CASE Ensure(t)
    BY <2>1, EnsureStep DEF KeepsSessions
  <2>2. CASE Created(t)
    BY <1>0, <2>2, CreatedStep DEF KeepsSessions
  <2>3. CASE CreateFails(t)
    BY <1>0, <2>3, CreateFailsStep DEF KeepsSessions
  <2>4. CASE StartTurn(t)
    BY <1>0, <2>4, StartTurnStep DEF KeepsSessions
  <2>5. CASE \E resolved \in BOOLEAN : Settle(t, resolved)
    BY <1>0, <2>5, SettleStep DEF KeepsSessions
  <2>6. QED
    BY <1>1, <2>1, <2>2, <2>3, <2>4, <2>5 DEF TurnStep
<1>2. ASSUME NEW t \in Cancellable, CancelTurn(t) PROVE Inv' /\ KeepsSessions
  BY <1>0, <1>2, CancelStep, PoolCancellableAssumption DEF KeepsSessions
<1>3. ASSUME NEW x \in Turns, SessionStep(x) PROVE Inv' /\ KeepsSessions
  BY <1>0, <1>3, SessionSteps DEF KeepsSessions
<1>4. QED
  BY <1>1, <1>2, <1>3 DEF Next

LEMMA Stutter ==
    ASSUME Inv, UNCHANGED vars
    PROVE  Inv'
<1>1. TypeOK'
  BY DEF Inv, TypeOK, vars, turnVars, sdkVars
<1>2. Core(pool)' /\ SdkInv'
  <2>1. ClosedBy(pool, pool', {})
    <3>1. Same(pool, pool') /\ pool \in Pools
      BY DEF Inv, TypeOK, Same, vars
    <3>2. QED
      BY <3>1, SameCloses
  <2>2. QED
    BY <2>1, ClosingStep DEF Inv, vars
<1>3. QED
  BY <1>1, <1>2 DEF Inv

\* The inductive invariant holds in every reachable state of the pool.
THEOREM Invariance == Spec => []Inv
<1>1. Inv /\ [Next]_vars => Inv'
  BY NextStep, Stutter
<1>2. QED
  BY InitInv, <1>1, PTL DEF Spec

-----------------------------------------------------------------------------
(* The theorems.                                                           *)

\* Every field of SessionPool, of the handlers and of PiSdkSession keeps its type.
THEOREM TypeCorrect == Spec => []TypeOK
<1>1. Inv => TypeOK
  BY DEF Inv
<1>2. QED
  BY Invariance, <1>1, PTL

\* Sessions and creations together never exceed max_hot_sessions: ensure counts
\* both before it reserves a slot.
THEOREM WithinCapacity == Spec => []CapacityRespected
<1>1. Inv => CapacityRespected
  BY DEF Inv, Core, CapacityIn, CapacityRespected
<1>2. QED
  BY Invariance, <1>1, PTL

\* subagentMap names exactly the one session of a subagent, and a subagent with
\* a creation under way has none.
THEOREM OneSession == Spec => []OneSessionPerSubagent
<1>1. ASSUME Inv PROVE OneSessionPerSubagent
  <2>1. /\ pool.sessions \subseteq Turns /\ NoTurn \notin Turns /\ OneIn(pool)
    BY <1>1, NoTurnAssumption DEF Inv, Core, TypeOK, Pools
  <2> SUFFICES ASSUME NEW s \in Subagents
               PROVE  LET mine == {x \in pool.sessions : Owner[x] = s}
                      IN  /\ mine = {pool.subagentMap[s]} \ {NoTurn}
                          /\ pool.creating[s] # NoTurn => mine = {}
    BY DEF OneSessionPerSubagent
  <2>2. CASE pool.subagentMap[s] = NoTurn
    BY <2>1, <2>2 DEF OneIn
  <2>3. CASE pool.subagentMap[s] # NoTurn
    BY <2>1, <2>3 DEF OneIn
  <2>4. QED
    BY <2>2, <2>3
<1>2. QED
  BY Invariance, <1>1, PTL

\* A turn whose session.cancel was acknowledged does not report success: the
\* acknowledgement is remembered by the creation marker, the lease or the
\* cancelled generation, whichever the turn meets next.
THEOREM CancelHolds == Spec => []CancelledNeverCompletes
<1>1. Inv => CancelledNeverCompletes
  BY DEF Inv, Core, AckIn, CancelledNeverCompletes
<1>2. QED
  BY Invariance, <1>1, PTL

\* A turn reports "cancelled" only when session.cancel named its task.
THEOREM CancelIsOwn == Spec => []CancelHitsItsOwnTurn
<1>1. Inv => CancelHitsItsOwnTurn
  BY DEF Inv, Core, AckIn, CancelHitsItsOwnTurn
<1>2. QED
  BY Invariance, <1>1, PTL

\* A session with a turn in flight leaves the pool only by the turn's own end,
\* the fallback of its cancellation, or session.close.
THEOREM SessionsKept == Spec => TurnsKeepTheirSession
<1>1. Inv /\ [Next]_vars => [KeepsSessions]_vars
  BY NextStep
<1>2. TurnsKeepTheirSession <=> [][KeepsSessions]_vars
  BY PTL DEF TurnsKeepTheirSession, KeepsSessions
<1>3. QED
  BY Invariance, <1>1, <1>2, PTL DEF Spec

\* turnInFlight is exactly the sessions of the pool that a handler is using, and
\* no two handlers use one session, so endTurn never frees another's session.
THEOREM BusyIsInUse == Spec => []BusyMeansTurn
<1>1. ASSUME Inv PROVE BusyMeansTurn
  <2>1. pool.busy \subseteq Turns /\ TurnIn(pool) /\ LeaseIn(pool)
    BY <1>1 DEF Inv, Core, TypeOK, Pools
  <2>2. ASSUME NEW x \in pool.busy
        PROVE  x \in pool.sessions /\ \E t \in Turns : pc[t] \in Running /\ on[t] = x
    BY <2>1 DEF TurnIn, LeaseIn, Running
  <2>3. ASSUME NEW t \in Turns, pc[t] \in Running, on[t] \in pool.sessions
        PROVE  on[t] \in pool.busy
    BY <2>1, <2>3 DEF TurnIn
  <2>4. pool.busy = {on[t] : t \in {u \in Turns : pc[u] \in Running}} \cap pool.sessions
    BY <2>2, <2>3
  <2>5. QED
    BY <2>1, <2>4 DEF BusyMeansTurn, TurnIn
<1>2. QED
  BY Invariance, <1>1, PTL

=============================================================================
