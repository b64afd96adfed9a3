-------------------------- MODULE EventStreamProofs --------------------------
(***************************************************************************)
(* Proofs about EventStream, for every capacity of the bus and any number   *)
(* of writes and faults.                                                    *)
(*                                                                         *)
(* StaleIsAnnounced looks at what is shown; between the read of a query and *)
(* its answer the page shows the old version and is about to show the one   *)
(* that was read.  FreshInv therefore speaks of the version that will be    *)
(* shown next, and asks for an announcement that does not depend on the     *)
(* query.  It rests on LinkInv, what the server and the bridge know of each *)
(* other, and on the page not being ready before its first listener.        *)
(***************************************************************************)
EXTENDS EventStream, TLAPS, SequenceTheorems

\* Two sequence numbers per batch; a connection needs its service, a stream on a
\* connection its subscription, and a ready page its first listener.
LinkInv ==
    /\ seq = 2 * store
    /\ unpublished => store > 0
    /\ conn => up
    /\ bridge = "stream" /\ conn => sub
    /\ listening < 1 => page.status # "ready"

\* An announcement that outlives the query in flight, or the history's verdict
\* that it came to nothing.
Announced ==
    \/ unpublished \/ bridge # "stream" \/ ~conn \/ Holds(rx, "invalidated")
    \/ page.status # "ready" \/ page.pending \/ page.lost

\* The version that is shown when the query in flight has its answer.
Coming == IF page.fetch = "read" THEN got ELSE cached

FreshInv == page.fetch # "asked" /\ Coming # store => Announced

Inv == TypeOK /\ LinkInv /\ FreshInv

\* The page q has asked again, or still has every reason to that p had.
Keeps(p, q) ==
    \/ q.fetch = "asked"
    \/ /\ q.fetch = p.fetch
       /\ p.lost => q.lost
       /\ p.pending => q.pending
       /\ p.status # "ready" => q.status # "ready"

\* Ready was heard, or could not be, or is still to come.
Called(p) == p.fetch = "asked" \/ p.lost \/ p.status # "ready"

-----------------------------------------------------------------------------
(* What the model's operators return.                                      *)

\* A send keeps the type of the queue and the bound of the channel.
LEMMA SendType ==
    ASSUME NEW q \in Seq(Msgs), NEW m \in Seq(Msgs)
    PROVE  Send(q, m) \in Seq(Msgs) /\ Len(Send(q, m)) <= BusCapacity
<1> DEFINE all == q \o m
           over == IF Len(all) > BusCapacity THEN Len(all) - BusCapacity ELSE 0
<1>1. all \in Seq(Msgs) /\ Len(all) \in Nat
  BY ConcatProperties, LenProperties
<1>2. over \in Nat /\ over <= Len(all) /\ Len(all) - over <= BusCapacity
  BY <1>1, BoundAssumption
<1>3. \A i \in (over + 1)..Len(all) : all[i] \in Msgs
  BY <1>1, <1>2, ElementOfSeq
<1> HIDE DEF all, over
<1>4. /\ SubSeq(all, over + 1, Len(all)) \in Seq(Msgs)
      /\ Len(SubSeq(all, over + 1, Len(all)))
           = IF over + 1 <= Len(all) THEN Len(all) - (over + 1) + 1 ELSE 0
  BY <1>1, <1>2, <1>3, SubSeqProperties
<1>5. Len(SubSeq(all, over + 1, Len(all))) <= BusCapacity
  BY <1>1, <1>2, <1>4, BoundAssumption
<1>6. QED
  BY <1>4, <1>5 DEF Send, all, over

\* What survives a disconnect is a prefix of the queue.
LEMMA PrefixType ==
    ASSUME NEW q \in Seq(Msgs), NEW n \in 0..Len(q)
    PROVE  SubSeq(q, 1, n) \in Seq(Msgs) /\ Len(SubSeq(q, 1, n)) <= Len(q)
<1>1. Len(q) \in Nat /\ \A i \in 1..n : q[i] \in Msgs
  BY LenProperties, ElementOfSeq
<1>2. QED
  BY <1>1, SubSeqProperties

\* The listeners of the webview return a page.
LEMMA ListenerType ==
    ASSUME NEW p \in Pages, NEW n \in {0, 1, 2, 3}, listening = n
    PROVE  /\ Invalidate(p) \in Pages
           /\ \A t : OnEvent(p, t) \in Pages
           /\ \A g \in BOOLEAN : OnSubscriptionStatus(p, g) \in Pages
           /\ \A s \in {"ready", "unavailable"} : OnServiceStatus(p, s) \in Pages
<1>1. Invalidate(p) \in Pages
  BY DEF Pages, Invalidate
<1>2. ASSUME NEW t PROVE OnEvent(p, t) \in Pages
  BY DEF Pages, Invalidate, OnEvent
<1>3. ASSUME NEW g \in BOOLEAN PROVE OnSubscriptionStatus(p, g) \in Pages
  BY DEF Pages, OnSubscriptionStatus
<1>4. ASSUME NEW s \in {"ready", "unavailable"} PROVE OnServiceStatus(p, s) \in Pages
  BY DEF Pages, Invalidate, OnServiceStatus
<1>5. QED
  BY <1>1, <1>2, <1>3, <1>4

\* The two events of a batch that is committed and not yet published.
LEMMA BatchType ==
    ASSUME TypeOK, LinkInv, unpublished
    PROVE  <<Msg("invalidated", seq - 1), Msg("other", seq)>> \in Seq(Msgs)
<1>1. store \in Nat /\ store <= MaxWrites /\ store > 0 /\ seq = 2 * store
  BY BoundAssumption DEF TypeOK, LinkInv
<1>2. seq - 1 \in 0..(2 * MaxWrites) /\ seq \in 0..(2 * MaxWrites)
  BY <1>1, BoundAssumption
<1>3. Msg("invalidated", seq - 1) \in Msgs /\ Msg("other", seq) \in Msgs
  BY <1>2 DEF Msg, Msgs
<1>4. QED
  BY <1>3

-----------------------------------------------------------------------------
(* Types.                                                                  *)

LEMMA InitInv == Init => Inv
<1>1. Init => page \in Pages
  BY DEF Init, Pages
<1>2. Init => rx \in Seq(Msgs) /\ Len(rx) = 0
  BY EmptySeq DEF Init
<1>3. Init => TypeOK
  <2>1. /\ 0 \in 0..MaxWrites /\ 0 \in 0..(2 * MaxWrites) /\ 0 \in 0..MaxFaults
        /\ 0 \in 0..UnavailableAfter /\ 0 \in 0..3 /\ 0 <= BusCapacity
    BY BoundAssumption
  <2>2. QED
    BY <1>1, <1>2, <2>1 DEF Init, TypeOK
<1>4. Init => LinkInv /\ FreshInv
  BY DEF Init, LinkInv, FreshInv
<1>5. QED
  BY <1>3, <1>4 DEF Inv

LEMMA TypeStep == TypeOK /\ LinkInv /\ [Next]_vars => TypeOK'
<1> SUFFICES ASSUME TypeOK, LinkInv, [Next]_vars PROVE TypeOK'
  OBVIOUS
<1> USE BoundAssumption
<1>0. /\ page \in Pages /\ listening \in {0, 1, 2, 3} /\ gap \in BOOLEAN
      /\ rx \in Seq(Msgs) /\ Len(rx) \in Nat /\ Len(rx) <= BusCapacity
  BY LenProperties DEF TypeOK
<1>a. ASSUME NEW p \in Pages
      PROVE  /\ \A t : OnEvent(p, t) \in Pages
             /\ \A s \in {"ready", "unavailable"} : OnServiceStatus(p, s) \in Pages
             /\ OnSubscriptionStatus(p, gap) \in Pages
  BY <1>0, ListenerType
<1>b. ASSUME Failed
      PROVE  /\ bridge' = "backoff" /\ failures' \in 0..UnavailableAfter /\ page' \in Pages
  <2>1. failures' \in 0..UnavailableAfter
    BY <1>b DEF Failed, TypeOK
  <2>2. QED
    BY <1>0, <1>a, <1>b, <2>1 DEF Failed
<1>c. ASSUME NEW m \in Seq(Msgs), Publish(m)
      PROVE  rx' \in Seq(Msgs) /\ Len(rx') <= BusCapacity /\ page' \in Pages
  <2>1. page' \in Pages
    BY <1>0, <1>c DEF Publish, Pages
  <2>2. QED
    BY <1>0, <1>c, <2>1, SendType DEF Publish
<1>d. ASSUME Disconnect
      PROVE  rx' \in Seq(Msgs) /\ Len(rx') <= BusCapacity /\ conn' = FALSE /\ sub' = FALSE
  BY <1>0, <1>d, PrefixType, LenProperties DEF Disconnect
<1>1. CASE Commit
  <2>1. store \in Nat /\ store < MaxWrites /\ seq = 2 * store
    BY <1>1 DEF Commit, TypeOK, LinkInv
  <2>2. store + 1 \in 0..MaxWrites /\ seq + 2 \in 0..(2 * MaxWrites)
    BY <2>1
  <2>3. QED
    BY <1>1, <2>2 DEF Commit, TypeOK, link, client, web
<1>2. CASE PublishBatch
  <2>1. <<Msg("invalidated", seq - 1), Msg("other", seq)>> \in Seq(Msgs)
    BY <1>2, BatchType DEF PublishBatch
  <2>2. QED
    BY <1>2, <1>c, <2>1 DEF PublishBatch, TypeOK, client
<1>3. CASE Sample
  <2>1. <<Msg("sample", 0)>> \in Seq(Msgs)
    BY DEF Msg, Msgs
  <2>2. QED
    BY <1>3, <1>c, <2>1 DEF Sample, TypeOK, client, service
<1>4. CASE Crash
  <2>1. faults' \in 0..MaxFaults
    BY <1>4 DEF Crash, Fault, TypeOK
  <2>2. QED
    BY <1>4, <1>d, <2>1 DEF Crash, TypeOK, client, web
<1>5. CASE ConnectionLost
  <2>1. faults' \in 0..MaxFaults
    BY <1>5 DEF ConnectionLost, Fault, TypeOK
  <2>2. QED
    BY <1>5, <1>d, <2>1 DEF ConnectionLost, TypeOK, service, client, web
<1>6. CASE Start
  BY <1>6 DEF Start, TypeOK, link, client, web
<1>7. CASE Connect
  <2>1. CASE up /\ conn' = TRUE /\ bridge' = "recover" /\ rx' = <<>> /\ UNCHANGED <<failures, page>>
    BY <1>7, <2>1, EmptySeq DEF Connect, TypeOK, service
  <2>2. CASE Failed /\ UNCHANGED <<conn, rx>>
    BY <1>7, <2>2, <1>b DEF Connect, TypeOK, service
  <2>3. QED
    BY <1>7, <2>1, <2>2 DEF Connect
<1>8. CASE Recover
  <2>1. prevSeq' \in 0..(2 * MaxWrites) /\ lastSeen' \in 0..(2 * MaxWrites)
    <3>1. {lastSeen, latest, prevSeq, 0} \subseteq 0..(2 * MaxWrites)
      BY DEF TypeOK
    <3>2. QED
      BY <1>8, <3>1 DEF Recover
  <2>2. gap' \in BOOLEAN
    BY <1>8 DEF Recover, classify_gap
  <2>3. page' \in Pages
    BY <1>8, <1>0, <1>a DEF Recover
  <2>4. QED
    BY <1>8, <2>1, <2>2, <2>3 DEF Recover, TypeOK, service, link
<1>9. CASE Subscribe
  <2>1. CASE conn
    <3>1. OnServiceStatus(OnSubscriptionStatus(page, gap), "ready") \in Pages
      BY <1>0, <1>a
    <3>2. page' \in Pages
      BY <1>9, <1>a, <2>1, <3>1 DEF Subscribe
    <3>3. QED
      BY <1>9, <2>1, <3>2 DEF Subscribe, TypeOK, service
  <2>2. CASE ~conn
    BY <1>9, <1>b, <2>2 DEF Subscribe, TypeOK, service
  <2>3. QED
    BY <2>1, <2>2
<1>10. CASE Receive
  <2>1. /\ Head(rx) \in Msgs /\ Tail(rx) \in Seq(Msgs) /\ Len(Tail(rx)) <= BusCapacity
    BY <1>0, <1>10, HeadTailProperties DEF Receive
  <2>2. lastSeen' \in 0..(2 * MaxWrites) /\ page' \in Pages
    BY <1>0, <1>10, <1>a, <2>1 DEF Receive, TypeOK, Msgs
  <2>3. QED
    BY <1>10, <2>1, <2>2 DEF Receive, TypeOK, service
<1>11. CASE StreamEnds
  BY <1>11, <1>b DEF StreamEnds, TypeOK, service, link
<1>12. CASE StartupStatus
  <2>1. page' \in Pages
    BY <1>0, <1>12, <1>a DEF StartupStatus
  <2>2. QED
    BY <1>12, <2>1 DEF StartupStatus, TypeOK, service, link
<1>13. CASE Listen
  BY <1>13 DEF Listen, TypeOK, service, link, client
<1>14. CASE FlushScopes
  <2>1. page' \in Pages
    BY <1>0, <1>14 DEF FlushScopes, Invalidate, Pages
  <2>2. QED
    BY <1>14, <2>1 DEF FlushScopes, TypeOK, service, link, client
<1>15. CASE Query
  <2>1. page' \in Pages
    BY <1>0, <1>15 DEF Query, Pages
  <2>2. QED
    BY <1>15, <2>1 DEF Query, TypeOK, service, link, client
<1>16. CASE UNCHANGED vars
  BY <1>16 DEF TypeOK, vars
<1>17. QED
  BY <1>1, <1>2, <1>3, <1>4, <1>5, <1>6, <1>7, <1>8, <1>9, <1>10, <1>11, <1>12, <1>13,
     <1>14, <1>15, <1>16 DEF Next

-----------------------------------------------------------------------------
(* Stale data is announced.                                                *)

\* No listener lets a reason to refresh get lost.
LEMMA ListenerKeeps ==
    ASSUME NEW p \in Pages, listening \in {0, 1, 2, 3}
    PROVE  /\ \A t : Keeps(p, OnEvent(p, t))
           /\ \A g \in BOOLEAN : Keeps(p, OnSubscriptionStatus(p, g))
           /\ \A s \in {"ready", "unavailable"} : Keeps(p, OnServiceStatus(p, s))
           /\ Called(OnServiceStatus(p, "ready"))
<1>1. ASSUME NEW t PROVE Keeps(p, OnEvent(p, t))
  BY DEF Pages, Invalidate, OnEvent, Keeps
<1>2. ASSUME NEW g \in BOOLEAN PROVE Keeps(p, OnSubscriptionStatus(p, g))
  BY DEF Pages, OnSubscriptionStatus, Keeps
<1>3. ASSUME NEW s \in {"ready", "unavailable"} PROVE Keeps(p, OnServiceStatus(p, s))
  BY DEF Pages, Invalidate, OnServiceStatus, Keeps
<1>4. Called(OnServiceStatus(p, "ready"))
  BY DEF Pages, Invalidate, OnServiceStatus, Called
<1>5. QED
  BY <1>1, <1>2, <1>3, <1>4

\* An invalidation that meets a listener is remembered.
LEMMA EventArms ==
    ASSUME NEW p \in Pages, listening \in {1, 2, 3}
    PROVE  OnEvent(p, "invalidated").pending
<1> DEFINE q == IF p.status = "ready" THEN p ELSE [Invalidate(p) EXCEPT !.status = "ready"]
<1>1. q \in Pages
  BY DEF Pages, Invalidate
<1>2. OnEvent(p, "invalidated") = [q EXCEPT !.pending = @ \/ "invalidated" = "invalidated"]
  BY DEF OnEvent
<1> HIDE DEF q
<1>3. OnEvent(p, "invalidated") = [q EXCEPT !.pending = TRUE]
  BY <1>1, <1>2 DEF Pages
<1>4. [q EXCEPT !.pending = TRUE].pending = TRUE
  BY <1>1 DEF Pages
<1>5. QED
  BY <1>3, <1>4

\* Without its first listener a page does not become ready.
LEMMA DeafPage ==
    ASSUME NEW p \in Pages, listening = 0
    PROVE  /\ \A t : OnEvent(p, t) = p
           /\ \A g : OnSubscriptionStatus(p, g) = p
           /\ \A s : OnServiceStatus(p, s).status = p.status
  BY DEF Pages, OnEvent, OnSubscriptionStatus, OnServiceStatus

\* Publishing to an open subscription leaves an invalidation in the queue or
\* records the loss.
LEMMA PublishAnnounces ==
    ASSUME TypeOK, NEW m \in Seq(Msgs), Publish(m)
    PROVE  /\ Keeps(page, page') /\ page'.status = page.status
           /\ Holds(rx, "invalidated") => Holds(rx', "invalidated") \/ page'.lost
           /\ sub /\ Holds(m, "invalidated") => Holds(rx', "invalidated") \/ page'.lost
<1>0. page \in Pages /\ rx \in Seq(Msgs) /\ sub \in BOOLEAN
  BY DEF TypeOK
<1>1. /\ page'.lost = (page.lost \/ (/\ sub /\ Holds(rx \o m, "invalidated")
                                     /\ ~Holds(rx', "invalidated")))
      /\ page'.fetch = page.fetch /\ page'.pending = page.pending
      /\ page'.status = page.status
  BY <1>0 DEF Publish, Pages
<1>2. /\ Holds(rx, "invalidated") => Holds(rx \o m, "invalidated")
      /\ Holds(m, "invalidated") => Holds(rx \o m, "invalidated")
  <2>1. /\ DOMAIN rx = 1..Len(rx) /\ DOMAIN m = 1..Len(m)
        /\ Len(rx) \in Nat /\ Len(m) \in Nat /\ rx \o m \in Seq(Msgs)
        /\ DOMAIN (rx \o m) = 1..(Len(rx) + Len(m))
    BY <1>0, LenProperties, ConcatProperties
  <2>2. ASSUME NEW i \in DOMAIN rx
        PROVE  i \in DOMAIN (rx \o m) /\ (rx \o m)[i] = rx[i]
    BY <1>0, <2>1, ConcatProperties
  <2>3. ASSUME NEW i \in DOMAIN m
        PROVE  Len(rx) + i \in DOMAIN (rx \o m) /\ (rx \o m)[Len(rx) + i] = m[i]
    BY <1>0, <2>1, ConcatProperties
  <2>4. QED
    BY <2>2, <2>3 DEF Holds
<1>3. CASE sub
  BY <1>1, <1>2, <1>3 DEF Keeps
<1>4. CASE ~sub
  <2>1. rx' = rx
    BY <1>4 DEF Publish
  <2>2. QED
    BY <1>1, <1>4, <2>1 DEF Keeps
<1>5. QED
  BY <1>3, <1>4

\* What the connection, the listeners and the sequence numbers know of each
\* other.
LEMMA LinkStep == TypeOK /\ LinkInv /\ [Next]_vars => LinkInv'
<1> SUFFICES ASSUME TypeOK, LinkInv, [Next]_vars PROVE LinkInv'
  OBVIOUS
<1>0. /\ page \in Pages /\ listening \in {0, 1, 2, 3} /\ store \in Nat /\ gap \in BOOLEAN
  BY BoundAssumption DEF TypeOK
<1>a. ASSUME listening' = listening, listening = 0 => page'.status = page.status
      PROVE  listening' < 1 => page'.status # "ready"
  BY <1>0, <1>a DEF LinkInv
<1>b. ASSUME Failed PROVE bridge' = "backoff" /\ (listening = 0 => page'.status = page.status)
  BY <1>0, <1>b, DeafPage DEF Failed
<1>1. CASE Commit
  BY <1>0, <1>1 DEF Commit, LinkInv, link, client, web
<1>2. CASE PublishBatch
  <2>1. page'.status = page.status
    BY <1>0, <1>2 DEF PublishBatch, Publish, Pages
  <2>2. QED
    BY <1>2, <2>1 DEF PublishBatch, LinkInv, client
<1>3. CASE Sample
  <2>1. page'.status = page.status
    BY <1>0, <1>3 DEF Sample, Publish, Pages
  <2>2. QED
    BY <1>3, <2>1 DEF Sample, LinkInv, client, service
<1>4. CASE Crash
  BY <1>4 DEF Crash, Disconnect, LinkInv, client, web
<1>5. CASE ConnectionLost
  BY <1>5 DEF ConnectionLost, Disconnect, LinkInv, service, client, web
<1>6. CASE Start
  BY <1>6 DEF Start, LinkInv, link, client, web
<1>7. CASE Connect
  BY <1>7, <1>a, <1>b DEF Connect, LinkInv, service
<1>8. CASE Recover
  <2>1. listening = 0 => page'.status = page.status
    BY <1>0, <1>8, DeafPage DEF Recover
  <2>2. QED
    BY <1>8, <1>a, <2>1 DEF Recover, LinkInv, service, link
<1>9. CASE Subscribe
  <2>1. CASE conn
    <3>1. ASSUME listening = 0 PROVE page'.status = page.status
      <4>1. OnSubscriptionStatus(page, gap) = page
        BY <1>0, <3>1, DeafPage
      <4>2. OnServiceStatus(page, "ready") \in Pages /\ OnServiceStatus(page, "ready").status = page.status
        BY <1>0, <3>1, DeafPage, ListenerType
      <4>3. QED
        BY <1>0, <1>9, <2>1, <3>1, <4>1, <4>2, DeafPage DEF Subscribe
    <3>2. QED
      BY <1>9, <1>a, <2>1, <3>1 DEF Subscribe, LinkInv, service
  <2>2. CASE ~conn
    BY <1>9, <1>a, <1>b, <2>2 DEF Subscribe, LinkInv, service
  <2>3. QED
    BY <2>1, <2>2
<1>10. CASE Receive
  <2>1. listening = 0 => page'.status = page.status
    BY <1>0, <1>10, DeafPage DEF Receive
  <2>2. QED
    BY <1>10, <1>a, <2>1 DEF Receive, LinkInv, service
<1>11. CASE StreamEnds
  BY <1>11, <1>a, <1>b DEF StreamEnds, LinkInv, service, link
<1>12. CASE StartupStatus
  <2>1. listening = 0 => page'.status = page.status
    BY <1>0, <1>12, DeafPage DEF StartupStatus
  <2>2. QED
    BY <1>12, <1>a, <2>1 DEF StartupStatus, LinkInv, service, link
<1>13. CASE Listen
  BY <1>0, <1>13 DEF Listen, LinkInv, service, link, client
<1>14. CASE FlushScopes
  <2>1. page'.status = page.status
    BY <1>0, <1>14 DEF FlushScopes, Invalidate, Pages
  <2>2. QED
    BY <1>14, <2>1 DEF FlushScopes, LinkInv, service, link, client
<1>15. CASE Query
  <2>1. page'.status = page.status
    BY <1>0, <1>15 DEF Query, Pages
  <2>2. QED
    BY <1>15, <2>1 DEF Query, LinkInv, service, link, client
<1>16. CASE UNCHANGED vars
  BY <1>16 DEF LinkInv, vars
<1>17. QED
  BY <1>1, <1>2, <1>3, <1>4, <1>5, <1>6, <1>7, <1>8, <1>9, <1>10, <1>11, <1>12, <1>13,
     <1>14, <1>15, <1>16 DEF Next

LEMMA FreshStep == Inv /\ [Next]_vars => FreshInv'
<1> SUFFICES ASSUME TypeOK, LinkInv, FreshInv, [Next]_vars PROVE FreshInv'
  BY DEF Inv
<1> DEFINE outside == unpublished \/ bridge # "stream" \/ ~conn \/ Holds(rx, "invalidated")
           inside == page.status # "ready" \/ page.pending \/ page.lost
<1>0. /\ page \in Pages /\ listening \in {0, 1, 2, 3} /\ gap \in BOOLEAN
      /\ rx \in Seq(Msgs) /\ Len(rx) \in Nat
  BY LenProperties DEF TypeOK
<1>a. ASSUME Keeps(page, page'), UNCHANGED <<store, got, cached>>,
             outside => outside' \/ inside' \/ page'.fetch = "asked"
      PROVE  FreshInv'
  <2>1. CASE page'.fetch = "asked"
    BY <2>1 DEF FreshInv
  <2>2. CASE page'.fetch # "asked"
    <3>1. page'.fetch = page.fetch /\ Coming' = Coming
      BY <1>a, <2>2 DEF Keeps, Coming
    <3>2. inside => inside'
      BY <1>a, <2>2 DEF Keeps
    <3>3. QED
      BY <1>a, <2>2, <3>1, <3>2 DEF FreshInv, Announced
  <2>3. QED
    BY <2>1, <2>2
<1>b. ASSUME outside' PROVE FreshInv'
  BY <1>b DEF FreshInv, Announced
<1>c. Keeps(page, page)
  BY DEF Keeps
<1>1. CASE Commit
  BY <1>1, <1>b DEF Commit
<1>2. CASE PublishBatch
  <2> DEFINE m == <<Msg("invalidated", seq - 1), Msg("other", seq)>>
  <2>1. m \in Seq(Msgs)
    BY <1>2, BatchType DEF PublishBatch
  <2>2. Holds(m, "invalidated")
    <3>1. 1 \in DOMAIN m /\ m[1].type = "invalidated"
      BY DEF Msg
    <3>2. QED
      BY <3>1 DEF Holds
  <2>3. /\ Publish(m) /\ UNCHANGED <<store, got, cached, conn, sub, bridge>>
    BY <1>2 DEF PublishBatch, client
  <2> HIDE DEF m
  <2>4. Keeps(page, page') /\ (sub => Holds(rx', "invalidated") \/ page'.lost)
    BY <2>1, <2>2, <2>3, PublishAnnounces
  <2>5. bridge = "stream" /\ conn => sub
    BY DEF LinkInv
  <2>6. QED
    BY <1>a, <2>3, <2>4, <2>5
<1>3. CASE Sample
  <2>1. <<Msg("sample", 0)>> \in Seq(Msgs)
    BY BoundAssumption DEF Msg, Msgs
  <2>2. /\ Keeps(page, page')
        /\ Holds(rx, "invalidated") => Holds(rx', "invalidated") \/ page'.lost
    BY <1>3, <2>1, PublishAnnounces DEF Sample
  <2>3. QED
    BY <1>3, <1>a, <2>2 DEF Sample, service, client
<1>4. CASE Crash
  BY <1>4, <1>b DEF Crash, Disconnect
<1>5. CASE ConnectionLost
  BY <1>5, <1>b DEF ConnectionLost, Disconnect
<1>6. CASE Start
  BY <1>6, <1>a, <1>c DEF Start, link, client, web
<1>7. CASE Connect
  BY <1>7, <1>b DEF Connect, Failed
<1>8. CASE Recover
  BY <1>8, <1>b DEF Recover
<1>9. CASE Subscribe
  <2>1. CASE conn
    <3> DEFINE told == OnSubscriptionStatus(page, gap)
               ready == OnServiceStatus(told, "ready")
    <3>1. told \in Pages /\ Keeps(page, told)
      BY <1>0, ListenerType, ListenerKeeps
    <3> HIDE DEF told
    <3>2. ready \in Pages /\ Keeps(told, ready) /\ Called(ready)
      BY <1>0, <3>1, ListenerType, ListenerKeeps
    <3>3. /\ \/ page' = ready
             \/ page' = OnEvent(ready, "gap")
          /\ UNCHANGED <<store, got, cached>>
      BY <1>9, <2>1 DEF Subscribe, service, told
    <3> HIDE DEF ready
    <3>4. Keeps(ready, page')
      BY <1>0, <3>2, <3>3, ListenerKeeps DEF Keeps
    <3>5. Keeps(page, page') /\ Called(page')
      BY <3>1, <3>2, <3>4 DEF Keeps, Called
    <3>6. inside' \/ page'.fetch = "asked"
      BY <3>5 DEF Called
    <3>7. QED
      BY <1>a, <3>3, <3>5, <3>6
  <2>2. CASE ~conn
    BY <1>9, <1>b, <2>2 DEF Subscribe, Failed
  <2>3. QED
    BY <2>1, <2>2
<1>10. CASE Receive
  <2>1. UNCHANGED <<unpublished, bridge, conn, store, got, cached>> /\ rx # <<>> /\ rx' = Tail(rx)
    BY <1>10 DEF Receive, service
  <2>2. Keeps(page, page')
    BY <1>0, <1>10, <1>c, ListenerKeeps DEF Receive
  <2>3. ASSUME Holds(rx, "invalidated"), ~Holds(rx', "invalidated")
        PROVE  page'.pending \/ page'.status # "ready"
    <3>1. Head(rx).type = "invalidated"
      <4>1. PICK i \in DOMAIN rx : rx[i].type = "invalidated"
        BY <2>3 DEF Holds
      <4>2. /\ DOMAIN rx = 1..Len(rx) /\ Head(rx) = rx[1]
            /\ DOMAIN rx' = 1..(Len(rx) - 1)
            /\ \A j \in 1..(Len(rx) - 1) : rx'[j] = rx[j + 1]
        BY <1>0, <2>1, HeadTailProperties, LenProperties
      <4>3. CASE i # 1
        <5>1. i - 1 \in DOMAIN rx' /\ rx'[i - 1] = rx[i]
          BY <1>0, <4>1, <4>2, <4>3
        <5>2. QED
          BY <2>3, <4>1, <5>1 DEF Holds
      <4>4. QED
        BY <4>1, <4>2, <4>3
    <3>2. page' = OnEvent(page, "invalidated")
      BY <1>10, <3>1 DEF Receive
    <3>3. CASE listening = 0
      BY <1>0, <3>2, <3>3, DeafPage DEF LinkInv
    <3>4. CASE listening # 0
      BY <1>0, <3>2, <3>4, EventArms
    <3>5. QED
      BY <3>3, <3>4
  <2>4. QED
    BY <1>a, <2>1, <2>2, <2>3
<1>11. CASE StreamEnds
  BY <1>11, <1>b DEF StreamEnds, Failed
<1>12. CASE StartupStatus
  <2>1. Keeps(page, page')
    BY <1>0, <1>12, ListenerKeeps DEF StartupStatus
  <2>2. QED
    BY <1>12, <1>a, <2>1 DEF StartupStatus, service, link
<1>13. CASE Listen
  BY <1>13, <1>a, <1>c DEF Listen, service, link, client
<1>14. CASE FlushScopes
  <2>1. page'.fetch = "asked"
    BY <1>0, <1>14 DEF FlushScopes, Invalidate, Pages
  <2>2. QED
    BY <2>1 DEF FreshInv
<1>15. CASE Query
  <2>1. /\ page'.status = page.status /\ page'.pending = page.pending
        /\ page'.lost = page.lost
    BY <1>0, <1>15 DEF Query, Pages
  <2>2. UNCHANGED <<unpublished, bridge, conn, rx, store>>
    BY <1>15 DEF Query, service, link, client
  <2>3. CASE page.fetch = "asked" /\ up
    <3>1. page'.fetch = "read" /\ got' = store
      BY <1>0, <1>15, <2>3 DEF Query, Pages
    <3>2. QED
      BY <2>2, <3>1 DEF FreshInv, Coming
  <2>4. CASE page.fetch = "asked" /\ ~up
    BY <1>b, <2>2, <2>4 DEF LinkInv
  <2>5. CASE page.fetch = "read"
    <3>1. page'.fetch = "none" /\ cached' = got
      BY <1>0, <1>15, <2>5 DEF Query, Pages
    <3>2. QED
      BY <2>1, <2>2, <2>5, <3>1 DEF FreshInv, Coming, Announced
  <2>6. QED
    BY <1>15, <2>3, <2>4, <2>5 DEF Query
<1>16. CASE UNCHANGED vars
  BY <1>16, <1>a, <1>c DEF vars
<1>17. QED
  BY <1>1, <1>2, <1>3, <1>4, <1>5, <1>6, <1>7, <1>8, <1>9, <1>10, <1>11, <1>12, <1>13,
     <1>14, <1>15, <1>16 DEF Next

LEMMA Invariance == Spec => []Inv
<1>1. Inv /\ [Next]_vars => Inv'
  BY TypeStep, LinkStep, FreshStep DEF Inv
<1>2. QED
  BY InitInv, <1>1, PTL DEF Spec

-----------------------------------------------------------------------------
(* The theorems.                                                           *)

\* The variables keep their types, and a receiver of the bus never holds more
\* than the channel's capacity, whatever Send, Disconnect and Receive do to it.
THEOREM TypeCorrect == Spec => []TypeOK
<1>1. Inv => TypeOK
  BY DEF Inv
<1>2. QED
  BY Invariance, <1>1, PTL

\* The page never shows stale data with nothing on its way to refresh it, for
\* every capacity of the bus and wherever crashes, lost connections and late
\* listeners fall (EventSubscriptionProvider and the bridge's reconnect).
THEOREM StaleAnnounced == Spec => []StaleIsAnnounced
<1>1. Inv => StaleIsAnnounced
  <2> SUFFICES ASSUME Inv, cached # store, ~page.lost PROVE RefreshComing
    BY DEF StaleIsAnnounced
  <2>1. page.fetch \in {"none", "asked", "read"}
    BY DEF Inv, TypeOK, Pages
  <2>2. CASE page.fetch = "asked" \/ (page.fetch = "read" /\ got = store)
    BY <2>2 DEF RefreshComing
  <2>3. CASE page.fetch = "none" \/ (page.fetch = "read" /\ got # store)
    BY <2>3 DEF Inv, FreshInv, Coming, Announced, RefreshComing
  <2>4. QED
    BY <2>1, <2>2, <2>3
<1>2. QED
  BY Invariance, <1>1, PTL

=============================================================================
