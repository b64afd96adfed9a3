---------------------------- MODULE EventStream -----------------------------
(***************************************************************************)
(* How a change of the store reaches the page that shows it: the writer    *)
(* publishes on the event bus, the control server forwards to the          *)
(* subscribed client, the desktop's subscription bridge passes the event   *)
(* to the webview, and the webview invalidates and fetches its queries.    *)
(*                                                                         *)
(* Every link can lose what it carries: the bus drops its oldest event,    *)
(* the service crashes, the connection breaks, and the webview hears       *)
(* nothing before its listeners are registered, one after the other.  The  *)
(* data is abstracted to a version: every invalidation the writer sends    *)
(* carries all scopes.  The receiver on the bus and the socket behind it   *)
(* are one queue; emitting to the webview runs its listener.               *)
(***************************************************************************)
EXTENDS Naturals, Sequences

CONSTANTS
    BusCapacity,        \* of the broadcast channel
    UnavailableAfter,   \* RECONNECT_UNAVAILABLE_AFTER
    MaxWrites,          \* bound: batches committed
    MaxFaults           \* bound: crashes and lost connections

ASSUME BoundAssumption ==
    /\ BusCapacity \in Nat \ {0} /\ UnavailableAfter \in Nat \ {0}
    /\ MaxWrites \in Nat /\ MaxFaults \in Nat

VARIABLES
    up,             \* the service process runs
    store,          \* version of the committed data
    seq,            \* event_sequence_state.latest_event_seq, committed
    latest,         \* latest_event_seq of the status snapshot
    unpublished,    \* a batch is committed and its events are not yet sent
    conn,           \* the bridge's connection is intact
    sub,            \* the server streams events on it
    rx,             \* events the subscription has yet to deliver
    bridge,         \* where the bridge task is
    lastSeen,       \* last_seen_seq
    prevSeq,        \* the sequence it will subscribe with, 0 for none
    gap,            \* gap_detected of this reconnect
    failures,       \* consecutive_failures
    startup,        \* the start-up task has yet to emit its status
    listening,      \* listeners registered: event, subscription, service
    page,           \* the provider's refs and the state of the queries
    got,            \* the version the query in flight has read
    cached,         \* the version shown
    faults

service == <<up, store, seq, latest, unpublished>>
link == <<conn, sub, rx>>
client == <<bridge, lastSeen, prevSeq, gap, failures, startup>>
web == <<listening, page, got, cached>>
vars == <<up, store, seq, latest, unpublished, conn, sub, rx, bridge, lastSeen, prevSeq,
          gap, failures, startup, listening, page, got, cached, faults>>

\* What travels: data:invalidated with its sequence, live:sample, and events
\* the client filters out.
Msg(type, n) == [type |-> type, seq |-> n]
Msgs == [type : {"invalidated", "sample", "other"}, seq : 0..(2 * MaxWrites)]
Holds(queue, type) == \E i \in DOMAIN queue : queue[i].type = type

\* lastServiceStatusRef, invalidatedOnTransitionRef, scopes waiting for the
\* debounce, the query; and as history that the newest call for a refresh came
\* to nothing.
Pages == [status : {"starting", "ready", "unavailable"}, told : BOOLEAN,
          pending : BOOLEAN, fetch : {"none", "asked", "read"}, lost : BOOLEAN]

Init ==
    /\ up \in BOOLEAN /\ store = 0 /\ seq = 0 /\ latest = 0 /\ unpublished = FALSE
    /\ conn = FALSE /\ sub = FALSE /\ rx = <<>>
    /\ bridge = "backoff" /\ lastSeen = 0 /\ prevSeq = 0 /\ gap = FALSE
    /\ failures = 0 /\ startup = TRUE /\ listening = 0
    /\ page = [status |-> "starting", told |-> FALSE, pending |-> FALSE,
               fetch |-> "asked", lost |-> FALSE]
    /\ got = 0 /\ cached = 0 /\ faults = 0

Fault == faults < MaxFaults /\ faults' = faults + 1

-----------------------------------------------------------------------------
(* The webview's listeners: EventSubscriptionProvider.                     *)

\* invalidateQueries cancels a fetch in flight and starts another.
Invalidate(p) == [p EXCEPT !.fetch = "asked", !.lost = FALSE]

\* Mutant: an event does not latch the status.
OnEventUnlatched(p, type) ==
    IF listening < 1 THEN p ELSE [p EXCEPT !.pending = @ \/ type = "invalidated"]

\* Any event latches the service to ready; an invalidation arms the debounce.
OnEvent(p, type) ==
    LET latched == IF p.status = "ready" THEN p ELSE [Invalidate(p) EXCEPT !.status = "ready"]
    IN  IF listening < 1 THEN p
        ELSE [latched EXCEPT !.pending = @ \/ type = "invalidated"]

\* A reconnect that reports a gap brings all scopes along.
OnSubscriptionStatus(p, gapDetected) ==
    IF listening < 2 THEN p ELSE [p EXCEPT !.pending = @ \/ gapDetected]

\* Mutant: ready invalidates only when it is news.
OnServiceStatusNews(p, status) ==
    IF listening < 3 \/ p.status = status THEN p
    ELSE [Invalidate(p) EXCEPT !.status = status]

\* Ready always invalidates, the loss of it once.  A ready that comes after an
\* event latched the status and before this listener is lost for good.
OnServiceStatus(p, status) ==
    LET now == [p EXCEPT !.status = status,
                         !.told = status # "ready" /\ (@ \/ p.status = "ready")]
    IN  IF listening < 3
        THEN [p EXCEPT !.lost = @ \/ (status = "ready" /\ p.status = "ready")]
        ELSE IF status = "ready" \/ (p.status = "ready" /\ ~p.told) THEN Invalidate(now)
        ELSE now

-----------------------------------------------------------------------------
(* The service: writer, sampler, bus and the server's subscription loop.   *)

\* Mutant: a bus that never forgets.
SendUnbounded(queue, msgs) == queue \o msgs

\* broadcast::Sender::send: a full channel forgets its oldest event, and the
\* receiver finds out with Lagged, which the server only logs.
Send(queue, msgs) ==
    LET all == queue \o msgs
        over == IF Len(all) > BusCapacity THEN Len(all) - BusCapacity ELSE 0
    IN  SubSeq(all, over + 1, Len(all))

\* Events reach the receiver of an open subscription.  An invalidation that is
\* pushed out with no newer one behind it is lost.
Publish(msgs) ==
    /\ rx' = IF sub THEN Send(rx, msgs) ELSE rx
    /\ page' = [page EXCEPT !.lost = @ \/ (/\ sub /\ Holds(rx \o msgs, "invalidated")
                                           /\ ~Holds(rx', "invalidated"))]

\* flush_batch commits: the data and the sequence numbers, in one transaction.
Commit ==
    /\ up /\ ~unpublished /\ store < MaxWrites
    /\ store' = store + 1 /\ seq' = seq + 2 /\ unpublished' = TRUE
    /\ UNCHANGED <<up, latest, link, client, web, faults>>

\* Then it publishes data:invalidated and, one number on, summary:updated, which
\* the bridge does not subscribe to.
PublishBatch ==
    /\ unpublished
    /\ unpublished' = FALSE /\ latest' = seq
    /\ Publish(<<Msg("invalidated", seq - 1), Msg("other", seq)>>)
    /\ UNCHANGED <<up, store, seq, conn, sub, client, listening, got, cached, faults>>

\* The sampler publishes every two seconds, a zero sample when nothing happens.
Sample ==
    /\ up /\ Publish(<<Msg("sample", 0)>>)
    /\ UNCHANGED <<service, conn, sub, client, listening, got, cached, faults>>

\* What was already written to the socket can still be read.
Disconnect ==
    /\ conn' = FALSE /\ sub' = FALSE
    /\ \E n \in 0..Len(rx) : rx' = SubSeq(rx, 1, n)

Crash ==
    /\ up /\ Fault
    /\ up' = FALSE /\ unpublished' = FALSE /\ Disconnect
    /\ UNCHANGED <<store, seq, latest, client, web>>

ConnectionLost ==
    /\ conn /\ Fault /\ Disconnect
    /\ UNCHANGED <<service, client, web>>

\* launchd starts the service again; its status is hydrated from the store.
Start ==
    /\ ~up /\ up' = TRUE /\ latest' = seq
    /\ UNCHANGED <<store, seq, unpublished, link, client, web, faults>>

-----------------------------------------------------------------------------
(* The bridge task of the desktop host.                                    *)

\* An attempt, or a stream, ended with an error.  The count is never reset: a
\* stream has no other end.
Failed ==
    /\ bridge' = "backoff"
    /\ failures' = IF failures < UnavailableAfter THEN failures + 1 ELSE failures
    /\ page' = IF failures' = UnavailableAfter THEN OnServiceStatus(page, "unavailable")
               ELSE page

Connect ==
    /\ bridge = "backoff"
    /\ \/ /\ up /\ conn' = TRUE /\ bridge' = "recover" /\ rx' = <<>>
          /\ UNCHANGED <<failures, page>>
       \/ ~up /\ Failed /\ UNCHANGED <<conn, rx>>
    /\ UNCHANGED <<service, sub, lastSeen, prevSeq, gap, startup, listening, got, cached,
                   faults>>

classify_gap(stored, current) ==
    [detected |-> stored > 0 /\ current # stored,
     service_restarted |-> stored > 0 /\ current < stored]

\* recover_after_reconnect asks shell.status, reloads the live window after a
\* gap, and stores the current sequence before the subscription exists.  When
\* the question fails it reports no gap.
Recover ==
    /\ bridge = "recover" /\ bridge' = "subscribe"
    /\ \/ /\ up
          /\ gap' = classify_gap(lastSeen, latest).detected
          /\ prevSeq' = IF classify_gap(lastSeen, latest).service_restarted THEN 0 ELSE lastSeen
          /\ lastSeen' = latest
          /\ page' = IF gap' THEN OnEvent(page, "window") ELSE page
       \/ /\ ~up
          /\ gap' = FALSE /\ prevSeq' = 0
          /\ UNCHANGED <<lastSeen, page>>
    /\ UNCHANGED <<service, link, failures, startup, listening, got, cached, faults>>

\* The server subscribes to the bus, acknowledges, and adds a notice when it is
\* ahead of the client; the bridge emits that it is connected, that the service
\* is ready, and the notice.
Subscribe ==
    /\ bridge = "subscribe"
    /\ \/ LET behind == prevSeq > 0 /\ latest > prevSeq
              ready == OnServiceStatus(OnSubscriptionStatus(page, gap), "ready")
          IN  /\ conn
              /\ sub' = TRUE /\ bridge' = "stream"
              /\ page' = IF behind THEN OnEvent(ready, "gap") ELSE ready
              /\ lastSeen' = IF behind THEN latest ELSE lastSeen
              /\ UNCHANGED failures
       \/ ~conn /\ Failed /\ UNCHANGED <<sub, lastSeen>>
    /\ UNCHANGED <<service, conn, rx, prevSeq, gap, startup, listening, got, cached, faults>>

\* The server's filter, and the bridge's loop behind it.
Receive ==
    /\ bridge = "stream" /\ rx # <<>> /\ rx' = Tail(rx)
    /\ LET msg == Head(rx) IN
         \/ msg.type = "other" /\ UNCHANGED <<lastSeen, page>>
         \/ /\ msg.type # "other"
            /\ lastSeen' = IF msg.seq > lastSeen THEN msg.seq ELSE lastSeen
            /\ page' = OnEvent(page, msg.type)
    /\ UNCHANGED <<service, conn, sub, bridge, prevSeq, gap, failures, startup, listening,
                   got, cached, faults>>

StreamEnds ==
    /\ bridge = "stream" /\ rx = <<>> /\ ~conn
    /\ Failed
    /\ UNCHANGED <<service, link, lastSeen, prevSeq, gap, startup, listening, got, cached,
                   faults>>

\* The start-up task emits how its own ensure_running went.
StartupStatus ==
    /\ startup /\ startup' = FALSE
    /\ \E s \in {"ready", "unavailable"} : page' = OnServiceStatus(page, s)
    /\ UNCHANGED <<service, link, bridge, lastSeen, prevSeq, gap, failures, listening, got,
                   cached, faults>>

-----------------------------------------------------------------------------
(* The webview.                                                            *)

\* setup() awaits one listen after the other.
Listen ==
    /\ listening < 3 /\ listening' = listening + 1
    /\ UNCHANGED <<service, link, client, page, got, cached, faults>>

\* Mutant: every event, a sample too, starts the debounce over.
FlushScopesQuiet ==
    /\ page.pending /\ rx = <<>> /\ page' = [Invalidate(page) EXCEPT !.pending = FALSE]
    /\ UNCHANGED <<service, link, client, listening, got, cached, faults>>

\* The debounce timer fires.
FlushScopes ==
    /\ page.pending /\ page' = [Invalidate(page) EXCEPT !.pending = FALSE]
    /\ UNCHANGED <<service, link, client, listening, got, cached, faults>>

\* A query reads, then its answer is shown; with no service its retries end in
\* an error and nothing asks again.
Query ==
    /\ \/ /\ page.fetch = "asked" /\ up
          /\ page' = [page EXCEPT !.fetch = "read"] /\ got' = store /\ UNCHANGED cached
       \/ /\ page.fetch = "asked" /\ ~up
          /\ page' = [page EXCEPT !.fetch = "none"] /\ UNCHANGED <<got, cached>>
       \/ /\ page.fetch = "read"
          /\ page' = [page EXCEPT !.fetch = "none"] /\ cached' = got /\ UNCHANGED got
    /\ UNCHANGED <<service, link, client, listening, faults>>

Next ==
    \/ Commit \/ PublishBatch \/ Sample \/ Crash \/ ConnectionLost \/ Start
    \/ Connect \/ Recover \/ Subscribe \/ Receive \/ StreamEnds \/ StartupStatus
    \/ Listen \/ FlushScopes \/ Query

Spec == Init /\ [][Next]_vars

\* Every task and every timer runs on; launchd restarts the service.  Nothing
\* has to be written, and nothing has to fail.
Fairness ==
    /\ WF_vars(PublishBatch) /\ WF_vars(Sample) /\ WF_vars(Start)
    /\ WF_vars(Connect) /\ WF_vars(Recover \/ Subscribe) /\ WF_vars(Receive \/ StreamEnds)
    /\ WF_vars(Listen) /\ WF_vars(FlushScopes) /\ WF_vars(Query)

FairSpec == Spec /\ Fairness

-----------------------------------------------------------------------------
(* Properties.                                                             *)

\* The states the variables range over; a receiver of the bus holds no more than
\* its capacity.
TypeOK ==
    /\ {up, unpublished, conn, sub, gap, startup} \subseteq BOOLEAN
    /\ {store, got, cached} \subseteq 0..MaxWrites
    /\ {seq, latest, lastSeen, prevSeq} \subseteq 0..(2 * MaxWrites)
    /\ rx \in Seq(Msgs) /\ Len(rx) <= BusCapacity
    /\ bridge \in {"backoff", "recover", "subscribe", "stream"}
    /\ failures \in 0..UnavailableAfter /\ listening \in 0..3
    /\ page \in Pages /\ faults \in 0..MaxFaults

\* Something on its way will make the webview fetch again: an invalidation
\* under way, a reconnect to come, or an event that finds the status not yet
\* ready.
RefreshComing ==
    \/ unpublished \/ bridge # "stream" \/ ~conn \/ Holds(rx, "invalidated")
    \/ page.status # "ready" \/ page.pending
    \/ page.fetch = "asked" \/ (page.fetch = "read" /\ got = store)

\* Stale data is never shown with nothing on its way to refresh it, wherever a
\* crash, a lost connection or a late listener falls.  The exceptions are an
\* invalidation pushed out of the bus, which the server only logs, and a service
\* that is back before the third listener.
StaleIsAnnounced == cached # store /\ ~page.lost => RefreshComing

\* Once the service stays up, the page shows the current data for good, with
\* the same exceptions.
PageCatchesUp == <>[](up /\ ~page.lost) => <>[](cached = store)

\* Once the service stays up, the page says so for good, even if every status
\* event was emitted before its listener was registered.
PageSaysReady == <>[]up => <>[](page.status = "ready")

=============================================================================
