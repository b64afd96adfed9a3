------------------------------- MODULE Ingest -------------------------------
(***************************************************************************)
(* The path of a usage line from a log file into the store: the line       *)
(* scanner, the historical scan, the live tailer, the writer actor with    *)
(* its batches and transactions, the rollup tables, the pruning of old     *)
(* rows, the generations, and the boot sequence that ties them together.   *)
(*                                                                         *)
(* A file is a sequence of items; 0 is an empty line and every other       *)
(* number is a usage line of its own.  Offsets count two units per item,   *)
(* so that an odd offset stands inside an item (a line still being         *)
(* written).  A usage line makes one event, whose id is a function of the  *)
(* line's text.                                                            *)
(***************************************************************************)
EXTENDS Integers, Sequences, FiniteSets, FiniteSetsExt

CONSTANTS Files,          \* paths under the watched roots
          MaxLines,       \* bound: usage lines written altogether
          MaxBlanks,      \* bound: empty lines and partial writes altogether
          MaxRewrites,    \* bound: truncations and replacements of files
          MaxBoots,       \* bound: starts of the service
          MaxFaults,      \* bound: failed reads, writes and lost notifications
          MaxRollups,     \* bound: changes of the reporting timezone
          Aging,          \* bound: whether the lines written by some time grow old
          Policy,         \* UsageWritePolicy of the files' agent
          BatchSize,      \* BATCH_SIZE
          Capacity,       \* DEFAULT_WRITER_CAPACITY
          WarnThreshold   \* eight tenths of the capacity

ASSUME BoundsAssumption ==
    /\ {MaxLines, MaxBlanks, MaxRewrites, MaxBoots, MaxFaults, MaxRollups} \subseteq Nat
    /\ Aging \in BOOLEAN
    /\ Policy \in {"insert_once", "replace"}
    /\ BatchSize \in Nat \ {0}
    /\ Capacity \in Nat \ {0}
    /\ WarnThreshold \in 1..Capacity

Lines == 1..MaxLines
EmptyGen == 2 * MaxBoots + 1    \* the empty string as a generation id
Gens  == 1..EmptyGen            \* a start makes at most two generation ids
Events == Gens \X Lines

VARIABLES
    fs,         \* files: [items, torn, ino, inc]; ino 0: no such file
    nline, nblank, nrewrite,
    watching, notif,            \* file watcher and its pending notifications
    aged,                       \* lines whose timestamp is older than 24 hours
    ckpt,       \* log_files rows: offset and inode (inc and reg are history)
    rows,       \* usage_events: <<generation, line>>
    daily, buckets,             \* daily_usage and usage_buckets_*: event counts
    pruned,     \* history: how often a row was pruned
    audit, active,              \* audit_generations: state, and the is_active row
    ssReady, ssActive,          \* service_state
    snapReady, snapActive,      \* ServiceStatusSnapshot
    cacheGen,   \* GenerationManager.active_generation_id
    ngen,       \* generation ids handed out
    queue, pend, wmode, wcmd, werr, post,  \* the writer actor
    dropped,    \* history: a batch was dropped since the last barrier
    pc, cont, reply,            \* the boot sequence and the tailer
    gen, todo, job, known, touched, rescan,
    boots, faults, rollups

fileVars   == <<fs, nline, nblank, nrewrite>>
watchVars  == <<watching, notif>>
storeVars  == <<ckpt, rows, daily, buckets, pruned>>
genVars    == <<audit, active, ssReady, ssActive>>
memVars    == <<snapReady, snapActive, cacheGen>>
writerVars == <<queue, pend, wmode, wcmd, werr, post, dropped>>
procVars   == <<pc, cont, reply, gen, todo, job, known, touched, rescan>>
countVars  == <<boots, faults, rollups>>

vars == <<fileVars, watchVars, aged, storeVars, genVars, memVars, ngen,
          writerVars, procVars, countVars>>

NoCmd == [k |-> "none"]
NoJob == [stage |-> "none"]
Flush == [k |-> "flush"]
Meta  == [k |-> "meta"]        \* LogSourceUpsert, RealtimeSummaryReplace
Batch(f, g, ls, off, ino, inc, reg) ==
    [k |-> "batch", f |-> f, gen |-> g, lines |-> ls, off |-> off, ino |-> ino,
     inc |-> inc, reg |-> reg]

----------------------------------------------------------------------------
(* Files and the scanner *)

Exists(f) == fs[f].ino # 0
Size(f)   == 2 * Len(fs[f].items) + (IF fs[f].torn THEN 1 ELSE 0)

(* The loop that gives each completed line its offsets walks one raw        *)
(* newline for each non-empty line, so an empty line makes the offset of    *)
(* the last line, which is the checkpoint, lag by one item.                 *)
checkpoint_offset(eff, n) == IF n = 0 THEN eff ELSE 2 * ((eff \div 2) + n)

(* What one read finds in a file whose stored row is `row': the usage lines, the number of completed lines and the *)
(* checkpoint.  A line that began before the offset is only a fragment and  *)
(* parses as nothing.                                                       *)
read_file_once(f, row) ==
    LET items     == fs[f].items
        was_reset == (row.ino # 0 /\ row.ino # fs[f].ino) \/ row.off > Size(f)
        eff       == IF was_reset THEN 0 ELSE row.off
        done      == {i \in DOMAIN items : 2 * i > eff /\ items[i] # 0}
    IN  [lines |-> {items[i] : i \in {j \in done : 2 * (j - 1) >= eff}},
         n     |-> Cardinality(done),
         off   |-> checkpoint_offset(eff, Cardinality(done)),
         inc   |-> IF was_reset \/ row.ino = 0 THEN fs[f].inc ELSE row.inc]

(* The notification of a change reaches the tailer, or is lost. *)
Notify(f, kind) ==
    \/ /\ notif' = IF watching THEN [notif EXCEPT ![f] = @ \cup {kind}] ELSE notif
       /\ UNCHANGED faults
    \/ /\ watching /\ faults < MaxFaults
       /\ faults' = faults + 1
       /\ UNCHANGED notif

EnvUnchanged == UNCHANGED <<watching, aged, storeVars, genVars, memVars, ngen,
                            writerVars, procVars, boots, rollups>>

CreateFile(f) ==
    /\ ~Exists(f)
    /\ fs' = [fs EXCEPT ![f] = [items |-> <<>>, torn |-> FALSE, ino |-> 1, inc |-> 1]]
    /\ Notify(f, "created")
    /\ EnvUnchanged /\ UNCHANGED <<nline, nblank, nrewrite>>

WritePart(f) ==
    /\ Exists(f) /\ ~fs[f].torn /\ nline < MaxLines /\ nblank < MaxBlanks
    /\ fs' = [fs EXCEPT ![f].torn = TRUE]
    /\ nblank' = nblank + 1
    /\ Notify(f, "modified")
    /\ EnvUnchanged /\ UNCHANGED <<nline, nrewrite>>

WriteLine(f) ==
    /\ Exists(f) /\ nline < MaxLines
    /\ fs' = [fs EXCEPT ![f].items = Append(@, nline + 1), ![f].torn = FALSE]
    /\ nline' = nline + 1
    /\ Notify(f, "modified")
    /\ EnvUnchanged /\ UNCHANGED <<nblank, nrewrite>>

WriteBlank(f) ==
    /\ Exists(f) /\ ~fs[f].torn /\ nblank < MaxBlanks
    /\ fs' = [fs EXCEPT ![f].items = Append(@, 0)]
    /\ nblank' = nblank + 1
    /\ Notify(f, "modified")
    /\ EnvUnchanged /\ UNCHANGED <<nline, nrewrite>>

(* The file is emptied in place, or replaced by a new file that holds the   *)
(* same lines or none. *)
Rewrite(f, keep, fresh) ==
    /\ Exists(f) /\ nrewrite < MaxRewrites /\ (keep => fresh)
    /\ fs' = [fs EXCEPT ![f] = [items |-> IF keep THEN @.items ELSE <<>>,
                                torn  |-> FALSE,
                                ino   |-> IF fresh THEN @.ino + 1 ELSE @.ino,
                                inc   |-> @.inc + 1]]
    /\ nrewrite' = nrewrite + 1
    /\ Notify(f, IF fresh THEN "created" ELSE "modified")
    /\ EnvUnchanged /\ UNCHANGED <<nline, nblank>>

DayPasses ==
    /\ Aging /\ aged = {} /\ nline > 0
    /\ aged' = 1..nline
    /\ UNCHANGED <<fileVars, watchVars, storeVars, genVars, memVars, ngen,
                   writerVars, procVars, countVars>>

----------------------------------------------------------------------------
(* The writer actor *)

Up == pc # "down"

(* The tailer holds the mutex of the shared database handle while it reads  *)
(* a file; the scan reads through a handle of its own. *)
DbFree == ~(pc \in {"catchup", "tail"} /\ job.stage = "read")

Fault == faults < MaxFaults /\ faults' = faults + 1

pending_event_count(p) ==
    MapThenSumSet(LAMBDA g : MapThenSumSet(LAMBDA i : Cardinality(p[g][i].lines), DOMAIN p[g]),
                  Gens)

NoBatches == [g \in Gens |-> <<>>]

WriterRecv ==
    /\ Up /\ wmode = "idle" /\ queue # <<>>
    /\ queue' = Tail(queue)
    /\ IF Head(queue).k = "batch"
       THEN /\ pend' = [pend EXCEPT ![Head(queue).gen] = Append(@, Head(queue))]
            /\ wmode' = IF pending_event_count(pend') >= BatchSize THEN "flush" ELSE "idle"
            /\ wcmd' = NoCmd
       ELSE /\ wmode' = "flush" /\ wcmd' = Head(queue) /\ UNCHANGED pend
    /\ post' = TRUE
    /\ UNCHANGED <<fileVars, watchVars, aged, storeVars, genVars, memVars, ngen,
                   werr, dropped, procVars, countVars>>

(* Bug: only a full batch is flushed. *)
MutNoIdleFlush ==
    /\ Up /\ wmode = "idle" /\ queue = <<>> /\ pending_event_count(pend) >= BatchSize
    /\ wmode' = "flush" /\ wcmd' = NoCmd /\ post' = FALSE
    /\ UNCHANGED <<fileVars, watchVars, aged, storeVars, genVars, memVars, ngen,
                   queue, pend, werr, dropped, procVars, countVars>>

WriterTimeout ==
    /\ Up /\ wmode = "idle" /\ queue = <<>> /\ pend # NoBatches
    /\ wmode' = "flush" /\ wcmd' = NoCmd /\ post' = FALSE
    /\ UNCHANGED <<fileVars, watchVars, aged, storeVars, genVars, memVars, ngen,
                   queue, pend, werr, dropped, procVars, countVars>>

(* One group of flush_pending_batches: the batches of one generation, in    *)
(* one transaction.  The id of a row is the line's alone, so a line has one *)
(* row in all generations.  insert_once leaves a line that has a row.       *)
(* replace looks for the row in its own generation only: a line that has a  *)
(* row in another one is counted as new, and the row stays where it is.     *)
HasRow(line) == \E g \in Gens : <<g, line>> \in rows

(* Bug: lines that have a row are counted again. *)
MutCountDuplicates(g, lines) == {g} \X lines

(* What the upsert finds to be new, which is what reaches the rollups. *)
effective_events(g, lines) ==
    {g} \X {l \in lines : \/ Policy = "insert_once" /\ ~HasRow(l)
                          \/ Policy = "replace" /\ <<g, l>> \notin rows}

upsert_usage_events_dedup_aware(eff) == rows \cup {e \in eff : ~HasRow(e[2])}

Plus(table, eff) == [e \in Events |-> table[e] + (IF e \in eff THEN 1 ELSE 0)]

update_materialized_aggregates_from_events(eff) == Plus(buckets, eff)

upsert_daily_usage_for_events(eff) == Plus(daily, eff)

(* The history: lines before reg were passed over by a registration. *)
upsert_log_file_checkpoint(b) ==
    [off |-> b.off, ino |-> b.ino, inc |-> b.inc,
     reg |-> IF b.reg THEN b.off
             ELSE IF b.inc = ckpt[b.f].inc THEN ckpt[b.f].reg ELSE 0]

flush_single_generation(g) ==
    LET bs   == pend[g]
        eff  == effective_events(g, UNION {bs[i].lines : i \in DOMAIN bs})
        Of(f) == {i \in DOMAIN bs : bs[i].f = f}
    IN  /\ rows' = upsert_usage_events_dedup_aware(eff)
        /\ daily' = upsert_daily_usage_for_events(eff)
        /\ buckets' = update_materialized_aggregates_from_events(eff)
        /\ ckpt' = [f \in Files |-> IF Of(f) = {} THEN ckpt[f]
                                    ELSE upsert_log_file_checkpoint(bs[Max(Of(f))])]
        /\ UNCHANGED pruned

(* Bug: the checkpoints are written outside the transaction of the rows. *)
MutCheckpointFirst(g) ==
    /\ Up /\ wmode = "flush" /\ DbFree
    /\ pend[g] # <<>>
    /\ pend' = [pend EXCEPT ![g] = <<>>]
    /\ wmode' = IF pend' = NoBatches /\ wcmd = NoCmd THEN "idle" ELSE "flush"
    /\ \/ flush_single_generation(g) /\ UNCHANGED <<faults, dropped>>
       \/ /\ Fault /\ dropped' = TRUE /\ UNCHANGED <<rows, daily, buckets, pruned>>
          /\ LET b == pend[g][1] IN
             ckpt' = [ckpt EXCEPT ![b.f] =
                        [off |-> b.off, ino |-> b.ino, inc |-> b.inc, reg |-> @.reg]]
    /\ UNCHANGED <<fileVars, watchVars, aged, genVars, memVars, ngen, queue, wcmd, werr,
                   post, procVars, boots, rollups>>

WriterFlushGroup(g) ==
    /\ Up /\ wmode = "flush" /\ DbFree
    /\ pend[g] # <<>>
    /\ pend' = [pend EXCEPT ![g] = <<>>]
    /\ wmode' = IF pend' = NoBatches /\ wcmd = NoCmd THEN "idle" ELSE "flush"
    /\ \/ flush_single_generation(g) /\ UNCHANGED <<faults, dropped>>
       \/ Fault /\ dropped' = TRUE /\ UNCHANGED storeVars      \* only logged
    /\ UNCHANGED <<fileVars, watchVars, aged, genVars, memVars, ngen, queue, wcmd, werr,
                   post, procVars, boots, rollups>>

----------------------------------------------------------------------------
(* Commands the writer dispatches once its pending batches are flushed *)

create_generation(g) ==
    /\ audit' = [audit EXCEPT ![g] = "building"]
    /\ UNCHANGED <<active, ssReady, ssActive, snapReady, snapActive>>

(* The promotion commits in one transaction; the snapshot follows, unless   *)
(* its lock is contended at that moment, which reports an error.            *)
execute_promotion_barrier(g, contended) ==
    /\ audit' = [audit EXCEPT ![g] = "promoted"]
    /\ active' = g /\ ssReady' = "ready_exact" /\ ssActive' = g
    /\ IF contended THEN UNCHANGED <<snapReady, snapActive>>
                    ELSE snapReady' = "ready_exact" /\ snapActive' = g

(* RebuildRollups: daily_usage is emptied and filled again from the rows of *)
(* the active generation; the two statements are not one transaction.       *)
handle_rebuild_rollups(failed) ==
    daily' = IF snapActive = 0 THEN daily
             ELSE [e \in Events |-> IF ~failed /\ e \in rows /\ e[1] = snapActive
                                    THEN 1 ELSE 0]

(* The metrics go into the row of service_state; a row this makes has no    *)
(* readiness. *)
persist_metrics_checkpoint == IF ssReady = "none" THEN "null" ELSE ssReady

dispatch_command ==
    CASE wcmd.k = "create" ->
           /\ UNCHANGED <<storeVars, reply>>
           /\ \/ create_generation(wcmd.gen) /\ UNCHANGED <<werr, faults>>
              \/ Fault /\ werr' = TRUE /\ UNCHANGED <<genVars, snapReady, snapActive>>
      [] wcmd.k = "promote" ->
           /\ UNCHANGED <<storeVars, reply>>
           /\ \/ execute_promotion_barrier(wcmd.gen, FALSE) /\ UNCHANGED <<werr, faults>>
              \/ execute_promotion_barrier(wcmd.gen, TRUE) /\ Fault /\ werr' = TRUE
              \/ Fault /\ werr' = TRUE /\ UNCHANGED <<genVars, snapReady, snapActive>>
      [] wcmd.k = "meta" ->
           /\ UNCHANGED <<storeVars, genVars, snapReady, snapActive, reply>>
           /\ \/ UNCHANGED <<werr, faults>>
              \/ Fault /\ werr' = TRUE
      [] wcmd.k = "rollups" ->      \* an error goes to the caller only
           /\ UNCHANGED <<ckpt, rows, buckets, pruned, genVars, snapReady, snapActive,
                          reply, werr>>
           /\ \/ handle_rebuild_rollups(FALSE) /\ UNCHANGED faults
              \/ Fault /\ handle_rebuild_rollups(TRUE)
      [] OTHER ->                   \* flush, shutdown: drain_pending_errors
           /\ UNCHANGED <<storeVars, audit, active, ssActive, snapReady, snapActive, faults>>
           /\ ssReady' = IF wcmd.k = "shutdown" THEN persist_metrics_checkpoint ELSE ssReady
           /\ reply' = IF werr THEN "err" ELSE "ok"
           /\ werr' = FALSE

WriterFinish ==
    /\ Up /\ wmode = "flush" /\ pend = NoBatches
    /\ wcmd.k # "flush" => DbFree
    /\ wmode' = "idle" /\ wcmd' = NoCmd
    /\ dispatch_command
    /\ UNCHANGED <<fileVars, watchVars, aged, cacheGen, ngen, queue, pend, post, dropped,
                   pc, cont, gen, todo, job, known, touched, rescan, boots, rollups>>

(* The step after a command when the thirty seconds are over: metrics are   *)
(* written into service_state and rows older than a day are deleted.        *)
prune_usage_events(g) ==
    LET old == {e \in rows : e[1] = g /\ e[2] \in aged} IN
    /\ rows' = rows \ old
    /\ pruned' = [e \in Events |-> pruned[e] + (IF e \in old THEN 1 ELSE 0)]
    /\ UNCHANGED <<ckpt, daily, buckets>>

WriterMetrics ==
    /\ Up /\ wmode = "idle" /\ post /\ DbFree
    /\ post' = FALSE
    /\ ssReady' = persist_metrics_checkpoint
    /\ prune_usage_events(snapActive)
    /\ UNCHANGED <<fileVars, watchVars, aged, audit, active, ssActive, memVars, ngen,
                   queue, pend, wmode, wcmd, werr, dropped, procVars, countVars>>

----------------------------------------------------------------------------
(* Boot: hydrate, then register (first start) or scan, then tail *)

(* What the boot sequence and the tailer never change. *)
ProcUnchanged == UNCHANGED <<fileVars, aged, pend, wmode, wcmd, werr, post, storeVars,
                             audit, active, boots, rollups>>

ExistingFiles == {f \in Files : Exists(f)}

(* Send the commands and a flush, and wait for its answer. *)
Await(cmds, next) ==
    /\ Len(queue) < Capacity
    /\ queue' = queue \o cmds \o <<Flush>>
    /\ pc' = "wait" /\ cont' = next /\ reply' = "none"
    /\ dropped' = FALSE

(* recover_missing_generation_metadata: with an active generation the       *)
(* service is ready_exact again.                                            *)
Boot ==
    /\ pc = "down" /\ boots < MaxBoots
    /\ boots' = boots + 1
    /\ ssReady' = IF active # 0 THEN "ready_exact" ELSE ssReady
    /\ ssActive' = IF active # 0 THEN active ELSE ssActive
    /\ snapReady' = IF ssReady' \in {"none", "null"} THEN "starting" ELSE ssReady'
    /\ snapActive' = ssActive' /\ cacheGen' = ssActive'
    /\ pc' = "boot"
    /\ UNCHANGED <<fileVars, watchVars, aged, storeVars, audit, active, ngen, writerVars,
                   cont, reply, gen, todo, job, known, touched, rescan, faults, rollups>>

(* register_new_install_sources, or run_initial_scan without an active      *)
(* generation: a new generation is created first.  run_initial_scan with    *)
(* one goes on in it.  The files are those the discovery finds now.         *)
StartGeneration ==
    /\ pc = "boot"
    /\ todo' = ExistingFiles
    /\ IF snapReady # "starting" /\ active # 0
       THEN /\ gen' = active /\ pc' = "scan"
            /\ queue' = Append(queue, Meta)
            /\ UNCHANGED <<cont, reply, dropped, ngen>>
       ELSE /\ ngen' = ngen + 1 /\ gen' = ngen + 1
            /\ Await(<<[k |-> "create", gen |-> ngen + 1]>>,
                     IF snapReady = "starting" THEN "reg" ELSE "scan")
    /\ ProcUnchanged
    /\ UNCHANGED <<watchVars, ssReady, ssActive, memVars, job, known, touched, rescan,
                   faults>>

Answered(next, answer) == pc = "wait" /\ cont = next /\ reply = answer

(* The generation exists: the sources are registered, or read. *)
GenerationCreated ==
    /\ \E next \in {"reg", "scan"} : Answered(next, "ok") /\ pc' = next
    /\ queue' = Append(queue, Meta)
    /\ ProcUnchanged
    /\ UNCHANGED <<watchVars, ssReady, ssActive, memVars, ngen, dropped, cont, reply, gen,
                   todo, job, known, touched, rescan, faults>>

(* A first start records the present size of every file as its checkpoint.  *)
register_new_install_sources(f) ==
    /\ pc = "reg" /\ f \in todo /\ Len(queue) < Capacity
    /\ todo' = todo \ {f}
    /\ queue' = Append(queue, Batch(f, gen, {}, Size(f), fs[f].ino, fs[f].inc, TRUE))
    /\ ProcUnchanged
    /\ UNCHANGED <<watchVars, ssReady, ssActive, memVars, ngen, dropped, pc, cont, reply,
                   gen, job, known, touched, rescan, faults>>

(* scan_once_via_writer: a file is read from its checkpoint, and its inode  *)
(* is read after its content. *)
ScanRead(f) ==
    /\ pc = "scan" /\ f \in todo /\ job = NoJob
    /\ LET r == read_file_once(f, ckpt[f]) IN
       job' = IF r.n = 0 THEN NoJob
              ELSE [stage |-> "send", f |-> f, batch |-> r, ino |-> 0]
    /\ todo' = todo \ {f}
    /\ ProcUnchanged
    /\ UNCHANGED <<watchVars, ssReady, ssActive, memVars, ngen, queue, dropped, pc, cont,
                   reply, gen, known, touched, rescan, faults>>

ScanSend ==
    /\ pc = "scan" /\ job.stage = "send" /\ Len(queue) < Capacity
    /\ LET f == job.f
           r == job.batch
       IN  queue' = Append(queue, Batch(f, gen, r.lines, r.off, fs[f].ino, r.inc, FALSE))
    /\ job' = NoJob
    /\ ProcUnchanged
    /\ UNCHANGED <<watchVars, ssReady, ssActive, memVars, ngen, dropped, pc, cont, reply,
                   gen, todo, known, touched, rescan, faults>>

(* The barriers between the phases: after the registrations; after the      *)
(* batches of the scan and again after its summary; and, for a generation   *)
(* that is not promoted yet, after the promotion. *)
Barrier ==
    /\ \/ pc = "reg" /\ todo = {} /\ Await(<<>>, "promote")
       \/ pc = "scan" /\ todo = {} /\ job = NoJob /\ Await(<<Meta>>, "summary")
       \/ Answered("summary", "ok") /\ Await(<<Meta>>, "scanned")
       \/ /\ \/ Answered("promote", "ok")
             \/ Answered("scanned", "ok") /\ gen # active
          /\ Await(<<[k |-> "promote", gen |-> gen]>>, "promoted")
       \/ pc = "catchup" /\ todo = {} /\ job = NoJob /\ Await(<<>>, "tailing")
    /\ ProcUnchanged
    /\ UNCHANGED <<watchVars, ssReady, ssActive, memVars, ngen, gen, todo, job, known,
                   touched, rescan, faults>>

(* Bug: the cache of the generation manager is not updated. *)
MutNotActivated ==
    /\ \/ /\ Answered("promoted", "ok")
          /\ UNCHANGED <<ssReady, ssActive>>
       \/ /\ Answered("scanned", "ok") /\ gen = active
          /\ ssReady' = "ready_exact" /\ ssActive' = gen
    /\ snapReady' = "ready_exact" /\ snapActive' = gen
    /\ UNCHANGED cacheGen
    /\ pc' = "discover"
    /\ ProcUnchanged
    /\ UNCHANGED <<watchVars, ngen, queue, dropped, cont, reply, gen, todo, job, known,
                   touched, rescan, faults>>

(* activate_generation, activate_and_apply_ready_exact; and, for a scan in  *)
(* the active generation, mark_ready_exact_if_generation_valid.             *)
BootDone ==
    /\ \/ /\ Answered("promoted", "ok")
          /\ UNCHANGED <<ssReady, ssActive>>
       \/ /\ Answered("scanned", "ok") /\ gen = active
          /\ ssReady' = "ready_exact" /\ ssActive' = gen
    /\ snapReady' = "ready_exact" /\ snapActive' = gen /\ cacheGen' = gen
    /\ pc' = "discover"
    /\ ProcUnchanged
    /\ UNCHANGED <<watchVars, ngen, queue, dropped, cont, reply, gen, todo, job, known,
                   touched, rescan, faults>>

(* A failed scan or registration: the readiness becomes ready_degraded if   *)
(* the service was starting and its row, if there is one, has a readiness   *)
(* that may change.  The tailer starts all the same. *)
transition_after_initial_scan ==
    LET moves == snapReady = "starting" /\ ssReady \in {"none", "ready_degraded"}
    IN  /\ ssReady' = IF moves THEN "ready_degraded" ELSE ssReady
        /\ ssActive' = IF ~moves THEN ssActive
                       ELSE IF snapActive = 0 THEN EmptyGen ELSE snapActive
        /\ snapReady' = IF moves THEN "ready_degraded" ELSE snapReady

BootFailed ==
    /\ \/ /\ \E next \in {"reg", "scan", "promote", "summary", "scanned", "promoted"} :
                Answered(next, "err")
          /\ UNCHANGED faults
       \/ pc = "scan" /\ todo # {} /\ job = NoJob /\ Fault         \* a read fails
    /\ transition_after_initial_scan
    /\ todo' = {} /\ pc' = "discover"
    /\ ProcUnchanged
    /\ UNCHANGED <<watchVars, snapActive, cacheGen, ngen, queue, dropped, cont, reply, gen,
                   job, known, touched, rescan>>

----------------------------------------------------------------------------
(* The tailer *)

(* BusytokSupervisor::start_tailing: the files known now, and the           *)
(* generation of the cache or else a new id that no table holds.            *)
StartTailing ==
    /\ pc = "discover"
    /\ known' = ExistingFiles
    /\ IF cacheGen # 0 THEN gen' = cacheGen /\ UNCHANGED ngen
                       ELSE gen' = ngen + 1 /\ ngen' = ngen + 1
    /\ pc' = "watch"
    /\ ProcUnchanged
    /\ UNCHANGED <<watchVars, ssReady, ssActive, memVars, queue, dropped, cont, reply, todo,
                   job, touched, rescan, faults>>

InstallWatch ==
    /\ pc = "watch"
    /\ watching' = TRUE
    /\ pc' = "catchup" /\ todo' = known
    /\ ProcUnchanged
    /\ UNCHANGED <<notif, ssReady, ssActive, memVars, ngen, queue, dropped, cont, reply, gen,
                   job, known, touched, rescan, faults>>

TailerUnchanged ==
    /\ ProcUnchanged
    /\ UNCHANGED <<watching, ssReady, ssActive, memVars, ngen, dropped, cont, reply, gen>>

(* prepare_tail_batch_command: with the database locked, the stored row and *)
(* the inode are read, and then the content. *)
Opened(f) == [stage |-> "read", f |-> f, batch |-> ckpt[f], ino |-> fs[f].ino]

CatchUp(f) ==
    /\ pc = "catchup" /\ f \in todo /\ job = NoJob
    /\ job' = Opened(f) /\ todo' = todo \ {f}
    /\ TailerUnchanged
    /\ UNCHANGED <<notif, queue, pc, known, touched, rescan, faults>>

prepare_tail_batch_command ==
    /\ job.stage = "read"
    /\ LET r == read_file_once(job.f, job.batch) IN
       \/ /\ job' = IF r.n = 0 THEN NoJob
                    ELSE [stage |-> "send", f |-> job.f, batch |-> r, ino |-> job.ino]
          /\ UNCHANGED faults
       \/ job' = NoJob /\ Fault                                    \* only logged
    /\ TailerUnchanged
    /\ UNCHANGED <<notif, queue, pc, todo, known, touched, rescan>>

TailSend ==
    /\ pc \in {"catchup", "tail"} /\ job.stage = "send" /\ Len(queue) < Capacity
    /\ queue' = Append(queue, Batch(job.f, gen, job.batch.lines, job.batch.off, job.ino,
                                    job.batch.inc, FALSE))
    /\ job' = NoJob
    /\ TailerUnchanged
    /\ UNCHANGED <<notif, pc, todo, known, touched, rescan, faults>>

(* The first periodic rescan covers every known file. *)
TailerStarted ==
    /\ Answered("tailing", "ok")
    /\ touched' = known /\ pc' = "tail"
    /\ TailerUnchanged
    /\ UNCHANGED <<notif, queue, todo, job, known, rescan, faults>>

Idle == pc = "tail" /\ job = NoJob

(* A created file joins the known ones; a change of an unknown file is      *)
(* ignored. *)
TailEvent(f, kind) ==
    /\ Idle /\ rescan = {}
    /\ kind \in notif[f] /\ (kind = "modified" => "created" \notin notif[f])
    /\ notif' = [notif EXCEPT ![f] = @ \ {kind}]
    /\ IF f \in known \/ kind = "created"
       THEN known' = known \cup {f} /\ touched' = touched \cup {f} /\ job' = Opened(f)
       ELSE UNCHANGED <<known, touched, job>>
    /\ TailerUnchanged
    /\ UNCHANGED <<queue, pc, todo, rescan, faults>>

(* Every thirty seconds the files touched since the last time are read      *)
(* again, unless the writer's queue is near its capacity.                   *)
RescanBegin ==
    /\ Idle /\ rescan = {} /\ touched # {} /\ Len(queue) < WarnThreshold
    /\ rescan' = touched /\ touched' = {}
    /\ TailerUnchanged
    /\ UNCHANGED <<notif, queue, pc, todo, job, known, faults>>

RescanFile(f) ==
    /\ Idle /\ f \in rescan
    /\ rescan' = rescan \ {f} /\ job' = Opened(f)
    /\ TailerUnchanged
    /\ UNCHANGED <<notif, queue, pc, todo, known, touched, faults>>

----------------------------------------------------------------------------
(* The end of the process, and the control server's only command here *)

(* Shutdown: the tailer ends, then the writer flushes and stops. *)
Shutdown ==
    /\ Idle /\ Len(queue) < Capacity
    /\ queue' = Append(queue, [k |-> "shutdown"])
    /\ pc' = "wait" /\ cont' = "stopped" /\ reply' = "none" /\ dropped' = FALSE
    /\ rescan' = {}
    /\ ProcUnchanged
    /\ UNCHANGED <<watchVars, ssReady, ssActive, memVars, ngen, gen, todo, job, known,
                   touched, faults>>

ProcessGone ==
    /\ pc' = "down" /\ cont' = "none" /\ reply' = "none" /\ gen' = 0
    /\ todo' = {} /\ job' = NoJob /\ known' = {} /\ touched' = {} /\ rescan' = {}
    /\ queue' = <<>> /\ pend' = NoBatches /\ wmode' = "idle" /\ wcmd' = NoCmd
    /\ werr' = FALSE /\ post' = FALSE /\ dropped' = FALSE
    /\ watching' = FALSE /\ notif' = [f \in Files |-> {}]
    /\ snapReady' = "starting" /\ snapActive' = 0 /\ cacheGen' = 0
    /\ UNCHANGED <<fileVars, aged, storeVars, genVars, ngen, countVars>>

(* The writer has stopped, or the start of the tailer has failed. *)
Exit ==
    /\ \/ pc = "wait" /\ cont = "stopped" /\ reply # "none"
       \/ Answered("tailing", "err")
    /\ ProcessGone

Crash == Up /\ ProcessGone

ChangeTimezone ==
    /\ Up /\ cont # "stopped" /\ rollups < MaxRollups /\ Len(queue) < Capacity
    /\ rollups' = rollups + 1
    /\ queue' = Append(queue, [k |-> "rollups"])
    /\ UNCHANGED <<fileVars, watchVars, aged, storeVars, genVars, memVars, ngen, pend,
                   wmode, wcmd, werr, post, dropped, procVars, boots, faults>>

----------------------------------------------------------------------------
Init ==
    /\ fs = [f \in Files |-> [items |-> <<>>, torn |-> FALSE, ino |-> 0, inc |-> 0]]
    /\ nline = 0 /\ nblank = 0 /\ nrewrite = 0
    /\ watching = FALSE /\ notif = [f \in Files |-> {}] /\ aged = {}
    /\ ckpt = [f \in Files |-> [off |-> 0, ino |-> 0, inc |-> 0, reg |-> 0]]
    /\ rows = {} /\ pruned = [e \in Events |-> 0]
    /\ daily = [e \in Events |-> 0] /\ buckets = [e \in Events |-> 0]
    /\ audit = [g \in Gens |-> "none"] /\ active = 0
    /\ ssReady = "none" /\ ssActive = 0
    /\ snapReady = "starting" /\ snapActive = 0 /\ cacheGen = 0 /\ ngen = 0
    /\ queue = <<>> /\ pend = NoBatches /\ wmode = "idle" /\ wcmd = NoCmd
    /\ werr = FALSE /\ post = FALSE /\ dropped = FALSE
    /\ pc = "down" /\ cont = "none" /\ reply = "none" /\ gen = 0
    /\ todo = {} /\ job = NoJob /\ known = {} /\ touched = {} /\ rescan = {}
    /\ boots = 0 /\ faults = 0 /\ rollups = 0

Writing ==
    \E f \in Files :
        \/ CreateFile(f) \/ WritePart(f) \/ WriteLine(f) \/ WriteBlank(f)
        \/ \E keep, fresh \in BOOLEAN : Rewrite(f, keep, fresh)

Writer ==
    \/ WriterRecv \/ WriterTimeout \/ WriterFinish
    \/ \E g \in Gens : WriterFlushGroup(g)

Starting ==
    \/ StartGeneration \/ GenerationCreated \/ ScanSend \/ Barrier \/ BootDone \/ BootFailed
    \/ \E f \in Files : register_new_install_sources(f) \/ ScanRead(f)

Tailing ==
    \/ StartTailing \/ InstallWatch \/ prepare_tail_batch_command \/ TailSend
    \/ TailerStarted \/ RescanBegin
    \/ \E f \in Files :
          CatchUp(f) \/ RescanFile(f) \/ \E kind \in {"created", "modified"} : TailEvent(f, kind)

Next ==
    \/ Writing \/ DayPasses \/ Writer \/ WriterMetrics
    \/ Boot \/ Starting \/ Tailing \/ Shutdown \/ Exit \/ Crash \/ ChangeTimezone

Spec == Init /\ [][Next]_vars

(* Threads that can run do run; starting the service, shutting it down,     *)
(* faults and what users write are free. *)
Fairness ==
    /\ WF_vars(Writer) /\ WF_vars(Starting) /\ WF_vars(Tailing) /\ WF_vars(Exit)

FairSpec == Spec /\ Fairness

----------------------------------------------------------------------------
(* Properties *)

Stored(line) == \E g \in Gens : <<g, line>> \in rows \/ pruned[<<g, line>>] > 0

LogFiles == [off : Nat, ino : Nat, inc : Nat, reg : Nat]
Reads    == [lines : SUBSET Lines, n : Nat, off : Nat, inc : Nat]
Batches  == [k : {"batch"}, f : Files, gen : Gens, lines : SUBSET Lines, off : Nat,
             ino : Nat, inc : Nat, reg : BOOLEAN]
Commands == Batches \cup [k : {"create", "promote"}, gen : Gens]
                    \cup [k : {"flush", "meta", "shutdown", "rollups"}]
Jobs     == {NoJob} \cup [stage : {"read"}, f : Files, batch : LogFiles, ino : Nat]
                    \cup [stage : {"send"}, f : Files, batch : Reads, ino : Nat]

Places == {"down", "boot", "reg", "scan", "wait", "discover", "watch", "catchup", "tail"}
Conts  == {"none", "reg", "scan", "promote", "summary", "scanned", "promoted", "tailing",
           "stopped"}

FilesOK ==
    /\ fs \in [Files -> [items : Seq(0..MaxLines), torn : BOOLEAN, ino : Nat, inc : Nat]]
    /\ nline \in 0..MaxLines /\ nblank \in Nat /\ nrewrite \in Nat
    /\ watching \in BOOLEAN /\ notif \in [Files -> SUBSET {"created", "modified"}]
    /\ aged \subseteq Lines

StoreOK ==
    /\ ckpt \in [Files -> LogFiles] /\ rows \subseteq Events
    /\ daily \in [Events -> Nat] /\ buckets \in [Events -> Nat] /\ pruned \in [Events -> Nat]

GensOK ==
    /\ audit \in [Gens -> {"none", "building", "promoted"}]
    /\ ssReady \in {"none", "null", "ready_exact", "ready_degraded"}
    /\ snapReady \in {"starting", "ready_exact", "ready_degraded"}
    /\ {active, ssActive, snapActive, cacheGen, gen} \subseteq Gens \cup {0}
    /\ boots \in 0..MaxBoots /\ ngen \in 0..(2 * boots)

WriterOK ==
    /\ queue \in Seq(Commands) /\ pend \in [Gens -> Seq(Batches)]
    /\ wcmd \in Commands \cup {NoCmd} /\ wmode \in {"idle", "flush"}
    /\ werr \in BOOLEAN /\ post \in BOOLEAN /\ dropped \in BOOLEAN

ProcOK ==
    /\ pc \in Places /\ cont \in Conts /\ reply \in {"none", "ok", "err"}
    /\ todo \subseteq Files /\ known \subseteq Files
    /\ touched \subseteq Files /\ rescan \subseteq Files
    /\ job \in Jobs /\ faults \in Nat /\ rollups \in Nat

(* The states the variables range over. *)
TypeOK == FilesOK /\ StoreOK /\ GensOK /\ WriterOK /\ ProcOK

(* A checkpoint never passes a line that is not in the store, whatever      *)
(* batches were dropped, reads failed and processes died; only the lines    *)
(* that were there when a first start registered the file are passed over   *)
(* (flush_single_generation writes the rows and log_files in one            *)
(* transaction). *)
CheckpointCovers ==
    \A f \in Files : ckpt[f].inc = fs[f].inc =>
        \A i \in DOMAIN fs[f].items :
            2 * i <= ckpt[f].off /\ 2 * (i - 1) >= ckpt[f].reg /\ fs[f].items[i] # 0
                => Stored(fs[f].items[i])

(* A line is counted in the rollups once for every time its row was         *)
(* inserted, although batches overlap, lines are read again and processes   *)
(* die (the upsert tells which rows are new and only these reach the        *)
(* rollups, in one transaction).  Under replace this needs that no failed   *)
(* start left rows in a generation of their own. *)
RollupsFollowRows ==
    Policy = "insert_once" \/ faults = 0 =>
    \A e \in Events : /\ buckets[e] = pruned[e] + (IF e \in rows THEN 1 ELSE 0)
                      /\ daily[e] <= buckets[e]

(* While nothing fails, every row is visible: it belongs to the active      *)
(* generation, so that no start of the service hides what an earlier one    *)
(* stored (a generation is reused by the next start, and the tailer writes  *)
(* into it). *)
VisibleUnlessFault ==
    faults = 0 /\ active # 0 => \A e \in rows : e[1] = active

(* Both families of rollups tell the same of the active generation: the     *)
(* daily rows that the IANA read paths use, and the buckets of the fast     *)
(* paths.  RebuildRollups computes the daily rows from rows of one day.     *)
ReadPathsAgree == \A e \in Events : e[1] = active => daily[e] = buckets[e]

(* A flush that reports success has committed what was sent before it.      *)
FlushCommits == reply = "ok" => ~dropped

(* No line is counted twice, although files are replaced by copies and old  *)
(* rows, which the check for duplicates needs, are deleted. *)
CountedOnce == \A e \in Events : buckets[e] <= 1

(* A file whose stored row describes another file: truncated and grown      *)
(* again, or replaced between the two reads of the scan. *)
Misjudged(f) == ckpt[f].ino = fs[f].ino /\ ckpt[f].inc # fs[f].inc

CaughtUp(f) ==
    \A i \in DOMAIN fs[f].items :
        fs[f].items[i] # 0 /\ 2 * (i - 1) >= ckpt[f].reg => Stored(fs[f].items[i])

(* While nothing fails, the tailer stores in the end every line of every    *)
(* file it knows (notifications, the catch-up after the watch and the       *)
(* periodic rescan), for files that it does not misjudge. *)
TailerCatchesUp ==
    [](faults = 0) =>
        <>[](pc # "down" => \A f \in known : Misjudged(f) \/ CaughtUp(f))
=============================================================================
