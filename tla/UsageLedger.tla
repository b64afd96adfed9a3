---------------------------- MODULE UsageLedger ----------------------------
(***************************************************************************)
(* How the lines of the two agents become rows of usage_events and amounts *)
(* in the rollups.                                                         *)
(*                                                                         *)
(* Claude Code writes a message several times while it grows, and again    *)
(* when a sidechain replays it: lines of one message share a dedupe key,   *)
(* and one row per key is kept.  Codex writes running totals: a line is    *)
(* worth its difference from the snapshot stored last, and lines are read  *)
(* again when a checkpoint lags behind empty lines or a file starts over.  *)
(*                                                                         *)
(* One generation and one file; a behaviour is about one of the agents.    *)
(* When files are read is the subject of Ingest.  A Claude batch depends   *)
(* on what is stored only when it is committed; a Codex batch is computed  *)
(* from what is stored when it is read, and committed later.               *)
(***************************************************************************)
EXTENDS Integers, Sequences, FiniteSets, FiniteSetsExt, SequencesExt

CONSTANTS Messages,     \* message ids: the dedupe key of a line
          Requests,     \* request ids: with the message, the id of a row
          Buckets,      \* time buckets (and models, projects) of a rollup
          MaxTokens,    \* bound: tokens of a Claude line
          Amounts,      \* tokens of a Codex turn
          MaxBatches,   \* bound: batches written
          MaxBatch,     \* bound: lines of a batch
          MaxLines,     \* bound: lines of the Codex file, those it replaced included
          MaxRestarts,  \* bound: the Codex file starts over
          MaxQueue      \* bound: batches in the writer

ASSUME LedgerAssumption ==
    /\ {MaxBatches, MaxLines, MaxRestarts, MaxQueue} \subseteq Nat
    /\ {MaxTokens, MaxBatch} \subseteq Nat \ {0}
    /\ Amounts \subseteq Nat
    /\ IsFiniteSet(Messages) /\ IsFiniteSet(Buckets)

Tokens == 1..MaxTokens
Line == [msg : Messages, req : Requests, side : BOOLEAN, total : Tokens, bucket : Buckets]

Files == 0..MaxRestarts

(* A line of the Codex file has a running total, or something else, or      *)
(* nothing; cum is the total so far, and delta the amount of the turn, or   *)
(* -1 if the line does not say it. *)
CodexLine == [kind : {"total", "other", "empty"}, cum : Nat, delta : Nat \cup {-1}]
Event == Files \X Nat \X Nat
Batch == [inc : Files, reset : BOOLEAN, off : Nat, events : SUBSET Event, first : Nat, cums : Seq(Nat)]

VARIABLES
    agent,      \* the agent of this behaviour
    rows,       \* usage_events of Claude Code
    roll,       \* tokens of each bucket
    count,      \* event_count of each bucket
    seen,       \* history: the lines presented
    batches,    \* history: number of batches
    files,      \* the Codex file; those it replaced are history
    inc,        \* how often the file was replaced or cut short
    ckpt,       \* the stored checkpoint: the file it is about and the offset
    queue,      \* batches sent to the writer and not committed
    snaps,      \* codex_token_snapshots by ordinal
    events,     \* usage_events of Codex: <<file, line, delta>>
    stored,     \* sum of the deltas of the rows inserted
    totals,     \* history: of each file, the highest total committed
    stale       \* history: a batch left ordinals above its own behind

claudeVars == <<rows, roll, count, seen, batches>>
codexVars  == <<files, inc, ckpt, queue, snaps, events, stored, totals, stale>>
vars == <<agent, claudeVars, codexVars>>

(* The sum of the values of f over a finite set. *)
SumOver(f, S) == MapThenSumSet(LAMBDA x : f[x], S)

----------------------------------------------------------------------------
(* Claude Code *)

Id(r) == <<r.msg, r.req>>

(* Bug: the total alone decides. *)
MutTotalDecides(new, old) == new.total > old.total

new_beats_existing(new, old) ==
    \/ old.side /\ ~new.side
    \/ old.side = new.side /\ new.total > old.total

(* Rows of the key, which the unique index keeps at one at most. *)
fetch_existing_for_dedupe(table, e) == {r \in table : r.msg = e.msg}

(* A conflict on the id updates the row in place and leaves its bucket      *)
(* (timestamp, model and project) alone; other rows of the key are removed  *)
(* first. *)
upsert_by_id(table, e) ==
    LET kept == {r \in table : r.msg = e.msg => r.req = e.req}
        same == {r \in kept : Id(r) = Id(e)}
    IN  (kept \ same) \cup
        (IF same = {} THEN {e}
         ELSE {[r EXCEPT !.side = e.side, !.total = e.total] : r \in same})

(* Bug: the full amount of the new line is added. *)
MutNoDelta(old, new) == new.total

compute_delta(old, new) == new.total - old.total

(* One event of upsert_usage_events_dedup_aware, with the rollup update its *)
(* effective event leads to: an amount for the bucket of the new line, and  *)
(* one more event. *)
upsert_one(st, e) ==
    LET existing == fetch_existing_for_dedupe(st.rows, e)
        Effective(amount) ==
            [rows  |-> upsert_by_id(st.rows, e),
             roll  |-> [st.roll EXCEPT ![e.bucket] = @ + amount],
             count |-> [st.count EXCEPT ![e.bucket] = @ + 1]]
    IN  IF existing = {} THEN Effective(e.total)
        ELSE LET old == CHOOSE r \in existing : TRUE
             IN  IF new_beats_existing(e, old) THEN Effective(compute_delta(old, e))
                                               ELSE st

upsert_usage_events_dedup_aware(batch) ==
    FoldLeft(upsert_one, [rows |-> rows, roll |-> roll, count |-> count], batch)

ClaudeBatch(batch) ==
    /\ agent = "claude" /\ batches < MaxBatches
    /\ batches' = batches + 1
    /\ LET st == upsert_usage_events_dedup_aware(batch)
       IN  rows' = st.rows /\ roll' = st.roll /\ count' = st.count
    /\ seen' = seen \cup ToSet(batch)
    /\ UNCHANGED <<agent, codexVars>>

----------------------------------------------------------------------------
(* Codex *)

file == files[inc]

CodexAppends(line) ==
    /\ agent = "codex" /\ SumOver([i \in Files |-> Len(files[i])], Files) < MaxLines
    /\ files' = [files EXCEPT ![inc] = Append(@, line)]
    /\ UNCHANGED <<agent, claudeVars, inc, ckpt, queue, snaps, events, stored, totals, stale>>

(* The running total at the end of a file. *)
LastTotal(f) == IF f = <<>> THEN 0 ELSE Last(f).cum

(* The agent appends a running total, with or without the amount of the     *)
(* last turn beside it. *)
CodexWrites(amount, explicit) ==
    CodexAppends([kind |-> "total", cum |-> LastTotal(file) + amount,
                  delta |-> IF explicit THEN amount ELSE -1])

(* Other lines, and empty ones, leave the total where it is. *)
CodexWritesOther(kind) ==
    CodexAppends([kind |-> kind, cum |-> LastTotal(file), delta |-> -1])

(* The file is replaced by one that starts counting again. *)
CodexRestarts ==
    /\ agent = "codex" /\ inc < MaxRestarts /\ file # <<>>
    /\ inc' = inc + 1
    /\ UNCHANGED <<agent, claudeVars, files, ckpt, queue, snaps, events, stored, totals, stale>>

(* The last of some totals, if there is one. *)
LastOf(cums) == IF cums = <<>> THEN 0 ELSE Last(cums)

(* Bug: the order of the ordinals is reversed. *)
MutFirstSnapshot == IF snaps = <<>> THEN 0 ELSE Head(snaps)

(* The snapshot with the highest ordinal, if there is one. *)
get_latest_codex_snapshot == LastOf(snaps)

codex_snapshot_delta(line, previous) ==
    IF line.delta >= 0 THEN line.delta ELSE Max({line.cum - previous, 0})

(* The lines after an offset that are not empty. *)
LinesAfter(from) == {i \in from+1..Len(file) : file[i].kind # "empty"}

(* Those that have a total. *)
codex_snapshots(lines) == {i \in lines : file[i].kind = "total"}

(* The offset a read leaves counts a line of the file for each line it      *)
(* returns, although the empty ones between them are skipped: it lags       *)
(* behind by as many lines as were empty. *)
checkpoint_offset(from) == from + Cardinality(LinesAfter(from))

(* A turn that says it used nothing has a snapshot and no event. *)
explicit_zero_component_codex_delta(line) == line.delta = 0

(* The events of a batch of these totals: each one against the one before   *)
(* it, the first against the stored baseline, or against none in a file     *)
(* that was restarted.  The id of an event is the line's time and the       *)
(* amounts. *)
build_codex_delta_events(lines, reset) ==
    LET Baseline(i) == IF \E j \in lines : j < i THEN file[i - 1].cum
                       ELSE IF reset THEN 0 ELSE get_latest_codex_snapshot
    IN  {<<inc, i, codex_snapshot_delta(file[i], Baseline(i))>> :
            i \in {j \in lines : ~explicit_zero_component_codex_delta(file[j])}}

(* The ordinal before the batch's first: the highest one stored, or none in *)
(* a file that was restarted. *)
next_codex_ordinal(reset) == IF reset THEN 0 ELSE Len(snaps)

(* The totals of the lines in their order. *)
Totals(lines) ==
    [k \in 1..Cardinality(lines) |->
        file[CHOOSE i \in lines : Cardinality({j \in lines : j <= i}) = k].cum]

(* The file is read from the stored checkpoint, or from the start when it   *)
(* is another file now.  Amounts and ordinals are computed from what is     *)
(* stored at this time; batches sent earlier may still be in the writer. *)
CodexRead ==
    LET reset == ckpt.inc # inc
        from  == IF reset THEN 0 ELSE ckpt.off
        lines == LinesAfter(from)
        snapshots == codex_snapshots(lines)
    IN  /\ agent = "codex" /\ Len(queue) < MaxQueue /\ lines # {}
        /\ queue' = Append(queue,
               [inc |-> inc, reset |-> reset, off |-> checkpoint_offset(from),
                events |-> build_codex_delta_events(snapshots, reset),
                first |-> next_codex_ordinal(reset), cums |-> Totals(snapshots)])
        /\ UNCHANGED <<agent, claudeVars, files, inc, ckpt, snaps, events, stored, totals, stale>>

(* A stored ordinal is overwritten, and higher ones stay. *)
insert_snapshots(b) ==
    [k \in 1..Max({Len(snaps), b.first + Len(b.cums)}) |->
        IF k \in b.first+1..b.first+Len(b.cums) THEN b.cums[k - b.first] ELSE snaps[k]]

(* The writer commits the oldest batch: events whose id is there are        *)
(* ignored, snapshots and checkpoint are written. *)
CodexCommit ==
    /\ queue # <<>>
    /\ LET b   == Head(queue)
           new == b.events \ events
       IN  /\ events' = events \cup new
           /\ stored' = stored + SumOver([e \in new |-> e[3]], new)
           /\ snaps' = insert_snapshots(b)
           /\ ckpt' = [inc |-> b.inc, off |-> b.off]
           /\ totals' = [totals EXCEPT ![b.inc] = Max({@, LastOf(b.cums)})]
           /\ stale' = (stale \/ ((b.reset \/ b.cums # <<>>) /\ Len(snaps) > b.first + Len(b.cums)))
    /\ queue' = Tail(queue)
    /\ UNCHANGED <<agent, claudeVars, files, inc>>

(* The transaction of a batch fails and the batch is dropped. *)
CodexDropped ==
    /\ queue # <<>> /\ queue' = Tail(queue)
    /\ UNCHANGED <<agent, claudeVars, files, inc, ckpt, snaps, events, stored, totals, stale>>

----------------------------------------------------------------------------
Init ==
    /\ agent \in {"claude", "codex"}
    /\ rows = {} /\ roll = [b \in Buckets |-> 0] /\ count = [b \in Buckets |-> 0]
    /\ seen = {} /\ batches = 0
    /\ files = [i \in Files |-> <<>>] /\ inc = 0
    /\ ckpt = [inc |-> 0, off |-> 0] /\ queue = <<>>
    /\ snaps = <<>> /\ events = {} /\ stored = 0 /\ stale = FALSE
    /\ totals = [i \in Files |-> 0]

Next ==
    \/ \E n \in 1..MaxBatch : \E batch \in [1..n -> Line] : ClaudeBatch(batch)
    \/ \E amount \in Amounts, explicit \in BOOLEAN : CodexWrites(amount, explicit)
    \/ \E kind \in {"other", "empty"} : CodexWritesOther(kind)
    \/ CodexRestarts
    \/ CodexRead \/ CodexCommit \/ CodexDropped

Spec == Init /\ [][Next]_vars

----------------------------------------------------------------------------
(* The states the variables range over. *)
TypeOK ==
    /\ agent \in {"claude", "codex"}
    /\ rows \subseteq Line /\ seen \subseteq Line
    /\ roll \in [Buckets -> Int] /\ count \in [Buckets -> Nat] /\ batches \in Nat
    /\ files \in [Files -> Seq(CodexLine)] /\ inc \in Files
    /\ ckpt \in [inc : Files, off : Nat] /\ queue \in Seq(Batch)
    /\ snaps \in Seq(Nat) /\ events \subseteq Event
    /\ stored \in Nat /\ totals \in [Files -> Nat] /\ stale \in BOOLEAN

(* Whatever the order and the batches in which the lines of a message       *)
(* arrive, one row is left for it: it is not a sidechain's if any line was  *)
(* not, and no line of its class had more tokens (new_beats_existing). *)
BestLineWins ==
    \A m \in {l.msg : l \in seen} :
        LET mine == {l \in seen : l.msg = m}
            kept == {r \in rows : r.msg = m}
            best == {l \in mine : l.side => \A x \in mine : x.side}
        IN  /\ Cardinality(kept) = 1
            /\ \A r \in kept : /\ \E l \in best : r.side = l.side
                               /\ r.total = Max({l.total : l \in best})

(* The rollups end at the totals of the rows: what a displaced row had been *)
(* counted with is taken back (compute_delta). *)
TokensFollowRows ==
    SumOver(roll, Buckets) = SumOver([r \in rows |-> r.total], rows)

(* The amounts stored for a Codex file add up to the highest running total  *)
(* committed of it, although lines are read again, while earlier batches    *)
(* wait in the writer or are dropped, and the file may start over.  The     *)
(* exception is a batch whose ordinals end below the highest one stored:    *)
(* the first of a file that starts over with fewer lines, or one that was   *)
(* read before batches in the writer that go further were committed.        *)
CodexTotalStored ==
    ~stale => stored = SumOver(totals, Files)

(* The same without the exception. *)
CodexRestartCounted == stored = SumOver(totals, Files)

(* Bucket by bucket, the rollups are the totals of the rows. *)
BucketsFollowRows ==
    \A b \in Buckets :
        LET mine == {r \in rows : r.bucket = b}
        IN  roll[b] = SumOver([r \in mine |-> r.total], mine)
============================================================================
