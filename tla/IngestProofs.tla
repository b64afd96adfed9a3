---------------------------- MODULE IngestProofs ----------------------------
(***************************************************************************)
(* Proofs about Ingest, for any number of files, lines, rewrites, starts,  *)
(* faults and changes of the timezone, and for both write policies.        *)
(*                                                                         *)
(*   GenInv      how many generation ids a start may still hand out        *)
(*   StreamInv   what is on its way to the writer, and where the boot      *)
(*               sequence or the tailer stands meanwhile                   *)
(*   SeenInv     a file that anybody speaks of exists                      *)
(*   CoverInv    a stored row, a batch or a read fits the file, and every  *)
(*               line up to its offset is stored or comes with it          *)
(*   CleanInv    while nothing has failed: one generation                  *)
(***************************************************************************)
EXTENDS Ingest, TLAPS, FiniteSetTheorems, SequenceTheorems, WellFoundedInduction

Elems(s) == {s[i] : i \in DOMAIN s}

Sent   == Elems(queue)
Held   == UNION {Elems(pend[g]) : g \in Gens}
Stream == Sent \cup {wcmd}
InTransit == {c \in Sent : c.k = "batch"} \cup Held

Ends == {"flush", "shutdown"}

Starts  == {"reg", "scan", "promote", "summary", "scanned", "promoted"}
Booting == pc \in {"reg", "scan", "discover"} \/ (pc = "wait" /\ cont \in Starts)

\* The first start is recording the sizes of the files.
Registering == pc = "reg" \/ (pc = "wait" /\ cont = "promote")

GenInv ==
    /\ pc = "boot" => ngen + 2 <= 2 * boots
    /\ Booting => ngen + 1 <= 2 * boots
    /\ pc \notin {"down", "boot"} => gen \in Gens

Answering == pc = "wait" /\ reply = "none"

Ordered(s) ==
    \A i, j \in DOMAIN s : i < j /\ s[i].k \in Ends => s[j].k = "rollups"

FlushInv ==
    /\ \A c \in Stream : c.k \in Ends => Answering
    /\ wcmd.k \in Ends => \A c \in Sent : c.k = "rollups"
    /\ wmode = "flush" /\ wcmd = NoCmd => pend # NoBatches
    /\ wcmd.k # "batch" /\ (wmode = "idle" => wcmd = NoCmd)

Quiet == Held = {} /\ \A c \in Stream : c.k \in {"none", "rollups"}

PhaseInv ==
    /\ pc \in {"down", "boot"} \/ (pc = "wait" /\ reply # "none") => Quiet
    /\ \A b \in InTransit :
          /\ ~(pc = "wait" /\ cont \in {"reg", "scan"})
          /\ b.reg <=> Registering
    /\ \A c \in Stream : c.k = "promote" =>
          Answering /\ cont = "promoted" /\ c.gen = gen

JobInv ==
    /\ job # NoJob => pc \in {"scan", "catchup", "tail"}
    /\ job.stage = "read" => pc # "scan" /\ job.batch = ckpt[job.f]

StreamInv == Ordered(queue) /\ FlushInv /\ PhaseInv /\ JobInv

SeenInv ==
    /\ todo \cup known \cup touched \cup rescan \subseteq ExistingFiles
    /\ \A f \in Files : notif[f] # {} => Exists(f)
    /\ job # NoJob => Exists(job.f)
    /\ \A f \in Files : ~Exists(f) =>
          fs[f].items = <<>> /\ ~fs[f].torn /\ fs[f].inc = 0

\* The lines before this offset were passed over.
Base(f, inc) == IF ckpt[f].inc = inc THEN ckpt[f].reg ELSE 0

\* A stored row, a batch, or a read of f, as far as it describes the file.
Fits(f, off, inc) ==
    /\ inc <= fs[f].inc
    /\ inc = fs[f].inc => off <= Size(f)

\* Every line up to the offset is among `lines' or stored already.
Covered(f, lines, off, inc) ==
    inc = fs[f].inc =>
        \A i \in DOMAIN fs[f].items :
            2 * i <= off /\ 2 * (i - 1) >= Base(f, inc) /\ fs[f].items[i] # 0
                => fs[f].items[i] \in lines \/ Stored(fs[f].items[i])

\* What a read has found.  What it knows less than the stored row does not
\* bring back lines that a registration passed over.
Found(f, lines, off, inc) ==
    /\ Fits(f, off, inc) /\ Covered(f, lines, off, inc)
    /\ off % 2 = 0
    /\ inc < ckpt[f].inc => ckpt[f].reg = 0

RowInv(f) ==
    /\ Fits(f, ckpt[f].off, ckpt[f].inc) /\ Covered(f, {}, ckpt[f].off, ckpt[f].inc)
    /\ ckpt[f].ino = 0 => ckpt[f].off = 0
    /\ ckpt[f].off % 2 = 1 => ckpt[f].reg = ckpt[f].off

BatchInv(b) ==
    /\ b.ino # 0 /\ Fits(b.f, b.off, b.inc)
    /\ ~b.reg => Found(b.f, b.lines, b.off, b.inc)

ReadInv ==
    /\ job.stage = "read" => job.ino # 0
    /\ job.stage = "send" =>
          /\ Found(job.f, job.batch.lines, job.batch.off, job.batch.inc)
          /\ pc # "scan" => job.ino # 0

CoverInv ==
    /\ \A f \in Files : RowInv(f)
    /\ \A b \in InTransit : BatchInv(b)
    /\ ReadInv

\* Nothing was promoted yet.
NothingYet ==
    /\ rows = {} /\ job = NoJob
    /\ \A b \in InTransit : b.lines = {}
    /\ pc \in {"down", "boot", "reg"} \/ (pc = "wait" /\ cont \in {"reg", "promote", "promoted"})
    /\ ssReady \in {"none", "null"} /\ snapReady = "starting"
    /\ ssActive = 0 /\ snapActive = 0 /\ cacheGen = 0

OneGeneration ==
    /\ \A e \in rows : e[1] = active
    /\ \A b \in InTransit : b.lines = {} \/ b.gen = active
    /\ pc \in {"scan", "watch", "catchup", "tail"} => gen = active
    /\ pc = "wait" /\ cont \in {"summary", "scanned", "promoted", "tailing"} => gen = active
    /\ pc = "discover" => cacheGen = active
    /\ pc = "boot" => snapReady # "starting"
    /\ pc # "reg" /\ ~(pc = "wait" /\ cont \in {"reg", "scan", "promote"})

Clean ==
    /\ ~werr /\ reply # "err"
    /\ pc = "wait" /\ cont = "promoted" => active = gen \/ \E c \in Stream : c.k = "promote"
    /\ active = 0 => NothingYet
    /\ active # 0 => OneGeneration

CleanInv ==
    /\ faults = 0 => Clean
    /\ \A g \in Gens : \A b \in Elems(pend[g]) : b.gen = g

-----------------------------------------------------------------------------
(* Commands and sequences.                                                 *)

LEMMA CommandFacts ==
    /\ \A c \in Commands : c.k \in {"batch", "create", "promote", "flush", "meta",
                                     "shutdown", "rollups"}
    /\ \A c \in Commands : c.k = "batch" => c \in Batches
    /\ \A c \in Commands : c.k \in {"create", "promote"} => c.gen \in Gens
    /\ Flush \in Commands /\ Meta \in Commands
    /\ [k |-> "shutdown"] \in Commands /\ [k |-> "rollups"] \in Commands
    /\ \A g \in Gens : [k |-> "create", gen |-> g] \in Commands
                       /\ [k |-> "promote", gen |-> g] \in Commands
    /\ Batches \subseteq Commands /\ NoCmd \notin Commands /\ NoCmd.k = "none"
  BY DEF Commands, Batches, Flush, Meta, NoCmd

LEMMA JobFacts ==
    /\ NoJob \in Jobs /\ NoJob.stage = "none"
    /\ \A j \in Jobs : j.stage \in {"none", "read", "send"}
    /\ \A j \in Jobs : j.stage = "none" <=> j = NoJob
    /\ \A j \in Jobs : j.stage = "read" => j \in [stage : {"read"}, f : Files, batch : LogFiles, ino : Nat]
    /\ \A j \in Jobs : j.stage = "send" => j \in [stage : {"send"}, f : Files, batch : Reads, ino : Nat]
  BY DEF Jobs, NoJob

\* Awaiting an answer after at most one command.
LEMMA AwaitFacts ==
  ASSUME NEW C, NEW s \in Seq(C), NEW c \in C, NEW d \in C
  PROVE  /\ s \o <<>> \o <<d>> = Append(s, d)
         /\ s \o <<c>> \o <<d>> = Append(Append(s, c), d)
  OBVIOUS

LEMMA AppendFacts ==
  ASSUME NEW C, NEW s \in Seq(C), NEW c \in C
  PROVE  /\ Append(s, c) \in Seq(C)
         /\ Elems(Append(s, c)) = Elems(s) \cup {c}
         /\ Ordered(s) /\ (c.k = "rollups" \/ \A x \in Elems(s) : x.k \notin Ends)
               => Ordered(Append(s, c))
  <1> DEFINE t == Append(s, c)
  <1>1. /\ t \in Seq(C) /\ Len(t) = Len(s) + 1 /\ \A i \in 1..Len(s) : t[i] = s[i]
        /\ t[Len(s) + 1] = c
    BY AppendProperties
  <1>2. DOMAIN s = 1..Len(s) /\ DOMAIN t = 1..Len(t) /\ Len(s) \in Nat /\ Len(t) \in Nat
    BY <1>1, LenProperties
  <1> HIDE DEF t
  <1>3. Elems(t) = Elems(s) \cup {c}
    <2>1. ASSUME NEW x \in Elems(t) PROVE x \in Elems(s) \cup {c}
      <3>1. PICK i \in 1..(Len(s) + 1) : x = t[i]
        BY <1>1, <1>2 DEF Elems
      <3>2. CASE i = Len(s) + 1
        BY <3>1, <3>2, <1>1
      <3>3. CASE i \in 1..Len(s)
        BY <3>1, <3>3, <1>1, <1>2 DEF Elems
      <3> QED BY <3>2, <3>3, <1>2
    <2>2. ASSUME NEW x \in Elems(s) PROVE x \in Elems(t)
      <3>1. PICK i \in 1..Len(s) : x = s[i]
        BY <1>2 DEF Elems
      <3>2. i \in 1..Len(t) /\ t[i] = x
        BY <3>1, <1>1, <1>2
      <3> QED BY <3>2, <1>2 DEF Elems
    <2>3. c \in Elems(t)
      <3>1. Len(s) + 1 \in 1..Len(t)
        BY <1>1, <1>2
      <3> QED BY <3>1, <1>1, <1>2 DEF Elems
    <2> QED BY <2>1, <2>2, <2>3
  <1>4. ASSUME Ordered(s), c.k = "rollups" \/ \A x \in Elems(s) : x.k \notin Ends
        PROVE  Ordered(t)
    <2> SUFFICES ASSUME NEW i \in 1..Len(t), NEW j \in 1..Len(t), i < j, t[i].k \in Ends
                 PROVE  t[j].k = "rollups"
      BY <1>2 DEF Ordered
    <2>1. i \in 1..Len(s)
      BY <1>1, <1>2
    <2>2. t[i] = s[i] /\ s[i] \in Elems(s)
      BY <2>1, <1>1, <1>2 DEF Elems
    <2>3. CASE j = Len(s) + 1
      BY <2>2, <2>3, <1>4, <1>1
    <2>4. CASE j \in 1..Len(s)
      <3>1. t[j] = s[j]
        BY <2>4, <1>1
      <3> QED BY <2>1, <2>2, <2>4, <3>1, <1>4, <1>2 DEF Ordered
    <2> QED BY <2>3, <2>4, <1>1, <1>2
  <1> QED BY <1>1, <1>3, <1>4 DEF t

LEMMA TailFacts ==
  ASSUME NEW C, NEW s \in Seq(C), s # <<>>
  PROVE  /\ Head(s) \in C /\ Tail(s) \in Seq(C)
         /\ Elems(s) = Elems(Tail(s)) \cup {Head(s)}
         /\ Ordered(s) => Ordered(Tail(s))
         /\ Ordered(s) /\ Head(s).k \in Ends => \A x \in Elems(Tail(s)) : x.k = "rollups"
  <1> DEFINE t == Tail(s)
  <1>1. /\ Head(s) \in C /\ t \in Seq(C) /\ Len(t) = Len(s) - 1
        /\ \A i \in 1..Len(t) : t[i] = s[i + 1]
    BY HeadTailProperties
  <1>2. /\ DOMAIN s = 1..Len(s) /\ DOMAIN t = 1..Len(t) /\ Len(s) \in Nat \ {0} /\ Len(t) \in Nat
        /\ Head(s) = s[1]
    BY <1>1, LenProperties, EmptySeq
  <1> HIDE DEF t
  <1>3. \A i \in 1..Len(t) : i + 1 \in 1..Len(s) /\ t[i] = s[i + 1]
    BY <1>1, <1>2
  <1>4. \A i \in 1..Len(s) : i # 1 => i - 1 \in 1..Len(t) /\ t[i - 1] = s[i]
    <2> SUFFICES ASSUME NEW i \in 1..Len(s), i # 1
                 PROVE  i - 1 \in 1..Len(t) /\ t[i - 1] = s[i]
      OBVIOUS
    <2>1. i - 1 \in 1..Len(t) /\ (i - 1) + 1 = i
      BY <1>1, <1>2
    <2> QED BY <2>1, <1>3
  <1>5. Elems(s) = Elems(t) \cup {Head(s)}
    <2>1. 1 \in 1..Len(s)
      BY <1>2
    <2>2. \A x \in Elems(t) : x \in Elems(s)
      BY <1>2, <1>3 DEF Elems
    <2>3. \A x \in Elems(s) : x = Head(s) \/ x \in Elems(t)
      BY <1>2, <1>4 DEF Elems
    <2> QED BY <2>1, <2>2, <2>3, <1>2 DEF Elems
  <1>6. ASSUME Ordered(s) PROVE Ordered(t)
    <2> SUFFICES ASSUME NEW i \in 1..Len(t), NEW j \in 1..Len(t), i < j, t[i].k \in Ends
                 PROVE  t[j].k = "rollups"
      BY <1>2 DEF Ordered
    <2>1. i + 1 < j + 1 /\ t[i] = s[i + 1] /\ t[j] = s[j + 1] /\ i + 1 \in 1..Len(s) /\ j + 1 \in 1..Len(s)
      BY <1>3
    <2> QED BY <2>1, <1>6, <1>2 DEF Ordered
  <1>7. ASSUME Ordered(s), Head(s).k \in Ends, NEW x \in Elems(t) PROVE x.k = "rollups"
    <2>1. PICK i \in 1..Len(t) : x = t[i]
      BY <1>2 DEF Elems
    <2>2. 1 < i + 1 /\ x = s[i + 1] /\ i + 1 \in 1..Len(s) /\ 1 \in 1..Len(s)
      BY <2>1, <1>2, <1>3
    <2> QED BY <2>2, <1>7, <1>2 DEF Ordered
  <1> QED BY <1>1, <1>5, <1>6, <1>7 DEF t

LEMMA Bounds ==
    /\ MaxLines \in Nat /\ MaxBlanks \in Nat /\ MaxRewrites \in Nat /\ MaxBoots \in Nat
    /\ MaxFaults \in Nat /\ MaxRollups \in Nat /\ EmptyGen \in Gens /\ Gens \subseteq Nat \ {0}
    /\ \A n \in 1..(2 * MaxBoots) : n \in Gens
  <1>1. /\ MaxLines \in Nat /\ MaxBlanks \in Nat /\ MaxRewrites \in Nat /\ MaxBoots \in Nat
        /\ MaxFaults \in Nat /\ MaxRollups \in Nat
    BY BoundsAssumption
  <1> QED BY <1>1 DEF EmptyGen, Gens

LEMMA FileFacts ==
  ASSUME FilesOK, NEW f \in Files
  PROVE  /\ fs[f].items \in Seq(0..MaxLines) /\ Len(fs[f].items) \in Nat
         /\ DOMAIN fs[f].items = 1..Len(fs[f].items)
         /\ \A i \in 1..Len(fs[f].items) : fs[f].items[i] \in 0..MaxLines
         /\ fs[f].torn \in BOOLEAN /\ fs[f].ino \in Nat /\ fs[f].inc \in Nat
         /\ Size(f) \in Nat
  <1>1. /\ fs[f].items \in Seq(0..MaxLines)
        /\ fs[f].torn \in BOOLEAN /\ fs[f].ino \in Nat /\ fs[f].inc \in Nat
    BY DEF FilesOK
  <1> DEFINE s == fs[f].items
  <1> HIDE DEF s
  <1>2. s \in Seq(0..MaxLines)
    BY <1>1 DEF s
  <1>3. Len(s) \in Nat /\ DOMAIN s = 1..Len(s) /\ \A i \in 1..Len(s) : s[i] \in 0..MaxLines
    BY <1>2, LenProperties, ElementOfSeq
  <1>4. (2 * Len(s) + (IF fs[f].torn THEN 1 ELSE 0)) \in Nat
    BY <1>3
  <1> QED BY <1>1, <1>3, <1>4 DEF s, Size

LEMMA ReadType ==
  ASSUME FilesOK, NEW f \in Files, NEW row \in LogFiles
  PROVE  read_file_once(f, row) \in Reads
  <1> DEFINE items == fs[f].items
             reset == (row.ino # 0 /\ row.ino # fs[f].ino) \/ row.off > Size(f)
             eff   == IF reset THEN 0 ELSE row.off
             done  == {i \in DOMAIN items : 2 * i > eff /\ items[i] # 0}
  <1> HIDE DEF done, eff, reset, items
  <1>1. /\ DOMAIN items = 1..Len(items) /\ Len(items) \in Nat
        /\ \A i \in 1..Len(items) : items[i] \in 0..MaxLines
        /\ fs[f].inc \in Nat
    BY FileFacts DEF items
  <1>2. row.off \in Nat /\ row.inc \in Nat
    BY DEF LogFiles
  <1>3. done \subseteq 1..Len(items) /\ \A i \in done : items[i] # 0
    BY <1>1 DEF done
  <1>4. Cardinality(done) \in Nat
    <2>1. IsFiniteSet(1..Len(items))
      BY <1>1, FS_Interval, 1 \in Int, Len(items) \in Int
    <2> QED BY <2>1, <1>3, FS_Subset, FS_CardinalityType
  <1>5. eff \in Nat
    BY <1>2 DEF eff
  <1>6. checkpoint_offset(eff, Cardinality(done)) \in Nat
    BY <1>4, <1>5 DEF checkpoint_offset
  <1>7. {items[i] : i \in {j \in done : 2 * (j - 1) >= eff}} \subseteq Lines
    <2>1. \A i \in done : items[i] \in 1..MaxLines
      BY <1>1, <1>3, Bounds
    <2> QED BY <2>1 DEF Lines
  <1>8. (IF reset \/ row.ino = 0 THEN fs[f].inc ELSE row.inc) \in Nat
    BY <1>1, <1>2
  <1>9. [lines |-> {items[i] : i \in {j \in done : 2 * (j - 1) >= eff}},
         n |-> Cardinality(done), off |-> checkpoint_offset(eff, Cardinality(done)),
         inc |-> IF reset \/ row.ino = 0 THEN fs[f].inc ELSE row.inc] \in Reads
    BY <1>4, <1>6, <1>7, <1>8 DEF Reads
  <1> QED BY <1>9 DEF read_file_once, done, eff, reset, items

LEMMA TypeInit == Init => TypeOK /\ GenInv
  <1> SUFFICES ASSUME Init PROVE TypeOK /\ GenInv
    OBVIOUS
  <1>0. <<>> \in Seq(0..MaxLines) /\ <<>> \in Seq(Commands) /\ <<>> \in Seq(Batches)
    BY EmptySeq
  <1>1. FilesOK
    <2>1. fs \in [Files -> [items : Seq(0..MaxLines), torn : BOOLEAN, ino : Nat, inc : Nat]]
      BY <1>0 DEF Init
    <2>2. nline \in 0..MaxLines /\ nblank \in Nat /\ nrewrite \in Nat
      BY Bounds DEF Init
    <2>3. notif \in [Files -> SUBSET {"created", "modified"}]
      BY DEF Init
    <2> QED BY <2>1, <2>2, <2>3 DEF Init, FilesOK
  <1>4. StoreOK
    BY DEF Init, StoreOK, LogFiles
  <1>2. GensOK /\ ProcOK /\ GenInv
    BY Bounds, JobFacts DEF Init, GensOK, ProcOK, GenInv, Booting, Places, Conts
  <1>3. WriterOK
    BY <1>0 DEF Init, WriterOK, NoBatches
  <1> QED BY <1>1, <1>2, <1>3, <1>4 DEF TypeOK

LEMMA NotifyType ==
  ASSUME TypeOK, NEW f \in Files, NEW kind \in {"created", "modified"}, Notify(f, kind)
  PROVE  notif' \in [Files -> SUBSET {"created", "modified"}] /\ faults' \in Nat
  <1>1. faults' \in Nat
    BY DEF TypeOK, ProcOK, Notify
  <1>2. notif \in [Files -> SUBSET {"created", "modified"}]
    BY DEF TypeOK, FilesOK
  <1>3. [notif EXCEPT ![f] = @ \cup {kind}] \in [Files -> SUBSET {"created", "modified"}]
    BY <1>2
  <1>4. notif' \in {notif, [notif EXCEPT ![f] = @ \cup {kind}]}
    BY DEF Notify
  <1> QED BY <1>1, <1>2, <1>3, <1>4

LEMMA WritingType ==
  ASSUME TypeOK, GenInv, NEW f \in Files,
         \/ CreateFile(f) \/ WritePart(f) \/ WriteLine(f) \/ WriteBlank(f)
         \/ \E keep, fresh \in BOOLEAN : Rewrite(f, keep, fresh)
  PROVE  TypeOK' /\ GenInv'
  <1>1. EnvUnchanged /\ \E kind \in {"created", "modified"} : Notify(f, kind)
    BY DEF CreateFile, WritePart, WriteLine, WriteBlank, Rewrite
  <1>2. StoreOK' /\ GensOK' /\ WriterOK' /\ GenInv'
    BY <1>1 DEF TypeOK, StoreOK, GensOK, WriterOK, GenInv, Booting, EnvUnchanged, storeVars,
                genVars, memVars, writerVars, procVars
  <1>3. ProcOK' /\ notif' \in [Files -> SUBSET {"created", "modified"}]
    BY <1>1, NotifyType DEF TypeOK, ProcOK, EnvUnchanged, procVars
  <1>4. fs' \in [Files -> [items : Seq(0..MaxLines), torn : BOOLEAN, ino : Nat, inc : Nat]]
    <2>1. /\ fs[f].items \in Seq(0..MaxLines) /\ fs[f].ino \in Nat /\ fs[f].inc \in Nat
          /\ fs[f].torn \in BOOLEAN
      BY FileFacts DEF TypeOK
    <2>2. CASE CreateFile(f)
      BY <2>2 DEF TypeOK, FilesOK, CreateFile
    <2>3. CASE WritePart(f)
      BY <2>3 DEF TypeOK, FilesOK, WritePart
    <2>4. CASE WriteLine(f)
      <3>1. Append(fs[f].items, nline + 1) \in Seq(0..MaxLines)
        <4>0. nline < MaxLines /\ nline \in 0..MaxLines
          BY <2>4 DEF TypeOK, FilesOK, WriteLine
        <4>1. nline + 1 \in 0..MaxLines
          BY <4>0, Bounds
        <4> QED BY <2>1, <4>1
      <3>2. fs' = [fs EXCEPT ![f].items = Append(@, nline + 1), ![f].torn = FALSE]
            /\ fs \in [Files -> [items : Seq(0..MaxLines), torn : BOOLEAN, ino : Nat, inc : Nat]]
        BY <2>4 DEF TypeOK, FilesOK, WriteLine
      <3> HIDE DEF WriteLine
      <3> QED BY <3>1, <3>2
    <2>5. CASE WriteBlank(f)
      <3>1. Append(fs[f].items, 0) \in Seq(0..MaxLines)
        <4>1. 0 \in 0..MaxLines
          BY Bounds
        <4> QED BY <2>1, <4>1
      <3> QED BY <2>5, <3>1 DEF TypeOK, FilesOK, WriteBlank
    <2>6. ASSUME NEW keep \in BOOLEAN, NEW fresh \in BOOLEAN, Rewrite(f, keep, fresh)
          PROVE  fs' \in [Files -> [items : Seq(0..MaxLines), torn : BOOLEAN, ino : Nat, inc : Nat]]
      <3> DEFINE new == [items |-> IF keep THEN fs[f].items ELSE <<>>, torn |-> FALSE,
                         ino |-> IF fresh THEN fs[f].ino + 1 ELSE fs[f].ino,
                         inc |-> fs[f].inc + 1]
      <3>1. fs' = [fs EXCEPT ![f] = new]
        BY <2>6 DEF Rewrite, TypeOK, FilesOK
      <3>2. new \in [items : Seq(0..MaxLines), torn : BOOLEAN, ino : Nat, inc : Nat]
        <4>1. (IF keep THEN fs[f].items ELSE <<>>) \in Seq(0..MaxLines)
          BY <2>1, EmptySeq
        <4>2. (IF fresh THEN fs[f].ino + 1 ELSE fs[f].ino) \in Nat /\ fs[f].inc + 1 \in Nat
          BY <2>1
        <4> QED BY <4>1, <4>2
      <3> HIDE DEF new
      <3> QED BY <3>1, <3>2 DEF TypeOK, FilesOK
    <2> QED BY <2>2, <2>3, <2>4, <2>5, <2>6
  <1>5. nline' \in 0..MaxLines
    <2>1. nline' = nline \/ (nline' = nline + 1 /\ nline < MaxLines)
      BY DEF CreateFile, WritePart, WriteLine, WriteBlank, Rewrite
    <2> QED BY <2>1, Bounds DEF TypeOK, FilesOK
  <1>6. nblank' \in Nat /\ nrewrite' \in Nat
    <2>1. nblank' \in {nblank, nblank + 1} /\ nrewrite' \in {nrewrite, nrewrite + 1}
      BY DEF CreateFile, WritePart, WriteLine, WriteBlank, Rewrite
    <2> QED BY <2>1 DEF TypeOK, FilesOK
  <1>7. watching' \in BOOLEAN /\ aged' \subseteq Lines
    BY <1>1 DEF TypeOK, FilesOK, EnvUnchanged
  <1> QED BY <1>2, <1>3, <1>4, <1>5, <1>6, <1>7 DEF TypeOK, FilesOK

LEMMA PlusType ==
  ASSUME NEW table \in [Events -> Nat], NEW eff
  PROVE  Plus(table, eff) \in [Events -> Nat]
  BY DEF Plus

LEMMA EffectiveFacts ==
  ASSUME NEW g, NEW lines, NEW e
  PROVE  e \in effective_events(g, lines) <=>
             \E l \in lines : /\ e = <<g, l>>
                             /\ \/ Policy = "insert_once" /\ ~HasRow(l)
                                \/ Policy = "replace" /\ <<g, l>> \notin rows
  <1> DEFINE New(l) == \/ Policy = "insert_once" /\ ~HasRow(l)
                       \/ Policy = "replace" /\ <<g, l>> \notin rows
             S == {l \in lines : New(l)}
  <1>1. effective_events(g, lines) = {g} \X S
    BY DEF effective_events
  <1>2. \A l : l \in S <=> l \in lines /\ New(l)
    BY Zenon
  <1> HIDE DEF S
  <1>3. e \in {g} \X S <=> \E l \in S : e = <<g, l>>
    OBVIOUS
  <1> HIDE DEF New
  <1>4. e \in {g} \X S <=> \E l \in lines : e = <<g, l>> /\ New(l)
    BY <1>2, <1>3, Zenon
  <1> QED BY <1>1, <1>4 DEF New

LEMMA HeldFacts ==
  ASSUME WriterOK
  PROVE  /\ \A b \in Held : b \in Batches
         /\ \A g \in Gens : pend[g] \in Seq(Batches) /\ Elems(pend[g]) \subseteq Held
                            /\ DOMAIN pend[g] = 1..Len(pend[g]) /\ Len(pend[g]) \in Nat
         /\ \A b \in Sent : b \in Commands
         /\ \A b \in InTransit : b \in Batches
  <1>1. \A g \in Gens : pend[g] \in Seq(Batches)
    BY DEF WriterOK
  <1>2. \A g \in Gens : DOMAIN pend[g] = 1..Len(pend[g]) /\ Len(pend[g]) \in Nat
    BY <1>1, LenProperties
  <1>3. \A g \in Gens : \A x \in Elems(pend[g]) : x \in Batches
    BY <1>1, <1>2, ElementOfSeq DEF Elems
  <1>4. \A b \in Sent : b \in Commands
    BY LenProperties, ElementOfSeq DEF WriterOK, Sent, Elems
  <1>5. \A b \in InTransit : b \in Batches
    BY <1>3, <1>4, CommandFacts DEF InTransit, Held
  <1> QED BY <1>1, <1>2, <1>3, <1>4, <1>5 DEF Held

\* The last batch of a file in a group is one of its batches.
LEMMA LastOfFile ==
  ASSUME NEW n \in Nat, NEW S, S \subseteq 1..n, S # {}
  PROVE  Max(S) \in S
  <1>1. \E m \in S : \A x \in S : m >= x
    <2> DEFINE B == {n - x : x \in S}
    <2>1. B \subseteq Nat /\ B # {}
      <3>1. \A x \in S : n - x \in Nat
        OBVIOUS
      <3>2. PICK x : x \in S
        OBVIOUS
      <3>3. n - x \in B
        BY <3>2
      <3> QED BY <3>1, <3>3
    <2>2. PICK b \in B : \A y \in B : ~(<<y, b>> \in OpToRel(<, Nat))
      BY <2>1, NatLessThanWellFounded, WFMin
    <2>3. PICK m \in S : b = n - m
      OBVIOUS
    <2>4. ASSUME NEW x \in S PROVE m >= x
      <3>1. n - x \in B /\ n - x \in Nat /\ b \in Nat
        BY <2>1
      <3>2. ~(n - x < b)
        BY <2>2, <3>1 DEF OpToRel
      <3>3. x \in Int /\ m \in Int
        OBVIOUS
      <3> QED BY <2>3, <3>2, <3>3
    <2> QED BY <2>4
  <1> QED BY <1>1 DEF Max

\* What a committed group does to the stored row of a file: nothing, or it
\* writes one of the batches of the file.
LEMMA FlushCkpt ==
  ASSUME TypeOK, NEW g \in Gens, flush_single_generation(g)
  PROVE  /\ \A f \in Files :
               \/ ckpt'[f] = ckpt[f]
               \/ \E b \in Elems(pend[g]) :
                     b.f = f /\ ckpt'[f] = upsert_log_file_checkpoint(b)
         /\ ckpt' \in [Files -> LogFiles]
  <1> DEFINE bs == pend[g]
             Of(f) == {i \in DOMAIN bs : bs[i].f = f}
  <1>1. /\ DOMAIN bs = 1..Len(bs) /\ Len(bs) \in Nat
        /\ \A i \in 1..Len(bs) : bs[i] \in Elems(bs) /\ bs[i] \in Batches
    BY HeldFacts, ElementOfSeq DEF TypeOK, Elems
  <1>2. ckpt' = [f \in Files |-> IF Of(f) = {} THEN ckpt[f]
                                 ELSE upsert_log_file_checkpoint(bs[Max(Of(f))])]
    BY DEF flush_single_generation
  <1> HIDE DEF bs
  <1>3. \A f \in Files : Of(f) # {} => Max(Of(f)) \in Of(f)
    BY <1>1, LastOfFile
  <1> HIDE DEF Of
  <1>4. \A f \in Files : Of(f) # {} =>
            bs[Max(Of(f))] \in Elems(bs) /\ bs[Max(Of(f))].f = f /\ bs[Max(Of(f))] \in Batches
    BY <1>1, <1>3 DEF Of
  <1>5. \A b \in Batches : upsert_log_file_checkpoint(b) \in LogFiles
    <2> SUFFICES ASSUME NEW b \in Batches PROVE upsert_log_file_checkpoint(b) \in LogFiles
      OBVIOUS
    <2>1. b.f \in Files /\ b.off \in Nat /\ b.ino \in Nat /\ b.inc \in Nat
      BY DEF Batches
    <2>2. ckpt[b.f] \in LogFiles
      BY <2>1 DEF TypeOK, StoreOK
    <2>3. ckpt[b.f].reg \in Nat
      BY <2>2 DEF LogFiles
    <2> QED BY <2>1, <2>3 DEF upsert_log_file_checkpoint, LogFiles
  <1>6. \A f \in Files : ckpt[f] \in LogFiles
    BY DEF TypeOK, StoreOK
  <1> QED BY <1>2, <1>4, <1>5, <1>6 DEF bs

LEMMA FlushType ==
  ASSUME TypeOK, GenInv, NEW g \in Gens, WriterFlushGroup(g)
  PROVE  TypeOK' /\ GenInv'
  <1>1. FilesOK' /\ GensOK' /\ GenInv'
    BY DEF TypeOK, FilesOK, GensOK, GenInv, Booting, WriterFlushGroup, fileVars, watchVars, genVars,
           memVars, procVars
  <1>2. ProcOK'
    BY DEF TypeOK, ProcOK, WriterFlushGroup, procVars, Fault
  <1>3. WriterOK'
    <2>1. pend' \in [Gens -> Seq(Batches)]
      BY EmptySeq DEF TypeOK, WriterOK, WriterFlushGroup
    <2> QED BY <2>1 DEF TypeOK, WriterOK, WriterFlushGroup
  <1>4. StoreOK'
    <2>1. CASE UNCHANGED storeVars
      BY <2>1 DEF TypeOK, StoreOK, storeVars
    <2>2. CASE flush_single_generation(g)
      <3> DEFINE bs   == pend[g]
                 lines == UNION {bs[i].lines : i \in DOMAIN bs}
                 eff  == effective_events(g, lines)
      <3>1. lines \subseteq Lines
        <4>1. \A i \in DOMAIN bs : bs[i] \in Batches
          BY HeldFacts, ElementOfSeq DEF TypeOK
        <4>2. \A i \in DOMAIN bs : bs[i].lines \subseteq Lines
          BY <4>1 DEF Batches
        <4> HIDE DEF bs
        <4> QED BY <4>2
      <3> HIDE DEF lines
      <3>2. eff \subseteq Events
        <4> SUFFICES ASSUME NEW e \in eff PROVE e \in Events
          OBVIOUS
        <4>0. \E l \in lines : /\ e = <<g, l>>
                              /\ \/ Policy = "insert_once" /\ ~HasRow(l)
                                 \/ Policy = "replace" /\ <<g, l>> \notin rows
          BY EffectiveFacts, Zenon
        <4>1. PICK l \in lines : e = <<g, l>>
          BY <4>0, Zenon
        <4> QED BY <4>1, <3>1 DEF Events
      <3>3. rows' = upsert_usage_events_dedup_aware(eff) /\ daily' = Plus(daily, eff) /\ buckets' = Plus(buckets, eff)
            /\ pruned' = pruned
        BY <2>2 DEF flush_single_generation, lines, upsert_daily_usage_for_events,
                    update_materialized_aggregates_from_events
      <3> HIDE DEF eff
      <3>4. rows' \subseteq Events
        BY <3>2, <3>3 DEF upsert_usage_events_dedup_aware, TypeOK, StoreOK
      <3> QED BY <2>2, <3>3, <3>4, PlusType, FlushCkpt DEF TypeOK, StoreOK
    <2> QED BY <2>1, <2>2 DEF WriterFlushGroup
  <1> QED BY <1>1, <1>2, <1>3, <1>4 DEF TypeOK

LEMMA RecvType ==
  ASSUME TypeOK, GenInv, WriterRecv \/ WriterTimeout
  PROVE  TypeOK' /\ GenInv'
  <1>1. FilesOK' /\ GensOK' /\ GenInv' /\ StoreOK' /\ ProcOK'
    <2>1. UNCHANGED <<fileVars, watchVars, aged, storeVars, genVars, memVars, ngen, procVars, countVars>>
      BY DEF WriterRecv, WriterTimeout
    <2>2. FilesOK' /\ StoreOK'
      BY <2>1 DEF TypeOK, FilesOK, StoreOK, fileVars, watchVars, storeVars
    <2>3. GensOK' /\ GenInv'
      BY <2>1 DEF TypeOK, GensOK, GenInv, Booting, genVars, memVars, procVars, countVars
    <2>4. ProcOK'
      BY <2>1 DEF TypeOK, ProcOK, procVars, countVars
    <2> QED BY <2>2, <2>3, <2>4
  <1>2. CASE WriterRecv
    <2>1. Head(queue) \in Commands /\ Tail(queue) \in Seq(Commands)
      BY <1>2, TailFacts DEF TypeOK, WriterOK, WriterRecv
    <2>2. pend' \in [Gens -> Seq(Batches)]
      <3>1. CASE Head(queue).k = "batch"
        <4>1. Head(queue) \in Batches
          BY <2>1, <3>1, CommandFacts
        <4>2. Head(queue).gen \in Gens
          BY <4>1 DEF Batches
        <4>3. Append(pend[Head(queue).gen], Head(queue)) \in Seq(Batches)
          BY <4>1, <4>2, AppendFacts DEF TypeOK, WriterOK
        <4> QED BY <1>2, <3>1, <4>2, <4>3 DEF TypeOK, WriterOK, WriterRecv
      <3> QED BY <1>2, <3>1 DEF TypeOK, WriterOK, WriterRecv
    <2>3. wcmd' \in Commands \cup {NoCmd} /\ wmode' \in {"idle", "flush"} /\ queue' \in Seq(Commands)
      BY <1>2, <2>1 DEF WriterRecv
    <2> QED BY <1>1, <1>2, <2>2, <2>3 DEF TypeOK, WriterOK, WriterRecv
  <1>3. CASE WriterTimeout
    BY <1>1, <1>3 DEF TypeOK, WriterOK, WriterTimeout
  <1> QED BY <1>2, <1>3

LEMMA FinishType ==
  ASSUME TypeOK, GenInv, WriterFinish
  PROVE  TypeOK' /\ GenInv'
  <1>1. FilesOK' /\ GenInv'
    BY DEF TypeOK, FilesOK, GenInv, Booting, WriterFinish, fileVars, watchVars
  <1>2. wcmd.k \in {"create", "promote"} => wcmd.gen \in Gens
    BY CommandFacts DEF TypeOK, WriterOK
  <1>3. dispatch_command /\ wmode' = "idle" /\ wcmd' = NoCmd
        /\ UNCHANGED <<cacheGen, ngen, queue, pend, post, dropped, pc, cont, gen, todo, job, known,
                       touched, rescan, boots, rollups>>
    BY DEF WriterFinish
  <1>4. GensOK'
    <2>1. audit' \in [Gens -> {"none", "building", "promoted"}]
      BY <1>2, <1>3 DEF TypeOK, GensOK, dispatch_command, create_generation, execute_promotion_barrier,
                        genVars
    <2>2. ssReady' \in {"none", "null", "ready_exact", "ready_degraded"}
          /\ snapReady' \in {"starting", "ready_exact", "ready_degraded"}
      BY <1>3 DEF TypeOK, GensOK, dispatch_command, create_generation, execute_promotion_barrier,
                  genVars, persist_metrics_checkpoint
    <2>3. active' \in Gens \cup {0} /\ ssActive' \in Gens \cup {0} /\ snapActive' \in Gens \cup {0}
      BY <1>2, <1>3 DEF TypeOK, GensOK, dispatch_command, create_generation, execute_promotion_barrier,
                        genVars
    <2> QED BY <1>3, <2>1, <2>2, <2>3 DEF TypeOK, GensOK
  <1>5. StoreOK'
    <2>1. ckpt' = ckpt /\ rows' = rows /\ buckets' = buckets /\ pruned' = pruned
      BY <1>3 DEF dispatch_command, storeVars
    <2>2. daily' = daily \/ \E failed \in BOOLEAN : handle_rebuild_rollups(failed)
      BY <1>3 DEF dispatch_command, storeVars
    <2>3. daily' \in [Events -> Nat]
      BY <2>2 DEF handle_rebuild_rollups, TypeOK, StoreOK
    <2> QED BY <2>1, <2>3 DEF TypeOK, StoreOK
  <1>6. werr' \in BOOLEAN /\ faults' \in Nat /\ reply' \in {"none", "ok", "err"}
    <2>0. faults' = faults \/ faults' = faults + 1
      BY <1>3, Zenon DEF dispatch_command, Fault
    <2>1. faults' \in Nat
      BY <2>0 DEF TypeOK, ProcOK
    <2>2. reply' \in {"none", "ok", "err"}
      BY <1>3 DEF TypeOK, ProcOK, dispatch_command
    <2>3. werr' = werr \/ werr' = TRUE \/ werr' = FALSE
      BY <1>3, Zenon DEF dispatch_command
    <2> QED BY <2>1, <2>2, <2>3 DEF TypeOK, WriterOK
  <1> QED BY <1>1, <1>3, <1>4, <1>5, <1>6 DEF TypeOK, WriterOK, ProcOK

LEMMA OtherType ==
  ASSUME TypeOK, GenInv, DayPasses \/ WriterMetrics \/ ChangeTimezone
  PROVE  TypeOK' /\ GenInv'
  <1>1. CASE DayPasses
    <2>1. aged' \subseteq Lines
      BY <1>1, Bounds DEF TypeOK, FilesOK, DayPasses, Lines
    <2> QED BY <1>1, <2>1 DEF TypeOK, FilesOK, StoreOK, GensOK, WriterOK, ProcOK, GenInv, Booting,
          DayPasses, fileVars, watchVars, storeVars, genVars, memVars, writerVars, procVars, countVars
  <1>2. CASE WriterMetrics
    <2>1. StoreOK'
      <3>1. rows' \subseteq rows /\ UNCHANGED <<ckpt, daily, buckets>>
        BY <1>2 DEF WriterMetrics, prune_usage_events
      <3>2. pruned' \in [Events -> Nat]
        BY <1>2 DEF TypeOK, StoreOK, WriterMetrics, prune_usage_events
      <3> QED BY <3>1, <3>2 DEF TypeOK, StoreOK
    <2>2. FilesOK' /\ ProcOK' /\ WriterOK' /\ GenInv'
      <3>1. UNCHANGED <<fileVars, watchVars, aged, ngen, queue, pend, wmode, wcmd, werr, dropped, procVars,
                        countVars>> /\ post' = FALSE
        BY <1>2 DEF WriterMetrics
      <3>2. FilesOK' /\ ProcOK'
        BY <3>1 DEF TypeOK, FilesOK, ProcOK, fileVars, watchVars, procVars, countVars
      <3>3. WriterOK' /\ GenInv'
        BY <3>1 DEF TypeOK, WriterOK, GenInv, Booting, procVars, countVars
      <3> QED BY <3>2, <3>3
    <2>3. GensOK'
      BY <1>2 DEF TypeOK, GensOK, WriterMetrics, persist_metrics_checkpoint, memVars, procVars, countVars
    <2> QED BY <2>1, <2>2, <2>3 DEF TypeOK
  <1>3. CASE ChangeTimezone
    <2>1. queue' \in Seq(Commands)
      BY <1>3, AppendFacts, CommandFacts DEF TypeOK, WriterOK, ChangeTimezone
    <2>2. UNCHANGED <<fileVars, watchVars, aged, storeVars, genVars, memVars, ngen, pend, wmode, wcmd, werr,
                      post, dropped, procVars, boots, faults>> /\ rollups' = rollups + 1
      BY <1>3 DEF ChangeTimezone
    <2>3. FilesOK' /\ StoreOK'
      BY <2>2 DEF TypeOK, FilesOK, StoreOK, fileVars, watchVars, storeVars
    <2>4. GensOK' /\ GenInv'
      BY <2>2 DEF TypeOK, GensOK, GenInv, Booting, genVars, memVars, procVars
    <2>5. WriterOK' /\ ProcOK'
      BY <2>1, <2>2 DEF TypeOK, WriterOK, ProcOK, procVars
    <2> QED BY <2>3, <2>4, <2>5 DEF TypeOK
  <1> QED BY <1>1, <1>2, <1>3

LEMMA GoneType ==
  ASSUME TypeOK, GenInv, ProcessGone \/ Boot
  PROVE  TypeOK' /\ GenInv'
  <1>1. CASE ProcessGone
    <2>1. FilesOK' /\ StoreOK'
      BY <1>1 DEF TypeOK, FilesOK, StoreOK, ProcessGone, fileVars, storeVars
    <2>2. GensOK' /\ ProcOK' /\ GenInv'
      BY <1>1, JobFacts DEF TypeOK, GensOK, ProcOK, GenInv, Booting, ProcessGone, genVars, countVars,
                            Places, Conts
    <2>3. WriterOK'
      BY <1>1, EmptySeq DEF WriterOK, ProcessGone, NoBatches
    <2> QED BY <2>1, <2>2, <2>3 DEF TypeOK
  <1>2. CASE Boot
    <2>1. FilesOK' /\ StoreOK' /\ WriterOK'
      BY <1>2 DEF TypeOK, FilesOK, StoreOK, WriterOK, Boot, fileVars, watchVars, storeVars, writerVars
    <2>2. ProcOK'
      BY <1>2 DEF TypeOK, ProcOK, Boot, Places
    <2>3. boots' \in 0..MaxBoots /\ ngen' \in 0..(2 * boots') /\ ngen' + 2 <= 2 * boots'
      BY <1>2, Bounds DEF TypeOK, GensOK, Boot
    <2>4. GensOK'
      <3>1. ssActive' \in Gens \cup {0}
        BY <1>2 DEF TypeOK, GensOK, Boot
      <3>2. ssReady' \in {"none", "null", "ready_exact", "ready_degraded"}
        BY <1>2 DEF TypeOK, GensOK, Boot
      <3>3. snapReady' \in {"starting", "ready_exact", "ready_degraded"}
        BY <1>2, <3>2 DEF Boot
      <3>4. snapActive' = ssActive' /\ cacheGen' = ssActive' /\ UNCHANGED <<audit, active, gen>>
        BY <1>2 DEF Boot
      <3> QED BY <2>3, <3>1, <3>2, <3>3, <3>4 DEF TypeOK, GensOK
    <2>5. GenInv'
      BY <1>2, <2>3 DEF GenInv, Booting, Boot
    <2> QED BY <2>1, <2>2, <2>4, <2>5 DEF TypeOK
  <1> QED BY <1>1, <1>2

LEMMA AwaitType ==
  ASSUME TypeOK, NEW cmds, cmds = <<>> \/ \E c \in Commands : cmds = <<c>>, NEW next, Await(cmds, next)
  PROVE  /\ queue' \in Seq(Commands) /\ pc' = "wait" /\ cont' = next /\ reply' = "none" /\ ~dropped'
         /\ dropped' \in BOOLEAN
  <1>1. queue' = queue \o cmds \o <<Flush>>
    BY DEF Await
  <1>2. queue \in Seq(Commands) /\ Flush \in Commands
    BY CommandFacts DEF TypeOK, WriterOK
  <1>3. ASSUME cmds = <<>> PROVE queue' \in Seq(Commands)
    <2>1. queue \o <<>> \o <<Flush>> = Append(queue, Flush)
      BY <1>2, AwaitFacts
    <2>2. queue' = Append(queue, Flush)
      BY <1>1, <1>3, <2>1
    <2> QED BY <2>2, <1>2, AppendFacts
  <1>4. ASSUME NEW c \in Commands, cmds = <<c>> PROVE queue' \in Seq(Commands)
    <2>1. queue' = Append(Append(queue, c), Flush)
      BY <1>1, <1>2, <1>4, AwaitFacts
    <2>2. Append(queue, c) \in Seq(Commands)
      BY <1>2, <1>4, AppendFacts
    <2> QED BY <2>1, <2>2, <1>2, AppendFacts
  <1> QED BY <1>3, <1>4 DEF Await

\* What the boot sequence and the tailer leave alone.
LEMMA ProcFrame ==
  ASSUME TypeOK, ProcUnchanged
  PROVE  /\ StoreOK' /\ boots' \in 0..MaxBoots /\ rollups' \in Nat
         /\ pend' \in [Gens -> Seq(Batches)]
         /\ wcmd' \in Commands \cup {NoCmd} /\ wmode' \in {"idle", "flush"}
         /\ werr' \in BOOLEAN /\ post' \in BOOLEAN
         /\ UNCHANGED <<watching, notif>> => FilesOK'
  BY DEF TypeOK, FilesOK, StoreOK, GensOK, WriterOK, ProcOK, ProcUnchanged, fileVars, storeVars

LEMMA StartGenerationType ==
  ASSUME TypeOK, GenInv, StartGeneration
  PROVE  TypeOK' /\ GenInv'
  <1>0. ProcUnchanged /\ UNCHANGED <<watchVars, ssReady, ssActive, memVars, job, known, touched, rescan, faults>>
        /\ todo' = ExistingFiles /\ pc = "boot"
    BY DEF StartGeneration
  <1>1. FilesOK' /\ todo' \subseteq Files
    BY <1>0, ProcFrame DEF watchVars, ExistingFiles
  <1>2. CASE snapReady # "starting" /\ active # 0
    <2>1. /\ gen' = active /\ pc' = "scan" /\ queue' = Append(queue, Meta)
          /\ UNCHANGED <<cont, reply, dropped, ngen>>
      BY <1>2 DEF StartGeneration
    <2>2. queue' \in Seq(Commands)
      BY <2>1, AppendFacts, CommandFacts DEF TypeOK, WriterOK
    <2>3. GensOK' /\ GenInv'
      BY <1>0, <1>2, <2>1, Bounds DEF TypeOK, GensOK, GenInv, Booting, memVars, ProcUnchanged
    <2> QED BY <1>0, <1>1, <2>1, <2>2, <2>3, ProcFrame DEF TypeOK, WriterOK, ProcOK, Places
  <1>3. CASE ~(snapReady # "starting" /\ active # 0)
    <2> DEFINE next == IF snapReady = "starting" THEN "reg" ELSE "scan"
    <2>1. /\ ngen' = ngen + 1 /\ gen' = ngen + 1
          /\ Await(<<[k |-> "create", gen |-> ngen + 1]>>, next)
      BY <1>3 DEF StartGeneration
    <2>2. ngen + 2 <= 2 * boots /\ ngen \in Nat /\ boots \in 0..MaxBoots /\ ngen + 1 \in Gens
      BY <1>0, Bounds DEF TypeOK, GensOK, GenInv
    <2>3. [k |-> "create", gen |-> ngen + 1] \in Commands
      BY <2>2, CommandFacts
    <2>4. /\ queue' \in Seq(Commands) /\ pc' = "wait" /\ cont' = next /\ reply' = "none" /\ ~dropped'
          /\ dropped' \in BOOLEAN
      BY <2>1, <2>3, AwaitType
    <2>5. GensOK' /\ GenInv'
      BY <1>0, <2>1, <2>2, <2>4 DEF TypeOK, GensOK, GenInv, Booting, memVars, ProcUnchanged, Starts
    <2> QED BY <1>0, <1>1, <2>4, <2>5, ProcFrame DEF TypeOK, WriterOK, ProcOK, Places, Conts
  <1> QED BY <1>2, <1>3

LEMMA BatchType ==
  ASSUME NEW f \in Files, NEW g \in Gens, NEW ls \in SUBSET Lines, NEW off \in Nat, NEW ino \in Nat,
         NEW inc \in Nat, NEW reg \in BOOLEAN
  PROVE  /\ Batch(f, g, ls, off, ino, inc, reg) \in Batches
         /\ Batch(f, g, ls, off, ino, inc, reg) \in Commands
         /\ Batch(f, g, ls, off, ino, inc, reg).k = "batch"
  BY DEF Batch, Batches, Commands

LEMMA RegisterType ==
  ASSUME TypeOK, GenInv, NEW f \in Files, register_new_install_sources(f)
  PROVE  /\ Batch(f, gen, {}, Size(f), fs[f].ino, fs[f].inc, TRUE) \in Batches
         /\ TypeOK' /\ GenInv'
  <1> DEFINE b == Batch(f, gen, {}, Size(f), fs[f].ino, fs[f].inc, TRUE)
  <1>1. b \in Batches /\ b \in Commands
    BY FileFacts, BatchType DEF TypeOK, GenInv, register_new_install_sources
  <1> HIDE DEF b
  <1>2. queue' = Append(queue, b)
    BY DEF register_new_install_sources, b
  <1>3. queue' \in Seq(Commands)
    BY <1>1, <1>2, AppendFacts DEF TypeOK, WriterOK
  <1>4. ProcUnchanged /\ UNCHANGED <<watchVars, ssReady, ssActive, memVars, ngen, dropped, pc, cont, reply,
                   gen, job, known, touched, rescan, faults>> /\ todo' \subseteq todo
    BY DEF register_new_install_sources
  <1>5. GensOK' /\ GenInv'
    BY <1>4 DEF TypeOK, GensOK, GenInv, Booting, memVars, ProcUnchanged
  <1>6. FilesOK' /\ WriterOK' /\ ProcOK' /\ StoreOK'
    BY <1>3, <1>4, ProcFrame DEF TypeOK, WriterOK, ProcOK, watchVars
  <1> QED BY <1>1, <1>5, <1>6 DEF TypeOK, b

LEMMA ReadJobType ==
  ASSUME NEW f \in Files, NEW r \in Reads, NEW i \in Nat
  PROVE  [stage |-> "send", f |-> f, batch |-> r, ino |-> i] \in Jobs
  BY DEF Jobs

LEMMA ScanReadType ==
  ASSUME TypeOK, GenInv, NEW f \in Files, ScanRead(f)
  PROVE  TypeOK' /\ GenInv'
  <1>1. ProcUnchanged /\ UNCHANGED <<watchVars, ssReady, ssActive, memVars, ngen, queue, dropped, pc, cont,
                   reply, gen, known, touched, rescan, faults>> /\ todo' \subseteq todo
    BY DEF ScanRead
  <1>2. job' \in Jobs
    <2>1. ckpt[f] \in LogFiles
      BY DEF TypeOK, StoreOK
    <2>2. read_file_once(f, ckpt[f]) \in Reads
      BY <2>1, ReadType DEF TypeOK
    <2>3. job' = NoJob \/ job' = [stage |-> "send", f |-> f, batch |-> read_file_once(f, ckpt[f]), ino |-> 0]
      BY DEF ScanRead
    <2> QED BY <2>2, <2>3, ReadJobType, JobFacts
  <1>3. GensOK' /\ GenInv'
    BY <1>1 DEF TypeOK, GensOK, GenInv, Booting, memVars, ProcUnchanged
  <1>4. FilesOK' /\ WriterOK' /\ ProcOK' /\ StoreOK'
    BY <1>1, <1>2, ProcFrame DEF TypeOK, WriterOK, ProcOK, watchVars
  <1> QED BY <1>3, <1>4 DEF TypeOK

\* The batch that goes to the writer.
Sending ==
    IF pc = "scan"
    THEN Batch(job.f, gen, job.batch.lines, job.batch.off, fs[job.f].ino, job.batch.inc, FALSE)
    ELSE Batch(job.f, gen, job.batch.lines, job.batch.off, job.ino, job.batch.inc, FALSE)

LEMMA SendType ==
  ASSUME TypeOK, GenInv, ScanSend \/ TailSend
  PROVE  /\ Sending \in Batches /\ queue' = Append(queue, Sending)
         /\ job \in [stage : {"send"}, f : Files, batch : Reads, ino : Nat]
         /\ TypeOK' /\ GenInv'
  <1>1. job \in [stage : {"send"}, f : Files, batch : Reads, ino : Nat]
    BY JobFacts DEF TypeOK, ProcOK, ScanSend, TailSend
  <1>2. job.f \in Files /\ job.ino \in Nat /\ job.batch.lines \in SUBSET Lines
        /\ job.batch.off \in Nat /\ job.batch.inc \in Nat
    BY <1>1 DEF Reads
  <1>3. fs[job.f].ino \in Nat /\ gen \in Gens
    BY <1>2, FileFacts DEF TypeOK, GenInv, ScanSend, TailSend
  <1>4. Sending \in Batches /\ Sending \in Commands
    BY <1>2, <1>3, BatchType DEF Sending
  <1>5. queue' = Append(queue, Sending)
    BY DEF ScanSend, TailSend, Sending
  <1>6. queue' \in Seq(Commands)
    BY <1>4, <1>5, AppendFacts DEF TypeOK, WriterOK
  <1>7. ProcUnchanged /\ UNCHANGED <<watchVars, ssReady, ssActive, memVars, ngen, dropped, pc, cont, reply,
                   gen, todo, known, touched, rescan, faults>> /\ job' = NoJob
    BY DEF ScanSend, TailSend, TailerUnchanged, watchVars
  <1>8. GensOK' /\ GenInv'
    BY <1>7 DEF TypeOK, GensOK, GenInv, Booting, memVars, ProcUnchanged
  <1>9. FilesOK' /\ WriterOK' /\ ProcOK' /\ StoreOK'
    BY <1>6, <1>7, ProcFrame, JobFacts DEF TypeOK, WriterOK, ProcOK, watchVars
  <1> QED BY <1>1, <1>4, <1>5, <1>8, <1>9 DEF TypeOK

LEMMA BarrierType ==
  ASSUME TypeOK, GenInv, Barrier
  PROVE  TypeOK' /\ GenInv'
  <1>1. ProcUnchanged /\ UNCHANGED <<watchVars, ssReady, ssActive, memVars, ngen, gen, todo, job, known,
                   touched, rescan, faults>>
    BY DEF Barrier
  <1>2. pc \notin {"down", "boot"} /\ gen \in Gens
    BY DEF Barrier, Answered, GenInv
  <1>3. \E next \in Conts : \E cmds :
            /\ cmds = <<>> \/ \E c \in Commands : cmds = <<c>>
            /\ Await(cmds, next)
            /\ next \in Starts => Booting
    <2>1. Meta \in Commands /\ [k |-> "promote", gen |-> gen] \in Commands
      BY <1>2, CommandFacts
    <2> QED BY <2>1 DEF Barrier, Conts, Starts, Booting, Answered
  <1>4a. PICK next \in Conts : \E cmds :
            /\ cmds = <<>> \/ \E c \in Commands : cmds = <<c>>
            /\ Await(cmds, next)
            /\ next \in Starts => Booting
    BY <1>3
  <1>4. PICK cmds :
            /\ cmds = <<>> \/ \E c \in Commands : cmds = <<c>>
            /\ Await(cmds, next)
            /\ next \in Starts => Booting
    BY <1>4a
  <1>5. /\ queue' \in Seq(Commands) /\ pc' = "wait" /\ cont' = next /\ reply' = "none"
        /\ dropped' \in BOOLEAN
    BY <1>4, AwaitType
  <1>6. GensOK' /\ GenInv'
    BY <1>1, <1>2, <1>4, <1>5 DEF TypeOK, GensOK, GenInv, Booting, memVars, ProcUnchanged
  <1>7. FilesOK' /\ WriterOK' /\ ProcOK' /\ StoreOK'
    BY <1>1, <1>5, ProcFrame DEF TypeOK, WriterOK, ProcOK, watchVars, Places
  <1> QED BY <1>6, <1>7 DEF TypeOK

LEMMA BootEndType ==
  ASSUME TypeOK, GenInv, BootDone \/ BootFailed \/ GenerationCreated
  PROVE  TypeOK' /\ GenInv'
  <1>1. CASE BootDone
    <2>1. ProcUnchanged /\ UNCHANGED <<watchVars, ngen, queue, dropped, cont, reply, gen, todo, job, known,
                   touched, rescan, faults>> /\ pc' = "discover" /\ snapReady' = "ready_exact"
                   /\ snapActive' = gen /\ cacheGen' = gen
      BY <1>1 DEF BootDone
    <2>2. ssReady' \in {ssReady, "ready_exact"} /\ ssActive' \in {ssActive, gen} /\ Booting
          /\ pc \notin {"down", "boot"}
      BY <1>1 DEF BootDone, Answered, Booting, Starts
    <2>3. GensOK' /\ GenInv'
      BY <2>1, <2>2 DEF TypeOK, GensOK, GenInv, Booting, ProcUnchanged
    <2>4. FilesOK' /\ WriterOK' /\ ProcOK' /\ StoreOK'
      BY <2>1, ProcFrame DEF TypeOK, WriterOK, ProcOK, watchVars, Places
    <2> QED BY <2>3, <2>4 DEF TypeOK
  <1>2. CASE BootFailed
    <2>1. ProcUnchanged /\ UNCHANGED <<watchVars, snapActive, cacheGen, ngen, queue, dropped, cont, reply, gen,
                   job, known, touched, rescan>> /\ pc' = "discover" /\ todo' = {}
      BY <1>2 DEF BootFailed
    <2>2. ssReady' \in {ssReady, "ready_degraded"} /\ ssActive' \in {ssActive, EmptyGen, snapActive}
          /\ snapReady' \in {snapReady, "ready_degraded"}
      BY <1>2 DEF BootFailed, transition_after_initial_scan
    <2>3. Booting /\ pc \notin {"down", "boot"}
      BY <1>2 DEF BootFailed, Booting, Answered, Starts
    <2>4. GensOK' /\ GenInv'
      BY <2>1, <2>2, <2>3, Bounds DEF TypeOK, GensOK, GenInv, Booting, ProcUnchanged
    <2>5. faults' \in Nat
      BY <1>2 DEF BootFailed, Fault, TypeOK, ProcOK
    <2>6. FilesOK' /\ WriterOK' /\ ProcOK' /\ StoreOK'
      BY <2>1, <2>5, ProcFrame DEF TypeOK, WriterOK, ProcOK, watchVars, Places
    <2> QED BY <2>4, <2>6 DEF TypeOK
  <1>3. CASE GenerationCreated
    <2>1. ProcUnchanged /\ UNCHANGED <<watchVars, ssReady, ssActive, memVars, ngen, dropped, cont, reply, gen,
                   todo, job, known, touched, rescan, faults>> /\ pc' \in {"reg", "scan"}
                   /\ queue' = Append(queue, Meta) /\ Booting /\ pc = "wait"
      BY <1>3 DEF GenerationCreated, Answered, Booting, Starts
    <2>2. queue' \in Seq(Commands)
      BY <2>1, AppendFacts, CommandFacts DEF TypeOK, WriterOK
    <2>3. GensOK' /\ GenInv'
      BY <2>1 DEF TypeOK, GensOK, GenInv, Booting, ProcUnchanged, memVars
    <2>4. FilesOK' /\ WriterOK' /\ ProcOK' /\ StoreOK'
      BY <2>1, <2>2, ProcFrame DEF TypeOK, WriterOK, ProcOK, watchVars, Places
    <2> QED BY <2>3, <2>4 DEF TypeOK
  <1> QED BY <1>1, <1>2, <1>3

LEMMA OpenedType ==
  ASSUME TypeOK, NEW f \in Files
  PROVE  Opened(f) \in Jobs /\ Opened(f).stage = "read" /\ Opened(f).f = f
  <1>1. ckpt[f] \in LogFiles /\ fs[f].ino \in Nat
    BY FileFacts DEF TypeOK, StoreOK
  <1> QED BY <1>1 DEF Opened, Jobs

\* The steps of the tailer: of the writer's queue they leave everything alone,
\* and of the generation everything but what StartTailing does.
TailStep ==
    \/ StartTailing \/ InstallWatch \/ prepare_tail_batch_command
    \/ TailerStarted \/ RescanBegin
    \/ \E f \in Files :
          CatchUp(f) \/ RescanFile(f) \/ \E kind \in {"created", "modified"} : TailEvent(f, kind)

LEMMA PrepareFacts ==
  ASSUME TypeOK, prepare_tail_batch_command
  PROVE  /\ job \in [stage : {"read"}, f : Files, batch : LogFiles, ino : Nat]
         /\ read_file_once(job.f, job.batch) \in Reads
         /\ \/ job' = NoJob
            \/ job' = [stage |-> "send", f |-> job.f, batch |-> read_file_once(job.f, job.batch),
                       ino |-> job.ino]
         /\ job' \in Jobs
  <1>1. job \in [stage : {"read"}, f : Files, batch : LogFiles, ino : Nat]
    BY JobFacts DEF prepare_tail_batch_command, TypeOK, ProcOK
  <1>2. job.f \in Files /\ job.batch \in LogFiles /\ job.ino \in Nat
    BY <1>1
  <1>3. read_file_once(job.f, job.batch) \in Reads
    BY <1>2, ReadType DEF TypeOK
  <1>4. \/ job' = NoJob
        \/ job' = [stage |-> "send", f |-> job.f, batch |-> read_file_once(job.f, job.batch),
                   ino |-> job.ino]
    BY DEF prepare_tail_batch_command
  <1> QED BY <1>1, <1>2, <1>3, <1>4, ReadJobType, JobFacts

LEMMA TailStepType ==
  ASSUME TypeOK, GenInv, TailStep
  PROVE  TypeOK' /\ GenInv'
  <1>1. ProcUnchanged /\ UNCHANGED <<ssReady, ssActive, memVars, dropped, cont, reply, queue>>
    BY DEF TailStep, StartTailing, InstallWatch, prepare_tail_batch_command, TailerStarted, RescanBegin,
           CatchUp, RescanFile, TailEvent, TailerUnchanged
  <1>2. StoreOK' /\ WriterOK'
    BY <1>1, ProcFrame DEF TypeOK, WriterOK
  <1>3. FilesOK'
    <2>1. fs' = fs /\ nline' = nline /\ nblank' = nblank /\ nrewrite' = nrewrite /\ aged' = aged
      BY <1>1 DEF ProcUnchanged, fileVars
    <2>2. watching' = watching \/ watching' = TRUE
      BY DEF TailStep, StartTailing, InstallWatch, prepare_tail_batch_command, TailerStarted, RescanBegin,
           CatchUp, RescanFile, TailEvent, TailerUnchanged, watchVars
    <2>3. notif' \in [Files -> SUBSET {"created", "modified"}]
      <3>1. notif' = notif \/ \E f \in Files, kind \in {"created", "modified"} :
                                 notif' = [notif EXCEPT ![f] = @ \ {kind}]
        BY DEF TailStep, StartTailing, InstallWatch, prepare_tail_batch_command, TailerStarted, RescanBegin,
           CatchUp, RescanFile, TailEvent, watchVars
      <3> QED BY <3>1 DEF TypeOK, FilesOK
    <2> QED BY <2>1, <2>2, <2>3 DEF TypeOK, FilesOK
  <1>4. job' \in Jobs
    <2>1. CASE prepare_tail_batch_command
      BY <2>1, PrepareFacts
    <2>2. CASE \E f \in Files : job' = Opened(f)
      BY <2>2, OpenedType
    <2>3. CASE job' = job
      BY <2>3 DEF TypeOK, ProcOK
    <2> QED BY <2>1, <2>2, <2>3 DEF TailStep, StartTailing, InstallWatch, TailerStarted, RescanBegin,
           CatchUp, RescanFile, TailEvent
  <1>5. faults' \in Nat
    <2>1. faults' = faults \/ faults' = faults + 1
      BY DEF TailStep, StartTailing, InstallWatch, prepare_tail_batch_command, TailerStarted, RescanBegin,
           CatchUp, RescanFile, TailEvent, Fault
    <2> QED BY <2>1 DEF TypeOK, ProcOK
  <1>6. todo' \subseteq Files /\ known' \subseteq Files /\ touched' \subseteq Files /\ rescan' \subseteq Files
    BY DEF TailStep, StartTailing, InstallWatch, prepare_tail_batch_command, TailerStarted, RescanBegin,
           CatchUp, RescanFile, TailEvent, TypeOK, ProcOK, ExistingFiles
  <1>7. pc' \in Places
    BY DEF TailStep, StartTailing, InstallWatch, prepare_tail_batch_command, TailerStarted, RescanBegin,
           CatchUp, RescanFile, TailEvent, TypeOK, ProcOK, Places
  <1>8. ProcOK'
    BY <1>1, <1>4, <1>5, <1>6, <1>7, ProcFrame DEF TypeOK, ProcOK
  <1>9. GensOK' /\ GenInv'
    <2>1. CASE StartTailing
      <3>1. pc = "discover" /\ pc' = "watch"
        BY <2>1 DEF StartTailing
      <3>2. gen' \in Gens /\ ngen' \in 0..(2 * boots)
        <4>1. ngen + 1 \in Gens /\ ngen + 1 <= 2 * boots /\ ngen \in Nat /\ boots \in Nat
          BY <3>1, Bounds DEF TypeOK, GensOK, GenInv, Booting
        <4>2. cacheGen \in Gens \cup {0} /\ ngen \in 0..(2 * boots)
          BY DEF TypeOK, GensOK
        <4> QED BY <2>1, <4>1, <4>2 DEF StartTailing
      <3> QED BY <1>1, <3>1, <3>2 DEF TypeOK, GensOK, GenInv, Booting, memVars, ProcUnchanged
    <2>2. CASE ~StartTailing
      <3>1. ngen' = ngen /\ gen' = gen
        BY <2>2 DEF TailStep, InstallWatch, prepare_tail_batch_command, TailerStarted, RescanBegin,
              CatchUp, RescanFile, TailEvent, TailerUnchanged
      <3>2. pc' = pc \/ (pc \in {"watch", "wait"} /\ pc' \in {"catchup", "tail"})
        BY <2>2 DEF TailStep, InstallWatch, prepare_tail_batch_command, TailerStarted, RescanBegin,
              CatchUp, RescanFile, TailEvent, Answered
      <3> QED BY <1>1, <3>1, <3>2 DEF TypeOK, GensOK, GenInv, Booting, memVars, ProcUnchanged
    <2> QED BY <2>1, <2>2
  <1> QED BY <1>2, <1>3, <1>8, <1>9 DEF TypeOK

LEMMA ShutdownType ==
  ASSUME TypeOK, GenInv, Shutdown
  PROVE  TypeOK' /\ GenInv'
  <1>1. ProcUnchanged /\ UNCHANGED <<watchVars, ssReady, ssActive, memVars, ngen, gen, todo, job, known,
                   touched, faults>> /\ pc' = "wait" /\ cont' = "stopped" /\ reply' = "none"
                   /\ dropped' = FALSE /\ rescan' = {} /\ pc = "tail"
    BY DEF Shutdown, Idle
  <1>2. queue' \in Seq(Commands)
    BY AppendFacts, CommandFacts DEF TypeOK, WriterOK, Shutdown
  <1>3. GensOK' /\ GenInv'
    BY <1>1 DEF TypeOK, GensOK, GenInv, Booting, Starts, ProcUnchanged, memVars
  <1>4. FilesOK' /\ WriterOK' /\ ProcOK' /\ StoreOK'
    BY <1>1, <1>2, ProcFrame DEF TypeOK, WriterOK, ProcOK, watchVars, Places, Conts
  <1> QED BY <1>3, <1>4 DEF TypeOK

LEMMA TypeStep == TypeOK /\ GenInv /\ [Next]_vars => TypeOK' /\ GenInv'
  <1> SUFFICES ASSUME TypeOK, GenInv, [Next]_vars PROVE TypeOK' /\ GenInv'
    OBVIOUS
  <1>1. CASE Writing
    BY <1>1, WritingType DEF Writing
  <1>2. CASE DayPasses \/ WriterMetrics \/ ChangeTimezone
    BY <1>2, OtherType
  <1>3. CASE Writer
    BY <1>3, RecvType, FlushType, FinishType DEF Writer
  <1>4. CASE Boot \/ Exit \/ Crash
    BY <1>4, GoneType DEF Exit, Crash
  <1>5. CASE Starting
    BY <1>5, StartGenerationType, BootEndType, SendType, BarrierType, RegisterType, ScanReadType
       DEF Starting
  <1>6. CASE Tailing
    BY <1>6, TailStepType, SendType DEF Tailing, TailStep
  <1>7. CASE Shutdown
    BY <1>7, ShutdownType
  <1>8. CASE UNCHANGED vars
    BY <1>8 DEF TypeOK, FilesOK, StoreOK, GensOK, WriterOK, ProcOK, GenInv, Booting, vars, fileVars,
        watchVars, storeVars, genVars, memVars, writerVars, procVars, countVars
  <1> QED BY <1>1, <1>2, <1>3, <1>4, <1>5, <1>6, <1>7, <1>8 DEF Next

\* Every variable stays in its type: in particular a batch carries a generation
\* that a start has handed out, and a job a file that is watched.
THEOREM TypeCorrect == Spec => []TypeOK
  <1>1. Init => TypeOK /\ GenInv
    BY TypeInit
  <1>2. TypeOK /\ GenInv /\ [Next]_vars => (TypeOK /\ GenInv)'
    BY TypeStep
  <1> QED BY <1>1, <1>2, PTL DEF Spec

-----------------------------------------------------------------------------
(* What is on its way to the writer.                                       *)

streamVars == <<queue, pend, wmode, wcmd>>

LEMMA StreamInit == Init => StreamInv
  <1> SUFFICES ASSUME Init PROVE StreamInv
    OBVIOUS
  <1>1. queue = <<>> /\ pend = NoBatches /\ wcmd = NoCmd /\ wmode = "idle" /\ pc = "down" /\ job = NoJob
    BY DEF Init
  <1>2. Sent = {} /\ Held = {} /\ InTransit = {} /\ Stream = {NoCmd}
    <2>1. Elems(<<>>) = {}
      BY DEF Elems
    <2>2. \A g \in Gens : pend[g] = <<>>
      BY <1>1 DEF NoBatches
    <2> QED BY <1>1, <2>1, <2>2 DEF Sent, Held, InTransit, Stream
  <1>3. Ordered(queue)
    BY <1>1 DEF Ordered
  <1>4. FlushInv
    BY <1>1, <1>2, CommandFacts DEF FlushInv, Ends
  <1>5. PhaseInv /\ JobInv
    BY <1>1, <1>2, CommandFacts, JobFacts DEF PhaseInv, Quiet, JobInv
  <1> QED BY <1>3, <1>4, <1>5 DEF StreamInv

LEMMA StreamUnchanged ==
  ASSUME UNCHANGED streamVars
  PROVE  UNCHANGED <<Sent, Held, Stream, InTransit, Ordered(queue)>>
  BY DEF streamVars, Sent, Held, Stream, InTransit, Ordered, Elems

LEMMA QuietFacts ==
  ASSUME TypeOK, Quiet
  PROVE  /\ InTransit = {} /\ Held = {}
         /\ \A c \in Sent : c.k = "rollups"
         /\ \A c \in Stream : c.k \notin Ends /\ c.k # "promote"
  BY CommandFacts, HeldFacts DEF TypeOK, WriterOK, Quiet, InTransit, Stream, Ends

\* Nobody waits for the writer: no flush and no promotion is on its way.
LEMMA NobodyWaits ==
  ASSUME StreamInv, ~Answering
  PROVE  \A c \in Stream : c.k \notin Ends /\ c.k # "promote"
  BY DEF StreamInv, FlushInv, PhaseInv

\* The writer and whoever it works for stay where they are.
LEMMA StreamStays ==
  ASSUME TypeOK, StreamInv, UNCHANGED <<streamVars, pc, cont, reply, gen>>, JobInv'
  PROVE  StreamInv'
  <1>1. UNCHANGED <<Sent, Held, Stream, InTransit, Ordered(queue), Answering, Registering>>
    BY StreamUnchanged DEF Answering, Registering
  <1>2. Ordered(queue)' /\ FlushInv'
    BY <1>1 DEF StreamInv, FlushInv, streamVars
  <1>3. PhaseInv'
    BY <1>1 DEF StreamInv, PhaseInv, Quiet
  <1> QED BY <1>2, <1>3 DEF StreamInv

\* A step of a boot or a tailer that waits for nothing before and after.
LEMMA StreamMoves ==
  ASSUME TypeOK, StreamInv, UNCHANGED streamVars, JobInv',
         pc \in {"scan", "discover", "watch", "catchup", "tail"},
         pc' \in {"scan", "discover", "watch", "catchup", "tail"}
  PROVE  StreamInv'
  <1>1. UNCHANGED <<Sent, Held, Stream, InTransit, Ordered(queue)>>
    BY StreamUnchanged
  <1>2. ~Answering /\ ~Registering /\ ~Registering' /\ ~Answering'
    BY DEF Answering, Registering
  <1>3. Ordered(queue)' /\ FlushInv'
    BY <1>1, <1>2 DEF StreamInv, FlushInv, streamVars
  <1>4. PhaseInv'
    BY <1>1, <1>2 DEF StreamInv, PhaseInv
  <1> QED BY <1>3, <1>4 DEF StreamInv

\* A step after the writer has done everything it was asked for.
LEMMA StreamResumes ==
  ASSUME TypeOK, StreamInv, UNCHANGED streamVars, JobInv', Quiet
  PROVE  StreamInv'
  <1>1. UNCHANGED <<Sent, Held, Stream, InTransit, Ordered(queue)>>
    BY StreamUnchanged
  <1>2. Ordered(queue)' /\ FlushInv'
    BY <1>1, QuietFacts DEF StreamInv, FlushInv, streamVars, Stream
  <1>3. PhaseInv'
    BY <1>1, QuietFacts DEF PhaseInv, Quiet
  <1> QED BY <1>2, <1>3 DEF StreamInv

\* A command is sent.
LEMMA SendFacts ==
  ASSUME TypeOK, StreamInv, NEW c \in Commands, queue' = Append(queue, c), UNCHANGED <<pend, wmode, wcmd>>
  PROVE  /\ Sent' = Sent \cup {c} /\ Held' = Held /\ Stream' = Stream \cup {c}
         /\ InTransit' = IF c.k = "batch" THEN InTransit \cup {c} ELSE InTransit
         /\ (c.k = "rollups" \/ ~Answering) => Ordered(queue)'
  <1>1. Elems(Append(queue, c)) = Elems(queue) \cup {c}
    BY AppendFacts DEF TypeOK, WriterOK
  <1>2. Sent' = Sent \cup {c} /\ Held' = Held
    BY <1>1 DEF Sent, Held, Elems
  <1>3. ASSUME c.k = "rollups" \/ ~Answering PROVE Ordered(queue)'
    <2>1. c.k = "rollups" \/ \A x \in Elems(queue) : x.k \notin Ends
      BY <1>3, NobodyWaits DEF Stream, Sent
    <2>2. Ordered(Append(queue, c))
      BY <2>1, AppendFacts DEF TypeOK, WriterOK, StreamInv
    <2> QED BY <2>2 DEF Ordered
  <1> QED BY <1>2, <1>3 DEF Stream, InTransit

LEMMA TimezoneStream ==
  ASSUME TypeOK, StreamInv, ChangeTimezone
  PROVE  StreamInv'
  <1> DEFINE c == [k |-> "rollups"]
  <1>1. /\ queue' = Append(queue, c) /\ c \in Commands /\ c.k = "rollups"
        /\ UNCHANGED <<pend, wmode, wcmd, pc, cont, reply, gen, job, ckpt>> /\ pc # "down"
    BY CommandFacts DEF ChangeTimezone, procVars, storeVars, Up
  <1> HIDE DEF c
  <1>2. /\ Sent' = Sent \cup {c} /\ Held' = Held /\ Stream' = Stream \cup {c} /\ InTransit' = InTransit
        /\ Ordered(queue)'
    BY <1>1, SendFacts
  <1>3. FlushInv'
    BY <1>1, <1>2 DEF StreamInv, FlushInv, Answering, Ends
  <1>4. PhaseInv' /\ JobInv'
    BY <1>1, <1>2 DEF StreamInv, PhaseInv, JobInv, Answering, Registering, Quiet
  <1> QED BY <1>2, <1>3, <1>4 DEF StreamInv

\* A command is sent by somebody who does not wait for it.
LEMMA SendStream ==
  ASSUME TypeOK, StreamInv, NEW c \in Commands, queue' = Append(queue, c), UNCHANGED <<pend, wmode, wcmd>>,
         JobInv', pc' \in {"reg", "scan", "catchup", "tail"}, pc' = pc \/ Quiet,
         ~Answering, c.k \in {"meta", "batch"}, c.k = "batch" => (c.reg <=> pc' = "reg")
  PROVE  StreamInv'
  <1>1. /\ Sent' = Sent \cup {c} /\ Held' = Held /\ Stream' = Stream \cup {c}
        /\ InTransit' = IF c.k = "batch" THEN InTransit \cup {c} ELSE InTransit
        /\ Ordered(queue)'
    BY SendFacts
  <1>2. \A x \in Stream : x.k \notin Ends /\ x.k # "promote"
    BY NobodyWaits
  <1>3. \A x \in Stream' : x.k \notin Ends /\ x.k # "promote"
    BY <1>1, <1>2 DEF Ends
  <1>4. FlushInv'
    BY <1>1, <1>3 DEF StreamInv, FlushInv, Stream
  <1>5. \A b \in InTransit' : b.reg <=> Registering'
    <2>1. Registering' <=> pc' = "reg"
      BY DEF Registering
    <2>2. \A b \in InTransit : b.reg <=> pc' = "reg"
      BY QuietFacts DEF StreamInv, PhaseInv, Registering
    <2> QED BY <1>1, <2>1, <2>2
  <1>6. PhaseInv'
    BY <1>3, <1>5 DEF PhaseInv
  <1> QED BY <1>1, <1>4, <1>6 DEF StreamInv

\* A flush is sent, after cmds, and its answer is awaited.
LEMMA AwaitStream ==
  ASSUME TypeOK, StreamInv, NEW cmds, NEW next, Await(cmds, next), UNCHANGED <<pend, wmode, wcmd>>,
         ~Answering, JobInv',
         cmds = <<>> \/ \E c \in Commands : /\ cmds = <<c>> /\ c.k \in {"meta", "create", "promote"}
                                            /\ c.k = "promote" => next = "promoted" /\ c.gen = gen',
         \A b \in InTransit : next \notin {"reg", "scan"} /\ (b.reg <=> next = "promote")
  PROVE  StreamInv' /\ InTransit' = InTransit
  <1>0. /\ queue \in Seq(Commands) /\ Flush \in Commands /\ Flush.k = "flush"
        /\ queue' = queue \o cmds \o <<Flush>> /\ pc' = "wait" /\ cont' = next /\ reply' = "none"
    BY CommandFacts DEF TypeOK, WriterOK, Await, Flush
  <1>1. \A x \in Sent : x.k \notin Ends /\ x.k # "promote"
    BY NobodyWaits DEF Stream
  <1>2. wcmd.k \notin Ends /\ wcmd.k # "promote"
    BY NobodyWaits DEF Stream
  <1> DEFINE New == {x \in Sent' : x \notin Sent /\ x # Flush}
  <1>3. /\ Ordered(queue)' /\ Sent \subseteq Sent'
        /\ \A x \in New : x \in Commands /\ x.k \in {"meta", "create", "promote"}
                          /\ (x.k = "promote" => next = "promoted" /\ x.gen = gen')
    <2>1. CASE cmds = <<>>
      <3>1. queue \o <<>> \o <<Flush>> = Append(queue, Flush)
        BY <1>0, AwaitFacts
      <3>2. queue' = Append(queue, Flush)
        BY <1>0, <2>1, <3>1
      <3>3. Elems(queue') = Elems(queue) \cup {Flush} /\ Ordered(queue')
        <4>1. \A x \in Elems(queue) : x.k \notin Ends
          BY <1>1 DEF Sent
        <4>2. Elems(Append(queue, Flush)) = Elems(queue) \cup {Flush} /\ Ordered(Append(queue, Flush))
          BY <1>0, <4>1, AppendFacts DEF StreamInv
        <4> QED BY <4>2, <3>2, Zenon
      <3>4. Sent' = Sent \cup {Flush} /\ Ordered(queue)'
        BY <3>3 DEF Sent, Ordered, Elems
      <3> QED BY <3>4
    <2>2. ASSUME NEW c \in Commands, cmds = <<c>>, c.k \in {"meta", "create", "promote"},
                 c.k = "promote" => next = "promoted" /\ c.gen = gen'
          PROVE  /\ Ordered(queue)' /\ Sent \subseteq Sent'
                 /\ \A x \in New : x \in Commands /\ x.k \in {"meta", "create", "promote"}
                                   /\ (x.k = "promote" => next = "promoted" /\ x.gen = gen')
      <3> DEFINE s == Append(queue, c)
      <3>1. queue' = Append(s, Flush)
        BY <1>0, <2>2, AwaitFacts
      <3>2. s \in Seq(Commands) /\ Elems(s) = Elems(queue) \cup {c} /\ Ordered(s)
        BY <1>0, <1>1, AppendFacts DEF StreamInv, Sent
      <3>3. \A x \in Elems(s) : x.k \notin Ends
        BY <3>2, <1>1, <2>2 DEF Sent, Ends
      <3> HIDE DEF s
      <3>4. Elems(queue') = Elems(s) \cup {Flush} /\ Ordered(queue')
        <4>1. Elems(Append(s, Flush)) = Elems(s) \cup {Flush} /\ Ordered(Append(s, Flush))
          BY <3>2, <3>3, <1>0, AppendFacts
        <4> QED BY <4>1, <3>1, Zenon
      <3>5. Sent' = Sent \cup {c} \cup {Flush} /\ Ordered(queue)'
        BY <3>2, <3>4 DEF Sent, Ordered, Elems
      <3> QED BY <2>2, <3>5
    <2> QED BY <2>1, <2>2
  <1>4. \A x \in Sent' : x \in Sent \/ x = Flush \/ x \in New
    OBVIOUS
  <1> HIDE DEF New
  <1>5. InTransit' = InTransit
    <2>1. Held' = Held
      BY DEF Held, Elems
    <2> QED BY <1>0, <1>3, <1>4, <2>1 DEF InTransit
  <1>6. Answering' /\ (Registering' <=> next = "promote")
    BY <1>0 DEF Answering, Registering
  <1>7. FlushInv'
    BY <1>0, <1>2, <1>3, <1>4, <1>6 DEF StreamInv, FlushInv
  <1>8. PhaseInv'
    <2>1. \A x \in Stream' : x.k = "promote" => Answering' /\ cont' = "promoted" /\ x.gen = gen'
      BY <1>0, <1>1, <1>2, <1>3, <1>4, <1>6 DEF Stream
    <2> QED BY <1>0, <1>5, <1>6, <2>1 DEF PhaseInv
  <1> QED BY <1>3, <1>5, <1>7, <1>8 DEF StreamInv

LEMMA StartGenerationStream ==
  ASSUME TypeOK, GenInv, StreamInv, StartGeneration
  PROVE  StreamInv' /\ InTransit' = InTransit
  <1>1. Quiet /\ ~Answering /\ job = NoJob
    BY DEF StartGeneration, StreamInv, PhaseInv, JobInv, Answering
  <1>2. UNCHANGED <<pend, wmode, wcmd, job>>
    BY DEF StartGeneration, ProcUnchanged
  <1>3. JobInv'
    BY <1>1, <1>2, JobFacts DEF JobInv
  <1>4. CASE snapReady # "starting" /\ active # 0
    <2>1. pc' = "scan" /\ queue' = Append(queue, Meta)
      BY <1>4 DEF StartGeneration
    <2>2. Meta \in Commands /\ Meta.k = "meta"
      BY CommandFacts DEF Meta
    <2> QED BY <1>1, <1>2, <1>3, <2>1, <2>2, SendStream, SendFacts
  <1>5. CASE ~(snapReady # "starting" /\ active # 0)
    <2> DEFINE next == IF snapReady = "starting" THEN "reg" ELSE "scan"
               c == [k |-> "create", gen |-> ngen + 1]
    <2>1. Await(<<c>>, next)
      BY <1>5 DEF StartGeneration
    <2>2. ngen + 1 \in Gens
      BY Bounds DEF StartGeneration, TypeOK, GensOK, GenInv
    <2>3. c \in Commands /\ c.k = "create"
      BY <2>2, CommandFacts
    <2>4. InTransit = {}
      BY <1>1, QuietFacts
    <2> HIDE DEF c, next
    <2> QED BY <1>1, <1>2, <1>3, <2>1, <2>3, <2>4, AwaitStream
  <1> QED BY <1>4, <1>5

LEMMA BarrierStream ==
  ASSUME TypeOK, GenInv, StreamInv, Barrier
  PROVE  StreamInv' /\ InTransit' = InTransit
  <1>1. UNCHANGED <<pend, wmode, wcmd, job, gen>>
    BY DEF Barrier, ProcUnchanged
  <1>2. ~Answering /\ job = NoJob /\ pc \notin {"down", "boot"}
    BY DEF Barrier, Answering, Answered, StreamInv, JobInv
  <1>3. JobInv'
    BY <1>1, <1>2, JobFacts DEF JobInv
  <1>4. Meta \in Commands /\ Meta.k = "meta"
    BY CommandFacts DEF Meta
  <1>5. [k |-> "promote", gen |-> gen] \in Commands
    BY <1>2, CommandFacts DEF GenInv
  <1>6. CASE pc = "reg" /\ Await(<<>>, "promote")
    <2>1. \A b \in InTransit : b.reg
      BY <1>6 DEF StreamInv, PhaseInv, Registering
    <2> QED BY <1>1, <1>2, <1>3, <1>6, <2>1, AwaitStream
  <1>7. CASE pc = "scan" /\ Await(<<Meta>>, "summary")
    <2>1. \A b \in InTransit : ~b.reg
      BY <1>7 DEF StreamInv, PhaseInv, Registering
    <2> QED BY <1>1, <1>2, <1>3, <1>4, <1>7, <2>1, AwaitStream
  <1>8. CASE pc = "catchup" /\ Await(<<>>, "tailing")
    <2>1. \A b \in InTransit : ~b.reg
      BY <1>8 DEF StreamInv, PhaseInv, Registering
    <2> QED BY <1>1, <1>2, <1>3, <1>8, <2>1, AwaitStream
  <1>9. CASE Answered("summary", "ok") /\ Await(<<Meta>>, "scanned")
    <2>1. InTransit = {}
      BY <1>9, QuietFacts DEF Answered, StreamInv, PhaseInv
    <2> QED BY <1>1, <1>2, <1>3, <1>4, <1>9, <2>1, AwaitStream
  <1>10. CASE /\ Answered("promote", "ok") \/ Answered("scanned", "ok")
              /\ Await(<<[k |-> "promote", gen |-> gen]>>, "promoted")
    <2> DEFINE c == [k |-> "promote", gen |-> gen]
    <2>1. InTransit = {}
      BY <1>10, QuietFacts DEF Answered, StreamInv, PhaseInv
    <2>2. c \in Commands /\ c.k = "promote" /\ c.gen = gen'
      BY <1>1, <1>5
    <2>3. Await(<<c>>, "promoted")
      BY <1>10
    <2> HIDE DEF c
    <2> QED BY <1>1, <1>2, <1>3, <2>1, <2>2, <2>3, AwaitStream
  <1> QED BY <1>6, <1>7, <1>8, <1>9, <1>10 DEF Barrier

LEMMA ProcStream ==
  ASSUME TypeOK, GenInv, StreamInv,
         \/ BootDone \/ BootFailed \/ GenerationCreated \/ ScanSend \/ TailSend \/ Shutdown
         \/ \E f \in Files : register_new_install_sources(f) \/ ScanRead(f)
  PROVE  StreamInv'
  <1>1. CASE BootDone \/ (BootFailed /\ pc = "wait")
    <2>1. Quiet /\ job = NoJob /\ job' = job /\ UNCHANGED streamVars
      BY <1>1 DEF BootDone, BootFailed, Answered, StreamInv, PhaseInv, JobInv, streamVars, ProcUnchanged
    <2>2. JobInv'
      BY <2>1, JobFacts DEF JobInv
    <2> QED BY <2>1, <2>2, StreamResumes
  <1>2. CASE BootFailed /\ pc # "wait"
    <2>1. pc = "scan" /\ pc' = "discover" /\ job = NoJob /\ job' = job /\ UNCHANGED streamVars
      BY <1>2 DEF BootFailed, Answered, streamVars, ProcUnchanged
    <2>2. JobInv'
      BY <2>1, JobFacts DEF JobInv
    <2> QED BY <2>1, <2>2, StreamMoves
  <1>3. CASE GenerationCreated
    <2>1. Quiet /\ ~Answering /\ job = NoJob /\ job' = job /\ UNCHANGED <<pend, wmode, wcmd>>
          /\ queue' = Append(queue, Meta) /\ pc' \in {"reg", "scan"}
      BY <1>3 DEF GenerationCreated, Answered, Answering, StreamInv, PhaseInv, JobInv, ProcUnchanged
    <2>2. JobInv'
      BY <2>1, JobFacts DEF JobInv
    <2>3. Meta \in Commands /\ Meta.k = "meta"
      BY CommandFacts DEF Meta
    <2> QED BY <2>1, <2>2, <2>3, SendStream
  <1>4. CASE ScanSend \/ TailSend
    <2>1. Sending \in Batches /\ queue' = Append(queue, Sending)
      BY <1>4, SendType
    <2>2. job' = NoJob /\ pc' = pc /\ pc \in {"scan", "catchup", "tail"} /\ UNCHANGED <<pend, wmode, wcmd>>
      BY <1>4 DEF ScanSend, TailSend, ProcUnchanged, TailerUnchanged
    <2>3. JobInv'
      BY <2>2, JobFacts DEF JobInv
    <2>4. Sending \in Commands /\ Sending.k = "batch" /\ ~Sending.reg
      BY <2>1, CommandFacts DEF Sending, Batch
    <2> HIDE DEF Sending
    <2> QED BY <2>1, <2>2, <2>3, <2>4, SendStream DEF Answering
  <1>5. CASE Shutdown
    <2> DEFINE c == [k |-> "shutdown"]
    <2>1. /\ queue' = Append(queue, c) /\ c \in Commands /\ c.k = "shutdown" /\ job = NoJob
          /\ UNCHANGED <<pend, wmode, wcmd, job>> /\ pc = "tail"
          /\ pc' = "wait" /\ cont' = "stopped" /\ reply' = "none"
      BY <1>5, CommandFacts DEF Shutdown, Idle, ProcUnchanged
    <2> HIDE DEF c
    <2>2. ~Answering /\ ~Registering /\ Answering' /\ ~Registering'
      BY <2>1 DEF Answering, Registering
    <2>3. /\ Sent' = Sent \cup {c} /\ Held' = Held /\ Stream' = Stream \cup {c} /\ InTransit' = InTransit
          /\ Ordered(queue)'
      BY <2>1, <2>2, SendFacts
    <2>4. FlushInv'
      BY <2>1, <2>2, <2>3, NobodyWaits DEF StreamInv, FlushInv, Stream
    <2>5. PhaseInv'
      BY <2>1, <2>2, <2>3, NobodyWaits DEF StreamInv, PhaseInv
    <2>6. JobInv'
      BY <2>1, JobFacts DEF JobInv
    <2> QED BY <2>3, <2>4, <2>5, <2>6 DEF StreamInv
  <1>6. ASSUME NEW f \in Files, register_new_install_sources(f) PROVE StreamInv'
    <2> DEFINE b == Batch(f, gen, {}, Size(f), fs[f].ino, fs[f].inc, TRUE)
    <2>1. b \in Batches /\ b.k = "batch" /\ b.reg = TRUE
      BY <1>6, RegisterType DEF Batch
    <2>2. queue' = Append(queue, b) /\ job' = job /\ pc' = pc /\ pc = "reg" /\ UNCHANGED <<pend, wmode, wcmd>>
      BY <1>6 DEF register_new_install_sources, ProcUnchanged
    <2> HIDE DEF b
    <2>3. job = NoJob
      BY <2>2 DEF StreamInv, JobInv
    <2>4. JobInv'
      BY <2>2, <2>3, JobFacts DEF JobInv
    <2>5. b \in Commands
      BY <2>1, CommandFacts
    <2> QED BY <2>1, <2>2, <2>4, <2>5, SendStream DEF Answering
  <1>7. ASSUME NEW f \in Files, ScanRead(f) PROVE StreamInv'
    <2>1. UNCHANGED <<streamVars, pc, cont, reply, gen>> /\ pc = "scan"
      BY <1>7 DEF ScanRead, ProcUnchanged, streamVars
    <2>2. job'.stage # "read"
      BY <1>7, JobFacts DEF ScanRead
    <2>3. JobInv'
      BY <2>1, <2>2 DEF JobInv
    <2> QED BY <2>1, <2>3, StreamStays
  <1> QED BY <1>1, <1>2, <1>3, <1>4, <1>5, <1>6, <1>7

LEMMA NoBatchesHeld ==
  ASSUME pend = NoBatches
  PROVE  Held = {}
  <1>1. \A g \in Gens : Elems(pend[g]) = {}
    BY DEF NoBatches, Elems
  <1> QED BY <1>1 DEF Held

\* A command leaves the queue: a batch joins the ones held, any other command
\* is the one to be dispatched.
LEMMA RecvFacts ==
  ASSUME TypeOK, StreamInv, WriterRecv
  PROVE  /\ InTransit' = InTransit /\ Sent' \subseteq Sent /\ Held \subseteq Held'
         /\ Stream' \subseteq Stream \cup {NoCmd}
         /\ Head(queue).k # "batch" => Held' = Held /\ wcmd' = Head(queue)
         /\ Head(queue).k = "batch" => wcmd' = NoCmd /\ pend' # NoBatches /\ Held' = Held \cup {Head(queue)}
         /\ Head(queue) \in Sent /\ Head(queue) \in Commands
         /\ Sent = Sent' \cup {Head(queue)}
         /\ Ordered(queue)'
         /\ Head(queue).k \in Ends => \A x \in Sent' : x.k = "rollups"
  <1> DEFINE h == Head(queue)
  <1>1. queue \in Seq(Commands) /\ queue # <<>> /\ queue' = Tail(queue)
    BY DEF TypeOK, WriterOK, WriterRecv
  <1>2. /\ h \in Commands /\ Elems(queue) = Elems(queue') \cup {h}
        /\ Ordered(queue') /\ (h.k \in Ends => \A x \in Elems(queue') : x.k = "rollups")
    <2>1. /\ h \in Commands /\ Elems(queue) = Elems(Tail(queue)) \cup {h}
          /\ Ordered(Tail(queue)) /\ (h.k \in Ends => \A x \in Elems(Tail(queue)) : x.k = "rollups")
      BY <1>1, TailFacts DEF StreamInv
    <2> QED BY <1>1, <2>1
  <1>3. Sent = Sent' \cup {h} /\ Ordered(queue)' /\ (h.k \in Ends => \A x \in Sent' : x.k = "rollups")
    BY <1>2 DEF Sent, Elems, Ordered
  <1>4. CASE h.k = "batch"
    <2>1. h \in Batches
      BY <1>2, <1>4, CommandFacts
    <2>2. h.gen \in Gens
      BY <2>1 DEF Batches
    <2>3. pend' = [pend EXCEPT ![h.gen] = Append(@, h)] /\ wcmd' = NoCmd
      BY <1>4 DEF WriterRecv
    <2>4. pend[h.gen] \in Seq(Batches) /\ pend \in [Gens -> Seq(Batches)]
      BY <2>2 DEF TypeOK, WriterOK
    <2> HIDE DEF h
    <2>5. Elems(Append(pend[h.gen], h)) = Elems(pend[h.gen]) \cup {h}
      BY <2>1, <2>4, AppendFacts
    <2>6. \A g \in Gens : pend'[g] = IF g = h.gen THEN Append(pend[g], h) ELSE pend[g]
      BY <2>2, <2>3, <2>4
    <2>7. \A g \in Gens : Elems(pend'[g]) = IF g = h.gen THEN Elems(pend[g]) \cup {h} ELSE Elems(pend[g])
      BY <2>5, <2>6
    <2>8. UNION {Elems(pend'[g]) : g \in Gens} = (UNION {Elems(pend[g]) : g \in Gens}) \cup {h}
      <3>1. \A x : (\E g \in Gens : x \in Elems(pend'[g]))
                    <=> x = h \/ \E g \in Gens : x \in Elems(pend[g])
        BY <2>2, <2>7
      <3> QED BY <3>1
    <2>9. Held' = Held \cup {h}
      <3>1. Held' = UNION {Elems(pend'[g]) : g \in Gens}
        BY DEF Held, Elems
      <3>2. Held = UNION {Elems(pend[g]) : g \in Gens}
        BY DEF Held
      <3> QED BY <2>8, <3>1, <3>2, Zenon
    <2>10. pend' # NoBatches
      <3>1. Append(pend[h.gen], h) # <<>>
        BY <2>1, <2>4, AppendProperties
      <3> QED BY <2>2, <2>6, <3>1 DEF NoBatches
    <2>11. InTransit' = InTransit
      BY <1>3, <1>4, <2>9 DEF InTransit
    <2> QED BY <1>2, <1>3, <1>4, <2>3, <2>9, <2>10, <2>11 DEF Stream, h
  <1>5. CASE h.k # "batch"
    <2>1. pend' = pend /\ wcmd' = h
      BY <1>5 DEF WriterRecv
    <2>2. Held' = Held
      BY <2>1 DEF Held, Elems
    <2> HIDE DEF h
    <2>3. InTransit' = InTransit
      BY <1>3, <1>5, <2>2 DEF InTransit
    <2> QED BY <1>2, <1>3, <1>5, <2>1, <2>2, <2>3 DEF Stream, h
  <1> QED BY <1>4, <1>5

LEMMA RecvStream ==
  ASSUME TypeOK, StreamInv, WriterRecv \/ WriterTimeout
  PROVE  StreamInv'
  <1>1. UNCHANGED <<pc, cont, reply, gen, job, ckpt>> /\ pc # "down" /\ wmode = "idle"
    BY DEF WriterRecv, WriterTimeout, procVars, storeVars, Up
  <1>2. UNCHANGED <<Answering, Registering>> /\ JobInv'
    BY <1>1 DEF Answering, Registering, JobInv, StreamInv
  <1>3. CASE WriterRecv
    <2> DEFINE h == Head(queue)
    <2>1. /\ InTransit' = InTransit /\ Sent' \subseteq Sent /\ Held \subseteq Held'
          /\ Stream' \subseteq Stream \cup {NoCmd}
          /\ h.k # "batch" => Held' = Held /\ wcmd' = h
          /\ h.k = "batch" => wcmd' = NoCmd /\ pend' # NoBatches /\ Held' = Held \cup {h}
          /\ h \in Sent /\ h \in Commands
          /\ Ordered(queue)'
          /\ h.k \in Ends => \A x \in Sent' : x.k = "rollups"
      BY <1>3, RecvFacts
    <2> HIDE DEF h
    <2>2. wmode' \in {"idle", "flush"} /\ (wmode' = "idle" => wcmd' = NoCmd)
      BY <1>3 DEF WriterRecv
    <2>3. FlushInv'
      <3>1. \A c \in Stream' : c.k \in Ends => Answering'
        BY <1>2, <2>1, CommandFacts DEF StreamInv, FlushInv, Ends
      <3>2. wcmd'.k \in Ends => \A c \in Sent' : c.k = "rollups"
        BY <2>1, CommandFacts DEF Ends
      <3>3. wmode' = "flush" /\ wcmd' = NoCmd => pend' # NoBatches
        BY <2>1, CommandFacts
      <3>4. wcmd'.k # "batch"
        BY <2>1, CommandFacts
      <3> QED BY <2>2, <3>1, <3>2, <3>3, <3>4 DEF FlushInv
    <2>4. PhaseInv'
      <3>1. Quiet => Quiet'
        <4>1. ASSUME Quiet PROVE h.k = "rollups"
          BY <4>1, <2>1, QuietFacts
        <4> QED BY <4>1, <2>1, CommandFacts DEF Quiet
      <3>2. \A c \in Stream' : c.k = "promote" => c \in Stream
        BY <2>1, CommandFacts
      <3> QED BY <1>1, <1>2, <2>1, <3>1, <3>2 DEF StreamInv, PhaseInv
    <2> QED BY <1>2, <2>1, <2>3, <2>4 DEF StreamInv
  <1>4. CASE WriterTimeout
    <2>1. UNCHANGED <<queue, pend>> /\ wmode' = "flush" /\ wcmd' = NoCmd /\ pend # NoBatches /\ wcmd = NoCmd
      BY <1>1, <1>4 DEF WriterTimeout, StreamInv, FlushInv
    <2>2. UNCHANGED <<Sent, Held, Stream, InTransit, Ordered(queue)>>
      BY <2>1 DEF Sent, Held, Stream, InTransit, Ordered, Elems
    <2>3. FlushInv'
      BY <1>2, <2>1, <2>2, CommandFacts DEF StreamInv, FlushInv, Ends
    <2>4. PhaseInv'
      BY <1>1, <1>2, <2>1, <2>2 DEF StreamInv, PhaseInv, Quiet
    <2> QED BY <1>2, <2>2, <2>3, <2>4 DEF StreamInv
  <1> QED BY <1>3, <1>4

LEMMA FlushFacts ==
  ASSUME TypeOK, NEW g \in Gens, WriterFlushGroup(g)
  PROVE  /\ Sent' = Sent /\ Stream' = Stream /\ Held' \subseteq Held /\ InTransit' \subseteq InTransit
         /\ wcmd' = wcmd
  <1>1. queue' = queue /\ wcmd' = wcmd /\ pend' = [pend EXCEPT ![g] = <<>>]
    BY DEF WriterFlushGroup
  <1>2. \A h \in Gens : pend'[h] = IF h = g THEN <<>> ELSE pend[h]
    BY <1>1 DEF TypeOK, WriterOK
  <1>3. \A h \in Gens : Elems(pend'[h]) \subseteq Elems(pend[h])
    BY <1>2 DEF Elems
  <1>4. UNION {Elems(pend'[h]) : h \in Gens} \subseteq UNION {Elems(pend[h]) : h \in Gens}
    BY <1>3
  <1>5. Held' \subseteq Held
    BY <1>4 DEF Held, Elems
  <1>6. Sent' = Sent /\ Stream' = Stream
    BY <1>1 DEF Sent, Stream, Elems
  <1> QED BY <1>1, <1>5, <1>6 DEF InTransit

LEMMA FlushStream ==
  ASSUME TypeOK, StreamInv, NEW g \in Gens, WriterFlushGroup(g)
  PROVE  StreamInv'
  <1>1. UNCHANGED <<pc, cont, reply, gen, job, queue>> /\ DbFree
    BY DEF WriterFlushGroup, procVars
  <1>2. UNCHANGED <<Answering, Registering, Ordered(queue)>>
    BY <1>1 DEF Answering, Registering, Ordered
  <1>3. /\ Sent' = Sent /\ Stream' = Stream /\ Held' \subseteq Held /\ InTransit' \subseteq InTransit
        /\ wcmd' = wcmd
    BY FlushFacts
  <1>4. JobInv'
    <2>1. job.stage # "read"
      BY <1>1, JobFacts DEF DbFree, StreamInv, JobInv
    <2> QED BY <1>1, <2>1 DEF StreamInv, JobInv
  <1>5. FlushInv'
    <2>1. wmode' = "flush" /\ wcmd' = NoCmd => pend' # NoBatches
      BY DEF WriterFlushGroup
    <2>2. wmode' = "idle" => wcmd' = NoCmd
      BY DEF WriterFlushGroup
    <2> QED BY <1>2, <1>3, <2>1, <2>2 DEF StreamInv, FlushInv
  <1>6. PhaseInv'
    BY <1>1, <1>2, <1>3 DEF StreamInv, PhaseInv, Quiet
  <1> QED BY <1>2, <1>4, <1>5, <1>6 DEF StreamInv

LEMMA FinishFacts ==
  ASSUME TypeOK, StreamInv, WriterFinish
  PROVE  /\ Sent' = Sent /\ Held = {} /\ Held' = {} /\ InTransit' = InTransit /\ Stream' = Sent \cup {NoCmd}
         /\ wcmd' = NoCmd /\ wcmd \in Commands /\ wcmd.k # "batch"
         /\ wcmd.k \in Ends => Answering /\ \A c \in Sent : c.k = "rollups"
         /\ wcmd.k \notin Ends => reply' = reply
         /\ UNCHANGED <<pc, cont, gen, job, queue, ckpt>> /\ dispatch_command
  <1>1. UNCHANGED <<pc, cont, gen, job, queue, pend>> /\ pend = NoBatches /\ wcmd' = NoCmd
        /\ wmode = "flush" /\ dispatch_command
    BY DEF WriterFinish
  <1>2. Held = {} /\ Held' = Held /\ Sent' = Sent
    BY <1>1, NoBatchesHeld DEF Held, Sent, Elems
  <1>3. wcmd # NoCmd /\ wcmd \in Commands /\ wcmd.k # "batch"
    BY <1>1 DEF StreamInv, FlushInv, TypeOK, WriterOK
  <1>4. wcmd.k \notin Ends => reply' = reply
    BY <1>1, <1>3, CommandFacts DEF dispatch_command, Ends
  <1>5. ckpt' = ckpt
    BY <1>1 DEF dispatch_command, storeVars
  <1>6. wcmd.k \in Ends => Answering /\ \A c \in Sent : c.k = "rollups"
    BY DEF StreamInv, FlushInv, Stream
  <1> QED BY <1>1, <1>2, <1>3, <1>4, <1>5, <1>6 DEF Stream, InTransit

LEMMA FinishStream ==
  ASSUME TypeOK, StreamInv, WriterFinish
  PROVE  StreamInv'
  <1>1. /\ Sent' = Sent /\ Held = {} /\ Held' = {} /\ InTransit' = InTransit /\ Stream' = Sent \cup {NoCmd}
        /\ wcmd' = NoCmd /\ wcmd \in Commands /\ wcmd.k # "batch"
        /\ wcmd.k \in Ends => Answering /\ \A c \in Sent : c.k = "rollups"
        /\ wcmd.k \notin Ends => reply' = reply
        /\ UNCHANGED <<pc, cont, gen, job, queue, ckpt>>
    BY FinishFacts
  <1>2. Ordered(queue)' /\ JobInv' /\ Registering' = Registering
    BY <1>1 DEF StreamInv, Ordered, JobInv, Registering
  <1>3. CASE wcmd.k \in Ends
    <2>1. Quiet' /\ InTransit' = {} /\ wmode' = "idle"
      BY <1>1, <1>3, CommandFacts DEF Quiet, InTransit, WriterFinish
    <2>2. FlushInv'
      BY <1>1, <1>3, <2>1, CommandFacts DEF FlushInv, Ends
    <2>3. PhaseInv'
      BY <1>1, <1>3, <2>1, CommandFacts DEF PhaseInv
    <2> QED BY <1>2, <2>2, <2>3 DEF StreamInv
  <1>4. CASE wcmd.k \notin Ends
    <2>1. Answering' = Answering /\ wmode' = "idle"
      BY <1>1, <1>4 DEF Answering, WriterFinish
    <2>2. FlushInv'
      BY <1>1, <2>1, CommandFacts DEF StreamInv, FlushInv, Ends, Stream
    <2>3. PhaseInv'
      BY <1>1, <1>2, <1>4, <2>1, CommandFacts DEF StreamInv, PhaseInv, Quiet, Stream
    <2> QED BY <1>2, <2>2, <2>3 DEF StreamInv
  <1> QED BY <1>3, <1>4

LEMMA TailStepStream ==
  ASSUME TypeOK, GenInv, StreamInv, TailStep
  PROVE  StreamInv'
  <1>1. UNCHANGED <<streamVars, cont, reply, ckpt>>
    BY DEF TailStep, StartTailing, InstallWatch, prepare_tail_batch_command, TailerStarted, RescanBegin,
           CatchUp, RescanFile, TailEvent, TailerUnchanged, ProcUnchanged, streamVars, storeVars
  <1>2. CASE TailerStarted
    <2>1. Quiet /\ job = NoJob /\ job' = job
      BY <1>2 DEF TailerStarted, Answered, StreamInv, PhaseInv, JobInv
    <2>2. JobInv'
      BY <2>1, JobFacts DEF JobInv
    <2> QED BY <1>1, <2>1, <2>2, StreamResumes
  <1>3. CASE StartTailing \/ InstallWatch
    <2>1. job = NoJob /\ job' = job /\ pc \in {"discover", "watch"} /\ pc' \in {"watch", "catchup"}
      BY <1>3 DEF StartTailing, InstallWatch, StreamInv, JobInv
    <2>2. JobInv'
      BY <2>1, JobFacts DEF JobInv
    <2> QED BY <1>1, <2>1, <2>2, StreamMoves
  <1>4. CASE prepare_tail_batch_command
    <2>1. pc' = pc /\ gen' = gen /\ job # NoJob
      BY <1>4, JobFacts DEF prepare_tail_batch_command, TailerUnchanged
    <2>2. job' \in Jobs /\ job'.stage # "read"
      BY <1>4, PrepareFacts, JobFacts
    <2>3. JobInv'
      BY <2>1, <2>2 DEF StreamInv, JobInv
    <2> QED BY <1>1, <2>1, <2>3, StreamStays
  <1>5. CASE /\ RescanBegin \/ \E f \in Files : \/ CatchUp(f) \/ RescanFile(f)
                                               \/ \E kind \in {"created", "modified"} : TailEvent(f, kind)
    <2>1. pc' = pc /\ gen' = gen /\ pc \in {"catchup", "tail"}
      BY <1>5 DEF RescanBegin, CatchUp, RescanFile, TailEvent, TailerUnchanged, Idle
    <2>2. job' = job \/ \E f \in Files : job' = Opened(f)
      BY <1>5 DEF RescanBegin, CatchUp, RescanFile, TailEvent
    <2>3. JobInv'
      <3>1. \A f \in Files : Opened(f).f = f /\ Opened(f).batch = ckpt[f]
        BY DEF Opened
      <3> QED BY <1>1, <2>1, <2>2, <3>1 DEF StreamInv, JobInv
    <2> QED BY <1>1, <2>1, <2>3, StreamStays
  <1> QED BY <1>2, <1>3, <1>4, <1>5 DEF TailStep

LEMMA GoneFacts ==
  ASSUME ProcessGone
  PROVE  Sent' = {} /\ Held' = {} /\ InTransit' = {} /\ Stream' = {NoCmd}
  <1>1. queue' = <<>> /\ pend' = NoBatches /\ wcmd' = NoCmd
    BY DEF ProcessGone
  <1>2. Elems(<<>>) = {}
    BY DEF Elems
  <1>3. \A g \in Gens : pend'[g] = <<>>
    BY <1>1 DEF NoBatches
  <1>4. UNION {Elems(pend'[g]) : g \in Gens} = {}
    BY <1>2, <1>3
  <1>5. Held' = {}
    BY <1>4 DEF Held, Elems
  <1>6. Sent' = {}
    BY <1>1 DEF Sent, Elems
  <1> QED BY <1>1, <1>5, <1>6 DEF InTransit, Stream

LEMMA StreamStep == TypeOK /\ GenInv /\ StreamInv /\ [Next]_vars => StreamInv'
  <1> SUFFICES ASSUME TypeOK, GenInv, StreamInv, [Next]_vars PROVE StreamInv'
    OBVIOUS
  <1>1. CASE Writing \/ DayPasses \/ WriterMetrics \/ UNCHANGED vars
    <2>1. UNCHANGED <<streamVars, pc, cont, reply, gen, job, ckpt>>
      <3>1. CASE Writing \/ DayPasses \/ UNCHANGED vars
        <4>1. UNCHANGED <<storeVars, writerVars, procVars>>
          BY <3>1, Zenon DEF Writing, CreateFile, WritePart, WriteLine, WriteBlank, Rewrite, EnvUnchanged,
                             DayPasses, vars
        <4> QED BY <4>1 DEF storeVars, procVars, writerVars, streamVars
      <3>2. CASE WriterMetrics
        BY <3>2 DEF WriterMetrics, prune_usage_events, procVars, streamVars
      <3> QED BY <1>1, <3>1, <3>2
    <2>2. JobInv'
      BY <2>1 DEF StreamInv, JobInv
    <2> QED BY <2>1, <2>2, StreamStays
  <1>2. CASE ChangeTimezone
    BY <1>2, TimezoneStream
  <1>3. CASE Writer
    BY <1>3, RecvStream, FlushStream, FinishStream DEF Writer
  <1>4. CASE Exit \/ Crash
    <2>1. queue' = <<>> /\ pend' = NoBatches /\ wcmd' = NoCmd /\ wmode' = "idle" /\ pc' = "down" /\ job' = NoJob
      BY <1>4 DEF Exit, Crash, ProcessGone
    <2>2. Sent' = {} /\ Held' = {} /\ InTransit' = {} /\ Stream' = {NoCmd}
      BY <1>4, GoneFacts DEF Exit, Crash
    <2>3. Ordered(queue)'
      BY <2>1 DEF Ordered
    <2>4. FlushInv'
      BY <2>1, <2>2, CommandFacts DEF FlushInv, Ends
    <2>5. PhaseInv' /\ JobInv'
      BY <2>1, <2>2, CommandFacts, JobFacts DEF PhaseInv, Quiet, JobInv
    <2> QED BY <2>3, <2>4, <2>5 DEF StreamInv
  <1>5. CASE Boot
    <2>1. UNCHANGED <<streamVars, job>> /\ Quiet /\ job = NoJob
      BY <1>5 DEF Boot, writerVars, streamVars, StreamInv, PhaseInv, JobInv
    <2>2. JobInv'
      BY <2>1, JobFacts DEF JobInv
    <2> QED BY <2>1, <2>2, StreamResumes
  <1>6. CASE Starting
    BY <1>6, StartGenerationStream, BarrierStream, ProcStream DEF Starting
  <1>7. CASE Tailing
    BY <1>7, TailStepStream, ProcStream DEF Tailing, TailStep
  <1>8. CASE Shutdown
    BY <1>8, ProcStream
  <1> QED BY <1>1, <1>2, <1>3, <1>4, <1>5, <1>6, <1>7, <1>8 DEF Next

-----------------------------------------------------------------------------
(* Files and reads.                                                        *)

LEMMA SeenInit == Init => SeenInv
  BY JobFacts DEF Init, SeenInv, Exists, ExistingFiles

\* Files grow, or begin a new incarnation.
Grows(f) ==
    /\ fs[f].inc <= fs'[f].inc
    /\ Exists(f) => Exists(f)'
    /\ fs'[f].inc = fs[f].inc =>
          /\ Size(f) <= Size(f)'
          /\ \A i \in DOMAIN fs'[f].items :
                IF i \in DOMAIN fs[f].items THEN fs'[f].items[i] = fs[f].items[i]
                                            ELSE 2 * i > Size(f)

LEMMA AppendItem ==
  ASSUME NEW s \in Seq(0..MaxLines), NEW x \in 0..MaxLines
  PROVE  /\ Len(Append(s, x)) = Len(s) + 1 /\ Len(s) \in Nat
         /\ DOMAIN Append(s, x) = 1..(Len(s) + 1) /\ DOMAIN s = 1..Len(s)
         /\ \A i \in 1..Len(s) : Append(s, x)[i] = s[i]
  <1>1. Append(s, x) \in Seq(0..MaxLines) /\ Len(Append(s, x)) = Len(s) + 1
        /\ \A i \in 1..Len(s) : Append(s, x)[i] = s[i]
    BY AppendProperties
  <1>2. DOMAIN Append(s, x) = 1..Len(Append(s, x)) /\ DOMAIN s = 1..Len(s) /\ Len(s) \in Nat
    BY <1>1, LenProperties
  <1> QED BY <1>1, <1>2

LEMMA SameFile ==
  ASSUME TypeOK, NEW f \in Files, fs'[f] = fs[f]
  PROVE  Grows(f) /\ Exists(f)' = Exists(f) /\ Size(f)' = Size(f)
  <1>1. Size(f)' = Size(f) /\ Exists(f)' = Exists(f) /\ Size(f) \in Nat /\ fs[f].inc \in Nat
    BY FileFacts DEF TypeOK, Size, Exists
  <1> QED BY <1>1 DEF Grows

LEMMA WritingFiles ==
  ASSUME TypeOK, TypeOK', SeenInv, NEW f \in Files,
         \/ CreateFile(f) \/ WritePart(f) \/ WriteLine(f) \/ WriteBlank(f)
         \/ \E keep, fresh \in BOOLEAN : Rewrite(f, keep, fresh)
  PROVE  /\ \A h \in Files : Grows(h)
         /\ \A h \in Files : h # f => fs'[h] = fs[h]
         /\ Exists(f)'
  <1>0. /\ fs[f].items \in Seq(0..MaxLines) /\ Len(fs[f].items) \in Nat /\ Size(f) \in Nat
        /\ fs[f].torn \in BOOLEAN /\ fs[f].ino \in Nat /\ fs[f].inc \in Nat
        /\ fs \in [Files -> [items : Seq(0..MaxLines), torn : BOOLEAN, ino : Nat, inc : Nat]]
        /\ DOMAIN fs[f].items = 1..Len(fs[f].items)
    BY FileFacts DEF TypeOK, FilesOK
  <1>1. \A h \in Files : h # f => fs'[h] = fs[h]
    BY <1>0 DEF CreateFile, WritePart, WriteLine, WriteBlank, Rewrite
  <1>2. \A h \in Files : h # f => Grows(h)
    BY <1>1, SameFile
  <1>3. Grows(f) /\ Exists(f)'
    <2>1. CASE CreateFile(f)
      <3>1. fs'[f].inc = 1 /\ fs'[f].ino = 1
        BY <2>1, <1>0 DEF CreateFile
      <3>2. fs[f].inc = 0
        BY <2>1 DEF CreateFile, SeenInv
      <3> QED BY <3>1, <3>2 DEF Grows, Exists
    <2>2. CASE WritePart(f)
      <3>1. fs'[f].inc = fs[f].inc /\ fs'[f].ino = fs[f].ino /\ fs'[f].items = fs[f].items /\ fs'[f].torn
            /\ fs[f].ino # 0 /\ ~fs[f].torn
        BY <2>2, <1>0 DEF WritePart, Exists
      <3>2. Size(f)' = 2 * Len(fs[f].items) + 1 /\ Size(f) = 2 * Len(fs[f].items)
        BY <3>1, <1>0 DEF Size
      <3> QED BY <3>1, <3>2, <1>0 DEF Grows, Exists
    <2>3. ASSUME NEW x \in 0..MaxLines, Exists(f),
                 fs' = [fs EXCEPT ![f].items = Append(@, x), ![f].torn = FALSE]
                 \/ (~fs[f].torn /\ fs' = [fs EXCEPT ![f].items = Append(@, x)])
          PROVE  Grows(f) /\ Exists(f)'
      <3> DEFINE s == fs[f].items
      <3>1. fs'[f].inc = fs[f].inc /\ fs'[f].ino = fs[f].ino /\ fs'[f].items = Append(s, x) /\ ~fs'[f].torn
            /\ fs[f].ino # 0
        <4>0. fs[f] \in [items : Seq(0..MaxLines), torn : BOOLEAN, ino : Nat, inc : Nat] /\ fs[f].ino # 0
          BY <2>3, <1>0 DEF Exists
        <4>1. CASE fs' = [fs EXCEPT ![f].items = Append(@, x), ![f].torn = FALSE]
          BY <4>0, <4>1, <1>0
        <4>2. CASE ~fs[f].torn /\ fs' = [fs EXCEPT ![f].items = Append(@, x)]
          BY <4>0, <4>2, <1>0
        <4> QED BY <2>3, <4>1, <4>2
      <3>2. /\ Len(Append(s, x)) = Len(s) + 1 /\ Len(s) \in Nat
            /\ DOMAIN Append(s, x) = 1..(Len(s) + 1) /\ DOMAIN s = 1..Len(s)
            /\ \A i \in 1..Len(s) : Append(s, x)[i] = s[i]
        BY <1>0, AppendItem
      <3>3. Size(f)' = 2 * (Len(s) + 1)
        BY <3>1, <3>2 DEF Size
      <3>4. Size(f) = 2 * Len(s) \/ Size(f) = 2 * Len(s) + 1
        <4>1. CASE fs[f].torn
          BY <4>1 DEF Size
        <4>2. CASE ~fs[f].torn
          BY <4>2, <3>2 DEF Size
        <4> QED BY <4>1, <4>2
      <3>5. \A i \in DOMAIN fs'[f].items :
                IF i \in DOMAIN s THEN fs'[f].items[i] = s[i] ELSE 2 * i > Size(f)
        <4> HIDE DEF s
        <4> SUFFICES ASSUME NEW i \in 1..(Len(s) + 1)
                     PROVE  IF i \in 1..Len(s) THEN Append(s, x)[i] = s[i] ELSE 2 * i > Size(f)
          BY <3>1, <3>2
        <4>1. CASE i \in 1..Len(s)
          BY <4>1, <3>2
        <4>2. CASE i = Len(s) + 1
          BY <4>2, <3>2, <3>4
        <4> QED BY <4>1, <4>2, <3>2
      <3>6. Size(f) <= Size(f)'
        BY <3>2, <3>3, <3>4
      <3> QED BY <3>1, <3>5, <3>6, <1>0 DEF Grows, Exists
    <2>4. CASE WriteLine(f)
      <3>0. nline < MaxLines /\ nline \in 0..MaxLines
        BY <2>4 DEF TypeOK, FilesOK, WriteLine
      <3>1. nline + 1 \in 0..MaxLines
        BY <3>0, Bounds
      <3> QED BY <2>3, <2>4, <3>1 DEF WriteLine
    <2>5. CASE WriteBlank(f)
      <3>1. 0 \in 0..MaxLines
        BY Bounds
      <3> QED BY <2>3, <2>5, <3>1 DEF WriteBlank
    <2>6. ASSUME NEW keep \in BOOLEAN, NEW fresh \in BOOLEAN, Rewrite(f, keep, fresh)
          PROVE  Grows(f) /\ Exists(f)'
      <3>1. fs'[f].inc = fs[f].inc + 1 /\ fs'[f].ino \in {fs[f].ino, fs[f].ino + 1} /\ fs[f].ino # 0
        BY <2>6, <1>0 DEF Rewrite, Exists
      <3> QED BY <3>1, <1>0 DEF Grows, Exists
    <2> QED BY <2>1, <2>2, <2>4, <2>5, <2>6
  <1> QED BY <1>1, <1>2, <1>3

\* Nothing about the files changes, and nobody speaks of a file that is not there.
LEMMA SeenStays ==
  ASSUME SeenInv, fs' = fs, todo' \cup known' \cup touched' \cup rescan' \subseteq ExistingFiles,
         \A f \in Files : notif'[f] # {} => Exists(f),
         job' # NoJob => Exists(job'.f)
  PROVE  SeenInv'
  <1>1. \A f : Exists(f)' <=> Exists(f)
    BY DEF Exists
  <1>2. ExistingFiles' = ExistingFiles
    BY <1>1 DEF ExistingFiles
  <1>3. job' # NoJob => fs[job'.f].ino # 0
    BY DEF Exists
  <1>4. (job # NoJob => Exists(job.f))'
    BY <1>3 DEF Exists
  <1> QED BY <1>1, <1>2, <1>4 DEF SeenInv

LEMMA WritingSeen ==
  ASSUME TypeOK, TypeOK', SeenInv, Writing
  PROVE  SeenInv'
  <1>1. PICK f \in Files : \/ CreateFile(f) \/ WritePart(f) \/ WriteLine(f) \/ WriteBlank(f)
                           \/ \E keep, fresh \in BOOLEAN : Rewrite(f, keep, fresh)
    BY DEF Writing
  <1>2. /\ \A h \in Files : Grows(h)
        /\ \A h \in Files : h # f => fs'[h] = fs[h]
        /\ Exists(f)'
    BY <1>1, WritingFiles
  <1>3. UNCHANGED <<todo, known, touched, rescan, job>>
    BY <1>1 DEF CreateFile, WritePart, WriteLine, WriteBlank, Rewrite, EnvUnchanged, procVars
  <1>4. \A h \in Files : h # f => notif'[h] = notif[h]
    <2>1. notif' = notif \/ \E kind : notif' = [notif EXCEPT ![f] = @ \cup {kind}]
      BY <1>1 DEF CreateFile, WritePart, WriteLine, WriteBlank, Rewrite, Notify
    <2> QED BY <2>1 DEF TypeOK, FilesOK
  <1>5. \A h \in Files : Exists(h) => Exists(h)'
    BY <1>2 DEF Grows
  <1>6. (todo \cup known \cup touched \cup rescan \subseteq ExistingFiles)'
    BY <1>3, <1>5 DEF SeenInv, ExistingFiles
  <1>7. \A h \in Files : notif'[h] # {} => Exists(h)'
    BY <1>2, <1>4, <1>5 DEF SeenInv
  <1>8. (job # NoJob => Exists(job.f))'
    <2>1. job # NoJob => job.f \in Files
      BY JobFacts DEF TypeOK, ProcOK
    <2> QED BY <2>1, <1>3, <1>5 DEF SeenInv, Exists
  <1>9. \A h \in Files : ~Exists(h)' => fs'[h].items = <<>> /\ ~fs'[h].torn /\ fs'[h].inc = 0
    BY <1>2, <1>5 DEF SeenInv
  <1> QED BY <1>6, <1>7, <1>8, <1>9 DEF SeenInv

LEMMA TailStepSeen ==
  ASSUME TypeOK, SeenInv, TailStep
  PROVE  SeenInv'
  <1>1. fs' = fs
    BY DEF TailStep, StartTailing, InstallWatch, prepare_tail_batch_command, TailerStarted, RescanBegin,
           CatchUp, RescanFile, TailEvent, TailerUnchanged, ProcUnchanged, fileVars
  <1>2. CASE StartTailing \/ InstallWatch \/ TailerStarted \/ RescanBegin
    <2>1. UNCHANGED <<notif, job>> /\ todo' \cup known' \cup touched' \cup rescan' \subseteq ExistingFiles
      BY <1>2 DEF StartTailing, InstallWatch, TailerStarted, RescanBegin, SeenInv, watchVars
    <2> QED BY <1>1, <2>1, SeenStays DEF SeenInv
  <1>3. CASE prepare_tail_batch_command
    <2>1. UNCHANGED <<notif, todo, known, touched, rescan>>
      BY <1>3 DEF prepare_tail_batch_command
    <2>2. job # NoJob
      BY <1>3, JobFacts DEF prepare_tail_batch_command
    <2>3. job' = NoJob \/ job'.f = job.f
      BY <1>3, PrepareFacts
    <2>4. job' # NoJob => Exists(job'.f)
      BY <2>2, <2>3 DEF SeenInv
    <2> QED BY <1>1, <2>1, <2>4, SeenStays DEF SeenInv
  <1>4. ASSUME NEW f \in Files, CatchUp(f) \/ RescanFile(f) PROVE SeenInv'
    <2>1. notif' = notif /\ todo' \cup known' \cup touched' \cup rescan' \subseteq ExistingFiles
          /\ f \in todo \cup rescan /\ job' = Opened(f)
      BY <1>4 DEF CatchUp, RescanFile, SeenInv
    <2>2. Exists(f) /\ job'.f = f
      BY <2>1 DEF SeenInv, ExistingFiles, Opened
    <2> QED BY <1>1, <2>1, <2>2, SeenStays DEF SeenInv
  <1>5. ASSUME NEW f \in Files, NEW kind \in {"created", "modified"}, TailEvent(f, kind) PROVE SeenInv'
    <2>1. Exists(f) /\ f \in ExistingFiles
      BY <1>5 DEF TailEvent, SeenInv, ExistingFiles
    <2>2. \A h \in Files : notif'[h] # {} => notif[h] # {}
      BY <1>5 DEF TailEvent, TypeOK, FilesOK
    <2>3. todo' \cup known' \cup touched' \cup rescan' \subseteq ExistingFiles
      BY <1>5, <2>1 DEF TailEvent, SeenInv
    <2>4. job' # NoJob => Exists(job'.f)
      <3>1. job' = job \/ job' = Opened(f)
        BY <1>5 DEF TailEvent
      <3> QED BY <3>1, <2>1 DEF SeenInv, Opened
    <2> QED BY <1>1, <2>2, <2>3, <2>4, SeenStays DEF SeenInv
  <1> QED BY <1>2, <1>3, <1>4, <1>5 DEF TailStep

LEMMA SeenStep == TypeOK /\ GenInv /\ SeenInv /\ [Next]_vars => SeenInv'
  <1> SUFFICES ASSUME TypeOK, GenInv, SeenInv, [Next]_vars PROVE SeenInv'
    OBVIOUS
  <1>1. CASE Writing
    BY <1>1, WritingSeen, TypeStep
  <1>2. CASE DayPasses \/ WriterMetrics \/ ChangeTimezone \/ Boot \/ Writer \/ UNCHANGED vars
    <2>1. UNCHANGED <<fs, todo, known, touched, rescan, notif, job>>
      BY <1>2 DEF DayPasses, WriterMetrics, ChangeTimezone, Boot, Writer, WriterRecv, WriterTimeout,
           WriterFinish, WriterFlushGroup, vars, fileVars, watchVars, procVars
    <2> QED BY <2>1, SeenStays DEF SeenInv
  <1>3. CASE Exit \/ Crash
    <2>1. fs' = fs /\ todo' = {} /\ known' = {} /\ touched' = {} /\ rescan' = {}
          /\ notif' = [f \in Files |-> {}] /\ job' = NoJob
      BY <1>3 DEF Exit, Crash, ProcessGone, fileVars
    <2> QED BY <2>1, SeenStays
  <1>4. CASE Starting \/ TailSend \/ Shutdown
    <2>1. UNCHANGED <<fs, notif, known, touched>>
      BY <1>4 DEF Starting, StartGeneration, GenerationCreated, ScanSend, Barrier, BootDone, BootFailed,
           register_new_install_sources, ScanRead, TailSend, Shutdown, TailerUnchanged, ProcUnchanged,
           fileVars, watchVars
    <2>2. todo' \subseteq todo \cup ExistingFiles /\ rescan' \subseteq rescan
      BY <1>4 DEF Starting, StartGeneration, GenerationCreated, ScanSend, Barrier, BootDone, BootFailed,
           register_new_install_sources, ScanRead, TailSend, Shutdown
    <2>3. job' # NoJob => Exists(job'.f)
      <3>1. ASSUME NEW f \in Files, ScanRead(f) PROVE job' # NoJob => Exists(job'.f)
        <4>1. Exists(f)
          BY <3>1 DEF ScanRead, SeenInv, ExistingFiles
        <4>2. job' = NoJob \/ job'.f = f
          BY <3>1 DEF ScanRead
        <4> QED BY <4>1, <4>2
      <3>2. CASE ~\E f \in Files : ScanRead(f)
        <4>1. job' = job \/ job' = NoJob
          BY <1>4, <3>2 DEF Starting, StartGeneration, GenerationCreated, ScanSend, Barrier, BootDone, BootFailed,
               register_new_install_sources, TailSend, Shutdown
        <4> QED BY <4>1 DEF SeenInv
      <3> QED BY <3>1, <3>2
    <2> QED BY <2>1, <2>2, <2>3, SeenStays DEF SeenInv
  <1>5. CASE Tailing /\ ~TailSend
    BY <1>5, TailStepSeen DEF Tailing, TailStep
  <1> QED BY <1>1, <1>2, <1>3, <1>4, <1>5 DEF Next, Tailing

-----------------------------------------------------------------------------
(* A checkpoint covers what it passes.                                     *)

LEMMA LineFacts == \A x \in 0..MaxLines : x # 0 => x \in Lines
  BY Bounds DEF Lines

LEMMA NextFileFacts ==
  ASSUME TypeOK', NEW f \in Files
  PROVE  /\ fs'[f].inc \in Nat /\ Size(f)' \in Nat
         /\ \A i \in DOMAIN fs'[f].items : i \in Nat
  <1> DEFINE s == fs'[f].items
  <1>1. fs'[f] \in [items : Seq(0..MaxLines), torn : BOOLEAN, ino : Nat, inc : Nat]
    BY DEF TypeOK, FilesOK
  <1>2. s \in Seq(0..MaxLines) /\ fs'[f].inc \in Nat
    BY <1>1
  <1>3. Size(f)' = 2 * Len(s) + (IF fs'[f].torn THEN 1 ELSE 0)
    BY DEF Size
  <1> HIDE DEF s
  <1>4. Len(s) \in Nat /\ DOMAIN s = 1..Len(s)
    BY <1>2, LenProperties
  <1>5. Size(f)' \in Nat
    BY <1>3, <1>4
  <1>6. \A i \in DOMAIN s : i \in Nat
    BY <1>4
  <1> QED BY <1>2, <1>5, <1>6 DEF s

\* What is covered stays covered while files grow or begin again, and lines
\* come into the store.
LEMMA KeepCovered ==
  ASSUME TypeOK, TypeOK', NEW f \in Files, NEW lines, NEW rest, NEW off \in Nat, NEW inc \in Nat,
         Grows(f), Fits(f, off, inc), Covered(f, lines, off, inc),
         inc = fs[f].inc => Base(f, inc) <= Base(f, inc)',
         Base(f, inc) \in Nat, Base(f, inc)' \in Nat,
         \A l \in Lines : l \in lines \/ Stored(l) => l \in rest \/ Stored(l)'
  PROVE  Fits(f, off, inc)' /\ Covered(f, rest, off, inc)'
  <1>1. /\ fs[f].inc \in Nat /\ fs'[f].inc \in Nat /\ Size(f) \in Nat /\ Size(f)' \in Nat
        /\ fs[f].inc <= fs'[f].inc /\ inc <= fs[f].inc
        /\ DOMAIN fs[f].items = 1..Len(fs[f].items)
        /\ \A i \in 1..Len(fs[f].items) : fs[f].items[i] \in 0..MaxLines
    BY FileFacts, NextFileFacts DEF TypeOK, Grows, Fits
  <1>2. ASSUME inc = fs'[f].inc
        PROVE  inc = fs[f].inc /\ fs'[f].inc = fs[f].inc /\ off <= Size(f) /\ off <= Size(f)'
    <2>1. inc = fs[f].inc /\ fs'[f].inc = fs[f].inc
      BY <1>1, <1>2
    <2>2. off <= Size(f) /\ Size(f) <= Size(f)'
      BY <2>1 DEF Fits, Grows
    <2> QED BY <1>1, <2>1, <2>2
  <1>3. Fits(f, off, inc)'
    BY <1>1, <1>2 DEF Fits
  <1>4. ASSUME inc = fs'[f].inc, NEW i \in DOMAIN fs'[f].items,
               2 * i <= off, 2 * (i - 1) >= Base(f, inc)', fs'[f].items[i] # 0
        PROVE  \/ fs'[f].items[i] \in rest
               \/ \E g \in Gens : <<g, fs'[f].items[i]>> \in rows' \/ pruned'[<<g, fs'[f].items[i]>>] > 0
    <2>1. i \in Nat
      BY NextFileFacts
    <2>2. inc = fs[f].inc /\ fs'[f].inc = fs[f].inc /\ off <= Size(f)
      BY <1>2, <1>4
    <2>3. i \in DOMAIN fs[f].items /\ fs'[f].items[i] = fs[f].items[i]
      <3>1. ~(2 * i > Size(f))
        BY <1>1, <1>4, <2>1, <2>2
      <3> QED BY <2>2, <3>1, <1>4 DEF Grows
    <2>4. 2 * (i - 1) >= Base(f, inc)
      BY <2>1, <2>2, <1>4
    <2>5. fs[f].items[i] \in lines \/ Stored(fs[f].items[i])
      BY <2>2, <2>3, <2>4, <1>4 DEF Covered
    <2>6. fs[f].items[i] \in Lines
      BY <2>3, <1>1, <1>4, LineFacts
    <2>7. PICK l \in Lines : l = fs[f].items[i] /\ l = fs'[f].items[i]
      BY <2>3, <2>6
    <2>8. l \in rest \/ Stored(l)'
      BY <2>5, <2>7
    <2> QED BY <2>7, <2>8 DEF Stored
  <1>5. Covered(f, rest, off, inc)'
    BY <1>4 DEF Covered, Stored
  <1> QED BY <1>3, <1>5

LEMMA RowFacts ==
  ASSUME StoreOK, NEW f \in Files
  PROVE  /\ ckpt[f].off \in Nat /\ ckpt[f].inc \in Nat /\ ckpt[f].reg \in Nat /\ ckpt[f].ino \in Nat
         /\ \A inc : Base(f, inc) \in Nat
         /\ Base(f, ckpt[f].inc) = ckpt[f].reg
  <1>1. ckpt[f] \in LogFiles
    BY DEF StoreOK
  <1>2. ckpt[f].off \in Nat /\ ckpt[f].inc \in Nat /\ ckpt[f].reg \in Nat /\ ckpt[f].ino \in Nat
    BY <1>1 DEF LogFiles
  <1> QED BY <1>2 DEF Base

\* The stored row of f stays as it is.
LEMMA KeepFound ==
  ASSUME TypeOK, TypeOK', NEW f \in Files, NEW lines, NEW off \in Nat, NEW inc \in Nat,
         Grows(f), ckpt'[f] = ckpt[f], \A l \in Lines : Stored(l) => Stored(l)'
  PROVE  /\ Fits(f, off, inc) /\ Covered(f, lines, off, inc)
               => Fits(f, off, inc)' /\ Covered(f, lines, off, inc)'
         /\ Found(f, lines, off, inc) => Found(f, lines, off, inc)'
         /\ Fits(f, off, inc) => Fits(f, off, inc)'
  <1>0. Base(f, inc)' = Base(f, inc) /\ Base(f, inc) \in Nat
    BY RowFacts DEF Base, TypeOK
  <1>1. Fits(f, off, inc) /\ Covered(f, lines, off, inc)
               => Fits(f, off, inc)' /\ Covered(f, lines, off, inc)'
    BY <1>0, KeepCovered
  <1>2. Found(f, lines, off, inc) => Found(f, lines, off, inc)'
    BY <1>1 DEF Found
  <1>3. ASSUME Fits(f, off, inc) PROVE Fits(f, off, inc)'
    <2>1. Covered(f, Lines, off, inc)
      <3>1. \A i \in DOMAIN fs[f].items : fs[f].items[i] # 0 => fs[f].items[i] \in Lines
        BY FileFacts, LineFacts DEF TypeOK
      <3> QED BY <3>1 DEF Covered
    <2>2. Base(f, inc) <= Base(f, inc)' /\ Base(f, inc)' \in Nat
      BY <1>0
    <2>3. \A l \in Lines : l \in Lines \/ Stored(l) => l \in Lines \/ Stored(l)'
      OBVIOUS
    <2> QED BY <1>0, <1>3, <2>1, <2>2, <2>3, KeepCovered
  <1> QED BY <1>1, <1>2, <1>3

LEMMA KeepRow ==
  ASSUME TypeOK, TypeOK', NEW f \in Files, Grows(f), ckpt'[f] = ckpt[f], RowInv(f),
         \A l \in Lines : Stored(l) => Stored(l)'
  PROVE  RowInv(f)'
  <1>1. PICK off \in Nat, inc \in Nat : off = ckpt[f].off /\ inc = ckpt[f].inc
    BY RowFacts DEF TypeOK
  <1>2. Fits(f, off, inc)' /\ Covered(f, {}, off, inc)'
    BY <1>1, KeepFound DEF RowInv
  <1>3. off = ckpt'[f].off /\ inc = ckpt'[f].inc
    BY <1>1
  <1>4. Fits(f, ckpt[f].off, ckpt[f].inc)'
    BY <1>2, <1>3 DEF Fits
  <1>5. Covered(f, {}, ckpt[f].off, ckpt[f].inc)'
    BY <1>2, <1>3 DEF Covered, Base
  <1> QED BY <1>4, <1>5 DEF RowInv

LEMMA KeepBatch ==
  ASSUME TypeOK, TypeOK', NEW b \in Batches, Grows(b.f), ckpt'[b.f] = ckpt[b.f], BatchInv(b),
         \A l \in Lines : Stored(l) => Stored(l)'
  PROVE  BatchInv(b)'
  <1>1. b.f \in Files /\ b.off \in Nat /\ b.inc \in Nat
    BY DEF Batches
  <1>2. Fits(b.f, b.off, b.inc)' /\ (~b.reg => Found(b.f, b.lines, b.off, b.inc)')
    BY <1>1, KeepFound DEF BatchInv
  <1> QED BY <1>2 DEF BatchInv

\* The next job is none, a file just opened, or a read that is described rightly
\* by the files and the store as they are.
NextRead ==
    \/ job' = NoJob
    \/ job'.stage = "read" /\ job'.ino # 0
    \/ /\ job'.stage = "send" /\ (pc' # "scan" => job'.ino # 0)
       /\ Found(job'.f, job'.batch.lines, job'.batch.off, job'.batch.inc)

LEMMA SameRead ==
  ASSUME TypeOK, ReadInv, job' = job, pc' = pc
  PROVE  NextRead
  <1>1. job.stage \in {"none", "read", "send"} /\ (job.stage = "none" <=> job = NoJob)
    BY JobFacts DEF TypeOK, ProcOK
  <1> QED BY <1>1 DEF ReadInv, NextRead

LEMMA KeepRead ==
  ASSUME TypeOK, TypeOK', \A f \in Files : Grows(f) /\ ckpt'[f] = ckpt[f],
         \A l \in Lines : Stored(l) => Stored(l)', NextRead
  PROVE  ReadInv'
  <1>1. CASE job' = NoJob \/ (job'.stage = "read" /\ job'.ino # 0)
    BY <1>1, JobFacts DEF ReadInv
  <1>2. CASE /\ job'.stage = "send" /\ (pc' # "scan" => job'.ino # 0)
             /\ Found(job'.f, job'.batch.lines, job'.batch.off, job'.batch.inc)
    <2>1. job' \in [stage : {"send"}, f : Files, batch : Reads, ino : Nat]
      BY <1>2, JobFacts DEF TypeOK, ProcOK
    <2>2. job'.f \in Files /\ job'.batch.off \in Nat /\ job'.batch.inc \in Nat
      BY <2>1 DEF Reads
    <2>3. PICK f \in Files, off \in Nat, inc \in Nat :
              f = job'.f /\ off = job'.batch.off /\ inc = job'.batch.inc
      BY <2>2
    <2>4. PICK lines : lines = job'.batch.lines
      OBVIOUS
    <2>5. Found(f, lines, off, inc)'
      BY <1>2, <2>3, <2>4, KeepFound
    <2>6. Found(job.f, job.batch.lines, job.batch.off, job.batch.inc)'
      BY <2>3, <2>4, <2>5 DEF Found, Fits, Covered, Base, Size
    <2> QED BY <1>2, <2>6 DEF ReadInv
  <1> QED BY <1>1, <1>2 DEF NextRead

\* A step that is no commit of the writer.
LEMMA CoverStays ==
  ASSUME TypeOK, TypeOK', CoverInv, \A f \in Files : Grows(f) /\ ckpt'[f] = ckpt[f],
         \A l \in Lines : Stored(l) => Stored(l)',
         \A b \in InTransit' : b \in InTransit \/ (b \in Batches /\ BatchInv(b)),
         NextRead
  PROVE  CoverInv'
  <1>1. \A f \in Files : RowInv(f)'
    BY KeepRow DEF CoverInv
  <1>2. \A b \in InTransit' : BatchInv(b)'
    <2> SUFFICES ASSUME NEW b \in InTransit' PROVE BatchInv(b)'
      OBVIOUS
    <2>1. b \in Batches /\ BatchInv(b)
      BY HeldFacts DEF TypeOK, CoverInv
    <2>2. b.f \in Files
      BY <2>1 DEF Batches
    <2> QED BY <2>1, <2>2, KeepBatch
  <1>3. ReadInv'
    BY KeepRead
  <1> QED BY <1>1, <1>2, <1>3 DEF CoverInv

\* How many completed lines a read can count.
LEMMA DoneBound ==
  ASSUME NEW n \in Nat, NEW eff \in Nat, NEW done, done # {},
         done \subseteq {i \in 1..n : 2 * i > eff}
  PROVE  Cardinality(done) \in Nat /\ (eff \div 2) + Cardinality(done) <= n
  <1> DEFINE a == (eff \div 2) + 1
  <1>1. a \in Nat /\ eff = 2 * (eff \div 2) + (eff % 2) /\ eff % 2 \in {0, 1} /\ (eff \div 2) \in Nat
    OBVIOUS
  <1>2. \A i \in done : i \in Nat /\ i <= n /\ a <= i
    BY <1>1
  <1>3. PICK i : i \in done
    OBVIOUS
  <1>4. a <= n
    BY <1>1, <1>2, <1>3
  <1>5. done \subseteq a..n
    BY <1>1, <1>2
  <1>6. IsFiniteSet(a..n) /\ Cardinality(a..n) = n - a + 1
    <2>1. a \in Int /\ n \in Int
      BY <1>1
    <2>2. IsFiniteSet(a..n) /\ Cardinality(a..n) = IF a > n THEN 0 ELSE n - a + 1
      BY <2>1, FS_Interval
    <2> QED BY <1>1, <1>4, <2>2
  <1>7. Cardinality(done) <= Cardinality(a..n) /\ Cardinality(done) \in Nat
    BY <1>5, <1>6, FS_Subset, FS_CardinalityType
  <1> HIDE DEF a
  <1>8. (eff \div 2) + 1 = a
    BY DEF a
  <1> QED BY <1>1, <1>6, <1>7, <1>8

LEMMA ReadFound ==
  ASSUME TypeOK, NEW f \in Files, RowInv(f), read_file_once(f, ckpt[f]).n # 0
  PROVE  Found(f, read_file_once(f, ckpt[f]).lines, read_file_once(f, ckpt[f]).off,
               read_file_once(f, ckpt[f]).inc)
  <1> DEFINE items == fs[f].items
             row   == ckpt[f]
             reset == (row.ino # 0 /\ row.ino # fs[f].ino) \/ row.off > Size(f)
             eff   == IF reset THEN 0 ELSE row.off
             done  == {i \in DOMAIN items : 2 * i > eff /\ items[i] # 0}
             n     == Cardinality(done)
             lines == {items[i] : i \in {j \in done : 2 * (j - 1) >= eff}}
             off   == checkpoint_offset(eff, n)
             inc   == IF reset \/ row.ino = 0 THEN fs[f].inc ELSE row.inc
             r     == read_file_once(f, ckpt[f])
  <1>1. r = [lines |-> lines, n |-> n, off |-> off, inc |-> inc]
    BY DEF read_file_once
  <1>2. r.lines = lines /\ r.off = off /\ r.inc = inc /\ n # 0
    BY <1>1
  <1>3. /\ DOMAIN items = 1..Len(items) /\ Len(items) \in Nat /\ fs[f].inc \in Nat
        /\ Size(f) \in Nat
    BY FileFacts DEF TypeOK
  <1>4. 2 * Len(items) <= Size(f)
    <2>1. CASE fs[f].torn
      BY <2>1, <1>3 DEF Size
    <2>2. CASE ~fs[f].torn
      BY <2>2, <1>3 DEF Size
    <2> QED BY <2>1, <2>2
  <1>5. row.off \in Nat /\ row.inc \in Nat /\ row.reg \in Nat /\ Base(f, row.inc) = row.reg
    BY RowFacts DEF TypeOK
  <1>6. eff \in Nat
    BY <1>5
  <1>7. eff # 0 => eff = row.off /\ row.ino # 0 /\ inc = row.inc
    BY DEF RowInv
  <1>8. inc = fs[f].inc \/ inc = row.inc
    OBVIOUS
  <1> HIDE DEF inc, eff, reset
  <1>9. done # {}
    <2>1. CASE done = {}
      BY <2>1, <1>2, FS_EmptySet
    <2> QED BY <2>1
  <1>10. done \subseteq {i \in 1..Len(items) : 2 * i > eff}
    BY <1>3
  <1>11. n \in Nat /\ (eff \div 2) + n <= Len(items)
    BY <1>3, <1>6, <1>9, <1>10, DoneBound
  <1>12. off = 2 * ((eff \div 2) + n)
    BY <1>2 DEF checkpoint_offset
  <1> HIDE DEF n, off
  <1>13. off \in Nat /\ off % 2 = 0 /\ off <= Size(f)
    <2>1. (eff \div 2) \in Nat
      BY <1>6
    <2>2. PICK m \in Nat : m = (eff \div 2) + n
      BY <1>11, <2>1
    <2>3. off = 2 * m /\ m <= Len(items)
      BY <2>2, <1>12, <1>11
    <2> QED BY <2>3, <1>3, <1>4
  <1>14. Fits(f, off, inc)
    BY <1>3, <1>5, <1>8, <1>13 DEF Fits, RowInv
  <1>15. inc < row.inc => row.reg = 0
    BY <1>3, <1>5, <1>8 DEF RowInv, Fits
  <1>16. Covered(f, lines, off, inc)
    <2> SUFFICES ASSUME inc = fs[f].inc, NEW i \in 1..Len(items), 2 * i <= off,
                        2 * (i - 1) >= Base(f, inc), items[i] # 0
                 PROVE  items[i] \in lines \/ Stored(items[i])
      BY <1>3 DEF Covered
    <2>1. CASE 2 * (i - 1) >= eff
      <3>1. 2 * i > eff
        BY <2>1, <1>6
      <3>2. i \in done
        BY <3>1, <1>3
      <3> HIDE DEF done
      <3> QED BY <3>2, <2>1
    <2>2. CASE 2 * i <= eff
      <3>1. eff # 0
        BY <2>2
      <3>2. eff = row.off /\ inc = row.inc /\ row.inc = fs[f].inc
        BY <3>1, <1>7
      <3>3. Covered(f, {}, row.off, row.inc)
        BY DEF RowInv
      <3> QED BY <2>2, <3>2, <3>3, <1>3 DEF Covered
    <2>3. CASE 2 * (i - 1) < eff /\ eff < 2 * i
      <3>1. eff # 0 /\ eff % 2 = 1 /\ eff > 2 * (i - 1)
        <4>1. eff = 2 * (i - 1) + 1
          BY <2>3, <1>6
        <4> QED BY <4>1
      <3>2. eff = row.off /\ inc = row.inc
        BY <3>1, <1>7
      <3>3. row.reg = row.off
        BY <3>1, <3>2 DEF RowInv
      <3>4. Base(f, inc) = eff
        BY <3>2, <3>3, <1>5
      <3> QED BY <3>1, <3>4, <1>6
    <2> QED BY <2>1, <2>2, <2>3, <1>6
  <1>17. Found(f, lines, off, inc)
    BY <1>13, <1>14, <1>15, <1>16 DEF Found
  <1> HIDE DEF r, lines
  <1> QED BY <1>2, <1>17 DEF r

\* Nothing but the writer's transactions and the pruning touches what is stored.
LEMMA StoredKept ==
  ASSUME UNCHANGED <<rows, pruned>>
  PROVE  \A l \in Lines : Stored(l) => Stored(l)'
  BY DEF Stored

LEMMA PruneStored ==
  ASSUME TypeOK, NEW g, prune_usage_events(g)
  PROVE  \A l \in Lines : Stored(l) => Stored(l)'
  <1> DEFINE old == {e \in rows : e[1] = g /\ e[2] \in aged}
  <1>1. rows' = rows \ old /\ pruned' = [e \in Events |-> pruned[e] + (IF e \in old THEN 1 ELSE 0)]
    BY DEF prune_usage_events
  <1> HIDE DEF old
  <1>2. \A e \in Events : pruned[e] \in Nat
    BY DEF TypeOK, StoreOK
  <1>3. \A e \in Events : e \in rows \/ pruned[e] > 0 => e \in rows' \/ pruned'[e] > 0
    BY <1>1, <1>2
  <1>4. \A h \in Gens, l \in Lines : <<h, l>> \in Events
    BY DEF Events
  <1> QED BY <1>3, <1>4 DEF Stored

\* A committed group stores all its lines.
LEMMA FlushStored ==
  ASSUME TypeOK, NEW g \in Gens, flush_single_generation(g)
  PROVE  /\ \A l \in Lines : Stored(l) => Stored(l)'
         /\ \A b \in Elems(pend[g]) : \A l \in b.lines : Stored(l)'
         /\ \A e \in rows' : e \in rows \/ \E b \in Elems(pend[g]) : e[1] = g /\ e[2] \in b.lines
         /\ rows \subseteq rows' /\ pruned' = pruned
  <1> DEFINE bs    == pend[g]
             lines == UNION {bs[i].lines : i \in DOMAIN bs}
             eff   == effective_events(g, lines)
  <1>1. rows' = rows \cup {e \in eff : ~HasRow(e[2])} /\ pruned' = pruned
    BY DEF flush_single_generation, upsert_usage_events_dedup_aware
  <1>2. \A b \in Elems(bs) : b.lines \subseteq lines
    BY DEF Elems
  <1> HIDE DEF eff, lines
  <1>3. \A l \in Lines : Stored(l) => Stored(l)'
    BY <1>1 DEF Stored
  <1>4. ASSUME NEW l \in lines PROVE Stored(l)'
    <2>1. CASE HasRow(l)
      BY <2>1, <1>1 DEF HasRow, Stored
    <2>2. CASE ~HasRow(l)
      <3>1. <<g, l>> \notin rows
        BY <2>2 DEF HasRow
      <3>2. /\ <<g, l>> = <<g, l>>
            /\ \/ Policy = "insert_once" /\ ~HasRow(l)
               \/ Policy = "replace" /\ <<g, l>> \notin rows
        BY <2>2, <3>1, BoundsAssumption
      <3>3. <<g, l>> \in effective_events(g, lines)
        BY <3>2, EffectiveFacts, Zenon
      <3>4. <<g, l>> \in eff /\ <<g, l>>[2] = l
        BY <3>3 DEF eff
      <3>5. <<g, l>> \in rows'
        BY <1>1, <2>2, <3>4
      <3> QED BY <3>5 DEF Stored
    <2> QED BY <2>1, <2>2
  <1>5. ASSUME NEW e \in eff PROVE \E b \in Elems(bs) : e[1] = g /\ e[2] \in b.lines
    <2>1. e \in effective_events(g, lines)
      BY DEF eff
    <2>2. \E l \in lines : /\ e = <<g, l>>
                          /\ \/ Policy = "insert_once" /\ ~HasRow(l)
                             \/ Policy = "replace" /\ <<g, l>> \notin rows
      BY <2>1, EffectiveFacts, Zenon
    <2>3. PICK l \in lines : e = <<g, l>>
      BY <2>2, Zenon
    <2>4. PICK b \in Elems(bs) : l \in b.lines
      BY DEF lines, Elems
    <2> QED BY <2>3, <2>4
  <1> QED BY <1>1, <1>2, <1>3, <1>4, <1>5

\* What a read has found stays true of it when a batch of the same file is
\* committed: a batch never carries less than the stored row says was passed over.
LEMMA UpsertFound ==
  ASSUME TypeOK, TypeOK', NEW b \in Batches, ~b.reg, BatchInv(b), fs' = fs,
         ckpt'[b.f] = upsert_log_file_checkpoint(b),
         \A l \in Lines : Stored(l) => Stored(l)',
         NEW lines, NEW off \in Nat, NEW inc \in Nat, Found(b.f, lines, off, inc)
  PROVE  Found(b.f, lines, off, inc)'
  <1>1. PICK f \in Files : f = b.f
    BY DEF Batches
  <1>2. b.off \in Nat /\ b.inc \in Nat
    BY DEF Batches
  <1>3. Grows(f)
    BY SameFile
  <1>4. ckpt'[f].inc = b.inc /\ ckpt'[f].reg = IF b.inc = ckpt[f].inc THEN ckpt[f].reg ELSE 0
    BY <1>1 DEF upsert_log_file_checkpoint
  <1>5. /\ Found(f, lines, off, inc) /\ b.inc <= fs[f].inc /\ (b.inc < ckpt[f].inc => ckpt[f].reg = 0)
        /\ inc <= fs[f].inc /\ (inc < ckpt[f].inc => ckpt[f].reg = 0)
    BY <1>1 DEF BatchInv, Found, Fits
  <1>6. ckpt[f].inc \in Nat /\ ckpt[f].reg \in Nat /\ fs[f].inc \in Nat
    BY RowFacts, FileFacts DEF TypeOK
  <1>7. inc < ckpt'[f].inc => ckpt'[f].reg = 0
    BY <1>2, <1>4, <1>5, <1>6
  <1>8. Base(f, inc) = (IF ckpt[f].inc = inc THEN ckpt[f].reg ELSE 0)
        /\ Base(f, inc)' = (IF ckpt'[f].inc = inc THEN ckpt'[f].reg ELSE 0)
    BY DEF Base
  <1>9. Base(f, inc) \in Nat /\ Base(f, inc)' \in Nat
    BY <1>4, <1>6, <1>8
  <1>10. inc = fs[f].inc => Base(f, inc) <= Base(f, inc)'
    BY <1>2, <1>4, <1>5, <1>6, <1>8
  <1>11. Fits(f, off, inc)' /\ Covered(f, lines, off, inc)'
    BY <1>3, <1>5, <1>9, <1>10, KeepCovered DEF Found
  <1>12. Found(f, lines, off, inc)'
    BY <1>5, <1>7, <1>11 DEF Found
  <1> QED BY <1>1, <1>12 DEF Found, Fits, Covered, Base, Size

\* The row that a committed batch leaves.
LEMMA UpsertRow ==
  ASSUME TypeOK, TypeOK', NEW b \in Batches, BatchInv(b), fs' = fs,
         ckpt'[b.f] = upsert_log_file_checkpoint(b),
         \A l \in Lines : l \in b.lines \/ Stored(l) => Stored(l)'
  PROVE  RowInv(b.f)'
  <1>1. PICK f \in Files, off \in Nat, inc \in Nat : f = b.f /\ off = b.off /\ inc = b.inc
    BY DEF Batches
  <1>2. /\ ckpt'[f].off = off /\ ckpt'[f].ino = b.ino /\ ckpt'[f].inc = inc
        /\ ckpt'[f].reg = IF b.reg THEN off ELSE Base(f, inc)
    BY <1>1 DEF upsert_log_file_checkpoint, Base
  <1>3. Grows(f)
    BY SameFile
  <1>4. Base(f, inc) \in Nat
    BY RowFacts DEF TypeOK
  <1>5. Fits(f, off, inc)' /\ Covered(f, {}, off, inc)'
    <2>1. CASE b.reg
      <3>1. Fits(f, off, inc)
        BY <1>1 DEF BatchInv
      <3>2. Fits(f, off, inc)'
        BY <3>1 DEF Fits, Size
      <3>3. Base(f, inc)' = off
        BY <1>2, <2>1 DEF Base
      <3>4. ASSUME NEW i \in DOMAIN fs'[f].items PROVE ~(2 * i <= off /\ 2 * (i - 1) >= off)
        <4>1. i \in Nat
          BY NextFileFacts
        <4> QED BY <4>1
      <3>5. Covered(f, {}, off, inc)'
        BY <3>3, <3>4 DEF Covered
      <3> QED BY <3>2, <3>5
    <2>2. CASE ~b.reg
      <3>1. Base(f, inc)' = Base(f, inc)
        BY <1>2, <2>2 DEF Base
      <3>2. PICK lines : lines = b.lines
        OBVIOUS
      <3>3. Fits(f, off, inc) /\ Covered(f, lines, off, inc)
        BY <1>1, <2>2, <3>2 DEF BatchInv, Found
      <3>4. \A l \in Lines : l \in lines \/ Stored(l) => l \in {} \/ Stored(l)'
        BY <3>2
      <3>5. Base(f, inc) <= Base(f, inc)' /\ Base(f, inc)' \in Nat
        BY <1>4, <3>1
      <3> QED BY <1>3, <1>4, <3>3, <3>4, <3>5, KeepCovered
    <2> QED BY <2>1, <2>2
  <1>6. ckpt'[f].ino # 0
    BY <1>2 DEF BatchInv
  <1>7. ckpt'[f].off % 2 = 1 => ckpt'[f].reg = ckpt'[f].off
    <2>1. ~b.reg => off % 2 = 0
      BY <1>1 DEF BatchInv, Found
    <2> QED BY <1>2, <2>1
  <1>8. Fits(f, ckpt[f].off, ckpt[f].inc)'
    BY <1>2, <1>5 DEF Fits
  <1>9. Covered(f, {}, ckpt[f].off, ckpt[f].inc)'
    BY <1>2, <1>5 DEF Covered, Base
  <1>10. RowInv(f)'
    BY <1>6, <1>7, <1>8, <1>9 DEF RowInv
  <1> QED BY <1>1, <1>10 DEF RowInv, Fits, Covered, Base, Size

LEMMA CommitCover ==
  ASSUME TypeOK, TypeOK', StreamInv, CoverInv, NEW g \in Gens, WriterFlushGroup(g),
         flush_single_generation(g)
  PROVE  CoverInv'
  <1>1. fs' = fs /\ job' = job /\ pc' = pc /\ InTransit' \subseteq InTransit
    BY FlushFacts DEF WriterFlushGroup, fileVars, procVars
  <1>2. \A f \in Files : Grows(f)
    BY <1>1, SameFile
  <1>3. /\ \A l \in Lines : Stored(l) => Stored(l)'
        /\ \A b \in Elems(pend[g]) : \A l \in b.lines : Stored(l)'
    BY FlushStored
  <1>4. \A f \in Files :
            \/ ckpt'[f] = ckpt[f]
            \/ \E b \in Elems(pend[g]) : b.f = f /\ ckpt'[f] = upsert_log_file_checkpoint(b)
    BY FlushCkpt
  <1>5. \A b \in Elems(pend[g]) : b \in InTransit /\ b \in Batches /\ BatchInv(b)
    BY HeldFacts DEF TypeOK, InTransit, CoverInv
  <1>6. \A f \in Files : RowInv(f)'
    <2> SUFFICES ASSUME NEW f \in Files PROVE RowInv(f)'
      OBVIOUS
    <2>1. CASE ckpt'[f] = ckpt[f]
      BY <2>1, <1>2, <1>3, KeepRow DEF CoverInv
    <2>2. ASSUME NEW b \in Elems(pend[g]), b.f = f, ckpt'[f] = upsert_log_file_checkpoint(b)
          PROVE  RowInv(f)'
      <3>1. RowInv(b.f)'
        BY <2>2, <1>1, <1>3, <1>5, UpsertRow
      <3> QED BY <2>2, <3>1
    <2> QED BY <2>1, <2>2, <1>4
  <1>7. ASSUME NEW f \in Files, NEW lines, NEW off \in Nat, NEW inc \in Nat, Found(f, lines, off, inc),
               ~Registering
        PROVE  Found(f, lines, off, inc)'
    <2>1. CASE ckpt'[f] = ckpt[f]
      BY <2>1, <1>2, <1>3, <1>7, KeepFound
    <2>2. ASSUME NEW b \in Elems(pend[g]), b.f = f, ckpt'[f] = upsert_log_file_checkpoint(b)
          PROVE  Found(f, lines, off, inc)'
      <3>1. ~b.reg
        BY <1>5, <1>7 DEF StreamInv, PhaseInv
      <3>2. Found(b.f, lines, off, inc)'
        BY <2>2, <3>1, <1>1, <1>3, <1>5, <1>7, UpsertFound
      <3> QED BY <2>2, <3>2
    <2> QED BY <2>1, <2>2, <1>4
  <1>8. ASSUME NEW b \in InTransit' PROVE BatchInv(b)'
    <2>1. b \in InTransit /\ b \in Batches /\ BatchInv(b)
      BY <1>1, HeldFacts DEF TypeOK, CoverInv
    <2>2. b.f \in Files /\ b.off \in Nat /\ b.inc \in Nat /\ b.reg \in BOOLEAN
      BY <2>1 DEF Batches
    <2>3. Fits(b.f, b.off, b.inc)' /\ b.ino # 0
      BY <2>1, <1>1 DEF BatchInv, Fits, Size
    <2>4. ASSUME ~b.reg PROVE Found(b.f, b.lines, b.off, b.inc)'
      <3>1. ~Registering
        BY <2>1, <2>4 DEF StreamInv, PhaseInv
      <3> QED BY <2>1, <2>2, <2>4, <3>1, <1>7 DEF BatchInv
    <2> QED BY <2>3, <2>4 DEF BatchInv
  <1>9. ReadInv'
    <2>1. CASE job.stage = "send"
      <3>1. job \in [stage : {"send"}, f : Files, batch : Reads, ino : Nat]
        BY <2>1, JobFacts DEF TypeOK, ProcOK
      <3>2. job.f \in Files /\ job.batch.off \in Nat /\ job.batch.inc \in Nat
        BY <3>1 DEF Reads
      <3>3. PICK f \in Files, off \in Nat, inc \in Nat :
                f = job.f /\ off = job.batch.off /\ inc = job.batch.inc
        BY <3>2
      <3>4. PICK lines : lines = job.batch.lines
        OBVIOUS
      <3>5. ~Registering
        BY <2>1, JobFacts DEF StreamInv, JobInv, Registering
      <3>6. Found(f, lines, off, inc)'
        BY <2>1, <3>3, <3>4, <3>5, <1>7, CoverInv DEF CoverInv, ReadInv
      <3>7. f = job'.f /\ off = job'.batch.off /\ inc = job'.batch.inc /\ lines = job'.batch.lines
        BY <1>1, <3>3, <3>4
      <3>8. Found(job.f, job.batch.lines, job.batch.off, job.batch.inc)'
        BY <3>6, <3>7 DEF Found, Fits, Covered, Base, Size
      <3> QED BY <1>1, <2>1, <3>8 DEF CoverInv, ReadInv
    <2>2. CASE job.stage # "send"
      BY <1>1, <2>2 DEF CoverInv, ReadInv
    <2> QED BY <2>1, <2>2
  <1> QED BY <1>6, <1>8, <1>9 DEF CoverInv

\* The steps that touch neither files nor what is stored.
LEMMA FramedCover ==
  ASSUME TypeOK, TypeOK', CoverInv, UNCHANGED <<fs, ckpt, rows, pruned>>,
         \A b \in InTransit' : b \in InTransit \/ (b \in Batches /\ BatchInv(b)),
         NextRead
  PROVE  CoverInv'
  <1>1. \A f \in Files : Grows(f) /\ ckpt'[f] = ckpt[f]
    BY SameFile
  <1>2. \A l \in Lines : Stored(l) => Stored(l)'
    BY StoredKept
  <1> QED BY <1>1, <1>2, CoverStays

LEMMA WriterCover ==
  ASSUME TypeOK, TypeOK', StreamInv, CoverInv, Writer \/ WriterMetrics \/ ChangeTimezone
  PROVE  CoverInv'
  <1>0. fs' = fs /\ pc' = pc /\ job' = job
    BY DEF Writer, WriterMetrics, ChangeTimezone, WriterRecv, WriterTimeout, WriterFinish, WriterFlushGroup,
           fileVars, procVars
  <1>1. NextRead
    BY <1>0, SameRead DEF CoverInv
  <1>2. CASE WriterRecv
    <2>1. InTransit' = InTransit /\ UNCHANGED <<ckpt, rows, pruned>>
      BY <1>2, RecvFacts DEF WriterRecv, storeVars
    <2> QED BY <1>0, <1>1, <2>1, FramedCover
  <1>3. CASE WriterTimeout
    <2>1. UNCHANGED <<queue, pend, ckpt, rows, pruned>>
      BY <1>3 DEF WriterTimeout, storeVars
    <2>2. InTransit' = InTransit
      BY <2>1 DEF InTransit, Sent, Held, Elems
    <2> QED BY <1>0, <1>1, <2>1, <2>2, FramedCover
  <1>4. CASE WriterFinish
    <2>1. InTransit' = InTransit /\ dispatch_command
      BY <1>4, FinishFacts
    <2>2. UNCHANGED <<ckpt, rows, pruned>>
      BY <2>1 DEF dispatch_command, storeVars
    <2> QED BY <1>0, <1>1, <2>1, <2>2, FramedCover
  <1>5. ASSUME NEW g \in Gens, WriterFlushGroup(g) PROVE CoverInv'
    <2>1. CASE flush_single_generation(g)
      BY <1>5, <2>1, CommitCover
    <2>2. CASE UNCHANGED storeVars
      <3>1. InTransit' \subseteq InTransit
        BY <1>5, FlushFacts
      <3> QED BY <1>0, <1>1, <2>2, <3>1, FramedCover DEF storeVars
    <2> QED BY <1>5, <2>1, <2>2 DEF WriterFlushGroup
  <1>6. CASE WriterMetrics
    <2>1. UNCHANGED <<queue, pend, ckpt>> /\ prune_usage_events(snapActive)
      BY <1>6 DEF WriterMetrics, prune_usage_events
    <2>2. InTransit' = InTransit
      BY <2>1 DEF InTransit, Sent, Held, Elems
    <2>3. \A l \in Lines : Stored(l) => Stored(l)'
      BY <2>1, PruneStored
    <2>4. \A f \in Files : Grows(f) /\ ckpt'[f] = ckpt[f]
      BY <1>0, <2>1, SameFile
    <2> QED BY <1>1, <2>2, <2>3, <2>4, CoverStays
  <1>7. CASE ChangeTimezone
    <2> DEFINE c == [k |-> "rollups"]
    <2>1. queue' = Append(queue, c) /\ UNCHANGED <<pend, wmode, wcmd, ckpt, rows, pruned>>
      BY <1>7 DEF ChangeTimezone, storeVars
    <2>2. c \in Commands /\ c.k # "batch"
      BY CommandFacts
    <2> HIDE DEF c
    <2>3. InTransit' = InTransit
      BY <2>1, <2>2, SendFacts
    <2> QED BY <1>0, <1>1, <2>1, <2>3, FramedCover
  <1> QED BY <1>2, <1>3, <1>4, <1>5, <1>6, <1>7 DEF Writer

\* A step of the boot sequence or the tailer that sends no batch.
LEMMA QuietCover ==
  ASSUME TypeOK, TypeOK', StreamInv, CoverInv, ProcUnchanged, InTransit' = InTransit, NextRead
  PROVE  CoverInv'
  <1>1. UNCHANGED <<fs, ckpt, rows, pruned>>
    BY DEF ProcUnchanged, fileVars, storeVars
  <1> QED BY <1>1, FramedCover

\* A step that sends one.
LEMMA SendCover ==
  ASSUME TypeOK, TypeOK', StreamInv, CoverInv, ProcUnchanged, NEW b \in Batches, BatchInv(b),
         queue' = Append(queue, b), NextRead
  PROVE  CoverInv'
  <1>1. UNCHANGED <<fs, ckpt, rows, pruned, pend, wmode, wcmd>>
    BY DEF ProcUnchanged, fileVars, storeVars
  <1>2. b \in Commands /\ b.k = "batch"
    BY CommandFacts DEF Batches
  <1>3. InTransit' = InTransit \cup {b}
    BY <1>1, <1>2, SendFacts
  <1> QED BY <1>1, <1>3, FramedCover

LEMMA StartingCover ==
  ASSUME TypeOK, TypeOK', GenInv, StreamInv, SeenInv, CoverInv, Starting \/ Shutdown
  PROVE  CoverInv'
  <1>1. CASE StartGeneration \/ Barrier
    <2>1. ProcUnchanged /\ job' = job /\ InTransit' = InTransit
      BY <1>1, StartGenerationStream, BarrierStream DEF StartGeneration, Barrier
    <2>2. job = NoJob
      BY <1>1 DEF StartGeneration, Barrier, Answered, StreamInv, JobInv
    <2>3. NextRead
      BY <2>1, <2>2 DEF NextRead
    <2> QED BY <2>1, <2>3, QuietCover
  <1>2. CASE BootDone \/ BootFailed
    <2>1. ProcUnchanged /\ job' = job /\ queue' = queue /\ pend' = pend
      BY <1>2 DEF BootDone, BootFailed, ProcUnchanged
    <2>2. job = NoJob
      BY <1>2 DEF BootDone, BootFailed, Answered, StreamInv, JobInv
    <2>3. NextRead
      BY <2>1, <2>2 DEF NextRead
    <2>4. InTransit' = InTransit
      BY <2>1 DEF InTransit, Sent, Held, Elems
    <2> QED BY <2>1, <2>3, <2>4, QuietCover
  <1>3. CASE GenerationCreated \/ Shutdown
    <2>1. ProcUnchanged /\ job' = job /\ UNCHANGED <<pend, wmode, wcmd>>
      BY <1>3 DEF GenerationCreated, Shutdown, ProcUnchanged
    <2>2. job = NoJob
      BY <1>3 DEF GenerationCreated, Shutdown, Idle, Answered, StreamInv, JobInv
    <2>3. NextRead
      BY <2>1, <2>2 DEF NextRead
    <2>4. PICK c \in Commands : queue' = Append(queue, c) /\ c.k # "batch"
      BY <1>3, CommandFacts DEF GenerationCreated, Shutdown, Meta
    <2>5. InTransit' = InTransit
      BY <2>1, <2>4, SendFacts
    <2> QED BY <2>1, <2>3, <2>5, QuietCover
  <1>4. CASE ScanSend
    <2>1. Sending \in Batches /\ queue' = Append(queue, Sending) /\ ProcUnchanged /\ job' = NoJob
          /\ job \in [stage : {"send"}, f : Files, batch : Reads, ino : Nat]
      BY <1>4, SendType DEF ScanSend
    <2>2. Sending = Batch(job.f, gen, job.batch.lines, job.batch.off, fs[job.f].ino, job.batch.inc, FALSE)
      BY <1>4 DEF Sending, ScanSend
    <2>3. job # NoJob /\ job.f \in Files
      BY <2>1, JobFacts
    <2>4. fs[job.f].ino # 0
      BY <2>3 DEF SeenInv, Exists
    <2>5. Found(job.f, job.batch.lines, job.batch.off, job.batch.inc)
      BY <2>1 DEF CoverInv, ReadInv
    <2>6. BatchInv(Sending)
      BY <2>2, <2>4, <2>5 DEF BatchInv, Batch, Found
    <2> HIDE DEF Sending
    <2>7. NextRead
      BY <2>1 DEF NextRead
    <2> QED BY <2>1, <2>6, <2>7, SendCover
  <1>5. ASSUME NEW f \in Files, register_new_install_sources(f) PROVE CoverInv'
    <2> DEFINE b == Batch(f, gen, {}, Size(f), fs[f].ino, fs[f].inc, TRUE)
    <2>1. b \in Batches /\ queue' = Append(queue, b) /\ ProcUnchanged /\ job' = job
      BY <1>5, RegisterType DEF register_new_install_sources
    <2>2. job = NoJob
      BY <1>5 DEF register_new_install_sources, StreamInv, JobInv
    <2>3. fs[f].ino # 0 /\ fs[f].inc \in Nat /\ Size(f) \in Nat
      BY <1>5, FileFacts DEF register_new_install_sources, SeenInv, ExistingFiles, Exists, TypeOK
    <2>4. Fits(f, Size(f), fs[f].inc)
      BY <2>3 DEF Fits
    <2>5. b.f = f /\ b.off = Size(f) /\ b.inc = fs[f].inc /\ b.ino = fs[f].ino /\ b.reg = TRUE
      BY DEF Batch
    <2> HIDE DEF b
    <2>6. BatchInv(b)
      BY <2>3, <2>4, <2>5 DEF BatchInv
    <2>7. NextRead
      BY <2>1, <2>2 DEF NextRead
    <2> QED BY <2>1, <2>6, <2>7, SendCover
  <1>6. ASSUME NEW f \in Files, ScanRead(f) PROVE CoverInv'
    <2> DEFINE r == read_file_once(f, ckpt[f])
    <2>1. ProcUnchanged /\ queue' = queue /\ pend' = pend /\ pc' = "scan"
      BY <1>6 DEF ScanRead, ProcUnchanged
    <2>2. job' = NoJob \/ (r.n # 0 /\ job' = [stage |-> "send", f |-> f, batch |-> r, ino |-> 0])
      BY <1>6 DEF ScanRead
    <2>3. r.n # 0 => Found(f, r.lines, r.off, r.inc)
      BY ReadFound DEF CoverInv
    <2> HIDE DEF r
    <2>4. NextRead
      BY <2>1, <2>2, <2>3 DEF NextRead
    <2>5. InTransit' = InTransit
      BY <2>1 DEF InTransit, Sent, Held, Elems
    <2> QED BY <2>1, <2>4, <2>5, QuietCover
  <1> QED BY <1>1, <1>2, <1>3, <1>4, <1>5, <1>6 DEF Starting

LEMMA TailingCover ==
  ASSUME TypeOK, TypeOK', GenInv, StreamInv, SeenInv, CoverInv, Tailing
  PROVE  CoverInv'
  <1>1. CASE TailSend
    <2>1. Sending \in Batches /\ queue' = Append(queue, Sending) /\ ProcUnchanged /\ job' = NoJob
          /\ job \in [stage : {"send"}, f : Files, batch : Reads, ino : Nat] /\ pc # "scan"
      BY <1>1, SendType DEF TailSend, TailerUnchanged
    <2>2. Sending = Batch(job.f, gen, job.batch.lines, job.batch.off, job.ino, job.batch.inc, FALSE)
      BY <2>1 DEF Sending
    <2>3. Found(job.f, job.batch.lines, job.batch.off, job.batch.inc) /\ job.ino # 0
      BY <2>1 DEF CoverInv, ReadInv
    <2>4. BatchInv(Sending)
      BY <2>2, <2>3 DEF BatchInv, Batch, Found
    <2> HIDE DEF Sending
    <2>5. NextRead
      BY <2>1 DEF NextRead
    <2> QED BY <2>1, <2>4, <2>5, SendCover
  <1>2. CASE TailStep
    <2>1. ProcUnchanged /\ queue' = queue /\ pend' = pend
      BY <1>2 DEF TailStep, StartTailing, InstallWatch, prepare_tail_batch_command, TailerStarted, RescanBegin,
             CatchUp, RescanFile, TailEvent, TailerUnchanged, ProcUnchanged
    <2>2. InTransit' = InTransit
      BY <2>1 DEF InTransit, Sent, Held, Elems
    <2>3. NextRead
      <3>1. CASE prepare_tail_batch_command
        <4> DEFINE r == read_file_once(job.f, job.batch)
        <4>1. job \in [stage : {"read"}, f : Files, batch : LogFiles, ino : Nat]
          BY <3>1, PrepareFacts
        <4>2. job.batch = ckpt[job.f] /\ job.ino # 0 /\ job.f \in Files
          BY <4>1 DEF StreamInv, JobInv, CoverInv, ReadInv
        <4>3. job' = NoJob \/ (r.n # 0 /\ job' = [stage |-> "send", f |-> job.f, batch |-> r, ino |-> job.ino])
          BY <3>1 DEF prepare_tail_batch_command
        <4>4. r = read_file_once(job.f, ckpt[job.f])
          BY <4>2
        <4>5. PICK f \in Files : f = job.f
          BY <4>2
        <4>6. r = read_file_once(f, ckpt[f])
          BY <4>4, <4>5
        <4> HIDE DEF r
        <4>7. r.n # 0 => Found(f, r.lines, r.off, r.inc)
          BY <4>6, ReadFound DEF CoverInv
        <4> QED BY <4>2, <4>3, <4>5, <4>7 DEF NextRead
      <3>2. ASSUME NEW f \in Files, Exists(f), job' = Opened(f) PROVE NextRead
        BY <3>2 DEF NextRead, Opened, Exists
      <3>3. CASE StartTailing \/ InstallWatch \/ TailerStarted
        <4>1. job' = job /\ job = NoJob
          BY <3>3 DEF StartTailing, InstallWatch, TailerStarted, Answered, StreamInv, JobInv
        <4> QED BY <4>1 DEF NextRead
      <3>4. CASE RescanBegin
        <4>1. job' = job /\ job = NoJob
          BY <3>4 DEF RescanBegin, Idle
        <4> QED BY <4>1 DEF NextRead
      <3>5. ASSUME NEW f \in Files, CatchUp(f) \/ RescanFile(f) PROVE NextRead
        <4>1. job' = Opened(f) /\ Exists(f)
          BY <3>5 DEF CatchUp, RescanFile, SeenInv, ExistingFiles
        <4> QED BY <3>2, <4>1
      <3>6. ASSUME NEW f \in Files, NEW kind \in {"created", "modified"}, TailEvent(f, kind) PROVE NextRead
        <4>1. Exists(f) /\ job = NoJob /\ (job' = job \/ job' = Opened(f))
          BY <3>6 DEF TailEvent, SeenInv, Idle
        <4>2. CASE job' = job
          BY <4>1, <4>2 DEF NextRead
        <4> QED BY <3>2, <4>1, <4>2
      <3> QED BY <1>2, <3>1, <3>3, <3>4, <3>5, <3>6 DEF TailStep
    <2> QED BY <2>1, <2>2, <2>3, QuietCover
  <1> QED BY <1>1, <1>2 DEF Tailing, TailStep

LEMMA CoverStep ==
    TypeOK /\ GenInv /\ StreamInv /\ SeenInv /\ CoverInv /\ [Next]_vars => CoverInv'
  <1> SUFFICES ASSUME TypeOK, GenInv, StreamInv, SeenInv, CoverInv, [Next]_vars PROVE CoverInv'
    OBVIOUS
  <1>0. TypeOK'
    BY TypeStep
  <1>1. CASE Writing
    <2>1. PICK f \in Files : \/ CreateFile(f) \/ WritePart(f) \/ WriteLine(f) \/ WriteBlank(f)
                             \/ \E keep, fresh \in BOOLEAN : Rewrite(f, keep, fresh)
      BY <1>1 DEF Writing
    <2>2. UNCHANGED <<ckpt, rows, pruned, queue, pend, job, pc>>
      BY <2>1 DEF CreateFile, WritePart, WriteLine, WriteBlank, Rewrite, EnvUnchanged, procVars, storeVars,
                  writerVars
    <2>3. InTransit' = InTransit
      BY <2>2 DEF InTransit, Sent, Held, Elems
    <2>4. \A h \in Files : Grows(h)
      BY <1>0, <2>1, WritingFiles
    <2>5. NextRead
      BY <2>2, SameRead DEF CoverInv
    <2>6. \A l \in Lines : Stored(l) => Stored(l)'
      BY <2>2, StoredKept
    <2> QED BY <1>0, <2>2, <2>3, <2>4, <2>5, <2>6, CoverStays
  <1>2. CASE DayPasses \/ UNCHANGED vars
    <2>1. UNCHANGED <<fs, ckpt, rows, pruned, queue, pend, job, pc>>
      BY <1>2 DEF DayPasses, vars, fileVars, procVars, storeVars, writerVars
    <2>2. InTransit' = InTransit
      BY <2>1 DEF InTransit, Sent, Held, Elems
    <2>3. NextRead
      BY <2>1, SameRead DEF CoverInv
    <2> QED BY <1>0, <2>1, <2>2, <2>3, FramedCover
  <1>3. CASE Writer \/ WriterMetrics \/ ChangeTimezone
    BY <1>0, <1>3, WriterCover
  <1>4. CASE Boot
    <2>1. UNCHANGED <<fs, ckpt, rows, pruned, queue, pend, job>> /\ job = NoJob
      BY <1>4 DEF Boot, fileVars, storeVars, writerVars, StreamInv, JobInv
    <2>2. InTransit' = InTransit
      BY <2>1 DEF InTransit, Sent, Held, Elems
    <2>3. NextRead
      BY <2>1 DEF NextRead
    <2> QED BY <1>0, <2>1, <2>2, <2>3, FramedCover
  <1>5. CASE Exit \/ Crash
    <2>1. ProcessGone
      BY <1>5 DEF Exit, Crash
    <2>2. UNCHANGED <<fs, ckpt, rows, pruned>> /\ job' = NoJob
      BY <2>1 DEF ProcessGone, fileVars, storeVars
    <2>3. InTransit' = {}
      BY <2>1, GoneFacts
    <2>4. NextRead
      BY <2>2 DEF NextRead
    <2> QED BY <1>0, <2>2, <2>3, <2>4, FramedCover
  <1>6. CASE Starting \/ Shutdown
    BY <1>0, <1>6, StartingCover
  <1>7. CASE Tailing
    BY <1>0, <1>7, TailingCover
  <1> QED BY <1>1, <1>2, <1>3, <1>4, <1>5, <1>6, <1>7 DEF Next

LEMMA CoverInit == Init => CoverInv
  <1> SUFFICES ASSUME Init PROVE CoverInv
    OBVIOUS
  <1>1. queue = <<>> /\ pend = NoBatches /\ job = NoJob
    BY DEF Init
  <1>2. InTransit = {}
    <2>1. Held = {}
      BY <1>1, NoBatchesHeld
    <2>2. Sent = {}
      BY <1>1 DEF Sent, Elems
    <2> QED BY <2>1, <2>2 DEF InTransit
  <1>3. ReadInv
    BY <1>1, JobFacts DEF ReadInv
  <1>4. ASSUME NEW f \in Files PROVE RowInv(f)
    <2>1. fs[f] = [items |-> <<>>, torn |-> FALSE, ino |-> 0, inc |-> 0]
          /\ ckpt[f] = [off |-> 0, ino |-> 0, inc |-> 0, reg |-> 0]
      BY DEF Init
    <2>2. Size(f) = 0 /\ DOMAIN fs[f].items = {}
      BY <2>1 DEF Size
    <2> QED BY <2>1, <2>2 DEF RowInv, Fits, Covered
  <1> QED BY <1>2, <1>3, <1>4 DEF CoverInv

LEMMA RowsCover ==
  ASSUME TypeOK, CoverInv
  PROVE  CheckpointCovers
  <1> SUFFICES ASSUME NEW f \in Files, ckpt[f].inc = fs[f].inc, NEW i \in DOMAIN fs[f].items,
                      2 * i <= ckpt[f].off, 2 * (i - 1) >= ckpt[f].reg, fs[f].items[i] # 0
               PROVE  Stored(fs[f].items[i])
    BY DEF CheckpointCovers
  <1>1. Covered(f, {}, ckpt[f].off, ckpt[f].inc) /\ Base(f, ckpt[f].inc) = ckpt[f].reg
    BY RowFacts DEF CoverInv, RowInv, TypeOK
  <1> QED BY <1>1 DEF Covered

\* A checkpoint never passes a line that is not in the store, for any number of
\* files, rewrites, starts and faults: batches are dropped, reads fail and the
\* process dies at any point, and still only lines that were there when the
\* file was registered are passed over (flush_single_generation, read_file_once).
THEOREM CheckpointSafe == Spec => []CheckpointCovers
  <1> DEFINE Inv == TypeOK /\ GenInv /\ StreamInv /\ SeenInv /\ CoverInv
  <1>1. Init => Inv
    BY TypeInit, StreamInit, SeenInit, CoverInit
  <1>2. Inv /\ [Next]_vars => Inv'
    BY TypeStep, StreamStep, SeenStep, CoverStep
  <1>3. Inv => CheckpointCovers
    BY RowsCover
  <1> QED BY <1>1, <1>2, <1>3, PTL DEF Spec

-----------------------------------------------------------------------------
(* While nothing has failed there is one generation.                       *)

LEMMA CleanInit == Init => CleanInv
  <1> SUFFICES ASSUME Init PROVE CleanInv
    OBVIOUS
  <1>1. InTransit = {} /\ \A g \in Gens : Elems(pend[g]) = {}
    <2>1. queue = <<>> /\ pend = NoBatches
      BY DEF Init
    <2>2. Held = {}
      BY <2>1, NoBatchesHeld
    <2>3. Sent = {} /\ \A g \in Gens : Elems(pend[g]) = {}
      BY <2>1 DEF Sent, Elems, NoBatches
    <2> QED BY <2>2, <2>3 DEF InTransit
  <1> QED BY <1>1 DEF Init, CleanInv, Clean, NothingYet

\* The batches of a group have the generation of the group.
LEMMA GroupStep ==
  ASSUME TypeOK, StreamInv, CleanInv, [Next]_vars
  PROVE  \A g \in Gens : \A b \in Elems(pend'[g]) : b.gen = g
  <1>1. CASE pend' = pend
    BY <1>1 DEF CleanInv
  <1>2. CASE ProcessGone
    <2>1. \A g \in Gens : Elems(pend'[g]) = {}
      BY <1>2 DEF ProcessGone, NoBatches, Elems
    <2> QED BY <2>1
  <1>3. CASE WriterRecv /\ pend' # pend
    <2> DEFINE h == Head(queue)
    <2>1. pend' = [pend EXCEPT ![h.gen] = Append(@, h)] /\ h.k = "batch" /\ h \in Commands
      BY <1>3, RecvFacts DEF WriterRecv
    <2>2. h \in Batches
      BY <2>1, CommandFacts
    <2>3. h.gen \in Gens
      BY <2>2 DEF Batches
    <2> HIDE DEF h
    <2>4. \A g \in Gens : pend'[g] = IF g = h.gen THEN Append(pend[g], h) ELSE pend[g]
      BY <2>1, <2>3 DEF TypeOK, WriterOK
    <2>5. Elems(Append(pend[h.gen], h)) = Elems(pend[h.gen]) \cup {h}
      BY <2>2, <2>3, AppendFacts DEF TypeOK, WriterOK
    <2>6. \A g \in Gens : g # h.gen => Elems(pend'[g]) = Elems(pend[g])
      BY <2>4
    <2>7. Elems(pend'[h.gen]) = Elems(pend[h.gen]) \cup {h}
      BY <2>3, <2>4, <2>5
    <2> QED BY <2>3, <2>6, <2>7 DEF CleanInv
  <1>4. ASSUME NEW h \in Gens, WriterFlushGroup(h)
        PROVE  \A g \in Gens : \A b \in Elems(pend'[g]) : b.gen = g
    <2>1. \A g \in Gens : pend'[g] = IF g = h THEN <<>> ELSE pend[g]
      BY <1>4 DEF WriterFlushGroup, TypeOK, WriterOK
    <2>2. \A g \in Gens : Elems(pend'[g]) \subseteq Elems(pend[g])
      BY <2>1 DEF Elems
    <2> QED BY <2>2 DEF CleanInv
  <1>5. \/ pend' = pend \/ ProcessGone \/ WriterRecv \/ \E g \in Gens : WriterFlushGroup(g)
    <2>1. CASE Writing \/ DayPasses \/ WriterMetrics \/ ChangeTimezone \/ Boot \/ UNCHANGED vars
      BY <2>1 DEF Writing, CreateFile, WritePart, WriteLine, WriteBlank, Rewrite, EnvUnchanged, DayPasses,
           WriterMetrics, ChangeTimezone, Boot, vars, writerVars
    <2>2. CASE Writer
      BY <2>2 DEF Writer, WriterTimeout, WriterFinish
    <2>3. CASE Starting \/ Tailing \/ Shutdown
      <3>1. ProcUnchanged
        BY <2>3 DEF Starting, StartGeneration, GenerationCreated, ScanSend, Barrier, BootDone, BootFailed,
           register_new_install_sources, ScanRead, Shutdown, Tailing, StartTailing, InstallWatch,
           prepare_tail_batch_command, TailSend, TailerStarted, RescanBegin, CatchUp, RescanFile, TailEvent,
           TailerUnchanged
      <3> QED BY <3>1 DEF ProcUnchanged
    <2>4. CASE Exit \/ Crash
      BY <2>4 DEF Exit, Crash
    <2> QED BY <2>1, <2>2, <2>3, <2>4 DEF Next
  <1> QED BY <1>1, <1>2, <1>3, <1>4, <1>5

\* Where the process stands when nothing, or something, has been promoted.
LEMMA CleanFacts ==
  ASSUME TypeOK, GenInv, Clean
  PROVE  /\ pc \in {"scan", "discover", "watch", "catchup", "tail"} => active # 0
         /\ pc = "wait" /\ cont \notin {"reg", "promote", "promoted"} => active # 0
         /\ pc = "reg" => active = 0
         /\ pc = "wait" /\ cont \in {"reg", "scan", "promote"} => active = 0
         /\ active \in Gens \cup {0} /\ 0 \notin Gens
         /\ pc \notin {"down", "boot"} => gen \in Gens
  BY Bounds DEF Clean, NothingYet, OneGeneration, TypeOK, GensOK, GenInv

cleanVars == <<werr, reply, pc, cont, active, gen, rows, job, ssReady, snapReady, ssActive, snapActive, cacheGen>>

\* Nothing but the queue changes.
LEMMA CleanStays ==
  ASSUME Clean, UNCHANGED cleanVars, \A b \in InTransit' : b \in InTransit,
         (\E c \in Stream : c.k = "promote") => \E c \in Stream' : c.k = "promote"
  PROVE  Clean'
  BY DEF Clean, NothingYet, OneGeneration, cleanVars

LEMMA WriterClean ==
  ASSUME TypeOK, GenInv, StreamInv, CleanInv, Clean, faults' = faults,
         Writer \/ WriterMetrics \/ ChangeTimezone
  PROVE  Clean'
  <1>0. faults \in Nat
    BY DEF TypeOK, ProcOK
  <1>1. CASE WriterRecv
    <2>1. /\ InTransit' = InTransit /\ Sent = Sent' \cup {Head(queue)}
          /\ Head(queue).k # "batch" => wcmd' = Head(queue)
      BY <1>1, RecvFacts
    <2>2. wcmd = NoCmd /\ UNCHANGED cleanVars
      BY <1>1 DEF WriterRecv, StreamInv, FlushInv, cleanVars, storeVars, genVars, memVars, procVars
    <2>3. ASSUME NEW c \in Stream, c.k = "promote" PROVE c \in Stream'
      BY <2>1, <2>2, <2>3, CommandFacts DEF Stream
    <2> QED BY <2>1, <2>2, <2>3, CleanStays
  <1>2. CASE WriterTimeout
    <2>1. UNCHANGED <<queue, pend, wcmd>> /\ UNCHANGED cleanVars
      BY <1>2 DEF WriterTimeout, StreamInv, FlushInv, cleanVars, storeVars, genVars, memVars, procVars
    <2>2. InTransit' = InTransit /\ Stream' = Stream
      BY <2>1 DEF InTransit, Stream, Sent, Held, Elems
    <2> QED BY <2>1, <2>2, CleanStays
  <1>3. ASSUME NEW g \in Gens, WriterFlushGroup(g) PROVE Clean'
    <2>1. InTransit' \subseteq InTransit /\ Stream' = Stream
      BY <1>3, FlushFacts
    <2>2. UNCHANGED <<werr, reply, pc, cont, active, gen, job, ssReady, snapReady, ssActive, snapActive, cacheGen>>
      BY <1>3 DEF WriterFlushGroup, genVars, memVars, procVars
    <2>3. ASSUME NEW e \in rows', e \notin rows PROVE active # 0 /\ e[1] = active
      <3>1. flush_single_generation(g)
        BY <1>3, <2>3 DEF WriterFlushGroup, storeVars
      <3>2. PICK b \in Elems(pend[g]) : e[1] = g /\ e[2] \in b.lines
        BY <2>3, <3>1, FlushStored
      <3>3. b \in InTransit /\ b.gen = g /\ b.lines # {}
        BY <3>2, HeldFacts DEF TypeOK, InTransit, CleanInv
      <3> QED BY <3>2, <3>3 DEF Clean, NothingYet, OneGeneration
    <2> QED BY <2>1, <2>2, <2>3 DEF Clean, NothingYet, OneGeneration
  <1>4. CASE WriterMetrics
    <2>1. UNCHANGED <<queue, pend, wcmd, werr, reply, pc, cont, active, gen, job, snapReady, ssActive,
                      snapActive, cacheGen>>
          /\ rows' \subseteq rows /\ ssReady' = persist_metrics_checkpoint
      BY <1>4 DEF WriterMetrics, memVars, procVars, prune_usage_events
    <2>2. InTransit' = InTransit /\ Stream' = Stream
      BY <2>1 DEF InTransit, Stream, Sent, Held, Elems
    <2>3. ssReady \in {"none", "null"} => ssReady' \in {"none", "null"}
      BY <2>1 DEF persist_metrics_checkpoint
    <2> QED BY <2>1, <2>2, <2>3 DEF Clean, NothingYet, OneGeneration
  <1>5. CASE ChangeTimezone
    <2> DEFINE c == [k |-> "rollups"]
    <2>1. queue' = Append(queue, c) /\ UNCHANGED <<pend, wmode, wcmd>> /\ UNCHANGED cleanVars
      BY <1>5 DEF ChangeTimezone, cleanVars, storeVars, genVars, memVars, procVars
    <2>2. c \in Commands /\ c.k # "batch"
      BY CommandFacts
    <2> HIDE DEF c
    <2>3. InTransit' = InTransit /\ Stream' = Stream \cup {c}
      BY <2>1, <2>2, SendFacts
    <2> QED BY <2>1, <2>3, CleanStays
  <1>6. CASE WriterFinish
    <2>1. /\ InTransit' = InTransit /\ Stream' = Sent \cup {NoCmd} /\ wcmd \in Commands /\ wcmd.k # "batch"
          /\ wcmd.k \in Ends => Answering /\ \A c \in Sent : c.k = "rollups"
          /\ wcmd.k \notin Ends => reply' = reply
          /\ UNCHANGED <<pc, cont, gen, job>> /\ dispatch_command
      BY <1>6, FinishFacts
    <2>2. rows' = rows /\ cacheGen' = cacheGen
      BY <1>6, <2>1 DEF WriterFinish, dispatch_command, storeVars
    <2>3. ~Fault
      BY <1>0 DEF Fault
    <2>4. ASSUME wcmd.k # "promote", NEW c \in Stream, c.k = "promote" PROVE c \in Stream'
      BY <2>1, <2>4 DEF Stream
    <2>5. CASE wcmd.k \in {"create", "meta", "rollups"}
      <3>1. UNCHANGED <<werr, active, ssReady, ssActive, snapReady, snapActive>>
        BY <2>1, <2>3, <2>5 DEF dispatch_command, create_generation, genVars
      <3>2. reply' = reply
        BY <2>1, <2>5 DEF Ends
      <3>3. UNCHANGED cleanVars
        BY <3>1, <3>2, <2>1, <2>2 DEF cleanVars
      <3> QED BY <2>1, <2>4, <2>5, <3>3, CleanStays
    <2>6. CASE wcmd.k = "promote"
      <3>1. /\ werr' = werr /\ active' = wcmd.gen
        BY <2>1, <2>3, <2>6 DEF dispatch_command, execute_promotion_barrier
      <3>2. wcmd.gen = gen /\ pc = "wait" /\ cont = "promoted" /\ reply' = reply
        BY <2>1, <2>6 DEF StreamInv, PhaseInv, Stream, Answering, Ends
      <3>3. active' = gen /\ gen # 0
        BY <3>1, <3>2, CleanFacts
      <3>4. OneGeneration'
        BY <2>1, <2>2, <3>2, <3>3 DEF Clean, NothingYet, OneGeneration
      <3> QED BY <2>1, <3>1, <3>2, <3>3, <3>4 DEF Clean
    <2>7. CASE wcmd.k \in Ends
      <3>1. /\ UNCHANGED <<active, ssActive, snapReady, snapActive>>
            /\ ssReady' \in {persist_metrics_checkpoint, ssReady}
            /\ reply' = IF werr THEN "err" ELSE "ok"
            /\ werr' = FALSE
        BY <2>1, <2>7 DEF dispatch_command, Ends
      <3>2. reply' = "ok"
        BY <3>1 DEF Clean
      <3>3. ssReady \in {"none", "null"} => ssReady' \in {"none", "null"}
        BY <3>1 DEF persist_metrics_checkpoint
      <3>4. ~\E c \in Stream : c.k = "promote"
        BY <2>1, <2>7 DEF Stream, Ends
      <3>5. pc' = "wait" /\ cont' = "promoted" => active' = gen'
        BY <2>1, <3>1, <3>4 DEF Clean
      <3>6. (active = 0 => NothingYet)'
        BY <2>1, <2>2, <3>1, <3>3 DEF Clean, NothingYet
      <3>7. (active # 0 => OneGeneration)'
        BY <2>1, <2>2, <3>1 DEF Clean, OneGeneration
      <3> QED BY <3>1, <3>2, <3>5, <3>6, <3>7 DEF Clean
    <2> QED BY <2>1, <2>5, <2>6, <2>7, CommandFacts DEF Ends
  <1> QED BY <1>1, <1>2, <1>3, <1>4, <1>5, <1>6 DEF Writer

LEMMA StartingClean ==
  ASSUME TypeOK, GenInv, StreamInv, Clean, faults' = faults, Starting
  PROVE  Clean'
  <1>0. faults \in Nat
    BY DEF TypeOK, ProcOK
  <1>1. ProcUnchanged
    BY DEF Starting, StartGeneration, GenerationCreated, ScanSend, Barrier, BootDone, BootFailed,
           register_new_install_sources, ScanRead
  <1>2. UNCHANGED <<werr, active, rows, pend, wmode, wcmd>>
    BY <1>1 DEF ProcUnchanged, storeVars
  <1>3. CASE StartGeneration
    <2>1. InTransit' = InTransit /\ UNCHANGED <<ssReady, snapReady, ssActive, snapActive, cacheGen, job>>
      BY <1>3, StartGenerationStream DEF StartGeneration, memVars
    <2>2. CASE active # 0
      <3>1. snapReady # "starting"
        BY <1>3, <2>2 DEF StartGeneration, Clean, OneGeneration
      <3>2. gen' = active /\ pc' = "scan" /\ reply' = reply
        BY <1>3, <2>2, <3>1 DEF StartGeneration
      <3> QED BY <1>2, <2>1, <2>2, <3>2 DEF Clean, OneGeneration
    <2>3. CASE active = 0
      <3>1. snapReady = "starting"
        BY <2>3 DEF Clean, NothingYet
      <3>2. pc' = "wait" /\ cont' = "reg" /\ reply' = "none"
        BY <1>3, <3>1 DEF StartGeneration, Await
      <3> QED BY <1>2, <2>1, <2>3, <3>2 DEF Clean, NothingYet
    <2> QED BY <2>2, <2>3
  <1>4. CASE GenerationCreated
    <2>1. pc = "wait" /\ cont \in {"reg", "scan"} /\ pc' = cont /\ queue' = Append(queue, Meta)
          /\ UNCHANGED <<ssReady, snapReady, ssActive, snapActive, cacheGen, job, reply, cont, gen>>
      BY <1>4 DEF GenerationCreated, Answered, memVars
    <2>2. Meta \in Commands /\ Meta.k # "batch"
      BY CommandFacts DEF Meta
    <2>3. InTransit' = InTransit
      BY <1>2, <2>1, <2>2, SendFacts
    <2>4. active = 0 /\ NothingYet
      BY <2>1, CleanFacts DEF Clean
    <2>5. cont = "reg"
      BY <2>1, <2>4 DEF NothingYet
    <2> QED BY <1>2, <2>1, <2>3, <2>4, <2>5 DEF Clean, NothingYet
  <1>5. ASSUME NEW f \in Files, register_new_install_sources(f) PROVE Clean'
    <2> DEFINE b == Batch(f, gen, {}, Size(f), fs[f].ino, fs[f].inc, TRUE)
    <2>1. b \in Batches /\ queue' = Append(queue, b) /\ pc = "reg"
          /\ UNCHANGED <<ssReady, snapReady, ssActive, snapActive, cacheGen, job, reply, cont, gen, pc>>
      BY <1>5, RegisterType DEF register_new_install_sources, memVars
    <2>2. b.lines = {} /\ b.k = "batch"
      BY DEF Batch
    <2> HIDE DEF b
    <2>3. InTransit' = InTransit \cup {b}
      BY <1>2, <2>1, <2>2, SendFacts, CommandFacts
    <2>4. active = 0 /\ NothingYet
      BY <2>1, CleanFacts DEF Clean
    <2> QED BY <1>2, <2>1, <2>2, <2>3, <2>4 DEF Clean, NothingYet
  <1>6. ASSUME NEW f \in Files, ScanRead(f) PROVE Clean'
    <2>1. UNCHANGED <<ssReady, snapReady, ssActive, snapActive, cacheGen, reply, cont, gen, pc, queue>> /\ pc = "scan"
      BY <1>6 DEF ScanRead, memVars
    <2>2. InTransit' = InTransit
      BY <1>2, <2>1 DEF InTransit, Sent, Held, Elems
    <2>3. active # 0 /\ OneGeneration
      BY <2>1, CleanFacts DEF Clean
    <2> QED BY <1>2, <2>1, <2>2, <2>3 DEF Clean, OneGeneration
  <1>7. CASE ScanSend
    <2>1. Sending \in Batches /\ queue' = Append(queue, Sending) /\ pc = "scan"
          /\ UNCHANGED <<ssReady, snapReady, ssActive, snapActive, cacheGen, reply, cont, gen, pc>>
      BY <1>7, SendType DEF ScanSend, memVars
    <2>2. Sending.gen = gen
      BY DEF Sending, Batch
    <2>3. Sending \in Commands /\ Sending.k = "batch"
      BY <2>1, CommandFacts DEF Batches
    <2> HIDE DEF Sending
    <2>4. InTransit' = InTransit \cup {Sending}
      BY <1>2, <2>1, <2>3, SendFacts
    <2>5. active # 0 /\ OneGeneration /\ gen = active
      BY <2>1, CleanFacts DEF Clean, OneGeneration
    <2> QED BY <1>2, <2>1, <2>2, <2>4, <2>5 DEF Clean, OneGeneration
  <1>8. CASE Barrier
    <2>1. InTransit' = InTransit
      BY <1>8, BarrierStream
    <2>2. UNCHANGED <<ssReady, snapReady, ssActive, snapActive, cacheGen, gen, job>>
          /\ pc' = "wait" /\ reply' = "none"
      BY <1>8 DEF Barrier, Await, memVars
    <2>3. CASE pc = "reg" /\ Await(<<>>, "promote")
      <3>1. cont' = "promote" /\ active = 0 /\ NothingYet
        BY <2>3, CleanFacts DEF Await, Clean
      <3> QED BY <1>2, <2>1, <2>2, <3>1 DEF Clean, NothingYet
    <2>4. CASE \/ pc = "scan" /\ Await(<<Meta>>, "summary")
               \/ Answered("summary", "ok") /\ Await(<<Meta>>, "scanned")
               \/ pc = "catchup" /\ Await(<<>>, "tailing")
      <3>1. cont' \in {"summary", "scanned", "tailing"} /\ active # 0 /\ OneGeneration /\ gen = active
        BY <2>4, CleanFacts DEF Await, Answered, Clean, OneGeneration
      <3> QED BY <1>2, <2>1, <2>2, <3>1 DEF Clean, OneGeneration
    <2>5. CASE /\ Answered("promote", "ok") \/ (Answered("scanned", "ok") /\ gen # active)
               /\ Await(<<[k |-> "promote", gen |-> gen]>>, "promoted")
      <3> DEFINE c == [k |-> "promote", gen |-> gen]
      <3>1. Answered("promote", "ok")
        BY <2>5, CleanFacts DEF Answered, Clean, OneGeneration
      <3>2. active = 0 /\ NothingYet /\ cont' = "promoted" /\ gen \in Gens
        BY <3>1, <2>5, CleanFacts DEF Answered, Clean, Await
      <3>3. c \in Commands /\ Flush \in Commands /\ queue \in Seq(Commands) /\ c.k = "promote"
        BY <3>2, CommandFacts DEF TypeOK, WriterOK
      <3>4. queue' = queue \o <<c>> \o <<Flush>>
        BY <2>5 DEF Await
      <3> HIDE DEF c
      <3> DEFINE s == Append(queue, c)
      <3>5. queue' = Append(s, Flush)
        BY <3>3, <3>4, AwaitFacts
      <3>6. Elems(s) = Elems(queue) \cup {c} /\ s \in Seq(Commands)
        BY <3>3, AppendFacts
      <3> HIDE DEF s
      <3>7. Elems(Append(s, Flush)) = Elems(s) \cup {Flush}
        BY <3>3, <3>6, AppendFacts
      <3>8. c \in Elems(queue')
        BY <3>5, <3>6, <3>7
      <3>9. c \in Stream'
        BY <3>8 DEF Stream, Sent, Elems
      <3> QED BY <1>2, <2>1, <2>2, <3>2, <3>3, <3>9 DEF Clean, NothingYet
    <2> QED BY <1>8, <2>3, <2>4, <2>5 DEF Barrier
  <1>9. CASE BootDone
    <2>1. UNCHANGED <<queue, gen, job, reply, cont>> /\ pc' = "discover" /\ cacheGen' = gen
      BY <1>9 DEF BootDone
    <2>2. active = gen
      <3>1. CASE Answered("promoted", "ok")
        <4>1. Quiet
          BY <3>1 DEF Answered, StreamInv, PhaseInv
        <4> QED BY <3>1, <4>1, QuietFacts DEF Answered, Clean
      <3> QED BY <1>9, <3>1 DEF BootDone
    <2>3. active # 0 /\ OneGeneration
      BY <1>9, <2>2, CleanFacts DEF BootDone, Answered, Clean
    <2>4. InTransit' = InTransit
      BY <1>2, <2>1 DEF InTransit, Sent, Held, Elems
    <2> QED BY <1>2, <2>1, <2>2, <2>3, <2>4 DEF Clean, OneGeneration
  <1>10. CASE BootFailed
    <2>1. ~Fault /\ reply # "err"
      BY <1>0 DEF Fault, Clean
    <2> QED BY <1>10, <2>1 DEF BootFailed, Answered
  <1> QED BY <1>3, <1>4, <1>5, <1>6, <1>7, <1>8, <1>9, <1>10 DEF Starting

LEMMA TailingClean ==
  ASSUME TypeOK, GenInv, StreamInv, Clean, faults' = faults, Tailing \/ Shutdown
  PROVE  Clean'
  <1>1. ProcUnchanged /\ UNCHANGED <<ssReady, snapReady, ssActive, snapActive, cacheGen>>
    BY DEF Tailing, StartTailing, InstallWatch, prepare_tail_batch_command, TailSend, TailerStarted, RescanBegin,
           CatchUp, RescanFile, TailEvent, TailerUnchanged, Shutdown, memVars
  <1>2. UNCHANGED <<werr, active, rows, pend, wmode, wcmd>>
    BY <1>1 DEF ProcUnchanged, storeVars
  <1>3. active # 0 /\ OneGeneration
    <2>1. \/ pc \in {"discover", "watch", "catchup", "tail"}
          \/ pc = "wait" /\ cont = "tailing"
          \/ job.stage = "read"
      BY DEF Tailing, StartTailing, InstallWatch, prepare_tail_batch_command, TailSend, TailerStarted,
             RescanBegin, CatchUp, RescanFile, TailEvent, Shutdown, Idle, Answered
    <2>2. job.stage = "read" => pc \in {"scan", "catchup", "tail"}
      BY JobFacts DEF StreamInv, JobInv
    <2> QED BY <2>1, <2>2, CleanFacts DEF Clean
  <1>4. CASE StartTailing
    <2>1. gen' = active /\ pc' = "watch" /\ UNCHANGED <<queue, cont, reply>>
      BY <1>3, <1>4 DEF StartTailing, OneGeneration
    <2>2. InTransit' = InTransit
      BY <1>2, <2>1 DEF InTransit, Sent, Held, Elems
    <2> QED BY <1>1, <1>2, <1>3, <2>1, <2>2 DEF Clean, OneGeneration
  <1>5. CASE TailSend
    <2>1. Sending \in Batches /\ queue' = Append(queue, Sending) /\ pc \in {"catchup", "tail"}
          /\ UNCHANGED <<reply, cont, gen, pc>>
      BY <1>5, SendType DEF TailSend, TailerUnchanged
    <2>2. Sending.gen = gen
      BY DEF Sending, Batch
    <2>3. Sending \in Commands /\ Sending.k = "batch"
      BY <2>1, CommandFacts DEF Batches
    <2> HIDE DEF Sending
    <2>4. InTransit' = InTransit \cup {Sending}
      BY <1>2, <2>1, <2>3, SendFacts
    <2>5. gen = active
      BY <2>1, <1>3 DEF OneGeneration
    <2> QED BY <1>1, <1>2, <1>3, <2>1, <2>2, <2>4, <2>5 DEF Clean, OneGeneration
  <1>6. CASE Shutdown
    <2> DEFINE c == [k |-> "shutdown"]
    <2>1. queue' = Append(queue, c) /\ pc' = "wait" /\ cont' = "stopped" /\ reply' = "none" /\ gen' = gen
      BY <1>6 DEF Shutdown
    <2>2. c \in Commands /\ c.k # "batch"
      BY CommandFacts
    <2> HIDE DEF c
    <2>3. InTransit' = InTransit
      BY <1>2, <2>1, <2>2, SendFacts
    <2> QED BY <1>1, <1>2, <1>3, <2>1, <2>3 DEF Clean, OneGeneration
  <1>7. CASE Tailing /\ ~StartTailing /\ ~TailSend
    <2>1. UNCHANGED <<queue, gen, cont, reply>>
      BY <1>7 DEF Tailing, InstallWatch, prepare_tail_batch_command, TailerStarted, RescanBegin,
             CatchUp, RescanFile, TailEvent, TailerUnchanged
    <2>2. \/ pc' = pc
          \/ pc = "watch" /\ pc' = "catchup"
          \/ pc = "wait" /\ cont = "tailing" /\ pc' = "tail"
      BY <1>7 DEF Tailing, InstallWatch, prepare_tail_batch_command, TailerStarted, RescanBegin,
             CatchUp, RescanFile, TailEvent, Answered
    <2>3. InTransit' = InTransit /\ Stream' = Stream
      BY <1>2, <2>1 DEF InTransit, Stream, Sent, Held, Elems
    <2> QED BY <1>1, <1>2, <1>3, <2>1, <2>2, <2>3 DEF Clean, OneGeneration
  <1> QED BY <1>4, <1>5, <1>6, <1>7

\* Failures are counted and never taken back.
LEMMA FaultsGrow ==
  ASSUME TypeOK, [Next]_vars
  PROVE  faults' = faults \/ (faults' = faults + 1 /\ faults' # 0)
  <1>0. faults \in Nat
    BY DEF TypeOK, ProcOK
  <1>1. faults' = faults \/ faults' = faults + 1
    <2>1. CASE Writing
      BY <2>1 DEF Writing, CreateFile, WritePart, WriteLine, WriteBlank, Rewrite, Notify
    <2>2. CASE DayPasses \/ WriterMetrics \/ Boot \/ Exit \/ Crash \/ Shutdown \/ ChangeTimezone \/ UNCHANGED vars
      BY <2>2 DEF DayPasses, WriterMetrics, Boot, Exit, Crash, ProcessGone, Shutdown, ChangeTimezone, vars,
                  countVars
    <2>3. CASE WriterRecv \/ WriterTimeout \/ \E g \in Gens : WriterFlushGroup(g)
      BY <2>3 DEF WriterRecv, WriterTimeout, WriterFlushGroup, Fault, countVars
    <2>4. CASE WriterFinish
      BY <2>4, Zenon DEF WriterFinish, dispatch_command, Fault
    <2>5. CASE Starting
      BY <2>5 DEF Starting, StartGeneration, GenerationCreated, ScanSend, Barrier, BootDone, BootFailed,
           register_new_install_sources, ScanRead, Fault
    <2>6. CASE Tailing
      BY <2>6 DEF Tailing, StartTailing, InstallWatch, prepare_tail_batch_command, TailSend, TailerStarted,
           RescanBegin, CatchUp, RescanFile, TailEvent, Fault
    <2> QED BY <2>1, <2>2, <2>3, <2>4, <2>5, <2>6 DEF Next, Writer
  <1> QED BY <1>0, <1>1

LEMMA CleanStep ==
    TypeOK /\ GenInv /\ StreamInv /\ CleanInv /\ [Next]_vars => CleanInv'
  <1> SUFFICES ASSUME TypeOK, GenInv, StreamInv, CleanInv, [Next]_vars PROVE CleanInv'
    OBVIOUS
  <1>1. (\A g \in Gens : \A b \in Elems(pend[g]) : b.gen = g)'
    BY GroupStep DEF Elems
  <1>2. ASSUME faults' = 0 PROVE Clean'
    <2>0. faults' = faults /\ Clean
      BY <1>2, FaultsGrow DEF CleanInv
    <2>1. CASE Writing \/ DayPasses \/ UNCHANGED vars
      <3>1. UNCHANGED <<queue, pend, wcmd>> /\ UNCHANGED cleanVars
        <4>1. UNCHANGED <<storeVars, genVars, memVars, writerVars, procVars>>
          BY <2>1, Zenon DEF Writing, CreateFile, WritePart, WriteLine, WriteBlank, Rewrite, EnvUnchanged,
                             DayPasses, vars
        <4> QED BY <4>1 DEF cleanVars, storeVars, genVars, memVars, writerVars, procVars
      <3>2. InTransit' = InTransit /\ Stream' = Stream
        BY <3>1 DEF InTransit, Stream, Sent, Held, Elems
      <3> QED BY <2>0, <3>1, <3>2, CleanStays
    <2>2. CASE Writer \/ WriterMetrics \/ ChangeTimezone
      BY <2>0, <2>2, WriterClean
    <2>3. CASE Boot
      <3>1. /\ UNCHANGED <<queue, pend, werr, reply, rows, job, active>> /\ pc' = "boot" /\ pc = "down"
            /\ ssReady' = (IF active # 0 THEN "ready_exact" ELSE ssReady)
            /\ ssActive' = (IF active # 0 THEN active ELSE ssActive)
            /\ snapReady' = (IF ssReady' \in {"none", "null"} THEN "starting" ELSE ssReady')
            /\ snapActive' = ssActive' /\ cacheGen' = ssActive'
        BY <2>3 DEF Boot, storeVars, writerVars
      <3>2. InTransit' = InTransit
        BY <3>1 DEF InTransit, Sent, Held, Elems
      <3> QED BY <2>0, <3>1, <3>2 DEF Clean, NothingYet, OneGeneration
    <2>4. CASE Exit \/ Crash
      <3>1. ProcessGone
        BY <2>4 DEF Exit, Crash
      <3>2. /\ InTransit' = {} /\ pc' = "down" /\ ~werr' /\ reply' = "none" /\ job' = NoJob
            /\ UNCHANGED <<rows, active, ssReady, ssActive>> /\ snapReady' = "starting"
            /\ snapActive' = 0 /\ cacheGen' = 0
        BY <3>1, GoneFacts DEF ProcessGone, storeVars, genVars
      <3> QED BY <2>0, <3>2 DEF Clean, NothingYet, OneGeneration
    <2>5. CASE Starting
      BY <2>0, <2>5, StartingClean
    <2>6. CASE Tailing \/ Shutdown
      BY <2>0, <2>6, TailingClean
    <2> QED BY <2>1, <2>2, <2>3, <2>4, <2>5, <2>6 DEF Next
  <1> QED BY <1>1, <1>2 DEF CleanInv

\* While nothing fails, every row belongs to the active generation and is
\* visible, whatever starts, crashes and shutdowns there are, for any number of
\* files and lines (StartGeneration goes on in the active generation, and the
\* tailer takes the one of the cache).
THEOREM RowsVisible == Spec => []VisibleUnlessFault
  <1> DEFINE Inv == TypeOK /\ GenInv /\ StreamInv /\ CleanInv
  <1>1. Init => Inv
    BY TypeInit, StreamInit, CleanInit
  <1>2. Inv /\ [Next]_vars => Inv'
    BY TypeStep, StreamStep, CleanStep
  <1>3. Inv => VisibleUnlessFault
    BY DEF CleanInv, Clean, OneGeneration, VisibleUnlessFault
  <1> QED BY <1>1, <1>2, <1>3, PTL DEF Spec

-----------------------------------------------------------------------------
(* The rollups follow the rows.                                            *)

\* What the upsert counts as new is what it inserts: under insert_once by its
\* own test, under replace as long as all rows are in one generation.
LEMMA EffectiveIsNew ==
  ASSUME TypeOK, CleanInv, Policy = "insert_once" \/ faults = 0, NEW g \in Gens,
         flush_single_generation(g)
  PROVE  \E eff : /\ rows' = rows \cup eff /\ \A e \in eff : e \notin rows
                  /\ daily' = Plus(daily, eff) /\ buckets' = Plus(buckets, eff) /\ pruned' = pruned
  <1> DEFINE bs    == pend[g]
             lines == UNION {bs[i].lines : i \in DOMAIN bs}
             eff   == effective_events(g, lines)
  <1>1. /\ rows' = rows \cup {e \in eff : ~HasRow(e[2])} /\ pruned' = pruned
        /\ daily' = Plus(daily, eff) /\ buckets' = Plus(buckets, eff)
    BY DEF flush_single_generation, upsert_usage_events_dedup_aware, upsert_daily_usage_for_events,
           update_materialized_aggregates_from_events
  <1>2. \A l \in lines : \E b \in Elems(bs) : l \in b.lines
    BY DEF Elems
  <1> HIDE DEF eff, lines
  <1>3. ASSUME NEW e \in eff PROVE ~HasRow(e[2]) /\ e \notin rows
    <2>1. e \in effective_events(g, lines)
      BY DEF eff
    <2>2. \E l \in lines : /\ e = <<g, l>>
                          /\ \/ Policy = "insert_once" /\ ~HasRow(l)
                             \/ Policy = "replace" /\ <<g, l>> \notin rows
      BY <2>1, EffectiveFacts, Zenon
    <2>3. PICK l \in lines : /\ e = <<g, l>>
                            /\ \/ Policy = "insert_once" /\ ~HasRow(l)
                               \/ Policy = "replace" /\ <<g, l>> \notin rows
      BY <2>2, Zenon
    <2>4. e[2] = l
      BY <2>3
    <2>5. CASE Policy = "insert_once" /\ ~HasRow(l)
      <3>1. e \notin rows
        BY <2>3, <2>5 DEF HasRow
      <3> QED BY <2>4, <2>5, <3>1
    <2>6. CASE faults = 0 /\ <<g, l>> \notin rows
      <3>1. ASSUME NEW h \in Gens, <<h, l>> \in rows PROVE FALSE
        <4>1. PICK b \in Elems(pend[g]) : l \in b.lines
          BY <1>2
        <4>2. b \in InTransit /\ b.gen = g /\ b.lines # {}
          BY <4>1, HeldFacts DEF TypeOK, InTransit, CleanInv
        <4>3. Clean
          BY <2>6 DEF CleanInv
        <4>4. g = active /\ active # 0
          BY <4>2, <4>3 DEF Clean, NothingYet, OneGeneration
        <4>5. <<h, l>>[1] = active
          BY <3>1, <4>3, <4>4 DEF Clean, OneGeneration
        <4>6. h = active
          BY <4>5
        <4> QED BY <3>1, <4>4, <4>6, <2>6
      <3> QED BY <2>3, <2>4, <2>6, <3>1 DEF HasRow
    <2> QED BY <2>3, <2>5, <2>6, BoundsAssumption
  <1>4. {e \in eff : ~HasRow(e[2])} = eff
    BY <1>3
  <1> QED BY <1>1, <1>3, <1>4

LEMMA RollupsStep ==
    TypeOK /\ StreamInv /\ CleanInv /\ RollupsFollowRows /\ [Next]_vars => RollupsFollowRows'
  <1> SUFFICES ASSUME TypeOK, StreamInv, CleanInv, RollupsFollowRows, [Next]_vars,
                      Policy = "insert_once" \/ faults' = 0, NEW e \in Events
               PROVE  /\ buckets'[e] = pruned'[e] + (IF e \in rows' THEN 1 ELSE 0)
                      /\ daily'[e] <= buckets'[e]
    BY DEF RollupsFollowRows
  <1>0. Policy = "insert_once" \/ faults = 0
    BY FaultsGrow
  <1>1. /\ buckets[e] = pruned[e] + (IF e \in rows THEN 1 ELSE 0)
        /\ daily[e] <= buckets[e]
    BY <1>0 DEF RollupsFollowRows
  <1>2. buckets[e] \in Nat /\ pruned[e] \in Nat /\ daily[e] \in Nat
    BY DEF TypeOK, StoreOK
  <1>3. CASE UNCHANGED storeVars
    BY <1>1, <1>3 DEF storeVars
  <1>4. ASSUME NEW g \in Gens, flush_single_generation(g)
        PROVE  /\ buckets'[e] = pruned'[e] + (IF e \in rows' THEN 1 ELSE 0)
               /\ daily'[e] <= buckets'[e]
    <2>1. PICK eff : /\ rows' = rows \cup eff /\ \A x \in eff : x \notin rows
                     /\ daily' = Plus(daily, eff) /\ buckets' = Plus(buckets, eff) /\ pruned' = pruned
      BY <1>0, <1>4, EffectiveIsNew
    <2>2. /\ daily'[e] = daily[e] + (IF e \in eff THEN 1 ELSE 0)
          /\ buckets'[e] = buckets[e] + (IF e \in eff THEN 1 ELSE 0)
      BY <2>1 DEF Plus
    <2>3. CASE e \in eff
      BY <1>1, <1>2, <2>1, <2>2, <2>3
    <2>4. CASE e \notin eff
      BY <1>1, <1>2, <2>1, <2>2, <2>4
    <2> QED BY <2>3, <2>4
  <1>5. CASE WriterMetrics
    <2> DEFINE old == {x \in rows : x[1] = snapActive /\ x[2] \in aged}
    <2>1. /\ rows' = rows \ old /\ UNCHANGED <<daily, buckets>>
          /\ pruned' = [x \in Events |-> pruned[x] + (IF x \in old THEN 1 ELSE 0)]
      BY <1>5 DEF WriterMetrics, prune_usage_events
    <2>2. old \subseteq rows
      OBVIOUS
    <2> HIDE DEF old
    <2>3. pruned'[e] = pruned[e] + (IF e \in old THEN 1 ELSE 0)
      BY <2>1
    <2>4. CASE e \in old
      BY <1>1, <1>2, <2>1, <2>2, <2>3, <2>4
    <2>5. CASE e \notin old
      BY <1>1, <1>2, <2>1, <2>2, <2>3, <2>5
    <2> QED BY <2>4, <2>5
  <1>6. CASE WriterFinish
    <2>1. dispatch_command
      BY <1>6 DEF WriterFinish
    <2>2. UNCHANGED <<rows, buckets, pruned>>
          /\ (daily' = daily \/ \E failed \in BOOLEAN : handle_rebuild_rollups(failed))
      BY <2>1 DEF dispatch_command, storeVars
    <2>3. daily'[e] = daily[e] \/ daily'[e] = 0 \/ (daily'[e] = 1 /\ e \in rows)
      BY <2>2 DEF handle_rebuild_rollups
    <2> QED BY <1>1, <1>2, <2>2, <2>3
  <1>7. \/ UNCHANGED storeVars \/ WriterMetrics \/ WriterFinish \/ \E g \in Gens : flush_single_generation(g)
    <2>1. CASE Writing \/ DayPasses \/ ChangeTimezone \/ Boot \/ Exit \/ Crash \/ UNCHANGED vars
      BY <2>1 DEF Writing, CreateFile, WritePart, WriteLine, WriteBlank, Rewrite, EnvUnchanged, DayPasses,
           ChangeTimezone, Boot, Exit, Crash, ProcessGone, vars
    <2>2. CASE Writer
      BY <2>2 DEF Writer, WriterRecv, WriterTimeout, WriterFlushGroup
    <2>3. CASE Starting \/ Tailing \/ Shutdown
      <3>1. ProcUnchanged
        BY <2>3 DEF Starting, StartGeneration, GenerationCreated, ScanSend, Barrier, BootDone, BootFailed,
           register_new_install_sources, ScanRead, Shutdown, Tailing, StartTailing, InstallWatch,
           prepare_tail_batch_command, TailSend, TailerStarted, RescanBegin, CatchUp, RescanFile, TailEvent,
           TailerUnchanged
      <3> QED BY <3>1 DEF ProcUnchanged
    <2> QED BY <2>1, <2>2, <2>3 DEF Next
  <1> QED BY <1>3, <1>4, <1>5, <1>6, <1>7

\* A line is counted in the buckets once for every time its row was inserted,
\* and never more often in the daily rows, for any number of overlapping
\* batches, starts and crashes (effective_events decides what the upsert inserts
\* and what reaches the rollups, in one transaction).
THEOREM RollupsCorrect == Spec => []RollupsFollowRows
  <1> DEFINE Inv == TypeOK /\ GenInv /\ StreamInv /\ CleanInv /\ RollupsFollowRows
  <1>1. Init => Inv
    <2>1. Init => RollupsFollowRows
      BY DEF Init, RollupsFollowRows
    <2> QED BY <2>1, TypeInit, StreamInit, CleanInit
  <1>2. Inv /\ [Next]_vars => Inv'
    BY TypeStep, StreamStep, CleanStep, RollupsStep
  <1>3. Inv => RollupsFollowRows
    OBVIOUS
  <1> QED BY <1>1, <1>2, <1>3, PTL DEF Spec

=============================================================================
