------------------------------- MODULE PSink -------------------------------
(***************************************************************************)
(* The extraction sink (namespace psink, sfx_archive.cpp): the workers of  *)
(* an archive's streams write what they decode straight into the output    *)
(* files.  A file is decided (the overwrite question), created when the    *)
(* first worker reaches it, written at absolute offsets by all of them,    *)
(* and closed with its last byte.                                          *)
(*                                                                         *)
(* No action spans a release of e.mu or f.io: e.mu is let go for the       *)
(* question and for every write, and between two slices the model lets the *)
(* other workers in where the code keeps the lock.  A byte on disk is the  *)
(* entry it belongs to and the attempt at its stream that wrote it.        *)
(***************************************************************************)
EXTENDS Sums, Integers, Sequences, FiniteSets, FiniteSetsExt

CONSTANTS Entries,     \* the archive's files, by number
          Paths,       \* what they may be extracted to
          Cases,       \* the extractions a run may make
          LongestFile, \* no file is longer
          MaxChunk,    \* the most a decoder hands over at once
          MaxTries     \* attempts at one stream

\* bad: the attempts at which the slice decodes to bytes its checksum rejects
SliceOf == [entry : Entries, off : Nat, len : Nat, group : Nat \ {0}, bad : SUBSET (1..MaxTries)]

\* An extraction: the streams' slices, how their decoders hand bytes over (block by
\* block or at the end), whether they may start over, and what is on the disk.
Extraction ==
    [streams : Seq(Seq(SliceOf)), policy : {"produced", "group"}, quantum : Nat,
     incremental : BOOLEAN, rewinds : BOOLEAN, yes : BOOLEAN, path : [Entries -> Paths],
     old : SUBSET Paths, skip : SUBSET Entries, locked : SUBSET Entries, full : SUBSET Entries]

\* What is assumed of the constants.
ASSUME PSinkAssumption ==
    /\ Entries \subseteq Nat \ {0} /\ Cases \subseteq Extraction
    /\ {LongestFile, MaxChunk, MaxTries} \subseteq Nat \ {0}
    /\ \A x \in Cases : \A k \in DOMAIN x.streams : \A i \in DOMAIN x.streams[k] :
            x.streams[k][i].off + x.streams[k][i].len <= LongestFile

VARIABLES job,              \* the extraction
          outFile,          \* FileState, by entry
          outDisk,          \* what each path holds
          strm,             \* Stream
          thr,              \* the worker of each stream: where it is
          always,           \* yes_to_all
          asking,           \* who holds ask_mu, 0 for nobody
          declined,         \* history: the entries that were answered No
          mismatches, allClosed

sinkVars == <<job, outFile, outDisk, strm, thr, always, asking, declined, mismatches, allClosed>>

Streams == 1 .. Len(job.streams)

Offsets == 0 .. LongestFile - 1

NoByte == [entry |-> 0, try |-> 0]

Byte == [entry : {0} \cup Entries, try : 0..MaxTries]

FileState ==
    [decided : BOOLEAN, deciding : BOOLEAN, writeIt : BOOLEAN, created : BOOLEAN, cannot : BOOLEAN,
     open : BOOLEAN, closed : BOOLEAN, failed : BOOLEAN, remaining : Nat]

StreamState ==
    [produced : Nat, flushed : Nat, heldBase : Nat, entered : Nat, checked : SUBSET Nat,
     pending : Nat, try : 1..MaxTries, ends : {"no", "ok", "fail", "clean"}]

\* Where a worker is: in which call, at slice i, and in StreamWrite and StreamEnd the
\* point of its stream up to which it writes.
WorkerState ==
    [pc : {"start", "ready", "slice", "create", "asklock", "answer", "write", "check", "group",
           "done"},
     call : {"begin", "write", "end", "group"}, i : Nat, to : Nat]

SinkTypeOK ==
    /\ job \in Cases
    /\ outFile \in [Entries -> FileState]
    /\ outDisk \in [Paths -> [state : {"absent", "old", "new"}, bytes : [Offsets -> Byte]]]
    /\ strm \in [Streams -> StreamState]
    /\ thr \in [Streams -> WorkerState]
    /\ always \in BOOLEAN
    /\ asking \in {0} \cup Streams
    /\ declined \subseteq Entries
    /\ mismatches \in Nat /\ allClosed \in BOOLEAN

Slices(k) == job.streams[k]

Spos(k, i) == SumBefore([j \in DOMAIN Slices(k) |-> Slices(k)[j].len], i)

Send(k, i) == Spos(k, i) + Slices(k)[i].len

Total(k) == Spos(k, Len(Slices(k)) + 1)

\* group_start, as the group that starts and where
FirstOf(k, g) == Min({i \in 1 .. Len(Slices(k)) : Slices(k)[i].group = g})

Groups(k) == {Slices(k)[i].group : i \in 1 .. Len(Slices(k))}

GroupStart(k, g) == Spos(k, FirstOf(k, g))

\* Over all streams, and over all slices of one.
OverStreams(counts) == SumBefore(counts, Len(job.streams) + 1)

OverSlices(k, counts) == SumBefore(counts, Len(Slices(k)) + 1)

\* The bytes of slice i, if it belongs to entry e.
LenIn(k, i, e) == IF Slices(k)[i].entry = e THEN Slices(k)[i].len ELSE 0

\* How many of them are among the first p bytes of the stream.
Before(k, i, e, p) ==
    IF Slices(k)[i].entry # e \/ p <= Spos(k, i) THEN 0
    ELSE Min({p - Spos(k, i), Slices(k)[i].len})

\* The bytes of entry e in all streams.
Publish(e) ==
    OverStreams([k \in Streams |->
        OverSlices(k, [i \in DOMAIN Slices(k) |-> LenIn(k, i, e)])])

SinkInit ==
    /\ job \in Cases
    /\ outFile = [e \in Entries |->
                [decided |-> FALSE, deciding |-> FALSE, writeIt |-> FALSE, created |-> FALSE,
                 cannot |-> FALSE, open |-> FALSE, closed |-> FALSE, failed |-> FALSE,
                 remaining |-> Publish(e)]]
    /\ outDisk = [p \in Paths |-> [state |-> IF p \in job.old THEN "old" ELSE "absent",
                                bytes |-> [o \in Offsets |-> NoByte]]]
    /\ strm = [k \in Streams |-> [produced |-> 0, flushed |-> 0, heldBase |-> 0, entered |-> 0,
                                checked |-> {}, pending |-> 0, try |-> 1, ends |-> "no"]]
    /\ thr = [k \in Streams |-> [pc |-> "start", call |-> "begin", i |-> 1, to |-> 0]]
    /\ always = job.yes /\ asking = 0 /\ declined = {}
    /\ mismatches = 0 /\ allClosed = FALSE

Goto(k, place) == thr' = [thr EXCEPT ![k].pc = place]

Slice(k) == Slices(k)[thr[k].i]

Ent(k) == Slice(k).entry

-----------------------------------------------------------------------------
(* CreateLocked and DecideLocked, for the slice worker k is at *)

\* Where the worker goes once CreateLocked returns.
AfterCreate(k, f) ==
    CASE thr[k].call = "begin" -> "ready"
      [] thr[k].call = "group" -> "group"
      [] thr[k].call \in {"write", "end"} ->
            IF Slice(k).len # 0 /\ f.writeIt /\ ~f.cannot THEN "write" ELSE "check"

\* The file is opened, and truncated, the first time a worker comes here with its
\* decision; an empty file is complete at once.
OpenFile(k, decision) ==
    LET e == Ent(k)
        opens == decision /\ ~outFile[e].created /\ e \notin job.locked
        f == [outFile[e] EXCEPT
                !.decided = TRUE, !.deciding = FALSE, !.writeIt = decision, !.created = TRUE,
                !.cannot = @ \/ (decision /\ ~outFile[e].created /\ e \in job.locked),
                !.open = @ \/ (opens /\ outFile[e].remaining > 0),
                !.closed = @ \/ (opens /\ outFile[e].remaining = 0)]
    IN /\ outFile' = [outFile EXCEPT ![e] = f]
       /\ outDisk' = IF opens
                  THEN [outDisk EXCEPT ![job.path[e]] =
                            [state |-> "new", bytes |-> [o \in Offsets |-> NoByte]]]
                  ELSE outDisk
       /\ Goto(k, AfterCreate(k, f))

\* Mutant: a file that is being asked about counts as decided.
CreateUnasked(k) ==
    /\ thr[k].pc = "create" /\ outFile[Ent(k)].decided
    /\ OpenFile(k, outFile[Ent(k)].writeIt)
    /\ UNCHANGED <<job, strm, always, asking, declined, mismatches, allClosed>>

\* The file is decided; a worker that finds the question open waits for its answer.
CreateDecided(k) ==
    /\ thr[k].pc = "create" /\ outFile[Ent(k)].decided /\ ~outFile[Ent(k)].deciding
    /\ OpenFile(k, outFile[Ent(k)].writeIt)
    /\ UNCHANGED <<job, strm, always, asking, declined, mismatches, allClosed>>

MustAsk(e) == e \notin job.skip /\ ~always /\ outDisk[job.path[e]].state # "absent"

Decide(k) ==
    LET e == Ent(k)
    IN /\ thr[k].pc = "create" /\ ~outFile[e].decided /\ ~MustAsk(e)
       /\ OpenFile(k, e \notin job.skip)
       /\ UNCHANGED <<job, strm, always, asking, declined, mismatches, allClosed>>

DecideByAsking(k) ==
    LET e == Ent(k)
    IN /\ thr[k].pc = "create" /\ ~outFile[e].decided /\ MustAsk(e)
       /\ outFile' = [outFile EXCEPT ![e].decided = TRUE, ![e].deciding = TRUE, ![e].writeIt = TRUE]
       /\ Goto(k, "asklock")
       /\ UNCHANGED <<job, outDisk, strm, always, asking, declined, mismatches, allClosed>>

\* ask_mu: one question at a time, and none once somebody said Always.
LockAskMu(k) ==
    /\ thr[k].pc = "asklock" /\ asking = 0
    /\ IF always
       THEN OpenFile(k, TRUE) /\ UNCHANGED asking
       ELSE asking' = k /\ Goto(k, "answer") /\ UNCHANGED <<outFile, outDisk>>
    /\ UNCHANGED <<job, strm, always, declined, mismatches, allClosed>>

\* Any other answer asks again.
SaysYes(k) ==
    /\ thr[k].pc = "answer"
    /\ always' \in {always, TRUE}
    /\ OpenFile(k, TRUE)
    /\ asking' = 0
    /\ UNCHANGED <<job, strm, declined, mismatches, allClosed>>

SaysNo(k) ==
    /\ thr[k].pc = "answer"
    /\ OpenFile(k, FALSE)
    /\ asking' = 0
    /\ declined' = declined \cup {Ent(k)}
    /\ UNCHANGED <<job, strm, always, mismatches, allClosed>>

-----------------------------------------------------------------------------
(* The calls of a worker *)

\* StreamBegin: the first file of the first group, in a stream that has one.
StreamBegin(k) ==
    /\ thr[k].pc = "start"
    /\ IF Slices(k) = <<>>
       THEN Goto(k, "ready") /\ UNCHANGED strm
       ELSE /\ strm' = [strm EXCEPT ![k].entered = 1]
            /\ thr' = [thr EXCEPT ![k].pc = "create", ![k].call = "begin", ![k].i = 1]
    /\ UNCHANGED <<job, outFile, outDisk, always, asking, declined, mismatches, allClosed>>

\* What a failure at this point would flush.
SafeFlushPoint(k, p) ==
    LET start == Max({0} \cup {s \in {GroupStart(k, g) : g \in Groups(k)} : s <= p})
    IN IF job.policy # "group" THEN p
       ELSE IF job.quantum = 0 THEN start
       ELSE start + ((p - start) \div job.quantum) * job.quantum

\* StreamWrite: n more bytes are decoded and the slices are gone through.
StreamWrite(k, n) ==
    LET to == Min({strm[k].produced + n, Total(k)})
    IN /\ thr[k].pc = "ready" /\ job.incremental /\ strm[k].produced < Total(k)
       /\ strm' = [strm EXCEPT ![k].produced = to,
                           ![k].heldBase = IF job.policy = "group" THEN @ ELSE strm[k].produced]
       /\ thr' = [thr EXCEPT ![k].pc = "slice", ![k].call = "write", ![k].i = 1,
                         ![k].to = SafeFlushPoint(k, to)]
       /\ UNCHANGED <<job, outFile, outDisk, always, asking, declined, mismatches, allClosed>>

\* Mutant: a failure flushes what was produced, whatever the policy.
StreamEndFlushesAll(k, ends, p) ==
    /\ thr[k].pc = "ready" /\ (job.incremental => p = strm[k].produced)
    /\ ends = "ok" => p = Total(k)
    /\ strm' = [strm EXCEPT ![k].produced = p, ![k].ends = ends]
    /\ thr' = [thr EXCEPT ![k].pc = "slice", ![k].call = "end", ![k].i = 1, ![k].to = p]
    /\ UNCHANGED <<job, outFile, outDisk, always, asking, declined, mismatches, allClosed>>

\* StreamEnd: how the stream ended, after p bytes; a failure with a status loses
\* the quantum in flight.  A lone stream that never decodes a byte has not begun.
StreamEnd(k, ends, p) ==
    /\ thr[k].pc = "ready" \/ (thr[k].pc = "start" /\ job.incremental /\ Len(job.streams) = 1)
    /\ job.incremental => p = strm[k].produced
    /\ ends = "ok" => p = Total(k)
    /\ strm' = [strm EXCEPT ![k].produced = p, ![k].ends = ends]
    /\ thr' = [thr EXCEPT ![k].pc = "slice", ![k].call = "end", ![k].i = 1,
                      ![k].to = IF ends = "fail" THEN SafeFlushPoint(k, p) ELSE p]
    /\ UNCHANGED <<job, outFile, outDisk, always, asking, declined, mismatches, allClosed>>

\* What stream k has written of entry e, by the count of its flushed bytes.
WrittenOf(k, e) ==
    OverSlices(k, [i \in DOMAIN Slices(k) |-> Before(k, i, e, strm[k].flushed)])

Restarted(k) ==
    [strm[k] EXCEPT !.produced = 0, !.flushed = 0, !.heldBase = 0, !.checked = {},
                  !.pending = 0, !.try = @ + 1]

\* Mutant: the files do not owe again what will be written again.
StreamRewindKeepsCount(k) ==
    /\ thr[k].pc = "ready" /\ job.rewinds /\ strm[k].try < MaxTries
    /\ mismatches' = mismatches - strm[k].pending
    /\ strm' = [strm EXCEPT ![k] = Restarted(k)]
    /\ UNCHANGED <<job, outFile, outDisk, thr, always, asking, declined, allClosed>>

\* Mutant: the mismatches of the abandoned attempt stay counted.
StreamRewindKeepsMismatches(k) ==
    /\ thr[k].pc = "ready" /\ job.rewinds /\ strm[k].try < MaxTries
    /\ outFile' = [e \in Entries |-> [outFile[e] EXCEPT !.remaining = @ + WrittenOf(k, e)]]
    /\ strm' = [strm EXCEPT ![k] = Restarted(k)]
    /\ UNCHANGED <<job, outDisk, thr, always, asking, declined, mismatches, allClosed>>

\* Mutant: the stream may start over as often as it fails.
StreamRewindForever(k) ==
    /\ thr[k].pc = "ready" /\ job.rewinds
    /\ mismatches' = IF mismatches >= strm[k].pending THEN mismatches - strm[k].pending
                     ELSE mismatches
    /\ outFile' = [e \in Entries |-> [outFile[e] EXCEPT !.remaining = @ + WrittenOf(k, e)]]
    /\ strm' = [strm EXCEPT ![k] = [Restarted(k) EXCEPT !.try = 1]]
    /\ UNCHANGED <<job, outDisk, thr, always, asking, declined, allClosed>>

StreamRewind(k) ==
    /\ thr[k].pc = "ready" /\ job.rewinds /\ strm[k].try < MaxTries
    /\ mismatches' = IF mismatches >= strm[k].pending THEN mismatches - strm[k].pending
                     ELSE mismatches
    /\ outFile' = [e \in Entries |-> [outFile[e] EXCEPT !.remaining = @ + WrittenOf(k, e)]]
    /\ strm' = [strm EXCEPT ![k] = Restarted(k)]
    /\ UNCHANGED <<job, outDisk, thr, always, asking, declined, allClosed>>

-----------------------------------------------------------------------------
(* The slices, one after the other *)

\* The part of its slice the worker has to write: in StreamWrite what it holds, in
\* StreamEnd what is not out yet.
FromPos(k) ==
    Max({Spos(k, thr[k].i), IF thr[k].call = "write" THEN strm[k].heldBase ELSE strm[k].flushed})

ToPos(k) == Min({Send(k, thr[k].i), thr[k].to})

\* Mutant: the empty entries wait for the end of the stream.
PassedAtEnd(k) ==
    LET pos == Spos(k, thr[k].i)
    IN /\ thr[k].call = "end" /\ pos <= thr[k].to
       /\ strm[k].ends = "ok" \/ pos < strm[k].produced \/ pos = 0

\* The stream has passed the empty entry.
Passed(k) ==
    LET pos == Spos(k, thr[k].i)
    IN IF thr[k].call = "write" THEN pos < thr[k].to
       ELSE pos <= thr[k].to /\ (strm[k].ends = "ok" \/ pos < strm[k].produced \/ pos = 0)

NextSlice(k) ==
    /\ thr[k].pc = "slice" /\ thr[k].i <= Len(Slices(k))
    /\ thr' = IF Slice(k).len = 0
            THEN IF Passed(k) THEN [thr EXCEPT ![k].pc = "create"] ELSE [thr EXCEPT ![k].i = @ + 1]
            ELSE [thr EXCEPT ![k].pc = IF FromPos(k) < ToPos(k) THEN "create" ELSE "check"]
    /\ UNCHANGED <<job, outFile, outDisk, strm, always, asking, declined, mismatches, allClosed>>

\* A file is closed with its last byte.
Complete(k, left) == left = 0

\* WriteAt, under f.io alone: a complete file that is written again is opened again.
WriteAt(k) ==
    LET e == Ent(k)
        n == ToPos(k) - FromPos(k)
        base == Slice(k).off + FromPos(k) - Spos(k, thr[k].i)
        left == IF n >= outFile[e].remaining THEN 0 ELSE outFile[e].remaining - n
    IN /\ thr[k].pc = "write" /\ ~outFile[e].failed
       /\ outDisk' = [outDisk EXCEPT ![job.path[e]].bytes =
                    [o \in Offsets |-> IF o \in base .. base + n - 1
                                       THEN [entry |-> e, try |-> strm[k].try] ELSE @[o]]]
       /\ outFile' = [outFile EXCEPT ![e].remaining = left, ![e].open = ~Complete(k, left),
                               ![e].closed = Complete(k, left)]
       /\ Goto(k, "check")
       /\ UNCHANGED <<job, strm, always, asking, declined, mismatches, allClosed>>

\* A write that fails, and the ones that are no longer tried after it.
WriteFails(k) ==
    LET e == Ent(k)
    IN /\ thr[k].pc = "write" /\ (outFile[e].failed \/ e \in job.full)
       /\ outFile' = [outFile EXCEPT ![e].failed = TRUE]
       /\ Goto(k, "check")
       /\ UNCHANGED <<job, outDisk, strm, always, asking, declined, mismatches, allClosed>>

\* The slice has passed whole: in StreamWrite only where no failure can take it back.
IsOut(k) ==
    \/ Slice(k).len = 0
    \/ IF thr[k].call = "write" THEN job.policy # "group" /\ strm[k].produced >= Send(k, thr[k].i)
       ELSE thr[k].to >= Send(k, thr[k].i)

Check(k) ==
    LET judged == IsOut(k) /\ thr[k].i \notin strm[k].checked
        bad == IF judged /\ strm[k].try \in Slice(k).bad THEN 1 ELSE 0
    IN /\ thr[k].pc = "check"
       /\ mismatches' = mismatches + bad
       /\ strm' = [strm EXCEPT ![k].checked = IF judged THEN @ \cup {thr[k].i} ELSE @,
                           ![k].pending = IF thr[k].call = "write" THEN @ + bad ELSE @]
       /\ thr' = [thr EXCEPT ![k].pc = "slice", ![k].i = @ + 1]
       /\ UNCHANGED <<job, outFile, outDisk, always, asking, declined, allClosed>>

EndSlices(k) ==
    /\ thr[k].pc = "slice" /\ thr[k].i > Len(Slices(k))
    /\ strm' = [strm EXCEPT ![k].flushed = Max({@, thr[k].to}),
                        ![k].heldBase = IF thr[k].call = "write" THEN thr[k].to ELSE @]
    /\ Goto(k, IF thr[k].call = "write" THEN "ready"
               ELSE IF strm[k].ends # "ok" /\ strm[k].produced < Total(k) THEN "group" ELSE "done")
    /\ UNCHANGED <<job, outFile, outDisk, always, asking, declined, mismatches, allClosed>>

\* The group the cursor stands in when the stream ends short: its first file exists.
EnterGroup(k) ==
    LET g == strm[k].entered + 1
    IN /\ thr[k].pc = "group"
       /\ IF g \in Groups(k) /\ GroupStart(k, g) <= strm[k].produced
          THEN /\ strm' = [strm EXCEPT ![k].entered = g]
               /\ thr' = [thr EXCEPT ![k].pc = "create", ![k].call = "group",
                                 ![k].i = FirstOf(k, g)]
          ELSE Goto(k, "done") /\ UNCHANGED strm
       /\ UNCHANGED <<job, outFile, outDisk, always, asking, declined, mismatches, allClosed>>

\* Finish, when the workers are joined: what is still open is closed.
CloseAll ==
    /\ ~allClosed /\ \A k \in Streams : thr[k].pc = "done"
    /\ outFile' = [e \in Entries |-> [outFile[e] EXCEPT !.open = FALSE, !.closed = @ \/ outFile[e].open]]
    /\ allClosed' = TRUE
    /\ UNCHANGED <<job, outDisk, strm, thr, always, asking, declined, mismatches>>

-----------------------------------------------------------------------------
\* What worker k does of itself, and what it does once somebody answers it.
Worker(k) ==
    \/ CreateDecided(k) \/ Decide(k) \/ DecideByAsking(k) \/ LockAskMu(k)
    \/ StreamBegin(k) \/ (\E n \in 1..MaxChunk : StreamWrite(k, n))
    \/ (\E ends \in {"ok", "fail", "clean"}, p \in 0..Total(k) : StreamEnd(k, ends, p))
    \/ StreamRewind(k)
    \/ NextSlice(k) \/ WriteAt(k) \/ WriteFails(k) \/ Check(k) \/ EndSlices(k) \/ EnterGroup(k)

Answered(k) == SaysYes(k) \/ SaysNo(k)

SinkNext == CloseAll \/ \E k \in Streams : Worker(k) \/ Answered(k)

SinkTerminated == allClosed /\ UNCHANGED sinkVars

SinkSpec == SinkInit /\ [][SinkNext \/ SinkTerminated]_sinkVars

-----------------------------------------------------------------------------
(* Properties *)

\* A file whose question is open or was answered No keeps its old contents, however
\* many workers it is split between.
NoKeepsOld ==
    \A e \in Entries :
        outFile[e].deciding \/ e \in declined =>
            \/ outDisk[job.path[e]].state = "old"
            \/ \E d \in Entries \ {e} : job.path[d] = job.path[e] /\ outFile[d].created

\* How far the current attempt at stream k has written its slice i.
Reached(k, i) ==
    IF /\ thr[k].call \in {"write", "end"} /\ thr[k].pc \notin {"ready", "group", "done"}
       /\ (i < thr[k].i \/ (i = thr[k].i /\ thr[k].pc = "check"))
    THEN Max({strm[k].flushed, thr[k].to}) ELSE strm[k].flushed

Owed(e) ==
    OverStreams([k \in Streams |->
        OverSlices(k, [i \in DOMAIN Slices(k) |->
                          LenIn(k, i, e) - Before(k, i, e, Reached(k, i))])])

Healthy(e) == outFile[e].created /\ outFile[e].writeIt /\ ~outFile[e].cannot /\ ~outFile[e].failed

\* `remaining` counts exactly the bytes a file still waits for, through rewinds and
\* from several workers, and a descriptor is held for those files only.
ClosedWithLastByte ==
    \A e \in Entries :
        Healthy(e) =>
            /\ outFile[e].remaining = Owed(e)
            /\ outFile[e].open => outFile[e].remaining > 0
            /\ outFile[e].remaining = 0 => outFile[e].closed

\* The file was opened: whatever its path held before is gone.
Opened(e) == outFile[e].created /\ outFile[e].writeIt /\ ~outFile[e].cannot

\* Of the entries that are opened at one path the last one stays (-sp, -forceout).
Stays(e) ==
    Healthy(e) /\ \A d \in Entries : job.path[d] = job.path[e] /\ Opened(d) => d <= e

AllOk == allClosed /\ \A k \in Streams : strm[k].ends = "ok"

\* When every stream decodes, every file that may be written and stays at its path
\* holds all of its bytes, each from the last attempt at its stream.
FilesComplete ==
    AllOk =>
        \A k \in Streams : \A i \in 1 .. Len(Slices(k)) :
            LET sl == Slices(k)[i]
            IN Stays(sl.entry) =>
                \A o \in sl.off .. sl.off + sl.len - 1 :
                    outDisk[job.path[sl.entry]].bytes[o] = [entry |-> sl.entry, try |-> strm[k].try]

\* What a job's slices must be for that: those of one file do not overlap, and the
\* files that go to one path lie in one stream, one after the other.
Orderly ==
    \A x \in Cases : \A k, m \in DOMAIN x.streams :
        \A i \in DOMAIN x.streams[k], j \in DOMAIN x.streams[m] :
            LET a == x.streams[k][i]
                b == x.streams[m][j]
            IN x.path[a.entry] = x.path[b.entry] =>
                IF a.entry = b.entry
                THEN (k = m /\ i = j) \/ a.off + a.len <= b.off \/ b.off + b.len <= a.off
                ELSE k = m /\ (a.entry < b.entry => i < j)

\* A failed stream leaves on disk what the original does: under the group policy the
\* whole quanta of the group it failed in and everything before, and otherwise all
\* that was produced; the incremental and the buffered path agree on it.
FailureKeepsUnits ==
    \A k \in Streams :
        thr[k].pc = "done" =>
            strm[k].flushed = IF strm[k].ends = "fail" THEN SafeFlushPoint(k, strm[k].produced)
                            ELSE strm[k].produced

\* The mismatches reported are those of the slices that are out, as the last attempt
\* at their stream decoded them.
MismatchesExact ==
    allClosed =>
        mismatches = OverStreams([k \in Streams |->
            Cardinality({i \in strm[k].checked : strm[k].try \in Slices(k)[i].bad})])
=============================================================================
