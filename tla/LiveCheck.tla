------------------------------ MODULE LiveCheck ------------------------------
(***************************************************************************)
(* The self-check `a` runs while it compresses (sfx_archive.cpp,           *)
(* LiveStreamCheck and LiveDemux, and the way RunAddStoreContainer uses    *)
(* them): every byte that goes to the archive also goes through a demux    *)
(* that cuts it into records and hands each record to the check of its     *)
(* stream, a thread that decodes it.  A check and the writer share a       *)
(* bounded queue: the writer waits while it is full, the check while it is *)
(* empty.                                                                  *)
(*                                                                         *)
(* A section that runs under a check's mutex is one action.  A thread that *)
(* waits on a condition variable sleeps until it is notified (or for no    *)
(* reason at all) and then tests its condition again.                      *)
(*                                                                         *)
(* A record stands for its bytes: the stream it belongs to, its length and *)
(* what decoding it does.  What a stream decodes to is the sequence of its *)
(* good data records, by their place in the archive; two contents are the  *)
(* same when the lengths and CRC-64s the code compares are.                *)
(***************************************************************************)
EXTENDS Sums, Integers, Sequences

CONSTANTS Workers,     \* number of worker streams; stream numbers are 0..Workers-1
          MaxQueued,   \* kMaxQueued, in bytes
          MaxLen,      \* the longest record
          Archives,    \* the archives a run may write: sequences of records
          Want         \* Want[a][s]: what archive a's stream s was made from

LiveStreams == 0 .. Workers - 1

\* codec: the type-11 record of the stream's codec, short: one cut short (quirk
\* 77), data and baddata: a data record that decodes or does not, other: any other
\* type, garbled: a header that does not parse, cut: a record without its end.
Kinds == {"codec", "short", "data", "baddata", "other", "garbled", "cut"}

Record == [stream : LiveStreams, len : 1..MaxLen, kind : Kinds]

\* Stated as an assumption by the module that gives the constants values.
LiveAssumption ==
    /\ Workers \in Nat \ {0} /\ MaxQueued \in Nat \ {0} /\ MaxLen \in Nat \ {0}
    /\ Archives \subseteq Seq(Record)
    /\ Want \in [Archives -> [LiveStreams -> Seq(Nat)]]

VARIABLES archive,     \* the archive this run writes
          left,        \* bytes of it not yet written
          have, next,  \* LiveDemux: bytes in buf_, and the record they begin with
          demuxBad,    \* LiveDemux::bad_
          outBad,      \* the output stream has failed
          wpc,         \* where the writer is
          wAsleep,     \* it sleeps on space_ of the check it feeds
          wk,          \* the check it waits for, once it is through writing
          verdict,     \* what the writer makes of the checks
          after,       \* some stream could not be followed: check after the fact
          q, queued,   \* q_ and queued_ of each check
          done, stop,  \* done_ and stop_
          cpc,         \* where each check's thread is
          cAsleep,     \* it sleeps on ready_
          piece,       \* the record it has popped
          built,       \* its decoder exists
          state,       \* res_.state
          decoded      \* what its records have decoded to

wvars == <<left, have, next, demuxBad, outBad, wpc, wAsleep, wk, verdict, after>>
cvars == <<cpc, cAsleep, piece, built, state, decoded>>
liveVars == <<archive, wvars, q, queued, done, stop, cvars>>

LiveTypeOK ==
    /\ archive \in Archives
    /\ left \in Nat /\ have \in Nat
    /\ next \in 1 .. Len(archive) + 1
    /\ demuxBad \in BOOLEAN /\ outBad \in BOOLEAN
    /\ wpc \in {"write", "route", "feed", "setdone", "notify", "join", "end"}
    /\ wAsleep \in BOOLEAN
    /\ wk \in 0..Workers
    /\ verdict \in {"ok", "failed", "discarded"}
    /\ after \in BOOLEAN
    /\ q \in [LiveStreams -> Seq(1..Len(archive))]
    /\ queued \in [LiveStreams -> Nat]
    /\ done \in [LiveStreams -> BOOLEAN] /\ stop \in [LiveStreams -> BOOLEAN]
    /\ cpc \in [LiveStreams -> {"pop", "decode", "exit"}]
    /\ cAsleep \in [LiveStreams -> BOOLEAN]
    /\ piece \in [LiveStreams -> 0..Len(archive)]
    /\ built \in [LiveStreams -> BOOLEAN]
    /\ state \in [LiveStreams -> {"running", "ok", "failed", "skipped"}]
    /\ decoded \in [LiveStreams -> Seq(1..Len(archive))]

ArchiveBytes(a) == SumBefore([i \in DOMAIN a |-> a[i].len], Len(a) + 1)

LiveInit ==
    /\ archive \in Archives
    /\ left = ArchiveBytes(archive)
    /\ have = 0 /\ next = 1
    /\ demuxBad = FALSE /\ outBad = FALSE
    /\ wpc = "write" /\ wAsleep = FALSE /\ wk = 0
    /\ verdict = "ok" /\ after = FALSE
    /\ q = [s \in LiveStreams |-> <<>>] /\ queued = [s \in LiveStreams |-> 0]
    /\ done = [s \in LiveStreams |-> FALSE] /\ stop = [s \in LiveStreams |-> FALSE]
    /\ cpc = [s \in LiveStreams |-> "pop"] /\ cAsleep = [s \in LiveStreams |-> FALSE]
    /\ piece = [s \in LiveStreams |-> 0] /\ built = [s \in LiveStreams |-> FALSE]
    /\ state = [s \in LiveStreams |-> "running"]
    /\ decoded = [s \in LiveStreams |-> <<>>]

-----------------------------------------------------------------------------
(* The writer: CrcTee hands what was written to LiveDemux::Feed. *)

WriteBytes(n) ==
    /\ wpc = "write" /\ n \in 1..left /\ ~outBad
    /\ left' = left - n /\ have' = have + n
    /\ wpc' = "route"
    /\ UNCHANGED <<archive, next, demuxBad, outBad, wAsleep, wk, verdict, after,
                   q, queued, done, stop, cvars>>

\* The stream fails (the disk, or an exception while the demux is fed): what is
\* still written goes nowhere.
OutputFails ==
    /\ wpc \in {"write", "route", "feed"} /\ ~wAsleep /\ ~outBad
    /\ outBad' = TRUE
    /\ wpc' = "write"
    /\ UNCHANGED <<archive, left, have, next, demuxBad, wAsleep, wk, verdict, after,
                   q, queued, done, stop, cvars>>

\* Everything is written, or nothing more can be: a failed stream discards the
\* file, a demux with bytes left fails the check; the checks are waited for in
\* every case, at the latest by their destructors.
WriteEnd ==
    /\ wpc = "write" /\ (left = 0 \/ outBad)
    /\ verdict' = IF outBad THEN "discarded"
                  ELSE IF have # 0 \/ demuxBad THEN "failed" ELSE "ok"
    /\ wpc' = "setdone"
    /\ UNCHANGED <<archive, left, have, next, demuxBad, outBad, wAsleep, wk, after,
                   q, queued, done, stop, cvars>>

\* LiveDemux::Next: the record at the head of the buffer is all there.
RecordReady ==
    /\ ~demuxBad /\ next <= Len(archive)
    /\ archive[next].kind \notin {"garbled", "cut"}
    /\ have >= archive[next].len

RouteRecord ==
    /\ wpc = "route" /\ RecordReady
    /\ wpc' = "feed"
    /\ UNCHANGED <<archive, left, have, next, demuxBad, outBad, wAsleep, wk, verdict,
                   after, q, queued, done, stop, cvars>>

\* No complete record, or one whose header does not parse: back to writing.
RouteDone ==
    /\ wpc = "route" /\ ~RecordReady
    /\ demuxBad' = (demuxBad \/ (/\ next <= Len(archive)
                                 /\ archive[next].kind = "garbled"
                                 /\ have >= archive[next].len))
    /\ wpc' = "write"
    /\ UNCHANGED <<archive, left, have, next, outBad, wAsleep, wk, verdict, after,
                   q, queued, done, stop, cvars>>

-----------------------------------------------------------------------------
(* LiveStreamCheck::Feed, called with record `next` *)

Target == archive[next].stream

HasRoom(s) == queued[s] < MaxQueued \/ stop[s]

FeedSleep ==
    /\ wpc = "feed" /\ ~wAsleep /\ ~HasRoom(Target)
    /\ wAsleep' = TRUE
    /\ UNCHANGED <<archive, left, have, next, demuxBad, outBad, wpc, wk, verdict, after,
                   q, queued, done, stop, cvars>>

\* The record leaves the demux's buffer; the caller goes on to the next one.
Routed(s) ==
    /\ have' = have - archive[next].len
    /\ next' = next + 1
    /\ wpc' = "route"
    /\ UNCHANGED <<archive, left, demuxBad, outBad, wAsleep, wk, verdict, after, done, stop>>

FeedPush ==
    LET s == Target
    IN /\ wpc = "feed" /\ ~wAsleep /\ HasRoom(s) /\ ~stop[s]
       /\ Routed(s)
       /\ q' = [q EXCEPT ![s] = Append(@, next)]
       /\ queued' = [queued EXCEPT ![s] = @ + archive[next].len]
       /\ cAsleep' = [cAsleep EXCEPT ![s] = FALSE]
       /\ UNCHANGED <<cpc, piece, built, state, decoded>>

FeedDrop ==
    /\ wpc = "feed" /\ ~wAsleep /\ stop[Target]
    /\ Routed(Target)
    /\ UNCHANGED <<q, queued, cvars>>

WriterWakes ==
    /\ wAsleep
    /\ wAsleep' = FALSE
    /\ UNCHANGED <<archive, left, have, next, demuxBad, outBad, wpc, wk, verdict, after,
                   q, queued, done, stop, cvars>>

-----------------------------------------------------------------------------
(* LiveStreamCheck::Wait, for each check in turn, and what is made of it *)

WaitSetDone ==
    /\ wpc = "setdone" /\ wk < Workers
    /\ done' = [done EXCEPT ![wk] = TRUE]
    /\ wpc' = "notify"
    /\ UNCHANGED <<archive, left, have, next, demuxBad, outBad, wAsleep, wk, verdict, after,
                   q, queued, stop, cvars>>

\* notify_all, with the mutex already released
WaitNotify ==
    /\ wpc = "notify"
    /\ cAsleep' = [cAsleep EXCEPT ![wk] = FALSE]
    /\ wpc' = "join"
    /\ UNCHANGED <<archive, left, have, next, demuxBad, outBad, wAsleep, wk, verdict, after,
                   q, queued, done, stop, cpc, piece, built, state, decoded>>

\* Mutant: the decoded bytes are not compared with the bytes read.
JudgedByState(s) ==
    IF verdict # "ok" \/ state[s] \in {"skipped", "ok"} THEN verdict ELSE "failed"

\* What a finished check makes of the verdict: it only counts while all are well.
CheckJudged(s) ==
    IF verdict # "ok" \/ state[s] = "skipped" THEN verdict
    ELSE IF state[s] # "ok" \/ decoded[s] # Want[archive][s] THEN "failed"
    ELSE "ok"

WaitJoin ==
    /\ wpc = "join" /\ cpc[wk] = "exit"
    /\ verdict' = CheckJudged(wk)
    /\ after' = (after \/ (verdict = "ok" /\ state[wk] = "skipped"))
    /\ wk' = wk + 1
    /\ wpc' = "setdone"
    /\ UNCHANGED <<archive, left, have, next, demuxBad, outBad, wAsleep,
                   q, queued, done, stop, cvars>>

WriterEnd ==
    /\ wpc = "setdone" /\ wk = Workers
    /\ wpc' = "end"
    /\ UNCHANGED <<archive, left, have, next, demuxBad, outBad, wAsleep, wk, verdict, after,
                   q, queued, done, stop, cvars>>

-----------------------------------------------------------------------------
(* The thread of check s: Pop, and Run's loop around it *)

PopSleep(s) ==
    /\ cpc[s] = "pop" /\ ~cAsleep[s] /\ q[s] = <<>> /\ ~done[s]
    /\ cAsleep' = [cAsleep EXCEPT ![s] = TRUE]
    /\ UNCHANGED <<archive, wvars, q, queued, done, stop, cpc, piece, built, state, decoded>>

\* A piece is taken and counted; space_ is notified.  A check that has its verdict
\* already takes no further interest in it.
PopTake(s) ==
    LET r == Head(q[s])
    IN /\ cpc[s] = "pop" /\ ~cAsleep[s] /\ q[s] # <<>>
       /\ q' = [q EXCEPT ![s] = Tail(@)]
       /\ queued' = [queued EXCEPT ![s] = @ - archive[r].len]
       /\ wAsleep' = (wAsleep /\ Target # s)
       /\ piece' = [piece EXCEPT ![s] = r]
       /\ cpc' = [cpc EXCEPT ![s] = IF state[s] = "running" THEN "decode" ELSE "pop"]
       /\ UNCHANGED <<archive, left, have, next, demuxBad, outBad, wpc, wk, verdict, after,
                      done, stop, cAsleep, built, state, decoded>>

\* No more pieces: a check that met no trouble is content.
PopEnd(s) ==
    /\ cpc[s] = "pop" /\ ~cAsleep[s] /\ q[s] = <<>> /\ done[s]
    /\ state' = [state EXCEPT ![s] = IF @ = "running" THEN "ok" ELSE @]
    /\ cpc' = [cpc EXCEPT ![s] = "exit"]
    /\ UNCHANGED <<archive, wvars, q, queued, done, stop, cAsleep, piece, built, decoded>>

CheckWakes(s) ==
    /\ cAsleep[s]
    /\ cAsleep' = [cAsleep EXCEPT ![s] = FALSE]
    /\ UNCHANGED <<archive, wvars, q, queued, done, stop, cpc, piece, built, state, decoded>>

\* Mutant: Stop leaves the writer that waits for room asleep.
StopQuiet(s, verdictOfS) ==
    /\ state' = [state EXCEPT ![s] = verdictOfS]
    /\ stop' = [stop EXCEPT ![s] = TRUE]
    /\ q' = [q EXCEPT ![s] = <<>>] /\ queued' = [queued EXCEPT ![s] = 0]
    /\ UNCHANGED wAsleep

\* Stop: the queue is emptied, and a writer that waits for room is let go.
Stop(s, verdictOfS) ==
    /\ state' = [state EXCEPT ![s] = verdictOfS]
    /\ stop' = [stop EXCEPT ![s] = TRUE]
    /\ q' = [q EXCEPT ![s] = <<>>] /\ queued' = [queued EXCEPT ![s] = 0]
    /\ wAsleep' = (wAsleep /\ Target # s)

Kind(s) == archive[piece[s]].kind

DecodeStep(s) ==
    /\ cpc[s] = "decode"
    /\ cpc' = [cpc EXCEPT ![s] = "pop"]
    /\ UNCHANGED <<archive, left, have, next, demuxBad, outBad, wpc, wk, verdict, after,
                   done, cAsleep, piece>>

\* The codec record builds the decoder; a second one is not looked at.
DecodeCodec(s) ==
    /\ DecodeStep(s)
    /\ Kind(s) = "codec" \/ (Kind(s) = "short" /\ built[s])
    /\ built' = [built EXCEPT ![s] = TRUE]
    /\ UNCHANGED <<q, queued, stop, state, decoded, wAsleep>>

DecodeData(s) ==
    /\ DecodeStep(s)
    /\ Kind(s) = "data" /\ built[s]
    /\ decoded' = [decoded EXCEPT ![s] = Append(@, piece[s])]
    /\ UNCHANGED <<q, queued, stop, state, built, wAsleep>>

DecodeOther(s) ==
    /\ DecodeStep(s)
    /\ Kind(s) = "other"
    /\ UNCHANGED <<q, queued, stop, state, built, decoded, wAsleep>>

\* A short codec record, data before the codec record, data that does not decode.
DecodeFails(s) ==
    /\ DecodeStep(s)
    /\ \/ Kind(s) = "short" /\ ~built[s]
       \/ Kind(s) = "data" /\ ~built[s]
       \/ Kind(s) = "baddata"
    /\ Stop(s, "failed")
    /\ UNCHANGED <<built, decoded>>

\* Memory for the record or the decoder runs out, anywhere in the loop's body.
DecodeNoMemory(s) ==
    /\ DecodeStep(s)
    /\ Stop(s, "skipped")
    /\ UNCHANGED <<built, decoded>>

-----------------------------------------------------------------------------
Writer ==
    \/ (\E n \in 1..left : WriteBytes(n)) \/ OutputFails \/ WriteEnd
    \/ RouteRecord \/ RouteDone
    \/ FeedSleep \/ FeedPush \/ FeedDrop
    \/ WaitSetDone \/ WaitNotify \/ WaitJoin \/ WriterEnd

CheckThread(s) ==
    \/ PopSleep(s) \/ PopTake(s) \/ PopEnd(s)
    \/ DecodeCodec(s) \/ DecodeData(s) \/ DecodeOther(s) \/ DecodeFails(s)
    \/ DecodeNoMemory(s)

LiveNext ==
    \/ Writer \/ WriterWakes
    \/ \E s \in LiveStreams : CheckThread(s) \/ CheckWakes(s)

LiveTerminated == wpc = "end" /\ UNCHANGED liveVars

LiveSpec == LiveInit /\ [][LiveNext \/ LiveTerminated]_liveVars

\* Both sides keep running when they can; nobody is owed a wake without a notify.
LiveFairSpec == LiveSpec /\ WF_liveVars(Writer) /\ \A s \in LiveStreams : WF_liveVars(CheckThread(s))

-----------------------------------------------------------------------------
(* Properties *)

IsDataOf(a, s, i) == a[i].stream = s /\ a[i].kind \in {"data", "baddata"}

\* The data records of stream s among the first records, by how many these are.
DataUpTo(a, s) ==
    LET data[n \in 0 .. Len(a)] ==
            IF n = 0 THEN <<>>
            ELSE IF IsDataOf(a, s, n) THEN Append(data[n - 1], n) ELSE data[n - 1]
    IN data

DataOf(s) == DataUpTo(archive, s)[Len(archive)]

\* A record no reader could use: it does not parse or decode, or needs a decoder
\* that no codec record before it describes.
Damaged(i) ==
    \/ archive[i].kind \in {"baddata", "garbled", "cut"}
    \/ /\ archive[i].kind \in {"short", "data"}
       /\ \A j \in 1 .. i - 1 :
            ~(archive[j].stream = archive[i].stream /\ archive[j].kind = "codec")

\* "ok" from the check made during the compression is a promise about the file:
\* every record of it went through, none is damaged, and every stream decoded, in
\* the file's order, to all of its data and to what was read.
OkMeansDecoded ==
    wpc = "end" /\ verdict = "ok" /\ ~after =>
        /\ next = Len(archive) + 1 /\ ~outBad
        /\ \A i \in 1..Len(archive) : ~Damaged(i)
        /\ \A s \in LiveStreams : decoded[s] = DataOf(s) /\ decoded[s] = Want[archive][s]

\* No false alarm: the check fails an archive only when a record of it is damaged
\* or its data are not what was read.
FailedMeansDamaged ==
    wpc = "end" /\ verdict = "failed" =>
        \/ \E i \in 1..Len(archive) : Damaged(i)
        \/ \E s \in LiveStreams : DataOf(s) # Want[archive][s]

\* "ok" from the checks means that every stream decodes to what was read, and the
\* checks fail an archive only when something is wrong with it.
VerdictRight == OkMeansDecoded /\ FailedMeansDamaged

\* Every compression comes to an end, however the writer and the checks take
\* turns and whichever of them gives up: the writer is never left waiting for
\* room, nor a check for a record.
WriterEnds == <>(wpc = "end" /\ \A s \in LiveStreams : cpc[s] = "exit")
=============================================================================
