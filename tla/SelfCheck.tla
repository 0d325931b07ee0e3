----------------------------- MODULE SelfCheck -----------------------------
(***************************************************************************)
(* The check `a` makes of an archive before it takes its name.             *)
(*                                                                         *)
(* An archive of -cn, -cf, -cF, -cd or -cD is decoded as `t` would decode  *)
(* it, and what its entries decoded to is compared with what was read.     *)
(* One of -co, -cO or -cc has been followed while it was written: each     *)
(* stream's decoder says how much it produced and with what checksum; what *)
(* is left is to compare the file with what was written and its list with  *)
(* what was read.  An archive one of whose streams could not be followed   *)
(* is decoded like the others.                                             *)
(*                                                                         *)
(* A byte is <<content, position>>; a checksum is the sequence of the      *)
(* bytes it was taken over.  Files of one name are one file named twice.   *)
(* Left out: inputs without any byte, files of one name from several       *)
(* directories (-sp), running out of memory while reading the archive, and *)
(* compressing (a stream decodes to what its data record holds).           *)
(***************************************************************************)
EXTENDS ContainerReader, StreamLayout, TLC

CONSTANTS Inputs,       \* the runs: files, compressors, kind of codec, what goes wrong
          OffsetLimit,  \* 2^32: the reader takes four bytes of an offset
          TableMax      \* names that fit one table record

\* The writer's own errors, and what may happen to the file afterwards.
Defects == {"none", "data", "name", "sum", "offset", "twice"}
Accidents == {"none", "flip", "cut", "name"}

\* What is assumed of the constants.
SelfCheckAssumption ==
    /\ {OffsetLimit, TableMax} \subseteq Nat \ {0}
    /\ \A x \in Inputs :
          /\ TotalSize(x.files) > 0
          /\ x.workers \in Nat \ {0}
          /\ x.kind \in {"store", "early", "late"}
          /\ x.sums \in BOOLEAN
          /\ x.defect \in Defects /\ x.accident \in Accidents
          /\ x.lost \subseteq 0..(x.workers - 1)
          /\ \A f, g \in DOMAIN x.files :
                x.files[f].name = x.files[g].name => x.files[f] = x.files[g]

VARIABLES
    input,     \* the run
    expected,  \* EncodeCodec::expected of each stream: the pieces as they were read
    archive,   \* the records that went through the tee
    disk,      \* the records on the disk
    ctx,       \* what the reader has parsed
    got,       \* the recorder's items
    decoded,   \* the reader ended without an error
    pc,        \* what is done next
    after,     \* the archive is decoded once it is written
    verdict    \* check.verdict

vars == <<input, expected, archive, disk, ctx, got, decoded, pc, after, verdict>>

Files == input.files
Streams == 0..(input.workers - 1)
Parallel == input.workers > 1

\* A name no file has.
NoName == 0

-----------------------------------------------------------------------------
(* Writing. *)

Byte(content, n) == <<content, n>>

\* A byte no file has.
BadByte == Byte(NoName, 0)

\* The pieces each stream names.
PiecesOf == [k \in Streams |-> MetOf(Files, Job(Files, input.workers, k, TRUE))]

BytesOf(p) == [n \in 1..p.len |-> Byte(Files[p.src].content, p.off + n - 1)]

Named(p) == [src |-> Files[p.src].name, len |-> p.len, off |-> p.off, slice |-> p.slice]

\* What LegacyWriteStoreStream notes of each piece it has read.
ItemsOf(ps) ==
    [i \in DOMAIN ps |-> [name |-> Files[ps[i].src].name, off |-> ps[i].off, len |-> ps[i].len,
                          crc |-> BytesOf(ps[i])]]

Joined(seqs) == FoldLeft(LAMBDA a, s: a \o s, <<>>, seqs)

\* A stream's records, all of one block.
RecordsOf(k, ps) ==
    LET bytes == [i \in DOMAIN ps |-> BytesOf(ps[i])]
        records == NameRecords([i \in DOMAIN ps |-> Named(ps[i])], TableMax)
                   \o (IF input.sums THEN <<[type |-> "sums", body |-> bytes]>> ELSE <<>>)
                   \o <<[type |-> "data", body |-> Joined(bytes)]>>
    IN IF ps = <<>> THEN <<>>
       ELSE [i \in DOMAIN records |->
                [stream |-> k, type |-> records[i].type, body |-> records[i].body]]

Written(pieces) ==
    LET jobs == Jobs(Files, input.workers)
    IN Joined([i \in DOMAIN jobs |-> RecordsOf(jobs[i].stream, pieces[jobs[i].stream])])

\* The last record of a type, changed; an archive without one stays as it is.
Changing(ar, type, Change(_)) ==
    LET at == {i \in DOMAIN ar : ar[i].type = type}
    IN IF at = {} THEN ar ELSE [ar EXCEPT ![Max(at)].body = Change(@)]

Defective(ar) ==
    CASE input.defect = "none" -> ar
      [] input.defect = "data" -> Changing(ar, "data", LAMBDA b: [b EXCEPT ![1] = BadByte])
      [] input.defect = "name" -> Changing(ar, "table", LAMBDA b: [b EXCEPT ![1].src = NoName])
      [] input.defect = "sum" -> Changing(ar, "sums", LAMBDA b: [b EXCEPT ![1] = <<BadByte>>])
      [] input.defect = "offset" -> Changing(ar, "offset", LAMBDA b: b + 1)
      [] input.defect = "twice" ->
            LET first == SelectSeq(ar, LAMBDA r: r.type = "table")[1]
            IN <<first>> \o ar

\* SelfCheckInjectFault's damages: a byte, the end, a name.
Struck(ar) ==
    CASE input.accident = "none" -> ar
      [] input.accident = "flip" -> Changing(ar, "data", LAMBDA b: [b EXCEPT ![Len(b)] = BadByte])
      [] input.accident = "cut" -> Changing(ar, "data", LAMBDA b: Front(b))
      [] input.accident = "name" -> Changing(ar, "table", LAMBDA b: [b EXCEPT ![1].src = NoName])

-----------------------------------------------------------------------------
(* Reading.  ctx holds what the reader has parsed: of each stream the pieces it names, *)
(* the first one of its last table and its bytes.                                      *)

\* ParseLegacyParallelStreams takes four of an offset's eight bytes.
Seen(ar) == [i \in DOMAIN ar |-> IF ar[i].type = "offset"
                                 THEN [ar[i] EXCEPT !.body = @ % OffsetLimit] ELSE ar[i]]

\* What the stream as a whole is given by its last offset record, and by its last
\* checksum record that holds one checksum.
LastOffset(ar, s) ==
    LET given == SelectSeq(OfStream(ar, s), LAMBDA r: r.type = "offset")
    IN IF given = <<>> THEN 0 ELSE Last(given).body

LastSum(ar, s) ==
    LET given == SelectSeq(OfStream(ar, s), LAMBDA r: r.type = "sums" /\ Len(r.body) = 1)
    IN IF given = <<>> THEN <<>> ELSE Last(given).body

Parsed(ar) ==
    [s \in StreamsOf(ar) |->
        [slices |-> ReadStream(ar, s).slices, first |-> ReadStream(ar, s).first,
         bytes |-> ReadStream(ar, s).bytes,
         off |-> LastOffset(ar, s), sum |-> LastSum(ar, s)]]

Slices == UNION {{ctx[s].slices[i] : i \in DOMAIN ctx[s].slices} : s \in DOMAIN ctx}

NamesRead == {sl.src : sl \in Slices}

SlicesOf(n) == Joined([k \in 1..input.workers |->
    IF k - 1 \in DOMAIN ctx THEN SelectSeq(ctx[k - 1].slices, LAMBDA sl: sl.src = n) ELSE <<>>])

\* Mutant: a name's size is the one a table gave it, and not that of all its tables.
SizeUnsummed(n) == Max({sl.len : sl \in {x \in Slices : x.src = n}})

\* The entries of one name together: a parallel archive has one for it, with the sizes of
\* all tables added up, and the sizes of several are added up to be compared.
SizeOf(n) == FoldLeft(LAMBDA a, sl: a + sl.len, 0, SlicesOf(n))

\* A stream's bytes are what its tables say.
Whole(st) == Len(st.bytes) = PosIn(st.slices, Len(st.slices) + 1)

\* DisjointCover: the pieces of every name meet end to end and fill it.
Covered ==
    \A n \in NamesRead :
        LET of == SlicesOf(n)
            Ends(i) == of[i].off + of[i].len
        IN /\ \A b \in 0..(SizeOf(n) - 1) :
                 Cardinality({i \in DOMAIN of : of[i].off <= b /\ b < Ends(i)}) = 1
           /\ \A i \in DOMAIN of : of[i].len = 0 \/ Ends(i) <= SizeOf(n)

Item(name, off, len, bytes, sum) ==
    [name |-> name, off |-> off, len |-> len, crc |-> bytes,
     complete |-> Len(bytes) = len, good |-> sum = <<>> \/ sum = <<bytes>>]

\* n bytes of a stream from one on, as many as there are.
Taken(st, from, n) == SubSeq(st.bytes, from + 1, Min({from + n, Len(st.bytes)}))

\* The decoded pieces of a sequential archive, or of a parallel one of several names.
EachPiece(st) ==
    [i \in DOMAIN st.slices |->
        LET sl == st.slices[i]
        IN Item(sl.src, sl.off, sl.len, Taken(st, PosIn(st.slices, i), sl.len),
                IF sl.hasSum THEN <<sl.sum>> ELSE <<>>)]

\* The one piece a stream is taken for when the archive has one name: as long as the
\* first entry of its last table, and where its last offset says.
OnePiece(st) ==
    LET len == st.slices[st.first].len
    IN Item(st.slices[1].src, st.off, len, Taken(st, 0, len), st.sum)

\* A parallel archive of one name is not asked whether its pieces fill it.
OneName == Parallel /\ Cardinality(NamesRead) = 1

Decodes ==
    IF OneName
    THEN \A s \in DOMAIN ctx :
            LET it == OnePiece(ctx[s])
            IN /\ it.off + it.len <= SizeOf(it.name)
               /\ input.kind = "store" \/ Len(ctx[s].bytes) = it.len
    ELSE /\ \A s \in DOMAIN ctx : input.kind = "store" \/ Whole(ctx[s])
         /\ Parallel => Covered

\* What decoding leaves with the recorder.
Items ==
    Joined([k \in 1..input.workers |->
        IF k - 1 \notin DOMAIN ctx THEN <<>>
        ELSE IF OneName THEN <<OnePiece(ctx[k - 1])>> ELSE EachPiece(ctx[k - 1])])

-----------------------------------------------------------------------------
(* nz_selfcheck.h: runs. *)

Before(a, b) == a.off < b.off \/ (a.off = b.off /\ a.len < b.len)

\* Mutant: only the run opened last can grow.
JoinLast(runs, it) ==
    IF runs # <<>> /\ it.len # 0 /\ Last(runs).off + Last(runs).len = it.off
    THEN [runs EXCEPT ![Len(runs)].len = @ + it.len, ![Len(runs)].crc = @ \o it.crc]
    ELSE Append(runs, [off |-> it.off, len |-> it.len, crc |-> it.crc])

\* One item more: it extends the first run that ends where it starts, or opens one.
Join(runs, it) ==
    LET at == {i \in DOMAIN runs : runs[i].off + runs[i].len = it.off}
    IN IF at = {} \/ it.len = 0
       THEN Append(runs, [off |-> it.off, len |-> it.len, crc |-> it.crc])
       ELSE [runs EXCEPT ![Min(at)].len = @ + it.len, ![Min(at)].crc = @ \o it.crc]

ItemNames(items) == {items[i].name : i \in DOMAIN items}

Runs(items) ==
    [n \in ItemNames(items) |->
        SortSeq(FoldLeft(Join, <<>>, SortSeq(SelectSeq(items, LAMBDA it: it.name = n), Before)),
                Before)]

-----------------------------------------------------------------------------
(* The checks. *)

Expected == Joined(expected)

WantSize(n) ==
    FoldLeft(LAMBDA a, it: IF it.name = n THEN a + it.len ELSE a, 0, Expected)

\* The same names, each with as many bytes as were read.
ListRight ==
    /\ NamesRead = ItemNames(Expected)
    /\ \A n \in NamesRead : SizeOf(n) = WantSize(n)

\* SelfCheckWrittenArchive, once the archive is decoded.
WrittenRight ==
    /\ decoded
    /\ \A i \in DOMAIN got : got[i].good /\ got[i].complete
    /\ ListRight
    /\ Runs(Expected) = Runs(got)

\* The checksum the list carries for a name: that of its one piece, if it has one.
ListedSum(n) ==
    LET of == SlicesOf(n)
    IN IF Len(of) = 1 /\ of[1].hasSum THEN <<of[1].sum>> ELSE <<>>

\* SelfCheckStructure, once the archive is open.
StructureRight ==
    /\ disk = archive
    /\ ListRight
    /\ \A n \in NamesRead :
          LET of == SelectSeq(Expected, LAMBDA it: it.name = n)
          IN ListedSum(n) # <<>> /\ Len(of) = 1 /\ of[1].off = 0 => ListedSum(n) = <<of[1].crc>>

\* Mutant: how much a stream decodes to is compared, and not what.
LengthFollowed(k) ==
    Len(ReadStream(archive, k).bytes) = FoldLeft(LAMBDA n, it: n + it.len, 0, expected[k + 1])

\* What a stream's decoder produced while it was written is what was read.
Followed(k) == ReadStream(archive, k).bytes = Joined([i \in DOMAIN expected[k + 1] |-> expected[k + 1][i].crc])

-----------------------------------------------------------------------------
Init ==
    /\ input \in Inputs
    /\ expected = <<>> /\ archive = <<>> /\ disk = <<>>
    /\ ctx = <<>> /\ got = <<>> /\ decoded = FALSE
    /\ pc = "write"
    /\ after = (input.kind # "late")
    /\ verdict = "none"

Write ==
    /\ pc = "write"
    /\ \E pieces \in {PiecesOf} :
          /\ expected' = [k \in 1..input.workers |-> ItemsOf(pieces[k - 1])]
          /\ \E ar \in {Written(pieces)} : archive' = Defective(ar)
    /\ disk' = Struck(archive')
    /\ pc' = IF after THEN "open" ELSE "follow"
    /\ UNCHANGED <<input, ctx, got, decoded, after, verdict>>

\* The streams' decoders are waited for; one that ran out of memory has no verdict.
Follow ==
    /\ pc = "follow"
    /\ IF \A k \in Streams \ input.lost : Followed(k)
       THEN after' = (input.lost # {}) /\ UNCHANGED verdict
       ELSE verdict' = "failed" /\ UNCHANGED after
    /\ pc' = "open"
    /\ UNCHANGED <<input, expected, archive, disk, ctx, got, decoded>>

\* The reader opens the archive.  (One that is refused before is opened here too, to
\* tell whether that was right.)
Open ==
    /\ pc = "open"
    /\ \E ar \in {Seen(disk)} : ctx' = Parsed(ar)
    /\ pc' = IF verdict = "none" /\ ~after THEN "compare" ELSE "decode"
    /\ UNCHANGED <<input, expected, archive, disk, got, decoded, after, verdict>>

Compare ==
    /\ pc = "compare"
    /\ verdict' = IF StructureRight THEN "ok" ELSE "failed"
    /\ pc' = "decode"
    /\ UNCHANGED <<input, expected, archive, disk, ctx, got, decoded, after>>

\* The archive is decoded: to check it, or, when it has been checked, to use it.
Decode ==
    /\ pc = "decode"
    /\ got' = Items
    /\ decoded' = Decodes
    /\ pc' = IF verdict = "none" THEN "judge" ELSE "done"
    /\ UNCHANGED <<input, expected, archive, disk, ctx, after, verdict>>

Judge ==
    /\ pc = "judge"
    /\ verdict' = IF WrittenRight THEN "ok" ELSE "failed"
    /\ pc' = "done"
    /\ UNCHANGED <<input, expected, archive, disk, ctx, got, decoded, after>>

Next == Write \/ Follow \/ Open \/ Compare \/ Decode \/ Judge

Terminated == pc = "done" /\ UNCHANGED vars

Spec == Init /\ [][Next \/ Terminated]_vars

-----------------------------------------------------------------------------
(* Properties *)

TypeOK ==
    /\ input.kind \in {"store", "early", "late"}
    /\ Len(expected) \in {0, input.workers}
    /\ DOMAIN ctx \subseteq Streams
    /\ decoded \in BOOLEAN
    /\ pc \in {"write", "follow", "open", "compare", "decode", "judge", "done"}
    /\ after \in BOOLEAN
    /\ verdict \in {"none", "ok", "failed"} /\ (pc = "done" => verdict # "none")

\* Extracting the archive gives every file back: nothing is reported, and each name
\* is written the bytes of the file and no others.
ReadsBack ==
    LET Out(n) == UNION {{<<got[i].off + b - 1, got[i].crc[b]>> : b \in DOMAIN got[i].crc} :
                            i \in {j \in DOMAIN got : got[j].name = n}}
    IN /\ decoded
       /\ \A i \in DOMAIN got : got[i].good /\ got[i].complete
       /\ NamesRead = {Files[f].name : f \in DOMAIN Files}
       /\ \A f \in DOMAIN Files :
             Out(Files[f].name) = {<<b, Byte(Files[f].content, b)>> : b \in 0..(Files[f].size - 1)}

\* An archive the check lets pass reads back.  (README.md:149: the check decodes "the
\* WHOLE archive they have just written [...] and compare every entry with what was
\* read from disk: the same names, the same sizes, the same CRC-64 of the content".)
OkReadsBack == (pc = "done" /\ verdict = "ok") => ReadsBack

OwnNames == \A f, g \in DOMAIN Files : Files[f].name = Files[g].name => f = g

NoneCut == \A i \in DOMAIN archive : archive[i].type # "offset"

Near == \A f \in DOMAIN Files : Files[f].size <= OffsetLimit

\* An archive the check lets pass reads back if it was decoded after it was written,
\* whatever its files, the writer's errors and what befell it; and one that was
\* followed does if no file is named twice or cut beyond the reach of an offset and
\* the writer's error is none in the place or the checksum of a piece of a file.
CheckedReadsBack ==
    /\ pc = "done" /\ verdict = "ok"
    /\ after \/ (OwnNames /\ Near /\ (input.defect \in {"offset", "sum"} => NoneCut))
    => ReadsBack

\* The check refuses no archive that is as it was written and reads back.
SoundKept ==
    (pc = "done" /\ verdict = "failed" /\ input.defect = "none" /\ disk = archive) => ~ReadsBack

\* Two lists of pieces of the same files have the same runs, however many compressors
\* the files were shared between; and they tell a file from one with another byte.
\* (nz_selfcheck.h: "Two sides describe the same content exactly when their runs
\* agree.")
RunsExact ==
    LET Cut(w) == Joined([k \in 1..w |-> ItemsOf(MetOf(Files, Job(Files, w, k - 1, TRUE)))])
        Spoilt(items) == [items EXCEPT ![Len(items)].crc = [@ EXCEPT ![1] = BadByte]]
    IN pc = "write" =>
          \A whole \in {Cut(1)}, cut \in {Cut(input.workers)} :
              /\ Runs(cut) = Runs(whole)
              /\ Last(whole).len > 0 => Runs(cut) # Runs(Spoilt(whole))
=============================================================================
