------------------------------ MODULE Container ------------------------------
(***************************************************************************)
(* Writing an archive: RunAddStoreContainer on one thread, and the writer  *)
(* of one compressor's stream, LegacyWriteStoreStream.                     *)
(*                                                                         *)
(* The bytes of all files, laid end to end, are split evenly between the   *)
(* compressors; each writes its share as a stream.  The streams go out in  *)
(* a fixed order: the last one's header, then the streams after the first, *)
(* then the first one, each in full.  A stream is written in pieces of     *)
(* what its codec takes at once, every piece preceded by the table, modes  *)
(* and checksums its reads produced.                                       *)
(*                                                                         *)
(* A byte of file f is <<f, position>>; a checksum is the sequence of the  *)
(* bytes it was taken over, so two checksums agree exactly when the bytes  *)
(* do.  Sizes are in units of the constants below.  Left out: compressing  *)
(* a piece (ReadStream takes DATA back as it was), dates, owners, the      *)
(* status lines and the cap of 64 KB on one read.                          *)
(***************************************************************************)
EXTENDS ContainerReader, StreamLayout

CONSTANTS Inputs,    \* the runs: files, compressors, codec and read-ahead
          Window,    \* the store's block
          PieceMax,  \* what a compressing codec reads at once (1 MB)
          PieceBound,\* the file-boundary rule of the lzpf and lzhd readers
          Threshold, \* what the optimum and CM codecs hold before they code
          TableMax   \* names that fit one table record (32768 bytes)

Codecs == {"store", "pieces", "stream"}   \* p0 = 0, 1..4 and 5..7

FileRecord == [size : Nat, mode : Nat, ghost : BOOLEAN]

\* What is assumed of the constants.
ConstantsAssumption ==
    /\ {Window, PieceMax, PieceBound, Threshold, TableMax} \subseteq Nat \ {0}
    /\ Threshold <= PieceMax
    /\ \A x \in Inputs : /\ x.files \in Seq(FileRecord)
                         /\ x.workers \in Nat \ {0}
                         /\ x.codec \in Codecs
                         /\ x.ahead \in Nat

VARIABLES
    input,      \* the run
    archive,    \* the records written
    todo,       \* the streams still to write: [stream, header, begin, end, last]
    pc,         \* what the writer does next
    met,        \* the stream's pieces in reading order, ghosts included
    cur, off,   \* the reading cursor: a piece of met, a position in it
    budget,     \* ghost_budget: bytes of an unreadable file still to replace
    spent,      \* budget_end: they just ran out
    ahead,      \* bytes read and not yet handed to the codec
    block,      \* the piece handed to the codec
    metStart,   \* the cursor when this piece's reading began
    announced, summed,  \* the pieces named, and checksummed, so far
    sums,       \* the checksum of each piece, <<>> until it is read
    written,    \* bytes handed to the codec
    named, ended, \* the pieces whose records wait: <<first, last>>, last < first for none
    held,       \* bytes the stream codecs have taken and not coded
    gathered    \* those of them already in the block they are cutting

reader == <<met, cur, off, budget, spent, ahead, metStart, sums>>
coder == <<block, written, held, gathered>>
records == <<announced, summed, named, ended>>
vars == <<input, archive, todo, pc, reader, coder, records>>

Files == input.files

Chunked == input.codec # "store"
Streaming == input.codec = "stream"
Reading == input.ahead > 0 /\ Streaming    \* a reader thread keeps a lead

IsGhost(p) == Files[p.src].ghost
Pieces == SelectSeq(met, LAMBDA p: ~IsGhost(p))
Total == PosIn(Pieces, Len(Pieces) + 1)

\* The entry's number in Pieces.
PieceOf(m) == Len(SelectSeq(SubSeq(met, 1, m), LAMBDA p: ~IsGhost(p)))

-----------------------------------------------------------------------------
(* The records of a piece. *)

\* Mutant: an empty range that starts at the first piece, so that growing it takes
\* in every piece from there: the defect flush_pending_meta's comment tells of.
NothingAtStart == <<1, 0>>

Nothing == <<Len(met) + 1, 0>>

\* A range grown to hold a set of pieces.
Grow(range, ks) ==
    IF ks = {} THEN range
    ELSE <<Min(ks \cup {range[1]}), Max(ks \cup {range[2]})>>

Record(type, body) == [stream |-> Head(todo).stream, type |-> type, body |-> body]

\* Modes are left out of a block whose files all have the default one.
ModeRecords(ps) ==
    IF \A i \in DOMAIN ps : Files[ps[i].src].mode = DefaultMode THEN <<>>
    ELSE <<Record("modes", [i \in DOMAIN ps |-> Files[ps[i].src].mode])>>

\* LegacyEmitPieceMetadata: some pieces named, some checksummed.
PieceMetadata(name, end, ck) ==
    LET ps == SubSeq(Pieces, name[1], name[2])
        cs == SubSeq(ck, end[1], end[2])
        names == NameRecords(ps, TableMax)
    IN (IF ps = <<>> THEN <<>>
        ELSE [i \in DOMAIN names |-> Record(names[i].type, names[i].body)] \o ModeRecords(ps))
       \o (IF cs = <<>> THEN <<>> ELSE <<Record("sums", cs)>>)

Header(stream) == [stream |-> stream, type |-> "codec", body |-> <<>>]

-----------------------------------------------------------------------------
(* Reading. *)

\* pass_empty stops at the next entry with bytes to read.
PassedTo(m) ==
    Min({n \in m..Len(met) : met[n].len > 0} \cup {Len(met) + 1})

\* The first unreadable file passed leaves its size as a budget to fill.
BudgetPast(m) ==
    LET ghosts == {n \in m..(PassedTo(m) - 1) : IsGhost(met[n]) /\ met[n].planned > 0}
    IN IF ~Chunked \/ budget # 0 \/ ghosts = {} THEN budget ELSE met[Min(ghosts)].planned

\* An empty file has the checksum of no bytes.
SumsPast(m) ==
    [k \in DOMAIN sums |->
        IF \E n \in m..(PassedTo(m) - 1) : ~IsGhost(met[n]) /\ PieceOf(n) = k
        THEN <<<<>>>> ELSE sums[k]]

NextSize(m) ==
    LET full == {n \in m..Len(met) : met[n].planned > 0}
    IN IF full = {} THEN 0 ELSE met[Min(full)].planned

LenBefore(m) == IF m > 1 THEN met[m - 1].len ELSE 0

\* The file-boundary rule: after a large file, or before one, the piece ends.
EndsPiece(next, lastLen) ==
    ~Streaming /\ (lastLen >= PieceBound \/ NextSize(next) > PieceBound)

StopsReading ==
    /\ Chunked
    /\ ahead # <<>>
    /\ (off = 0 /\ budget = 0) \/ spent
    /\ IF off # 0 THEN EndsPiece(cur + 1, met[cur].len)
                  ELSE EndsPiece(cur, LenBefore(cur))

Held == Len(held) - gathered
Want == Min({IF Streaming THEN PieceMax - Held ELSE IF Chunked THEN PieceMax ELSE Window,
             Total - written})
Limit == IF Reading THEN Min({Total - written, Want + input.ahead}) ELSE Want

MayRead == /\ pc = "read"
           /\ Len(ahead) < Limit
           /\ cur <= Len(met)
           /\ ~StopsReading

\* The next bytes of the entry under the cursor, entries without any passed.  What
\* is asked for never exceeds what is left, so there is such an entry: the break at
\* the end of the list is dead code, and a run that came there would deadlock here.
ReadMore ==
    LET m == PassedTo(cur)
        b == BudgetPast(cur)
        n == Min({met[m].len - off, Limit - Len(ahead)} \cup (IF b = 0 THEN {} ELSE {b}))
        whole == off + n = met[m].len
        Byte(i) == <<met[m].src, met[m].off + i>>
    IN /\ MayRead
       /\ m <= Len(met)
       /\ ahead' = ahead \o [i \in 1..n |-> Byte(off + i - 1)]
       /\ sums' = IF whole
                  THEN [SumsPast(cur) EXCEPT ![PieceOf(m)] =
                           <<[i \in 1..met[m].len |-> Byte(i - 1)]>>]
                  ELSE SumsPast(cur)
       /\ cur' = IF whole THEN m + 1 ELSE m
       /\ off' = IF whole THEN 0 ELSE off + n
       /\ budget' = IF b = 0 THEN 0 ELSE b - n
       /\ spent' = (b # 0 /\ b = n)
       /\ UNCHANGED <<input, archive, todo, pc, met, metStart, coder, records>>

\* A file that has become shorter: the compressor declines.
ReadFails ==
    /\ MayRead
    /\ PassedTo(cur) <= Len(met)
    /\ pc' = "declined"
    /\ UNCHANGED <<input, archive, todo, reader, coder, records>>

\* The piece is full, or the reader stopped: the codec gets it.
TakePiece ==
    LET n == Min({Want, Len(ahead)})
        passes == ~Chunked \/ (off = 0 /\ ~EndsPiece(cur, LenBefore(cur)))
    IN /\ pc = "read"
       /\ ~MayRead
       /\ block' = SubSeq(ahead, 1, n)
       /\ ahead' = SubSeq(ahead, n + 1, Len(ahead))
       /\ cur' = IF passes THEN PassedTo(cur) ELSE cur
       /\ budget' = IF passes THEN BudgetPast(cur) ELSE budget
       /\ sums' = IF passes THEN SumsPast(cur) ELSE sums
       /\ spent' = FALSE
       /\ pc' = "name"
       /\ UNCHANGED <<input, archive, todo, met, off, metStart, written, held, gathered, records>>

-----------------------------------------------------------------------------
(* Naming, checksumming and coding a piece. *)

BlockEnd == written + Len(block)

\* The pieces the reads of this block went through.
Consumed == {PieceOf(m) : m \in {n \in metStart..(IF off # 0 THEN cur ELSE cur - 1) :
                                    n <= Len(met) /\ ~IsGhost(met[n])}}

\* The pieces that start in this block: what was read for it, or, in a store,
\* what lies in it, an empty file at its end included.
Starting ==
    {k \in DOMAIN Pieces \ announced :
        IF Chunked THEN Consumed # {} /\ Min(Consumed) <= k /\ k <= Max(Consumed)
        ELSE \/ PosIn(Pieces, k) < BlockEnd
             \/ Pieces[k].len = 0 /\ PosIn(Pieces, k) <= BlockEnd /\ cur > 1}

\* Mutant: a piece that ends exactly where the block ends waits for the next.
EndingLate ==
    {k \in (announced \cup Starting) \ summed :
        PosIn(Pieces, k) + Pieces[k].len <
            BlockEnd + (IF Reading THEN Len(ahead) ELSE 0)}

\* The pieces that end in it, or, with a reader thread, in what it has read.
Ending ==
    {k \in (announced \cup Starting) \ summed :
        PosIn(Pieces, k) + Pieces[k].len <=
            BlockEnd + (IF Reading THEN Len(ahead) ELSE 0)}

\* The stream codecs' records wait for the next data; the others' go out.
NamePiece ==
    /\ pc = "name"
    /\ announced' = announced \cup Starting
    /\ summed' = summed \cup Ending
    /\ IF Streaming
       THEN /\ named' = Grow(named, Starting)
            /\ ended' = Grow(ended, Ending)
            /\ UNCHANGED archive
       ELSE /\ archive' = archive \o PieceMetadata(Grow(Nothing, Starting),
                                                   Grow(Nothing, Ending), sums)
            /\ UNCHANGED <<named, ended>>
    /\ pc' = "code"
    /\ UNCHANGED <<input, todo, reader, coder>>

\* The loop over the pieces: another one, or the stream is read.
AfterPiece == /\ written' = BlockEnd
              /\ block' = <<>>
              /\ metStart' = cur
              /\ pc' = IF BlockEnd < Total THEN "read" ELSE "flush"

CodePiece ==
    /\ pc = "code"
    /\ ~Streaming
    /\ archive' = Append(archive, Record("data", block))
    /\ AfterPiece
    /\ UNCHANGED <<input, todo, met, cur, off, budget, spent, ahead, sums, held,
                   gathered, records>>

\* CoBlockFeeder: with Threshold bytes it cuts blocks, where the segmenter says,
\* until it holds fewer; what it has gathered of an unfinished block does not count.
Cuts(h, g) ==
    IF Len(h) - g < Threshold THEN {<<0, g>>}
    ELSE {<<n, rest>> \in (0..Len(h)) \X (0..Len(h)) :
             /\ n + rest <= Len(h)
             /\ Len(h) - n - rest < Threshold
             /\ n = 0 => rest = Len(h)}

\* The data records of a cut, behind the records that waited for them.
FlushPending == PieceMetadata(named, ended, sums)

CodeStream ==
    /\ pc = "code"
    /\ Streaming
    /\ LET h == held \o block
       IN \E c \in Cuts(h, gathered) :
            /\ held' = SubSeq(h, c[1] + 1, Len(h))
            /\ gathered' = c[2]
            /\ IF c[1] = 0 THEN UNCHANGED <<archive, named, ended>>
               ELSE /\ archive' = archive \o FlushPending
                                  \o <<Record("data", SubSeq(h, 1, c[1]))>>
                    /\ named' = Nothing
                    /\ ended' = Nothing
    /\ AfterPiece
    /\ UNCHANGED <<input, todo, met, cur, off, budget, spent, ahead, sums, announced, summed>>

\* The end of a stream: a stream codec codes what it holds.
FlushStream ==
    /\ pc = "flush"
    /\ IF Streaming
       THEN /\ archive' = archive \o FlushPending
                          \o (IF held = <<>> THEN <<>> ELSE <<Record("data", held)>>)
            /\ held' = <<>>
            /\ gathered' = 0
            /\ named' = Nothing
            /\ ended' = Nothing
       ELSE UNCHANGED <<archive, held, gathered, named, ended>>
    /\ pc' = "tail"
    /\ UNCHANGED <<input, todo, reader, block, written, announced, summed>>

\* The empty files a boundary stop left are one piece more, without data.
WriteTail ==
    LET left == {PieceOf(n) : n \in {m \in cur..Len(met) : ~IsGhost(met[m])}}
        range == Grow(Nothing, left)
    IN /\ pc = "tail"
       /\ IF Chunked /\ cur <= Len(met)
          THEN /\ cur' = Len(met) + 1
               /\ sums' = SumsPast(cur)
               /\ announced' = announced \cup left
               /\ summed' = summed \cup left
               /\ archive' = archive \o PieceMetadata(range, range, SumsPast(cur))
                                    \o <<Record("data", <<>>)>>
          ELSE UNCHANGED <<cur, sums, announced, summed, archive>>
       /\ pc' = "next"
       /\ todo' = Tail(todo)
       /\ UNCHANGED <<input, met, off, budget, spent, ahead, metStart, coder, named, ended>>

-----------------------------------------------------------------------------
(* The streams. *)

\* The next stream: its header unless it is out already, and its list.  With
\* nothing readable to list the header is all there is.
StartStream ==
    /\ pc = "next"
    /\ todo # <<>>
    /\ LET j == Head(todo)
           list == MetOf(Files, j)
           empty == \A i \in DOMAIN list : IsGhost(list[i])
       IN /\ archive' = IF j.header THEN Append(archive, Header(j.stream)) ELSE archive
          /\ met' = list
          /\ sums' = [k \in 1..Len(SelectSeq(list, LAMBDA p: ~IsGhost(p))) |-> <<>>]
          /\ named' = <<Len(list) + 1, 0>>
          /\ ended' = <<Len(list) + 1, 0>>
          /\ pc' = IF empty THEN "next" ELSE "read"
          /\ todo' = IF empty THEN Tail(todo) ELSE todo
    /\ cur' = 1 /\ off' = 0 /\ budget' = 0 /\ spent' = FALSE
    /\ ahead' = <<>> /\ block' = <<>> /\ metStart' = 1
    /\ announced' = {} /\ summed' = {}
    /\ written' = 0 /\ held' = <<>> /\ gathered' = 0
    /\ UNCHANGED input

Finish ==
    /\ pc = "next"
    /\ todo = <<>>
    /\ pc' = "done"
    /\ UNCHANGED <<input, archive, todo, reader, coder, records>>

Stopped == pc \in {"done", "declined"} /\ UNCHANGED vars

Init ==
    /\ input \in Inputs
    /\ todo = Jobs(Files, input.workers)
    /\ archive = IF input.workers = 1 THEN <<>> ELSE <<Header(input.workers - 1)>>
    /\ pc = "next"
    /\ met = <<>> /\ cur = 1 /\ off = 0 /\ budget = 0 /\ spent = FALSE
    /\ ahead = <<>> /\ metStart = 1 /\ sums = <<>>
    /\ block = <<>> /\ written = 0 /\ held = <<>> /\ gathered = 0
    /\ announced = {} /\ summed = {} /\ named = <<1, 0>> /\ ended = <<1, 0>>

Next == \/ StartStream \/ ReadMore \/ ReadFails \/ TakePiece
        \/ NamePiece \/ CodePiece \/ CodeStream \/ FlushStream \/ WriteTail
        \/ Finish \/ Stopped

Spec == Init /\ [][Next]_vars

-----------------------------------------------------------------------------
(* Properties. *)

\* The pieces stream k is to hold, in order.
PlanOf(k) == SelectSeq(MetOf(Files, Job(Files, input.workers, k, TRUE)), LAMBDA p: ~IsGhost(p))

Streams == 0..(input.workers - 1)

\* The variables have their types: the cursor is in the list, no codec holds as
\* much as it codes, and pieces are checksummed only once they are named.
TypeOK ==
    /\ input \in Inputs
    /\ \A i \in DOMAIN archive : archive[i].stream \in Streams
    /\ pc \in {"next", "read", "name", "code", "flush", "tail", "done", "declined"}
    /\ cur \in 1..(Len(met) + 1)
    /\ off \in Nat /\ off # 0 => (cur <= Len(met) /\ off < met[cur].len)
    /\ budget \in Nat /\ (spent => budget = 0)
    /\ metStart \in 1..cur
    /\ written + Len(block) + Len(ahead) <= Total
    /\ gathered \in 0..Len(held) /\ Held < Threshold
    /\ announced \subseteq DOMAIN Pieces /\ summed \subseteq announced
    /\ DOMAIN sums = DOMAIN Pieces

\* Every piece of a stream is named exactly once, in the order its bytes come,
\* however the reads, the pieces and the blocks fall: the archive's tables are a
\* prefix of the stream's list, and at the end all of it.  (An archive that named
\* a file twice could not be read; see flush_pending_meta.)
ListedOnce ==
    \A k \in Streams :
       LET listed == [i \in DOMAIN ReadStream(archive, k).slices |->
                         [src |-> ReadStream(archive, k).slices[i].src,
                          len |-> ReadStream(archive, k).slices[i].len]]
           plan == [i \in DOMAIN PlanOf(k) |->
                         [src |-> PlanOf(k)[i].src, len |-> PlanOf(k)[i].len]]
       IN IF pc = "done" THEN listed = plan ELSE IsPrefix(listed, plan)

\* A reader that takes the records as they come never meets a byte of a piece it
\* has not been told of, and when a piece's last byte arrives it already has its
\* checksum, whatever the codec held back and the reader thread read ahead.
SumsWithData ==
    \A k \in Streams :
       LET st == ReadStream(archive, k)
       IN /\ Len(st.bytes) <= PosIn(st.slices, Len(st.slices) + 1)
          /\ \A i \in DOMAIN st.slices :
                st.slices[i].len > 0 /\ PosIn(st.slices, i + 1) <= Len(st.bytes)
                => st.slices[i].hasSum

\* A finished archive reads back: every piece passes its checksum and holds the
\* bytes of its place in its file, and the pieces of all streams tile every
\* readable file.
RoundTrip ==
    pc = "done" =>
       /\ Assembles(archive, [f \in {g \in DOMAIN Files : ~Files[g].ghost} |-> Files[f].size])
       /\ \A k \in Streams :
             LET st == ReadStream(archive, k)
             IN \A i \in DOMAIN st.slices :
                   DecodedOf(st, i) = [b \in 1..st.slices[i].len |->
                                          <<st.slices[i].src, st.slices[i].off + b - 1>>]

\* What the reader makes of the modes of a finished archive is what was stored.
ModesRead ==
    /\ AttributesParse(archive)
    /\ \A f \in DOMAIN Files : ~Files[f].ghost => ModesOf(archive, f) = {Files[f].mode}

\* "A block that is all 0600 omits its record, and a record covers the files of
\* its own block only" (ApplyLegacyAttributeRecords): every file of a finished
\* archive gets the mode it had.
ModesAligned == pc = "done" => ModesRead

\* The records of stream k between one data record and the next.
OneTableEach ==
    \A i, j \in DOMAIN archive :
       /\ i < j
       /\ archive[i].type = "table" /\ archive[j].type = "table"
       /\ archive[i].stream = archive[j].stream
       => \E m \in i..j : archive[m].type = "data" /\ archive[m].stream = archive[i].stream

\* As far as it is true: the modes survive whenever no block has two tables, and
\* whenever no block of a stream leaves its record out while another has one.
ModesKept ==
    pc = "done" /\ (OneTableEach \/ Covers(archive, ModesAsRun(archive))) => ModesRead

=============================================================================
