------------------------------ MODULE Extract ------------------------------
(***************************************************************************)
(* Extracting and testing one archive (RunExtractOrTest,                   *)
(* RunLegacyCnExtractOrTest and what the parser decodes): the archive may  *)
(* have been cut at any byte or damaged in a block.  The decoders are      *)
(* tried one after the other, each through the sink or into a buffer, and  *)
(* the output, whole or not, is handed to the files.                       *)
(*                                                                         *)
(* A file's content is the sequence of its units' numbers in the archive's *)
(* whole output, so a file is right when it holds its own numbers.  A      *)
(* decoder's work on one data record is one step.  The sink writes while   *)
(* it decodes (PSink); here what went through it is gone through after     *)
(* the decode, in the same order and like a buffer.                        *)
(***************************************************************************)
EXTENDS RecordWalk

CONSTANTS Inputs    \* archives, and how they are extracted

VARIABLES in,         \* the archive and the options
          walk,       \* how far its records are read
          ctx,        \* LegacyCnContext
          pc, engine,
          sink,       \* the sink is published
          blockAt,    \* the data record to decode
          out,        \* the output so far
          err,        \* how the decoder ended
          cursor,     \* the entry the loop is at
          end,        \* how the decode that is written ended
          yesToAll, failed, refused, disk,
          said, rc

vars == <<in, walk, ctx, pc, engine, sink, blockAt, out, err, cursor, end, yesToAll, failed, refused, disk,
          said, rc>>

BadUnit == -1

\* The bytes that are left of the archive.
Size(x) == Min({x.cut, Bytes(x.records)})

FilesOf(x) == UNION {{r.body[j].file : j \in DOMAIN r.body} :
                       r \in {s \in ToSet(x.records) : s.type = "table"}}

\* What a decoder may make of a data record: its output or something as long, no
\* more than a part of its output, or nothing, with or without a fatal error.
Outcomes == {"right", "wrong", "short", "fail", "fatal"}

AllWrong(us) == [j \in DOMAIN us |-> BadUnit]

\* A file is a number.
Listing == [file : Nat, size : Nat]

IsRecord(r) ==
    /\ r.type \in {"codec", "table", "times", "sums", "data"} /\ r.packed \in Nat
    /\ r.type = "codec" => r.body \in Families
    /\ r.type \in {"table", "times", "sums"} => r.body \in Seq(Listing)
    /\ r.type = "data" => r.body \in Seq(Int)

\* An archive begins with its codec record, and what is packed in a stored one is the
\* output itself.  A damage is to a data record.
ASSUME InputsAssumption ==
    \A x \in Inputs :
        /\ Len(x.records) \in Nat \ {0} /\ DOMAIN x.records = 1 .. Len(x.records)
        /\ \A j \in DOMAIN x.records : IsRecord(x.records[j])
        /\ x.records[1].type = "codec"
        /\ \A j \in DOMAIN x.records : x.records[j].type = "data" /\ x.records[1].body = "store" =>
                x.records[j].packed = Len(x.records[j].body)
        /\ x.damaged = 0 \/ (x.damaged \in DOMAIN x.records /\ x.records[x.damaged].type = "data")
        /\ x.cut \in Nat /\ x.how \in Outcomes
        /\ {x.checks, x.test, x.safe, x.yes} \subseteq BOOLEAN

\* The records of an archive, a damaged one of them holding something else.
Records(x) ==
    [j \in DOMAIN x.records |->
        IF j = x.damaged /\ x.records[1].body = "store"
        THEN [x.records[j] EXCEPT !.body = AllWrong(@)] ELSE x.records[j]]

-----------------------------------------------------------------------------
(* The payload of an archive that is not a stored one, as the decoders see it *)

\* The stump of the cut record.  Where the payload is one run of bytes it is
\* filled up with what an earlier record left in the buffer, except that -cd
\* never is; and it must be the first record after the ones before it.
StumpOutcomes(w) ==
    LET adjacent == w.cut.at = w.data[Len(w.data)] + 1
        filled == IF adjacent THEN {"right", "wrong", "fail"} ELSE {"fail"}
    IN CASE w.codec = "lzpf" ->
                IF ~Spliced(w) THEN filled
                ELSE IF w.cut.got > 0 THEN {"right", "wrong", "fail"} ELSE {"wrong", "fail"}
         [] w.codec = "lzhd" -> IF w.cut.got > 0 THEN {"short", "fail", "fatal"} ELSE {}
         [] w.codec = "optimum" ->
                IF ~Spliced(w) THEN filled ELSE IF w.cut.got > 0 THEN {"fail"} ELSE {}
         [] w.codec = "cm" ->
                IF ~Spliced(w) THEN {"right", "wrong", "fail"}
                ELSE IF w.cut.got > 0 THEN {"fail"} ELSE {}

Blocks(x, w) ==
    [j \in DOMAIN w.data |-> [units |-> x.records[w.data[j]].body,
                              may |-> IF w.data[j] = x.damaged THEN {x.how} ELSE {"right"}]]
    \o (IF w.cut = NoCut \/ w.data = <<>> \/ StumpOutcomes(w) = {} THEN <<>>
        ELSE <<[units |-> x.records[w.cut.at].body, may |-> StumpOutcomes(w)]>>)

\* Records follow the last data record and the payload runs on over them.
Trailing(x, w) ==
    LET last == DataRecords(w)[Len(DataRecords(w))]
    IN w.data # <<>> /\ ~Spliced(w) /\ At(x.records, last + 1) < Size(x)

\* The checksums do not tell where the metadata end: the payload is looked for.
Probes(w) == w.codec # "store" /\ ~AttributesRead(w)

-----------------------------------------------------------------------------
NoEntries == [entries |-> <<>>, total |-> 0, blocks |-> <<>>, sums |-> 0, codec |-> "none",
              verifies |-> TRUE, eof |-> FALSE, tail |-> FALSE]

Context(x, w, found) ==
       [entries |-> EntriesOf(w), total |-> SizeOf(EntriesOf(w)),
        blocks |-> IF found /\ w.codec # "store" THEN Blocks(x, w) ELSE <<>>,
        sums |-> Cardinality({j \in DOMAIN EntriesOf(w) : HasSum(w, j)}),
        codec |-> w.codec, verifies |-> Verifies(w), eof |-> w.eofBefore,
        tail |-> Trailing(x, w)]

Absent == [new |-> FALSE, there |-> FALSE, data |-> <<>>]

Old == [Absent EXCEPT !.there = TRUE]

Init ==
    /\ in \in Inputs
    /\ walk = StartOfWalk
    /\ ctx = NoEntries /\ pc = "parse" /\ engine = "none" /\ sink = FALSE
    /\ blockAt = 1 /\ out = <<>> /\ err = "none" /\ cursor = 1 /\ end = "ok"
    /\ yesToAll = in.yes /\ failed = 0 /\ refused = {}
    /\ disk = [f \in FilesOf(in) |-> IF f \in in.old THEN Old ELSE Absent]
    /\ said = "nothing" /\ rc = 0

Reading == pc = "parse" /\ More(in.records, Size(in), walk)

ReadRecord ==
    /\ Reading
    /\ walk' = WalkRecord(in.records, Size(in), walk)
    /\ UNCHANGED <<in, ctx, pc, engine, sink, blockAt, out, err, cursor, end, yesToAll, failed, refused,
                   disk, said, rc>>

Parsed == pc = "parse" /\ ~Reading

\* The archive is not taken.
Refuse ==
    /\ Parsed /\ ~Accepted(in.records, Size(in), walk)
    /\ said' = "refused" /\ rc' = 1 /\ pc' = "done"
    /\ UNCHANGED <<in, walk, ctx, engine, sink, blockAt, out, err, cursor, end, yesToAll, failed, refused, disk>>

\* A stored archive, and one of no files or of empty ones, is decoded by reading it.
ParseStore ==
    LET c == Context(in, walk, TRUE)
        units == IF c.codec = "store"
                 THEN StoredUnits(Records(in), walk) ELSE <<>>
    IN /\ Parsed /\ Accepted(in.records, Size(in), walk) /\ (c.codec = "store" \/ c.total = 0)
       /\ ctx' = c /\ out' = units
       /\ end' = IF Len(units) = c.total THEN "ok" ELSE "eof"
       /\ pc' = "copy"
       /\ UNCHANGED <<in, walk, engine, sink, blockAt, err, cursor, yesToAll, failed, refused, disk, said, rc>>

\* The others go to the decoders, -cf and -cF at once.
ParsePacked(found) ==
    LET c == Context(in, walk, found)
    IN /\ Parsed /\ Accepted(in.records, Size(in), walk) /\ c.codec # "store" /\ c.total > 0
       /\ found \/ Probes(walk)
       /\ ctx' = c /\ pc' = "open"
       /\ engine' = IF c.codec = "lzpf" THEN "lzpf" ELSE "lzhd"
       /\ UNCHANGED <<in, walk, sink, blockAt, out, err, cursor, end, yesToAll, failed, refused, disk, said, rc>>

-----------------------------------------------------------------------------
(* The decoders *)

NextEngine == [lzpf |-> "lzhd", lzhd |-> "optimum", optimum |-> "cm", cm |-> "none"]

Owns == ctx.codec = engine /\ ctx.blocks # <<>>

\* psink::Configure leaves the sink off in safe mode.  A -cf chain goes through it
\* only if every file is checked on its own, or none is.
UsesSink == ~in.safe /\ (engine = "lzpf" => ctx.sums > 0 \/ ~in.checks)

\* A decoder that the archive is not for.
Decline ==
    /\ pc = "open" /\ engine # "none" /\ ~Owns
    /\ engine' = NextEngine[engine]
    /\ UNCHANGED <<in, walk, ctx, pc, sink, blockAt, out, err, cursor, end, yesToAll, failed, refused, disk,
                   said, rc>>

\* The sink is published before the decode, by -cf with its first byte.
Start ==
    /\ pc = "open" /\ engine # "none" /\ Owns
    /\ sink' = (UsesSink /\ engine # "lzpf")
    /\ blockAt' = 1 /\ out' = <<>> /\ err' = "none" /\ pc' = "block"
    /\ UNCHANGED <<in, walk, ctx, engine, cursor, end, yesToAll, failed, refused, disk, said, rc>>

Decoding == pc = "block" /\ blockAt <= Len(ctx.blocks) /\ Len(out) < ctx.total

\* A record's output is handed over once the record is decoded.
DecodeRecord(o) ==
    LET us == ctx.blocks[blockAt].units
        got == CASE o = "right" -> us
                 [] o = "wrong" -> AllWrong(us)
                 [] o = "short" -> SubSeq(us, 1, Len(us) - 1)
    IN /\ Decoding /\ o \in ctx.blocks[blockAt].may \ {"fail", "fatal"}
       /\ out' = SubSeq(out \o got, 1, Min({Len(out \o got), ctx.total}))
       /\ blockAt' = blockAt + 1
       /\ sink' = (sink \/ (UsesSink /\ got # <<>>))
       /\ UNCHANGED <<in, walk, ctx, pc, engine, err, cursor, end, yesToAll, failed, refused, disk, said, rc>>

\* A record that fails is lost whole.
FailRecord(o) ==
    /\ Decoding /\ o \in ctx.blocks[blockAt].may \cap {"fail", "fatal"}
    /\ err' = o /\ pc' = "ended"
    /\ UNCHANGED <<in, walk, ctx, engine, sink, blockAt, out, cursor, end, yesToAll, failed, refused, disk,
                   said, rc>>

\* The records are over, or the output is complete; -cd tells an output that is
\* too short, unless other records were in the way.
EndOfRecords ==
    /\ pc = "block" /\ ~Decoding
    /\ err' = IF Len(out) = ctx.total THEN "none"
              ELSE IF engine = "lzhd" /\ ~ctx.tail THEN "eof" ELSE "fail"
    /\ pc' = "ended"
    /\ UNCHANGED <<in, walk, ctx, engine, sink, blockAt, out, cursor, end, yesToAll, failed, refused, disk,
                   said, rc>>

\* Mutant: a decode that stopped early is not written.
AdoptWhole ==
    /\ end' = IF err = "none" THEN "ok" ELSE err
    /\ pc' = "copy" /\ out' = IF err = "none" THEN out ELSE <<>>
    /\ UNCHANGED <<in, walk, ctx, engine, sink, blockAt, err, cursor, yesToAll, failed, refused, disk,
                   said, rc>>

\* The decode is what will be written.
Adopt ==
    /\ end' = IF err = "none" THEN "ok" ELSE err
    /\ pc' = "copy"
    /\ UNCHANGED <<in, walk, ctx, engine, sink, blockAt, out, err, cursor, yesToAll, failed, refused, disk,
                   said, rc>>

\* Complete, or written as far as it went by the sink, or by -cf.
Ended ==
    /\ pc = "ended" /\ (err = "none" \/ (out # <<>> /\ (sink \/ engine = "lzpf")))
    /\ Adopt

\* Mutant: the sink is not handed back.
HandBackKeepsSink ==
    /\ pc = "ended" /\ err # "none" /\ (out = <<>> \/ (~sink /\ engine # "lzpf"))
    /\ engine' = NextEngine[engine] /\ pc' = "open"
    /\ UNCHANGED <<in, walk, ctx, sink, blockAt, out, err, cursor, end, yesToAll, failed, refused, disk,
                   said, rc>>

\* Nothing was written: the sink is handed back and the other decoders are tried.
HandBack ==
    /\ pc = "ended" /\ err # "none" /\ (out = <<>> \/ (~sink /\ engine # "lzpf"))
    /\ sink' = FALSE
    /\ engine' = NextEngine[engine] /\ pc' = "open"
    /\ UNCHANGED <<in, walk, ctx, blockAt, out, err, cursor, end, yesToAll, failed, refused, disk, said, rc>>

\* No decoder is left: what one of them completed is written.
Partial ==
    /\ pc = "open" /\ engine = "none" /\ out # <<>>
    /\ Adopt

\* PrintCorruptLine: what it says, and the status it gives.
Corrupt(how) ==
    /\ said' = CASE how = "fatal" -> "fatal"
                 [] how # "fatal" /\ (how = "eof" \/ ctx.eof) -> "eof"
                 [] OTHER -> "code"
    /\ rc' = IF how = "fatal" THEN 255 ELSE 2

Nothing ==
    /\ pc = "open" /\ engine = "none" /\ out = <<>>
    /\ Corrupt(err) /\ pc' = "done"
    /\ UNCHANGED <<in, walk, ctx, engine, sink, blockAt, out, err, cursor, end, yesToAll, failed, refused, disk>>

-----------------------------------------------------------------------------
(* The files *)

Entry == ctx.entries[cursor]

\* What there is of entry j.
RangeOf(entries, units, j) ==
    SubSeq(units, StartOf(entries, j) + 1,
           Min({Len(units), StartOf(entries, j) + entries[j].size}))

Content == RangeOf(ctx.entries, out, cursor)

\* The units of entry j of an archive: those no damage or cut changed.
TrueContent(entries, j) ==
    [n \in 1 .. entries[j].size |-> StartOf(entries, j) + n]

\* The output stops inside the entry, or where it starts.
LastPartial == Len(Content) < Entry.size

\* An empty file is not judged in a test.
Judged == ~LastPartial /\ cursor <= ctx.sums /\ ctx.verifies /\ in.checks /\ (in.test => Entry.size > 0)

Mismatch == Judged /\ (Entry.file \in in.badSums \/ Content # TrueContent(ctx.entries, cursor))

Selected == Entry.file \in in.selected

Copying == pc = "copy" /\ cursor <= Len(ctx.entries)

Count(n) == failed' = failed + n

Bad == IF Mismatch THEN 1 ELSE 0

\* After an entry the output stops in nothing follows.
Next1 == cursor' = IF LastPartial THEN Len(ctx.entries) + 1 ELSE cursor + 1

Rest == <<in, walk, ctx, engine, sink, blockAt, out, err, end, said, rc>>

\* Mutant: safe mode writes what there is.
SafeStopKept(e) == FALSE

\* Safe mode never writes an entry that is not whole.
SafeStop(e) == LastPartial /\ in.safe

\* Unselected, or bad in safe mode: not written.
Skip ==
    /\ Copying /\ (SafeStop(Entry) \/ ~Selected \/ (Mismatch /\ in.safe))
    /\ Count(Bad) /\ Next1
    /\ UNCHANGED <<pc, yesToAll, refused, disk>> /\ UNCHANGED Rest

Goes == Copying /\ ~SafeStop(Entry) /\ Selected /\ ~(Mismatch /\ in.safe)

Test ==
    /\ Goes /\ in.test
    /\ Count(Bad) /\ Next1
    /\ UNCHANGED <<pc, yesToAll, refused, disk>> /\ UNCHANGED Rest

\* A path that leads out of the tree.
Unsafe ==
    /\ Goes /\ ~in.test /\ Entry.file \in in.unsafe
    /\ Count(Bad + 1) /\ Next1
    /\ UNCHANGED <<pc, yesToAll, refused, disk>> /\ UNCHANGED Rest

Writes == Goes /\ ~in.test /\ Entry.file \notin in.unsafe

Asks == ~yesToAll /\ disk[Entry.file].there

Ask ==
    /\ Writes /\ Asks
    /\ pc' = "ask"
    /\ UNCHANGED <<cursor, yesToAll, failed, refused, disk>> /\ UNCHANGED Rest

\* WriteExtractedFileRange: the file is created anew and gets what there is of it;
\* a write that fails leaves it empty and the loop goes on.
WriteEntry(always) ==
    LET f == Entry.file
    IN /\ disk' = [disk EXCEPT ![f] = [new |-> TRUE, there |-> TRUE,
                                       data |-> IF f \in in.locked THEN <<>> ELSE Content]]
       /\ Count(Bad + IF f \in in.locked THEN 1 ELSE 0)
       /\ yesToAll' = always
       /\ Next1 /\ pc' = "copy"
       /\ UNCHANGED refused /\ UNCHANGED Rest

Write == Writes /\ ~Asks /\ WriteEntry(yesToAll)

AnswerYes == pc = "ask" /\ WriteEntry(yesToAll)

AnswerAlways == pc = "ask" /\ WriteEntry(TRUE)

\* No, or the end of the answers.
AnswerNo ==
    /\ pc = "ask"
    /\ refused' = refused \cup {Entry.file}
    /\ Count(Bad) /\ Next1 /\ pc' = "copy"
    /\ UNCHANGED <<yesToAll, disk>> /\ UNCHANGED Rest

\* Mutant: a decode that failed after the last whole file says the footer.
FinishFooter ==
    /\ pc = "copy" /\ cursor > Len(ctx.entries)
    /\ said' = "footer" /\ rc' = IF failed = 0 THEN 0 ELSE 2
    /\ pc' = "done"
    /\ UNCHANGED <<in, walk, ctx, engine, sink, blockAt, out, err, cursor, end, yesToAll, failed, refused, disk>>

Finish ==
    /\ pc = "copy" /\ cursor > Len(ctx.entries)
    /\ IF end = "ok" THEN said' = "footer" /\ rc' = IF failed = 0 THEN 0 ELSE 2
                     ELSE Corrupt(end)
    /\ pc' = "done"
    /\ UNCHANGED <<in, walk, ctx, engine, sink, blockAt, out, err, cursor, end, yesToAll, failed, refused, disk>>

-----------------------------------------------------------------------------
Next ==
    \/ ReadRecord \/ Refuse \/ ParseStore \/ \E found \in BOOLEAN : ParsePacked(found)
    \/ Decline \/ Start
    \/ \E o \in Outcomes : DecodeRecord(o) \/ FailRecord(o)
    \/ EndOfRecords \/ Ended \/ HandBack \/ Partial \/ Nothing
    \/ Skip \/ Test \/ Unsafe \/ Ask \/ Write
    \/ AnswerYes \/ AnswerAlways \/ AnswerNo
    \/ Finish

Done == pc = "done" /\ UNCHANGED vars

\* The program runs on, and questions are answered (the end of the input counts as No).
Spec == Init /\ [][Next \/ Done]_vars /\ WF_vars(Next)
-----------------------------------------------------------------------------
\* Every variable has its type, and the sink is with a decoder that may use it.
TypeOK ==
    /\ sink => UsesSink /\ pc # "open"
    /\ pc \in {"parse", "open", "block", "ended", "copy", "ask", "done"}
    /\ engine \in {"none", "lzpf", "lzhd", "optimum", "cm"}
    /\ out \in Seq(Int) /\ Len(out) <= ctx.total
    /\ blockAt \in 1 .. Len(ctx.blocks) + 1 /\ cursor \in 1 .. Len(ctx.entries) + 1
    /\ end \in {"ok", "eof", "fail", "fatal"} /\ err \in {"none", "eof", "fail", "fatal"}
    /\ sink \in BOOLEAN /\ yesToAll \in BOOLEAN /\ failed \in Nat
    /\ refused \subseteq FilesOf(in)
    /\ disk \in [FilesOf(in) -> [new : BOOLEAN, there : BOOLEAN, data : Seq(Int)]]
    /\ said \in {"nothing", "refused", "footer", "eof", "code", "fatal"}
    /\ rc \in {0, 1, 2, 255}

\* The entries of the tables among the first n records.
TablesOf(x, n) == [j \in 1 .. n |-> IF x.records[j].type = "table" THEN x.records[j].body ELSE <<>>]

ListedIn(x, n) == Joined(TablesOf(x, n))

AllEntries == ListedIn(in, Len(in.records))

\* How much the records of one type among the first n hold.
HeldIn(x, type, n) ==
    SumBefore([j \in 1 .. n |-> IF x.records[j].type = type THEN Len(x.records[j].body) ELSE 0], n + 1)

\* Bytes of the archive are missing.
Shortened(x) == Size(x) < Bytes(x.records)

\* Where the data among the first n records are all that is listed there, so are the
\* checksums.
SummedUp(x, n) ==
    LET units == HeldIn(x, "data", n)
        listed == ListedIn(x, n)
    IN units > 0 /\ units = SizeOf(listed) => HeldIn(x, "sums", n) = Len(listed)

\* How an archive is laid out: a file is listed before its data, the data records hold the
\* output in order and, in an archive with checksums, those of the files that end in a
\* data record stand before it.  Empty files left over behind the last full block are
\* listed, and summed, behind all data (15513-15529): an archive that stops between the
\* two looks whole and has no checksums to tell a damage by.
LaidOut ==
    \A x \in Inputs : \A n \in 0 .. Len(x.records) :
        LET holdsData == n > 0 /\ x.records[n].type = "data"
        IN /\ HeldIn(x, "data", n) <= SizeOf(ListedIn(x, n))
           /\ holdsData => \A u \in DOMAIN x.records[n].body :
                               x.records[n].body[u] = HeldIn(x, "data", n - 1) + u
           /\ /\ x.checks
              /\ \/ n = Len(x.records) \/ (holdsData /\ x.records[n].body # <<>>)
                 \/ x.damaged # 0 /\ Shortened(x)
              => SummedUp(x, n)

\* What is in an archive: the data of all the files it lists, each once, and all of their
\* checksums or none.
Finished ==
    \A x \in Inputs :
        LET all == Len(x.records)
            listed == ListedIn(x, all)
        IN /\ HeldIn(x, "data", all) = SizeOf(listed)
           /\ HeldIn(x, "sums", all) = IF x.checks THEN Len(listed) ELSE 0
           /\ listed = <<>> => \A j \in DOMAIN x.records : x.records[j].type \notin {"table", "data"}
           /\ \A i, j \in DOMAIN listed : listed[i].file = listed[j].file => i = j
           /\ x.selected \subseteq FilesOf(x)

\* File f holds what was archived.
Right(f) ==
    \E j \in DOMAIN AllEntries :
        AllEntries[j].file = f /\ disk[f] = [new |-> TRUE, there |-> TRUE,
                                            data |-> TrueContent(AllEntries, j)]

\* File f is to be written, and nothing but the archive is in the way.
Wanted(f) == ~in.test /\ f \in in.selected \ (in.unsafe \cup in.locked \cup refused)

Cut == Shortened(in)

\* An archive nothing happened to comes out whole, with status 0; a file that is
\* not written for a reason of its own gives status 2.
Intact ==
    pc = "done" /\ ~Cut /\ in.damaged = 0 /\ in.badSums = {} =>
        /\ \A f \in FilesOf(in) : Wanted(f) => Right(f)
        /\ said = "footer"
        /\ rc = IF ~in.test /\ \E f \in in.selected \ refused : f \in in.unsafe \cup in.locked
                THEN 2 ELSE 0

\* The output of the data records before the first that is damaged or cut.
GoodUnits ==
    LET data == {j \in DOMAIN in.records : in.records[j].type = "data"}
        good == {j \in data : \A m \in data : m <= j =>
                    m # in.damaged /\ At(in.records, m + 1) <= Size(in)}
    IN Cardinality(UNION {ToSet(in.records[j].body) : j \in good})

\* Every byte of file f is in those records, and its name is in the archive.
InGoodUnits(f) ==
    \E j \in DOMAIN ctx.entries :
        ctx.entries[j].file = f /\ StartOf(ctx.entries, j) + ctx.entries[j].size <= GoodUnits

\* The archive ends with a record that is whole, so that nothing looks missing.
EndsWithRecord == Cut /\ \E j \in DOMAIN in.records : At(in.records, j) = Size(in)

\* Whatever was cut off or damaged, the files that are whole before it come out
\* right; but a stored archive that was cut between two records is refused, and of another
\* nothing is written if not one unit can be decoded.
PrefixKept ==
    pc = "done" =>
        IF said = "refused"
        THEN GoodUnits = 0 \/ (in.records[1].body = "store" /\ EndsWithRecord)
        ELSE /\ Probes(walk) => ctx.blocks # <<>>
             /\ GoodUnits = 0 => ctx.codec = "store" \/ ctx.total = 0
             => \A f \in FilesOf(in) :
                   Wanted(f) /\ InGoodUnits(f) /\ ~(in.safe /\ f \in in.badSums) => Right(f)

\* Status 0, on an archive with checksums: what was written is right, every entry that
\* is still listed decoded to what was archived, and every one that was selected and not
\* refused is on disk.  (Entries whose tables were cut off are not listed; rc is what
\* RunLegacyCnExtractOrTest returns, before main() makes 0 of 2.)
StatusZeroMeansRight ==
    pc = "done" /\ rc = 0 /\ in.checks =>
        /\ \A f \in FilesOf(in) : disk[f].new => Right(f)
        /\ \A j \in DOMAIN ctx.entries :
              /\ RangeOf(ctx.entries, out, j) = TrueContent(ctx.entries, j)
              /\ ~in.test /\ ctx.entries[j].file \in in.selected \ refused =>
                    Right(ctx.entries[j].file)

\* In safe mode a file that is written is a whole entry of its name, and right if that
\* entry has a checksum that can be told.
SafeWritesVerified ==
    in.safe =>
        \A f \in FilesOf(in) \ in.locked :
            disk[f].new =>
                \E j \in DOMAIN ctx.entries :
                    /\ ctx.entries[j].file = f /\ Len(disk[f].data) = ctx.entries[j].size
                    /\ j <= ctx.sums /\ in.checks => Right(f)

\* Every run comes to its end, whatever the archive.
Ends == <>(pc = "done")
=============================================================================
