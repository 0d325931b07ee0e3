----------------------------- MODULE RecordWalk -----------------------------
(***************************************************************************)
(* How the reader (TryParseLegacyCnArchive, sfx_archive.cpp) goes through  *)
(* the records of a sequential archive that may have been cut short, and   *)
(* the entries it takes from them.                                         *)
(*                                                                         *)
(* A record is a tag and a payload.  A file table names the files that     *)
(* start in its block, with their sizes; then come their dates, the        *)
(* checksums of the files that end in the block, and its data records.     *)
(* The payload of a data record is its output itself in a stored archive   *)
(* and something packed in the others.                                     *)
(*                                                                         *)
(* Left out: the prologue, the checksum-kind record, parallel containers   *)
(* (Container has them), the limit on the number of records, and the scan  *)
(* for tables inside packed data.                                          *)
(***************************************************************************)
EXTENDS Sums, Integers, Sequences, FiniteSets, SequencesExt, FiniteSetsExt

CONSTANTS TagBytes,      \* of a record's tag: the cut may fall inside it
          BlockHeader    \* of the header of an -co, -cO or -cc block

ASSUME RecordWalkAssumption == TagBytes \in Nat \ {0} /\ BlockHeader \in Nat \ {0}

\* In a table: a size of two bytes and a name of one.
EntryBytes == 3

Length(r) == CASE r.type = "table" -> EntryBytes * Len(r.body)
               [] r.type = "data" -> r.packed
               [] r.type = "codec" -> 1
               [] OTHER -> Len(r.body)

\* Where the i-th record starts.
At(records, i) == SumBefore([n \in DOMAIN records |-> TagBytes + Length(records[n])], i)

Bytes(records) == At(records, Len(records) + 1)

\* The sequences ss[1], ss[2], ... joined.
Joined(ss) ==
    LET upTo[n \in 0 .. Len(ss)] == IF n = 0 THEN <<>> ELSE upTo[n - 1] \o ss[n]
    IN upTo[Len(ss)]

-----------------------------------------------------------------------------
(* The walk *)

NoCut == [at |-> 0, got |-> 0, of |-> 0]

\* next: the record that is read next, at pos.
StartOfWalk == [pos |-> 0, next |-> 1, open |-> TRUE, truncated |-> FALSE, eofBefore |-> FALSE, codec |-> "none",
                tables |-> <<>>, sums |-> 0, attrs |-> FALSE, sawData |-> FALSE,
                data |-> <<>>, cut |-> NoCut, cutFirst |-> FALSE]

Families == {"store", "lzpf", "lzhd", "optimum", "cm"}

Known(w) == w.codec # "none"

\* The tag is not there, or not all of it: nothing tells what was lost.
TagCut(w) == [w EXCEPT !.open = FALSE, !.truncated = TRUE, !.eofBefore = TRUE]

\* The tag is whole and got bytes of the payload are left.  The first table is
\* taken as far as it goes; what is left of a data record is remembered.
PayloadCut(w, r, i, got) ==
    LET inData == r.type = "data" /\ Known(w)
    IN [w EXCEPT
          !.open = FALSE, !.truncated = TRUE,
          !.sawData = @ \/ inData,
          !.eofBefore = w.data = <<>> /\
              (~inData \/ (w.codec \in {"optimum", "cm"} /\ got < BlockHeader)),
          !.cutFirst = inData /\ w.data = <<>>,
          !.cut = IF inData THEN [at |-> i, got |-> got, of |-> Length(r)] ELSE @,
          !.tables = IF r.type = "table" /\ Known(w) /\ @ = <<>> /\ got > 0
                     THEN <<[names |-> r.body, bytes |-> got]>> ELSE @]

\* Mutant: only the last table is kept.
WholeRecordLastTable(w, r, i) ==
    CASE r.type = "codec" -> [w EXCEPT !.codec = IF Known(w) THEN @ ELSE r.body]
      [] r.type # "codec" /\ ~Known(w) -> w
      [] r.type = "table" /\ Known(w) -> [w EXCEPT !.tables = <<[names |-> r.body, bytes |-> Length(r)]>>]
      [] r.type = "times" /\ Known(w) -> [w EXCEPT !.attrs = TRUE]
      [] r.type = "sums" /\ Known(w) -> [w EXCEPT !.attrs = TRUE, !.sums = @ + Len(r.body)]
      [] r.type = "data" /\ Known(w) -> [w EXCEPT !.sawData = TRUE, !.data = Append(@, i)]

\* Tables, dates, checksums and data count once a codec record was seen, the
\* first of which says what the data are.
WholeRecord(w, r, i) ==
    CASE r.type = "codec" -> [w EXCEPT !.codec = IF Known(w) THEN @ ELSE r.body]
      [] r.type # "codec" /\ ~Known(w) -> w
      [] r.type = "table" /\ Known(w) ->
            [w EXCEPT !.tables = Append(@, [names |-> r.body, bytes |-> Length(r)])]
      [] r.type = "times" /\ Known(w) -> [w EXCEPT !.attrs = TRUE]
      [] r.type = "sums" /\ Known(w) -> [w EXCEPT !.attrs = TRUE, !.sums = @ + Len(r.body)]
      [] r.type = "data" /\ Known(w) -> [w EXCEPT !.sawData = TRUE, !.data = Append(@, i)]

\* The loop runs over the size bytes there are.  A file that ends with a record
\* ends there: nothing says that more was to come.
More(records, size, w) == w.open /\ w.next <= Len(records) /\ w.pos < size

\* One turn of it.
WalkRecord(records, size, w) ==
    LET r == records[w.next]
        body == w.pos + TagBytes
        end == body + Length(r)
    IN CASE body > size -> TagCut(w)
         [] body <= size /\ end > size -> PayloadCut(w, r, w.next, size - body)
         [] end <= size ->
               [WholeRecord(w, r, w.next) EXCEPT !.pos = end, !.next = w.next + 1]

-----------------------------------------------------------------------------
(* Entries *)

\* An archive of no files: a codec record and nothing after it.
NoFiles(w) == Known(w) /\ w.tables = <<>> /\ ~w.sawData /\ ~w.truncated

\* The names of a table that are all there.
NamesIn(t) == SubSeq(t.names, 1, t.bytes \div EntryBytes)

EntriesOf(w) == Joined([n \in DOMAIN w.tables |-> NamesIn(w.tables[n])])

\* Where entry j starts in the output.
StartOf(entries, j) == SumBefore([n \in DOMAIN entries |-> entries[n].size], j)

SizeOf(entries) == StartOf(entries, Len(entries) + 1)

\* A table is good if it ends with an entry.  One that was cut may end inside
\* an entry's name, after another entry, but not inside a size.
TablesGood(w) ==
    /\ EntriesOf(w) # <<>>
    /\ \A k \in DOMAIN w.tables : w.tables[k].bytes % EntryBytes # 1

\* Whether the data of a stored archive may be missing: the cut is past the
\* start of the first data record.
StoreCut(w) == w.codec = "store" /\ w.truncated /\ (w.cut # NoCut \/ w.data # <<>>)

\* A stored archive is not smaller than its files, unless it was cut.
SizesGood(w, size) == w.codec = "store" /\ ~StoreCut(w) => SizeOf(EntriesOf(w)) <= size

-----------------------------------------------------------------------------
(* Dates and checksums *)

\* The checksums cover every entry, or no entry, or the archive is a stored one
\* that was cut: then they cover the first entries.
AttributesRead(w) ==
    \/ ~w.attrs
    \/ w.sums \in {0, Len(EntriesOf(w))}
    \/ StoreCut(w) /\ w.sums <= Len(EntriesOf(w))

HasSum(w, i) == w.attrs /\ AttributesRead(w) /\ i <= w.sums

\* checksum_verification_supported
Verifies(w) == AttributesRead(w) \/ Len(EntriesOf(w)) = 1

-----------------------------------------------------------------------------
(* The payload *)

\* What is left of a data record stands among the whole ones.
DataRecords(w) == IF w.cut.got > 0 THEN Append(w.data, w.cut.at) ELSE w.data

\* Records of other kinds stand between the data records: they are joined.
Spliced(w) == \E k \in 1 .. Len(DataRecords(w)) - 1 :
                  DataRecords(w)[k + 1] # DataRecords(w)[k] + 1

\* A stored record is always taken at its full length.  What is missing from it
\* comes from the last record before it that was that long, and is zero where
\* there was none: every record is read into one buffer.
Unit0 == 0

StaleUnit(records, w, o) ==
    LET long == {k \in DOMAIN w.data : Len(records[w.data[k]].body) >= o}
    IN IF long = {} THEN Unit0 ELSE records[w.data[Max(long)]].body[o]

CutUnits(records, w) ==
    IF w.cut = NoCut THEN <<>>
    ELSE [o \in 1 .. w.cut.of |-> IF o <= w.cut.got THEN records[w.cut.at].body[o]
                                                    ELSE StaleUnit(records, w, o)]

WholeUnits(records, w) == Joined([n \in DOMAIN w.data |-> records[w.data[n]].body])

\* What a stored archive holds of its files.
StoredUnits(records, w) ==
    LET us == WholeUnits(records, w) \o CutUnits(records, w)
    IN SubSeq(us, 1, Min({Len(us), SizeOf(EntriesOf(w))}))

\* Of a stored archive that was not cut inside a record, the data must be what
\* the tables announce: at the end of the file, or its data records joined.
StoreFits(records, w) ==
    StoreCut(w) \/ Len(WholeUnits(records, w)) = SizeOf(EntriesOf(w))

\* The archive is taken.
Accepted(records, size, w) ==
    \/ NoFiles(w)
    \/ /\ Known(w) /\ w.tables # <<>> /\ TablesGood(w) /\ SizesGood(w, size)
       /\ w.codec = "store" => StoreFits(records, w)
=============================================================================
