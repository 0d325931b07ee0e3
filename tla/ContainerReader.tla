--------------------------- MODULE ContainerReader ---------------------------
(***************************************************************************)
(* What the reader makes of an archive, as operators on its records.       *)
(*                                                                         *)
(* An archive is one sequence of records, each tagged with a stream.  A    *)
(* stream is what one compressor wrote: a codec record, then for every     *)
(* block the tables naming the pieces that start in it (a piece cut out of *)
(* a file is followed by the offset it starts at), the modes of those      *)
(* pieces, the checksums of the pieces that end in it, and its bytes.      *)
(*                                                                         *)
(* Left out: dates, owners and Windows attributes, the byte form of the    *)
(* records, archives cut short, and the heuristics for archives whose      *)
(* attribute records do not parse.                                         *)
(***************************************************************************)
EXTENDS Integers, Sequences, FiniteSets, SequencesExt, Functions

\* The mode an archive leaves out: 0600.
DefaultMode == 600

\* A stream nothing was read of.
NoStream == [slices |-> <<>>, first |-> 1, bytes |-> <<>>]

OfStream(archive, s) == SelectSeq(archive, LAMBDA r: r.stream = s)

StreamsOf(archive) == {archive[i].stream : i \in DOMAIN archive}

-----------------------------------------------------------------------------
(* ParseLegacyParallelStreams, one record at a time. *)

\* A table adds its pieces, at offset 0 until a record says otherwise.
ReadTable(st, body) ==
    [st EXCEPT !.first = Len(st.slices) + 1,
               !.slices = @ \o [i \in DOMAIN body |->
                   [src |-> body[i].src, len |-> body[i].len, off |-> 0,
                    hasOff |-> FALSE, sum |-> <<>>, hasSum |-> FALSE]]]

\* An offset goes to the first piece of the last table, or, when that piece has
\* one, to the last piece that has none.
ReadOffset(st, off) ==
    LET open == {i \in DOMAIN st.slices : ~st.slices[i].hasOff}
        at == IF st.first \in open THEN {st.first}
              ELSE {i \in open : \A j \in open : j <= i}
    IN [st EXCEPT !.slices = [i \in DOMAIN @ |->
            IF i \in at THEN [@[i] EXCEPT !.off = off, !.hasOff = TRUE] ELSE @[i]]]

\* Checksums go to the pieces that have none, in order.
ReadSums(st, body) ==
    LET done == Cardinality({i \in DOMAIN st.slices : st.slices[i].hasSum})
    IN [st EXCEPT !.slices = [i \in DOMAIN @ |->
            IF ~@[i].hasSum /\ i - done <= Len(body)
            THEN [@[i] EXCEPT !.sum = body[i - done], !.hasSum = TRUE]
            ELSE @[i]]]

ReadRecord(st, r) ==
    CASE r.type = "table" -> ReadTable(st, r.body)
      [] r.type = "offset" -> ReadOffset(st, r.body)
      [] r.type = "sums" -> ReadSums(st, r.body)
      [] r.type = "data" -> [st EXCEPT !.bytes = @ \o r.body]
      [] OTHER -> st

ReadStream(archive, s) == FoldLeft(ReadRecord, NoStream, OfStream(archive, s))

-----------------------------------------------------------------------------
(* Decoding: a stream's bytes are its pieces' one after the other. *)

\* Where the i-th piece of a list starts in the bytes of its stream.
PosIn(pieces, i) == FoldLeft(LAMBDA n, p: n + p.len, 0, SubSeq(pieces, 1, i - 1))

\* The bytes the i-th piece of a stream decodes to.
DecodedOf(st, i) == SubSeq(st.bytes, PosIn(st.slices, i) + 1,
                           PosIn(st.slices, i) + st.slices[i].len)

\* DisjointCover for one file: the pieces, as <<offset, length>>, meet end to
\* end and fill [0, size).
Tiles(ranges, size) ==
    /\ \A r \in ranges : r[1] + r[2] <= size
    /\ \A b \in 0..(size - 1) :
          Cardinality({r \in ranges : r[1] <= b /\ b < r[1] + r[2]}) = 1

\* AssembleParallelMultiFile: every piece's bytes pass its checksum (a sequence
\* holding the bytes it was taken over), and the pieces of each file tile it.
Assembles(archive, sizeOf) ==
    LET st == [s \in StreamsOf(archive) |-> ReadStream(archive, s)]
        Slice(p) == st[p[1]].slices[p[2]]
        real == {p \in UNION {{<<s, i>> : i \in DOMAIN st[s].slices} : s \in DOMAIN st} :
                    Slice(p).len > 0}
    IN /\ \A p \in real : Slice(p).hasSum /\ Slice(p).sum = <<DecodedOf(st[p[1]], p[2])>>
       /\ \A f \in DOMAIN sizeOf :
             Tiles({<<Slice(p).off, Slice(p).len>> : p \in {q \in real : Slice(q).src = f}},
                   sizeOf[f])

-----------------------------------------------------------------------------
(* Modes: ApplyLegacyAttributeRecords. *)

NamedCount(archive, s) == Len(ReadStream(archive, s).slices)

\* First reading: a stream's modes are one run over everything it names.
ModesAsRun(archive) ==
    [s \in StreamsOf(archive) |->
        FoldLeft(LAMBDA ms, r: IF r.type = "modes" THEN ms \o r.body ELSE ms,
                 <<>>, OfStream(archive, s))]

Padded(ms, n) == ms \o [i \in 1..(n - Len(ms)) |-> DefaultMode]

\* Mutant: the pieces before that left theirs out are not counted.
AlignModesClose(acc, r) ==
    CASE r.type = "table" ->
            [acc EXCEPT !.before = acc.through, !.through = @ + Len(r.body)]
      [] r.type = "modes" -> [acc EXCEPT !.modes = @ \o r.body]
      [] OTHER -> acc

\* Second reading: a modes record starts at the pieces of the last table before
\* it; the ones before that left theirs out.
AlignModes(acc, r) ==
    CASE r.type = "table" ->
            [acc EXCEPT !.before = acc.through, !.through = @ + Len(r.body)]
      [] r.type = "modes" -> [acc EXCEPT !.modes = Padded(@, acc.before) \o r.body]
      [] OTHER -> acc

ModesByTable(archive) ==
    [s \in StreamsOf(archive) |->
        LET ms == FoldLeft(AlignModes, [before |-> 0, through |-> 0, modes |-> <<>>],
                           OfStream(archive, s)).modes
        IN IF ms = <<>> THEN ms ELSE Padded(ms, NamedCount(archive, s))]

\* A reading is taken only if every stream's modes cover all its pieces or none.
Covers(archive, modes) ==
    \A s \in StreamsOf(archive) : Len(modes[s]) \in {0, NamedCount(archive, s)}

AttributesParse(archive) ==
    Covers(archive, ModesAsRun(archive)) \/ Covers(archive, ModesByTable(archive))

StreamModes(archive) ==
    IF Covers(archive, ModesAsRun(archive)) THEN ModesAsRun(archive)
                                            ELSE ModesByTable(archive)

\* The modes the streams give file f; a file none of them gives one is created
\* with the default.
ModesOf(archive, f) ==
    LET modes == StreamModes(archive)
        given == UNION {{<<s, i>> : i \in DOMAIN modes[s]} : s \in StreamsOf(archive)}
        of == {modes[g[1]][g[2]] :
                 g \in {h \in given : ReadStream(archive, h[1]).slices[h[2]].src = f}}
    IN IF of = {} THEN {DefaultMode} ELSE of
=============================================================================
