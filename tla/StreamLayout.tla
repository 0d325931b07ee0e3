---------------------------- MODULE StreamLayout ----------------------------
(***************************************************************************)
(* How the bytes of all files are shared out between the compressors, and  *)
(* how a compressor's stream names its pieces: RunAddStoreContainer and    *)
(* the front of LegacyWriteStoreStream, as operators on the files.         *)
(*                                                                         *)
(* A file has a size and may be a ghost: listed, but no longer readable.   *)
(***************************************************************************)
EXTENDS Integers, Sequences, FiniteSetsExt, SequencesExt

\* Where file f starts in the bytes of all files.
StartOf(files, f) == FoldLeft(LAMBDA n, x: n + x.size, 0, SubSeq(files, 1, f - 1))

TotalSize(files) == StartOf(files, Len(files) + 1)

\* Mutant: every compressor takes as much, the remainder is nobody's.
RangeEven(files, workers, k) ==
    LET per == TotalSize(files) \div workers IN <<k * per, (k + 1) * per>>

\* The bytes compressor k writes; the last one takes the remainder.
RangeOf(files, workers, k) ==
    LET per == TotalSize(files) \div workers
    IN <<k * per, IF k + 1 = workers THEN TotalSize(files) ELSE (k + 1) * per>>

Job(files, workers, k, header) ==
    LET range == RangeOf(files, workers, k)
    IN [stream |-> k, header |-> header, begin |-> range[1], end |-> range[2],
        last |-> k + 1 = workers]

\* The order of the streams: the last one's header is out before the first of
\* these, and with nothing to store its body comes last.
Jobs(files, workers) ==
    LET last == workers - 1
        middle == [k \in 1..(last - 1) |-> Job(files, workers, k, TRUE)]
        tail == <<Job(files, workers, last, FALSE)>>
        head == <<Job(files, workers, 0, TRUE)>>
    IN IF workers = 1 THEN head
       ELSE IF TotalSize(files) = 0 THEN middle \o head \o tail
       ELSE middle \o tail \o head

\* The part of file f inside [begin, end): nothing, an empty file, or a piece.
PiecesOfFile(files, f, j) ==
    LET fb == StartOf(files, f)
        fe == fb + files[f].size
        pb == Max({fb, j.begin})
        pe == Min({fe, j.end})
    IN IF files[f].size = 0
       THEN IF fb >= j.begin /\ (fb < j.end \/ (j.last /\ fb = j.end))
            THEN <<[src |-> f, off |-> 0, len |-> 0, slice |-> FALSE, planned |-> 0]>>
            ELSE <<>>
       ELSE IF pb >= pe THEN <<>>
       ELSE <<[src |-> f, off |-> pb - fb, len |-> IF files[f].ghost THEN 0 ELSE pe - pb,
               slice |-> pb # fb \/ pe # fe, planned |-> pe - pb]>>

\* The stream's list: a slice of a file goes to the front, a whole file to the end.
MetOf(files, j) ==
    FoldLeft(LAMBDA list, f:
                LET p == PiecesOfFile(files, f, j)
                IN IF p # <<>> /\ p[1].slice THEN p \o list ELSE list \o p,
             <<>>, [f \in DOMAIN files |-> f])

-----------------------------------------------------------------------------
(* Names.  A table record holds at most limit of them. *)

FullTable(t) ==
    IF t.buf = <<>> THEN t
    ELSE [out |-> Append(t.out, [type |-> "table", body |-> t.buf]), buf |-> <<>>]

\* One name more: a full table starts another, and a slice ends its table with
\* the offset it starts at.
AddName(t, p, limit) ==
    LET room == IF Len(t.buf) = limit THEN FullTable(t) ELSE t
        with == [room EXCEPT !.buf = Append(@, [src |-> p.src, len |-> p.len])]
    IN IF p.slice
       THEN [FullTable(with) EXCEPT !.out = Append(@, [type |-> "offset", body |-> p.off])]
       ELSE with

NameRecords(ps, limit) ==
    FullTable(FoldLeft(LAMBDA t, p: AddName(t, p, limit), [out |-> <<>>, buf |-> <<>>], ps)).out
=============================================================================
