-------------------------------- MODULE Lzhd --------------------------------
(***************************************************************************)
(* The codecs -cd and -cD: CompressPiece with LzEncodeChunk or             *)
(* HdsEncodeChunk on one side, NzCdDecodeStream under its callers on the   *)
(* other.  A stream is a sequence of chunks, each a picture, a piece of    *)
(* sound, a stored chunk or tokens.  A token names its source by the       *)
(* distance back, counted round the window, or repeats a distance.  The    *)
(* writer keeps the distances it repeats as places relative to the one it  *)
(* is at, and looks whether a match goes on in the next chunk at a place   *)
(* it carries along (cont); the reader knows distances only.               *)
(*                                                                         *)
(* What the detectors find in a chunk, which matches the finders come up   *)
(* with and where they look is free.  A model of sound, of pictures or of  *)
(* literals (-cD) is the sequence of the chunks it has learned, and what   *)
(* was coded with it comes out only of the same one.                       *)
(***************************************************************************)
EXTENDS Integers, Sequences, FiniteSets, SequencesExt

CONSTANTS
    Size,          \* of the window, no multiple of a chunk's
    Short,         \* 0x100: a shorter chunk is not parsed
    Overhead,      \* 0x10: what tokens must save
    RepMin,        \* 2: the shortest repeat
    NewMin,        \* 4: the shortest match with a distance
    ContMin,       \* 11: the shortest one that goes on from the chunk before
    Fars,          \* a distance past each of these makes the shortest match longer
    Alphabet,      \* bytes are 0 .. Alphabet - 1
    Chunks,        \* what may come: bytes, and what is found in them
    MaxChunks,     \* bound: chunks in a run
    MaxStreams     \* bound: streams in a run

Kinds == {"image", "sound", "span", "plain"}

\* Stated as an assumption by the module that gives the constants values.
LzhdAssumption ==
    /\ {Size, Short, RepMin, NewMin, ContMin, Alphabet, MaxChunks, MaxStreams} \subseteq Nat \ {0}
    /\ Overhead \in Nat /\ Fars \subseteq Nat
    /\ NewMin + Cardinality(Fars) <= ContMin
    /\ \A c \in Chunks :
          /\ c.bytes \in Seq(0 .. Alphabet - 1) /\ Len(c.bytes) \in 1..Size
          /\ c.kind \in Kinds /\ {c.exe, c.header, c.pack} \subseteq BOOLEAN
          /\ c.kind # "plain" => Len(c.bytes) >= Short /\ ~c.exe /\ ~c.pack
          /\ c.header => c.exe
          /\ c.pack => Len(c.bytes) > 1

VARIABLES input,   \* the chunk under way
          enc,     \* the writer
          wire,    \* the chunk sent
          dec      \* the reader

Places == 0 .. Size - 1

\* What a State and the objects the reader's callers own have in common.
Fresh == [window |-> [p \in Places |-> 0], pos |-> 0, audio |-> <<>>, image |-> <<>>, ctx |-> <<>>]

Writer == Fresh @@ [pc |-> "idle", end |-> 0, wrapped |-> FALSE, cont |-> 0, exe |-> 0,
                    at |-> 0, rep |-> <<>>, ops |-> <<>>]

\* origin is the start of the last program among the bytes decoded (out of them);
\* stale says that it is that of another stream.  History: the chunks that came out
\* wrong, and those that were decoded with a stale origin or were cut.
Reader == Fresh @@ [pc |-> "idle", out |-> 0, origin |-> 0, stale |-> FALSE,
                    wrong |-> {}, known |-> {}, cut |-> FALSE]

NoChunk == [mode |-> "none"]

Init ==
    /\ input = NoChunk
    /\ \E codec \in {"cd", "cD"} : enc = Writer @@ [codec |-> codec, chunks |-> 0, streams |-> 1]
    /\ wire = NoChunk
    /\ dec = Reader

-----------------------------------------------------------------------------
(* The window *)

\* Past the window are zeros.
Byte(w, p) == IF p \in Places THEN w[p] ELSE 0

Put(w, p, bytes) == [q \in Places |-> IF q \in p .. p + Len(bytes) - 1 THEN bytes[q - p + 1] ELSE w[q]]

Slice(w, p, n) == [i \in 1..n |-> w[p + i - 1]]

\* How many bytes from p agree with those from q, at most n.
Agree(w, p, q, n) ==
    CHOOSE k \in 0..n :
        /\ \A i \in 0 .. k - 1 : Byte(w, p + i) = Byte(w, q + i)
        /\ k = n \/ Byte(w, p + k) # Byte(w, q + k)

\* Any rewriting of code that its position counts in, and the reverse.
Filtered(bytes, pos) == [i \in DOMAIN bytes |-> (bytes[i] + pos) % Alphabet]

Unfiltered(bytes, pos) == [i \in DOMAIN bytes |-> (bytes[i] - pos) % Alphabet]

Smaller(a, b) == IF a < b THEN a ELSE b

Larger(a, b) == IF a < b THEN b ELSE a

\* By how much the shortest match with this distance is longer.
Extra(off) == Cardinality({f \in Fars : f < off})

-----------------------------------------------------------------------------
(* The writer: CompressPiece *)

\* Window::Slide: room for n bytes, at the front when the rest is too short; the
\* first time what is left is cleared.
Slide(s, n) ==
    IF Size - s.pos >= n THEN s
    ELSE [s EXCEPT !.pos = 0, !.wrapped = TRUE,
                   !.window = IF s.wrapped THEN @ ELSE [p \in Places |-> IF p >= s.pos THEN 0 ELSE @[p]]]

Appended(s, bytes) ==
    LET t == Slide(s, Len(bytes))
    IN [t EXCEPT !.window = Put(@, t.pos, bytes), !.end = t.pos + Len(bytes)]

\* SparseAppend and HdsAppend: a chunk that is not parsed.  The place where the last
\* match would go on is moved along with it, by however much it has been moved before.
Skipped(s) ==
    [s EXCEPT !.pos = s.end, !.cont = IF s.codec = "cd" THEN @ + s.end - s.pos ELSE @]

\* A program's header starts the count over.
ExePos(chunk) == IF chunk.header THEN 0 ELSE enc.exe

Code(chunk) == IF chunk.exe THEN Filtered(chunk.bytes, ExePos(chunk)) ELSE chunk.bytes

\* Packing puts part of a chunk into a side field, here its last byte.
Body(chunk) == IF chunk.pack THEN Front(Code(chunk)) ELSE Code(chunk)

Side(chunk) == IF chunk.pack THEN <<Last(Code(chunk))>> ELSE <<>>

\* The place a match of the chunk before goes on at, as both users of cont take it.
ContAt(s) == IF s.cont < Size THEN s.cont ELSE s.cont - Size

\* That place is not in the window, whose size is only taken off once: the comparison
\* there reads other memory.
Adrift(s) == s.codec = "cd" /\ s.cont # 0 /\ ContAt(s) \notin 0..Size

Starts(chunk) ==
    /\ enc.pc = "idle" /\ dec.pc = "idle" /\ wire = NoChunk /\ enc.chunks < MaxChunks
    /\ input' = chunk
    /\ UNCHANGED dec

Sends(chunk, s, mode, body, more) ==
    /\ wire' = more @@ [mode |-> mode, size |-> Len(body), side |-> Side(chunk),
                        exe |-> chunk.exe, header |-> chunk.header]
    /\ enc' = [s EXCEPT !.pc = "idle", !.exe = ExePos(chunk) + Len(chunk.bytes), !.chunks = @ + 1]

\* A picture: its model goes on, that of sound is left as it was.
ImageChunk(chunk) ==
    LET body == Body(chunk)
        s == Skipped(Appended(enc, body))
    IN /\ Starts(chunk) /\ chunk.kind = "image"
       /\ Sends(chunk, [s EXCEPT !.image = Append(@, enc.chunks)], "image", body,
                [bytes |-> body, seen |-> enc.image])

\* Sound, in the span a header announced, or found by a measure that is compared with
\* a quick parse (LzEstimate), which looks where the last match goes on.
AudioChunk(chunk) ==
    LET body == Body(chunk)
        s == Skipped(Appended(enc, body))
    IN /\ Starts(chunk)
       /\ \/ chunk.kind = "span"
          \/ chunk.kind = "sound" /\ ~Adrift(enc)
       /\ Sends(chunk, [s EXCEPT !.audio = Append(@, enc.chunks), !.image = <<>>], "audio", body,
                [bytes |-> body, seen |-> enc.audio])

Forgotten(s) == [s EXCEPT !.audio = <<>>, !.image = <<>>]

\* A chunk too short to be parsed.
ShortChunk(chunk) ==
    LET body == Body(chunk)
    IN /\ Starts(chunk) /\ chunk.kind = "plain" /\ Len(body) < Short
       /\ Sends(chunk, Forgotten(Skipped(Appended(enc, body))), "stored", body, [bytes |-> body])

\* Any other is appended and parsed.
LzChunk(chunk) ==
    LET s == Appended(enc, Body(chunk))
    IN /\ Starts(chunk) /\ chunk.kind = "plain" /\ Len(Body(chunk)) >= Short
       /\ enc' = [Forgotten(s) EXCEPT !.pc = "head", !.at = s.pos, !.rep = <<-1, -1, -1, -1>>, !.ops = <<>>]
       /\ UNCHANGED wire

-----------------------------------------------------------------------------
(* The parse: LzEncodeChunk, HdsEncodeChunk *)

Remaining == enc.end - enc.at

\* A match with a distance, counted round the window; what repeats it is the place
\* relative to the one the parse is at, behind it or ahead.
WithDistance(s, off, n) ==
    [s EXCEPT !.pc = "parse", !.at = @ + n,
              !.ops = Append(@, [op |-> "new", off |-> off, raw |-> n - NewMin - Extra(off)]),
              !.rep = <<-(off - (IF s.at < off THEN Size ELSE 0))>> \o SubSeq(@, 1, 3),
              !.cont = IF s.codec = "cd" THEN off + 3 ELSE @]

WithLiteral(s) ==
    [s EXCEPT !.pc = "parse", !.at = @ + 1,
              !.ops = Append(@, [op |-> "lit", byte |-> s.window[s.at]]), !.cont = 0]

Distance(at, cand) == at - cand + (IF at < cand THEN Size ELSE 0)

\* How far the last match of the chunk before goes on.
Continued ==
    LET c == ContAt(enc)
    IN IF enc.codec # "cd" \/ enc.cont = 0 \/ c \in enc.pos .. enc.end - 1 THEN 0
       ELSE Agree(enc.window, enc.pos, c, Smaller(Remaining, Size - c))

\* The first position: the last match goes on; or a literal at the window's front.
Begin ==
    /\ enc.pc = "head" /\ ~Adrift(enc)
    /\ enc' = IF Continued >= ContMin THEN WithDistance(enc, Distance(enc.pos, ContAt(enc)), Continued)
              ELSE IF enc.pos = 0 THEN WithLiteral(enc)
              ELSE [enc EXCEPT !.pc = "parse"]
    /\ UNCHANGED <<input, wire, dec>>

\* The first of the four that agrees, 0 when none does.
Repeated ==
    LET agree == {i \in 1..4 : Agree(enc.window, enc.at, enc.at + enc.rep[i], RepMin) = RepMin}
    IN IF agree = {} THEN 0 ELSE CHOOSE i \in agree : \A j \in agree : i <= j

RepeatLen == IF Repeated = 0 THEN 0 ELSE Agree(enc.window, enc.at, enc.at + enc.rep[Repeated], Remaining)

Parsing ==
    /\ enc.pc = "parse" /\ Remaining > 0
    /\ UNCHANGED <<input, wire, dec>>

\* Nothing found, or a position the skip table passes over.
Literal == Parsing /\ enc' = WithLiteral(enc)

\* Mutant: it is, and reads zeros.
RepeatAnywhere ==
    /\ Parsing /\ Remaining >= RepMin /\ Repeated # 0
    /\ enc' = [enc EXCEPT !.at = @ + RepeatLen, !.rep = <<@[Repeated]>> \o RemoveAt(@, Repeated),
                          !.ops = Append(@, [op |-> "rep", sel |-> Repeated, raw |-> RepeatLen - RepMin])]

\* A repeat whose source runs past the window is not taken.
Repeat ==
    /\ Parsing /\ Remaining >= RepMin /\ Repeated # 0
    /\ enc.at + enc.rep[Repeated] + RepeatLen <= Size
    /\ enc' = [enc EXCEPT !.at = @ + RepeatLen, !.rep = <<@[Repeated]>> \o RemoveAt(@, Repeated),
                          !.ops = Append(@, [op |-> "rep", sel |-> Repeated, raw |-> RepeatLen - RepMin])]

\* A place outside what is still to be coded.  -cD compares the first bytes before it
\* looks at the window's end, and prefers a match longer than the repeat by two.
Match ==
    /\ Parsing
    /\ \E cand \in Places \ (enc.at .. enc.end - 1) :
          LET room == IF enc.codec = "cd" THEN Size - cand ELSE Larger(Size - cand, NewMin + 1)
              n == Agree(enc.window, enc.at, cand, Smaller(Remaining, room))
              off == Distance(enc.at, cand)
          IN /\ n >= NewMin + Extra(off)
             /\ Repeated # 0 => enc.codec = "cD" /\ n > RepeatLen + 1
             /\ enc' = WithDistance(enc, off, n)

\* Where the last match with a distance would go on.
NextCont ==
    LET off == enc.cont - 3
    IN IF enc.cont = 0 THEN 0 ELSE enc.at - off + (IF off < 0 \/ enc.at < off THEN Size ELSE 0)

\* Tokens when they save enough, else the chunk as it is, which starts the model of
\* literals over.
EndParse ==
    LET body == Slice(enc.window, enc.pos, enc.end - enc.pos)
        lits == Cardinality({i \in DOMAIN enc.ops : enc.ops[i].op = "lit"})
        done == [enc EXCEPT !.pos = enc.end, !.cont = NextCont, !.rep = <<>>, !.ops = <<>>]
    IN /\ enc.pc = "parse" /\ Remaining = 0
       /\ IF lits + Overhead < Len(body)
          THEN Sends(input, [done EXCEPT !.ctx = IF enc.codec = "cD" THEN Append(@, enc.chunks) ELSE @],
                     "tokens", body, [ops |-> enc.ops, seen |-> enc.ctx])
          ELSE Sends(input, [done EXCEPT !.ctx = <<>>], "stored", body, [bytes |-> body])
       /\ UNCHANGED <<input, dec>>

-----------------------------------------------------------------------------
(* The reader: DecodeChunk *)

\* A chunk that would not fit before the window's end goes to its front.
Base(n) == IF dec.pos + n > Size THEN 0 ELSE dec.pos

\* The source is resolved once and read straight on, into the zeros past the window
\* if need be.
Copied(w, at, off, n) ==
    LET si == IF off <= at THEN at - off ELSE at + Size - off
    IN Put(w, at, [j \in 1..n |-> Byte(w, IF si < at THEN si + ((j - 1) % (at - si)) ELSE si + j - 1)])

\* A literal of -cD comes out of the model it was coded with.
LiteralOf(op) ==
    IF enc.codec = "cd" \/ wire.seen = dec.ctx THEN op.byte ELSE (op.byte + 1) % Alphabet

\* ReconstructRing, NzLzhdsReconstruct: one token.
Reconstructed(t, op) ==
    IF op.op = "lit" THEN [t EXCEPT !.window = Put(@, t.at, <<LiteralOf(op)>>), !.at = @ + 1]
    ELSE LET off == IF op.op = "new" THEN op.off ELSE t.rep[op.sel]
             n == op.raw + (IF op.op = "new" THEN NewMin + Extra(off) ELSE RepMin)
         IN [window |-> Copied(t.window, t.at, off, n), at |-> t.at + n,
             rep |-> <<off>> \o (IF op.op = "new" THEN SubSeq(t.rep, 1, 3) ELSE RemoveAt(t.rep, op.sel))]

\* The models after the chunk: of sound, which starts over at tokens and stored bytes,
\* of pictures, which also does at sound, and of literals, which stored bytes reset.
Remembers(r) ==
    LET n == enc.chunks - 1
    IN CASE wire.mode = "image" -> [r EXCEPT !.image = Append(@, n)]
         [] wire.mode = "audio" -> [r EXCEPT !.audio = Append(@, n), !.image = <<>>]
         [] wire.mode = "stored" ->
              [Forgotten(r) EXCEPT !.ctx = IF wire.size >= Short THEN <<>> ELSE @]
         [] wire.mode = "tokens" ->
              [Forgotten(r) EXCEPT !.ctx = IF enc.codec = "cD" THEN Append(@, n) ELSE @]

\* What the chunk puts into the window.
WindowWith(base) ==
    CASE wire.mode = "stored" -> Put(dec.window, base, wire.bytes)
      [] wire.mode = "tokens" ->
           FoldLeft(Reconstructed, [window |-> dec.window, at |-> base, rep |-> <<1, 1, 1, 1>>], wire.ops).window
      [] OTHER ->
           LET model == IF wire.mode = "image" THEN dec.image ELSE dec.audio
           IN Put(dec.window, base, IF wire.seen = model THEN wire.bytes ELSE Filtered(wire.bytes, 1))

\* One chunk, with its side field or without: put into the window, unpacked, and
\* freed of the filter for code, which counts from the last program's start.
Decoded(side) ==
    LET base == Base(wire.size)
        window == WindowWith(base)
        origin == IF wire.header THEN dec.out ELSE dec.origin
        code == Slice(window, base, wire.size) \o side
        bytes == IF wire.exe THEN Unfiltered(code, dec.out - origin) ELSE code
        stale == dec.stale /\ ~wire.header
    IN [Remembers(dec) EXCEPT
          !.window = window, !.pos = base + wire.size, !.origin = origin, !.stale = stale,
          !.out = @ + Len(bytes),
          !.wrong = IF bytes = input.bytes THEN @ ELSE @ \cup {enc.chunks},
          !.known = IF wire.exe /\ stale THEN @ \cup {enc.chunks} ELSE @]

Taken ==
    /\ wire # NoChunk /\ dec.pc = "idle"
    /\ wire' = NoChunk /\ input' = NoChunk
    /\ UNCHANGED enc

TakeChunk == Taken /\ dec' = Decoded(wire.side)

\* The archive ends inside the chunk: in what is decoded, which fails, or in the side
\* field, which reads as empty then.
CutChunk ==
    /\ Taken
    /\ \/ dec' = [dec EXCEPT !.pc = "ended", !.cut = TRUE]
       \/ /\ wire.side # <<>>
          /\ dec' = [Decoded(<<>>) EXCEPT !.pc = "ended", !.cut = TRUE, !.known = @ \cup {enc.chunks}]

EndOfStream ==
    /\ enc.pc = "idle" /\ dec.pc = "idle" /\ wire = NoChunk
    /\ dec' = [dec EXCEPT !.pc = "ended"]
    /\ UNCHANGED <<input, enc, wire>>

\* A parallel archive: the next stream has a window and models of its own on both
\* sides.  The origin is the thread's: of a thread that has decoded none, or of this.
NextStream ==
    /\ dec.pc = "ended" /\ ~dec.cut /\ enc.streams < MaxStreams
    /\ \E origin \in {0, dec.origin} :
          dec' = [Reader EXCEPT !.origin = origin, !.stale = (origin # 0),
                                !.wrong = dec.wrong, !.known = dec.known]
    /\ enc' = Writer @@ [enc EXCEPT !.streams = @ + 1]
    /\ UNCHANGED <<input, wire>>

\* Nothing left to do, or the writer has read outside its window.
Done ==
    /\ dec.pc = "ended" \/ (Adrift(enc) /\ enc.pc \in {"head", "idle"})
    /\ UNCHANGED <<input, enc, wire, dec>>

Next ==
    \/ \E chunk \in Chunks : ImageChunk(chunk) \/ AudioChunk(chunk) \/ ShortChunk(chunk) \/ LzChunk(chunk)
    \/ Begin \/ Literal \/ Repeat \/ Match \/ EndParse
    \/ TakeChunk \/ CutChunk \/ EndOfStream \/ NextStream \/ Done

-----------------------------------------------------------------------------
\* Between two chunks writer and reader have the same window, are at the same place of
\* it, and remember the same sound, pictures and literals; and the position the filter
\* for code counts is the same, unless the origin is another stream's.
LzhdInStep ==
    enc.pc = "idle" /\ dec.pc = "idle" /\ wire = NoChunk =>
        /\ \A f \in DOMAIN Fresh : enc[f] = dec[f]
        /\ dec.stale \/ enc.exe = dec.out - dec.origin

\* What is archived with -cd or -cD reads back, chunk by chunk, whatever matches and
\* repeats are taken round the window's end, up to a cut and but for code decoded with
\* another stream's origin.
LzhdReadsBack == dec.wrong \subseteq dec.known

\* "Each stream is a FRESH nz_cd instance": only a cut makes a chunk come out wrong.
StreamsFresh == dec.wrong # {} => dec.cut
=============================================================================
