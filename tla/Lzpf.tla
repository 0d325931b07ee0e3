-------------------------------- MODULE Lzpf --------------------------------
(***************************************************************************)
(* The block codec of -cf and -cF (nz_lzpf_encoder.cpp, DecodeLzpfMember   *)
(* and DecodeLz77VariantA/B).  Writer and reader keep a window and tables  *)
(* of positions each and never send an offset for an ordinary match: the   *)
(* reader looks it up, so the two must do the same to window and tables    *)
(* in every kind of block.  The writer parses a block that is already      *)
(* whole in its window; the reader builds it byte by byte.                 *)
(*                                                                         *)
(* What a detector finds in a block (audio, a picture, code, noise) and    *)
(* whether entropy coding pays is free.  The entropy coder and the filters *)
(* of audio and pictures deliver what they were given, if their models     *)
(* have seen the same blocks.                                              *)
(***************************************************************************)
EXTENDS Integers, Sequences, FiniteSets, SequencesExt

CONSTANTS
    BlockMax,      \* 0x8000
    Capacity,      \* of the window, at least two blocks
    Start,         \* the first cursor, and one more than the tables' first entries
    SparseStep,    \* 101: every so many positions of a block not parsed enter the table
    SparseMargin,  \* 100: ... but for the last ones
    LongMin,       \* 8: a shorter match is never sent with its offset
    LongLen,       \* 136: a longer one may go on in the next block
    Alphabet,      \* bytes are 0 .. Alphabet - 1
    Escape,        \* the bytes from here on need an escape
    Align,         \* 4: where in the bytecode a long match is looked for
    Inputs,        \* the blocks that may occur: bytes, and what the detectors find
    MaxBlocks,     \* bound: blocks in a run
    CountLimit     \* 0x10000: the length of a bytecode is sent in 16 bits

Kinds == {"audio", "image", "noise", "code", "other"}

ASSUME LzpfAssumption ==
    /\ {BlockMax, Capacity, Start, SparseStep, SparseMargin, LongMin, LongLen, Alphabet,
        Escape, Align, MaxBlocks, CountLimit} \subseteq Nat \ {0}
    /\ Capacity >= 2 * BlockMax
    /\ Inputs \subseteq [bytes : Seq(0 .. Alphabet - 1), kind : Kinds]
    \* noise is only looked for in blocks of 4096 bytes and more
    /\ \A b \in Inputs : /\ Len(b.bytes) \in 1..BlockMax
                        /\ b.kind = "noise" => Len(b.bytes) > SparseMargin

VARIABLES input,   \* the bytes of the block under way
          enc,     \* the writer
          wire,    \* the block sent
          dec      \* the reader

Bytes == 0 .. Alphabet - 1

\* Positions: a few zeros before the window, and room for a block after it.
Places == -2 .. Capacity + BlockMax - 1

\* Variant A looks positions up by one byte before them, variant B by two.  (The
\* code: by 13 bits of two bytes, and by three bytes.)
Context(b, w, p) == IF b THEN <<w[p - 2], w[p - 1]>> ELSE <<w[p - 1]>>

Contexts == Bytes \X Bytes \cup {<<x>> : x \in Bytes}

\* What both sides start from.
Fresh(b) ==
    [b |-> b, window |-> [p \in Places |-> 0], cursor |-> Start, dirty |-> TRUE,
     table |-> [k \in Contexts |-> Start - 1],
     guess |-> [x \in Bytes |-> 0],       \* variant B: the byte last seen after x
     audio |-> 0, image |-> 0,            \* filter blocks since the models' reset
     pos |-> Start]                       \* the position the code filter counts from

NoBlock == [mode |-> "none", cut |-> FALSE]

\* How a stream is read: a record at a time (one container), in pieces as they come
\* and in spite of damage (a worker of a parallel one), or as a whole.  It makes no
\* difference before something is missing, or at the end, and is settled there.
Readers == {"members", "lenient", "whole"}

Init ==
    \E b \in BOOLEAN :
        /\ input = <<>>
        /\ enc = Fresh(b) @@ [pc |-> "idle", at |-> 0, prev |-> -1, code |-> <<>>, kind |-> "other",
                              lastLong |-> 0, blocks |-> 0, full |-> FALSE,
                              long |-> [k \in Bytes \X Bytes |-> Start - 1]]
        /\ wire = NoBlock
        /\ dec = Fresh(b) @@ [pc |-> "idle", at |-> 0, prev |-> -1, left |-> <<>>, how |-> "any",
                              blocks |-> 0, member |-> 0, handed |-> 0, wrong |-> {}, status |-> 0]

TypeOK ==
    /\ input \in Seq(Bytes)
    /\ \A s \in {enc, dec} :
          /\ s.cursor \in 0..Capacity /\ s.pos \in Nat
          /\ \A k \in Contexts : s.table[k] \in 0 .. Capacity - 1
          /\ \A p \in Places : s.window[p] \in Bytes
    /\ enc.pc \in {"idle", "filter", "noise", "head", "parse", "sent", "crashed"}
    /\ dec.pc \in {"idle", "lz", "over"}

-----------------------------------------------------------------------------
(* What both sides do to window and tables *)

Put(w, p, bytes) == [q \in Places |-> IF q \in p .. p + Len(bytes) - 1 THEN bytes[q - p + 1] ELSE w[q]]

Slice(w, p, n) == [i \in 1..n |-> w[p + i - 1]]

\* Room for a block: start over at the front; the first time, what is left is
\* cleared, later it keeps the bytes of the lap before.
Wrapped(s) ==
    IF Capacity >= s.cursor + BlockMax THEN s
    ELSE [s EXCEPT !.cursor = 0, !.dirty = FALSE,
                   !.window = IF s.dirty
                              THEN [p \in Places |-> IF p >= s.cursor THEN 0 ELSE @[p]] ELSE @]

\* The positions of a block enter the table; a later position with the same
\* context replaces an earlier one.
Entered(s, places) ==
    [s EXCEPT
       !.table = [k \in Contexts |->
                    LET with == {p \in places : Context(s.b, s.window, p) = k}
                    IN IF with = {} THEN @[k] ELSE CHOOSE p \in with : \A q \in with : q <= p],
       !.guess = [x \in Bytes |-> 0]]

\* The models of the audio and image filters start anew.
Unlearned(s) == [s EXCEPT !.audio = 0, !.image = 0]

Every(first, last, step) == {p \in first..last : (p - first) % step = 0}

\* The code filter, in position order; any rewriting that the position counts in.
Filtered(bytes, pos) == [i \in DOMAIN bytes |-> (bytes[i] + pos) % Alphabet]

Unfiltered(bytes, pos) == [i \in DOMAIN bytes |-> (bytes[i] - pos) % Alphabet]

-----------------------------------------------------------------------------
(* The writer: EncodeBlock *)

\* State::Wrap
Wrap(s) == Wrapped(s)

\* The block goes into the window; code is filtered there, before it is parsed.
Begin(block) ==
    LET s == Wrap(enc)
        stored == IF block.kind = "code" THEN Filtered(block.bytes, s.pos) ELSE block.bytes
    IN /\ enc.pc = "idle" /\ dec.pc = "idle" /\ wire = NoBlock /\ enc.blocks < MaxBlocks
       /\ input' = block.bytes
       /\ enc' = [s EXCEPT !.window = Put(@, s.cursor, stored), !.cursor = @ + Len(stored),
                           !.at = s.cursor, !.kind = block.kind,
                           !.pc = CASE block.kind \in {"audio", "image"} -> "filter"
                                    [] block.kind = "noise" -> "noise"
                                    [] OTHER -> "head"]
       /\ UNCHANGED <<wire, dec>>

Size == Len(input)

\* The counters at the end of EncodeBlock; what the parse kept is forgotten.
Counted(s) == [s EXCEPT !.pos = @ + Size, !.blocks = @ + 1, !.pc = "sent",
                        !.at = 0, !.prev = -1, !.code = <<>>, !.kind = "other"]

\* audio.ResetAll and image.Reset
Reset(s) == Unlearned(s)

\* State::BackfillSparse: its stop, SparseMargin before the block's end, is unsigned
\* and wraps near the front of the window: the loop leaves the window then.
BackfillSparse(s) ==
    IF s.cursor < SparseMargin THEN [s EXCEPT !.pc = "crashed"]
    ELSE Entered(s, Every(s.cursor - Size, s.cursor - SparseMargin - 1, SparseStep))

\* Mutant: the last position of a block stays out of the table.
BackfillDenseShort(s) == Entered(s, s.cursor - Size .. s.cursor - 2)

\* State::BackfillDense
BackfillDense(s) == Entered(s, s.cursor - Size .. s.cursor - 1)

Send(mode, more) ==
    wire' = more @@ [mode |-> mode, size |-> Size, code |-> enc.kind = "code", cut |-> FALSE,
                     bytes |-> Slice(enc.window, enc.cursor - Size, Size)]

\* Noise, or a filter that declines: the block as it is.
StoreBlock ==
    /\ enc.pc \in {"filter", "noise"}
    /\ Send("literal", [dense |-> FALSE])
    /\ LET s == BackfillSparse(enc)
       IN enc' = IF s.pc = "crashed" THEN s ELSE Reset(Counted(s))
    /\ UNCHANGED <<input, dec>>

\* A filtered block: the model of its kind goes on with it.
FilterBlock ==
    /\ enc.pc = "filter"
    /\ Send("filter", [model |-> enc.kind, seen |-> enc[enc.kind]])
    /\ LET s == BackfillSparse(enc)
       IN enc' = IF s.pc = "crashed" THEN s
                 ELSE [Counted(s) EXCEPT ![enc.kind] = @ + 1]
    /\ UNCHANGED <<input, dec>>

-----------------------------------------------------------------------------
(* The parse: LzParse *)

\* How many bytes from p agree with those from q, at most n.
Agree(w, p, q, n) ==
    CHOOSE k \in 0..n :
        /\ \A i \in 0 .. k - 1 : w[p + i] = w[q + i]
        /\ k = n \/ w[p + k] # w[q + k]

\* Not inside the part of the block that is still to be parsed.
Outside(p) == p < enc.at \/ enc.cursor <= p

Op(op, n, x) == [op |-> op, n |-> n, x |-> x]

\* Bytes an operation takes in the bytecode.
OpWidth(o) ==
    CASE o.op = "escape" -> 2
      [] o.op = "match" -> IF o.n < LongMin THEN 1 ELSE IF o.n < LongLen THEN 2 ELSE 3
      [] o.op = "long" -> LongMin - 1
      [] OTHER -> 1

Width(code) == FoldLeft(LAMBDA n, o : n + OpWidth(o), 0, code)

Emit(ops, n) == [enc EXCEPT !.code = @ \o ops, !.at = @ + n, !.pc = "parse"]

\* The front of the block may go on with the long match the block before ended in.
HeadMatch ==
    LET cand == enc.at + enc.lastLong
        n == Agree(enc.window, cand, enc.at, Size)
    IN /\ enc.pc = "head"
       /\ enc' = IF enc.lastLong # 0 /\ cand \in 0 .. Capacity - 1 /\ Outside(cand) /\ n >= LongMin
                 THEN Emit(<<Op("long", n, cand)>>, n)
                 ELSE [enc EXCEPT !.pc = "parse"]
       /\ UNCHANGED <<input, wire, dec>>

\* An escaped byte where the bytecode is aligned: a match by what follows, with its
\* offset (variant A).
LongMatch(s) ==
    LET next == enc.at + 1
        key == <<enc.window[next], enc.window[next + 1]>>
        cand == enc.long[key]
        n == Agree(enc.window, cand, next, enc.cursor - next)
    IN IF enc.b \/ (Width(enc.code) + 1) % Align # 0 THEN s
       ELSE IF n >= LongMin /\ (cand < next \/ enc.cursor <= cand)
       THEN [s EXCEPT !.long[key] = next, !.lastLong = cand - next, !.at = next + n,
                      !.code = Append(@, Op("long", n, cand))]
       ELSE [s EXCEPT !.long[key] = next]

\* One operation: a match at the position the table names, the byte at the distance
\* of the last match, the guessed byte (variant B), or the byte itself.
ParseOp ==
    LET w == enc.window
        key == Context(enc.b, w, enc.at)
        cand == enc.table[key]
        c == w[enc.at]
        n == Agree(w, cand, enc.at, enc.cursor - enc.at)
        s == [enc EXCEPT !.table[key] = enc.at]
        Coded(o) == [s EXCEPT !.code = Append(@, o), !.at = @ + o.n]
        escaped == Coded(Op("escape", 1, c))
        plain == IF c >= Escape THEN LongMatch(escaped) ELSE Coded(Op("byte", 1, c))
    IN /\ enc.pc = "parse" /\ enc.at < enc.cursor
       /\ enc' = CASE n > 0 /\ Outside(cand) ->
                         [Coded(Op("match", n, 0)) EXCEPT
                            !.prev = cand - enc.at,
                            !.lastLong = IF n >= LongLen THEN cand - enc.at ELSE @]
                   [] ~(n > 0 /\ Outside(cand)) /\ w[enc.at + enc.prev] = c -> Coded(Op("repeat", 1, 0))
                   [] OTHER ->
                         IF ~enc.b THEN plain
                         ELSE [IF enc.guess[w[enc.at - 1]] = c THEN Coded(Op("guess", 1, 0)) ELSE plain
                               EXCEPT !.guess[w[enc.at - 1]] = c]
       /\ UNCHANGED <<input, wire, dec>>

\* The block is parsed: coded if that pays (never for two bytes or less), as it is
\* if not, and stored when the bytecode is no shorter than the block.
SendParsed(pays) ==
    LET n == Width(enc.code)
        parsed == [ops |-> enc.code, count |-> n % CountLimit]
    IN /\ enc.pc = "parse" /\ enc.at = enc.cursor
       /\ pays => Size > 2
       /\ IF pays THEN Send("side", parsed)
          ELSE IF n < Size THEN Send("raw", parsed)
          ELSE Send("literal", [dense |-> TRUE])
       /\ enc' = [Reset(Counted(IF ~pays /\ n >= Size THEN BackfillDense(enc) ELSE enc))
                    EXCEPT !.full = @ \/ (pays /\ n >= CountLimit)]
       /\ UNCHANGED <<input, dec>>

-----------------------------------------------------------------------------
(* A cut archive: the block sent is not all there, or nothing follows *)

Cut ==
    /\ dec.pc = "idle" /\ ~wire.cut
    /\ \/ /\ enc.pc = "sent" /\ wire.mode \in {"literal", "filter"}
          /\ \E k \in 0 .. wire.size - 1 :
                wire' = [wire EXCEPT !.bytes = SubSeq(@, 1, k), !.cut = TRUE]
       \/ /\ enc.pc = "sent" /\ wire.mode \in {"raw", "side"}
          /\ \E k \in 0 .. Len(wire.ops) - 1 :
                wire' = [wire EXCEPT !.ops = SubSeq(@, 1, k), !.cut = TRUE]
       \/ /\ enc.pc = "idle" /\ wire = NoBlock /\ enc.blocks > 0
          /\ wire' = [NoBlock EXCEPT !.cut = TRUE]
    /\ UNCHANGED <<input, enc, dec>>

-----------------------------------------------------------------------------
(* The reader: DecodeLzpfMember *)

\* Mutant: the slot of the block that failed goes out with the others.
OverWithSlot(s, status) ==
    [s EXCEPT !.pc = "over", !.status = status,
              !.handed = IF status = 0 THEN s.blocks ELSE s.blocks + 1]

\* The end of a decode: what the caller has got, in blocks.
Over(s, status) ==
    [s EXCEPT !.pc = "over", !.status = status,
              !.handed = IF status = 0 \/ s.how = "lenient" THEN s.blocks ELSE s.member]

\* The reader becomes one of the three.
As(how) == dec.how \in {"any", how}

\* A block of output: compared with the input here.
Delivered(s, bytes) ==
    [s EXCEPT !.blocks = @ + 1, !.pos = @ + wire.size, !.pc = "idle",
              !.at = 0, !.prev = -1,
              !.wrong = IF bytes = input THEN @ ELSE @ \cup {s.blocks + 1}]

Plain(s, bytes) == IF wire.code THEN Unfiltered(bytes, s.pos) ELSE bytes

\* A block is through; the writer goes on, unless the archive is cut in it.
Received ==
    /\ wire' = IF wire.cut THEN [NoBlock EXCEPT !.cut = TRUE] ELSE NoBlock
    /\ enc' = [enc EXCEPT !.pc = "idle"]
    /\ input' = <<>>

Arrived(mode) == enc.pc = "sent" /\ dec.pc = "idle" /\ wire.mode = mode

Fails(status) ==
    /\ \E how \in Readers \ {"lenient"} : As(how) /\ dec' = Over([dec EXCEPT !.how = how], status)
    /\ UNCHANGED <<input, enc, wire>>

\* The reader's sparse backfill stays in the block.
ReaderSparse(s, first, last) ==
    Entered(s, Every(first, (IF last > SparseMargin THEN last - SparseMargin ELSE first) - 1, SparseStep))

\* A filter block; on a cut one the filter may notice, or deliver garbage.
DecodeFilter ==
    LET s == Wrapped(dec)
        good == wire.seen = s[wire.model] /\ ~wire.cut
        bytes == IF good THEN wire.bytes ELSE [i \in 1 .. wire.size |-> 0]
        t == [s EXCEPT !.window = Put(@, s.cursor, bytes), !.cursor = @ + wire.size, ![wire.model] = @ + 1]
    IN /\ Arrived("filter")
       /\ \/ /\ dec' = Delivered(ReaderSparse(t, s.cursor, t.cursor), bytes)
             /\ Received
          \/ /\ wire.cut
             /\ \E how \in Readers : As(how) /\ dec' = Over([dec EXCEPT !.how = how], 5)
             /\ UNCHANGED <<input, enc, wire>>

\* A stored block, whole or read in spite of what it lacks, which comes out as zeros.
DecodeLiteral ==
    LET s == Unlearned(Wrapped(dec))
        lacking == [i \in 1 .. wire.size - Len(wire.bytes) |-> 0]
        t == [s EXCEPT !.window = Put(@, s.cursor, wire.bytes), !.cursor = @ + wire.size]
        entered == IF wire.dense THEN Entered(t, s.cursor .. t.cursor - 1)
                   ELSE ReaderSparse(t, s.cursor, t.cursor)
    IN /\ Arrived("literal")
       /\ \/ /\ wire.cut => As("lenient")
             /\ dec' = [Delivered(entered, Plain(s, wire.bytes \o lacking))
                         EXCEPT !.how = IF wire.cut THEN "lenient" ELSE @]
             /\ Received
          \/ wire.cut /\ Fails(6)

\* The bytecode of a coded block, out of the entropy decoder by its count.
BeginLz ==
    LET s == Unlearned(Wrapped(dec))
        missing == wire.mode = "side" /\ (wire.cut \/ wire.count = 0)
    IN /\ Arrived("raw") \/ Arrived("side")
       /\ \/ /\ missing => As("lenient")
             /\ dec' = [s EXCEPT !.pc = "lz", !.at = s.cursor,
                                 !.left = IF missing THEN <<>> ELSE wire.ops,
                                 !.how = IF missing THEN "lenient" ELSE @]
             /\ UNCHANGED <<input, enc, wire>>
          \/ missing /\ Fails(6)

\* A match may reach into what it writes itself.
RECURSIVE Copied(_, _, _, _)
Copied(w, p, q, n) == IF n = 0 THEN w ELSE Copied([w EXCEPT ![q] = w[p]], p + 1, q + 1, n - 1)

\* One operation of the bytecode.
DecodeOp ==
    LET o == Head(dec.left)
        w == dec.window
        key == Context(dec.b, w, dec.at)
        s == [dec EXCEPT !.left = Tail(@), !.at = @ + o.n]
        from == dec.table[key]
        Written(c) == [s EXCEPT !.window[dec.at] = c, !.table[key] = dec.at]
        Noted(c) == IF dec.b THEN [Written(c) EXCEPT !.guess[w[dec.at - 1]] = c] ELSE Written(c)
    IN /\ dec.pc = "lz" /\ dec.left # <<>>
       /\ dec' = CASE o.op = "long" -> [s EXCEPT !.window = Copied(@, o.x, dec.at, o.n)]
                   [] o.op = "match" -> [s EXCEPT !.window = Copied(@, from, dec.at, o.n),
                                                  !.table[key] = dec.at, !.prev = from - dec.at]
                   [] o.op = "repeat" -> Written(w[dec.at + dec.prev])
                   [] o.op = "guess" -> Written(dec.guess[w[dec.at - 1]])
                   [] OTHER -> Noted(o.x)
       /\ UNCHANGED <<input, enc, wire>>

\* The slot goes out whatever the bytecode filled of it.
EndLz ==
    LET s == [dec EXCEPT !.cursor = @ + wire.size]
    IN /\ dec.pc = "lz" /\ dec.left = <<>>
       /\ dec' = Delivered(s, Plain(s, Slice(s.window, dec.cursor, wire.size)))
       /\ Received

\* A record ends and another follows: its blocks go out together.
EndMember ==
    /\ enc.pc = "idle" /\ dec.pc = "idle" /\ wire = NoBlock
    /\ dec.member < dec.blocks /\ dec.blocks < MaxBlocks
    /\ dec' = [dec EXCEPT !.member = dec.blocks]
    /\ UNCHANGED <<input, enc, wire>>

\* Where the next block's header should be there is nothing: the record counts as
\* complete, and the next one's tag is missing.  A worker reports nothing itself.
EndOfInput ==
    /\ enc.pc = "idle" /\ dec.pc = "idle" /\ wire = [NoBlock EXCEPT !.cut = TRUE]
    /\ \E how \in Readers :
          /\ As(how)
          /\ dec' = Over([dec EXCEPT !.how = how, !.member = dec.blocks], 2)
    /\ UNCHANGED <<input, enc, wire>>

EndOfStream ==
    /\ enc.pc = "idle" /\ dec.pc = "idle" /\ wire = NoBlock /\ enc.blocks > 0
    /\ dec' = Over(dec, 0)
    /\ UNCHANGED <<input, enc, wire>>

Done == (dec.pc = "over" \/ enc.pc = "crashed") /\ UNCHANGED <<input, enc, wire, dec>>

Next ==
    \/ \E block \in Inputs : Begin(block)
    \/ StoreBlock \/ FilterBlock \/ HeadMatch \/ ParseOp
    \/ \E pays \in BOOLEAN : SendParsed(pays)
    \/ Cut
    \/ DecodeFilter \/ DecodeLiteral \/ BeginLz \/ DecodeOp \/ EndLz
    \/ EndMember \/ EndOfInput \/ EndOfStream \/ Done

-----------------------------------------------------------------------------
(* Properties *)

\* Between two blocks writer and reader have the same window, the stale bytes of
\* earlier laps included, and the same tables and model histories.
LzpfInStep ==
    enc.pc = "idle" /\ dec.pc = "idle" /\ ~wire.cut /\ ~enc.full /\ dec.status = 0 =>
        \A f \in DOMAIN Fresh(TRUE) :
            (f = "guess" => enc.b) => enc[f] = dec[f]

\* What is archived reads back: the one exception is a block whose bytecode is one
\* longer than the count can say, every byte of it escaped.
LzpfReadsBack == dec.wrong # {} \/ dec.status # 0 => wire.cut \/ enc.full

\* A cut costs what comes after it and at most the block it is in; the records
\* before it have all been handed over, and nothing of a failed block.
LzpfCutBounded ==
    dec.pc = "over" /\ ~enc.full =>
        /\ dec.wrong \subseteq {dec.blocks}
        /\ dec.handed \in {dec.member, dec.blocks}

\* The comment on the reader's backfill (sfx_archive.cpp 5564): every 101 bytes,
\* stopping 100 bytes short of the block end.
BackfillStopsInBlock == enc.pc # "crashed"
=============================================================================
