---------------------------- MODULE BlockDriver ----------------------------
(***************************************************************************)
(* The block sequence of -co, -cO and -cc: what a block goes through in    *)
(* the writer (OptimumEncodeSegment, CmEncodeSegment), the record it       *)
(* becomes, and what the reader undoes (DecodeOptimumBlockSequence,        *)
(* DecodeLegacyCmChunk).  Five things remember earlier blocks: the filter  *)
(* of executable code, the models of pictures and of sound, the engine's   *)
(* model and its window.  Writer and reader must make each of them forget  *)
(* at the same blocks, although a record says little about it.             *)
(*                                                                         *)
(* A memory is the sequence of what it has seen since it last forgot.      *)
(* Bytes are the block they come from under the layers still on them; a    *)
(* layer carries the memory it was put on with and comes off with the same *)
(* memory only.  With another, garbage comes out or the stage fails.  What *)
(* the detectors find in a block and what pays is free (Profiles).         *)
(***************************************************************************)
EXTENDS Integers, Sequences, SequencesExt

CONSTANTS
    Profiles,      \* what the writer's detectors find in a block
    Families,      \* "lz" for -co and -cO, "cm" for -cc
    DriverBlocks   \* bound: blocks in a stream

VARIABLES input,   \* the block under way, as a sequence of at most one
          enc,     \* the writer
          wire,    \* the record sent
          dec      \* the reader

-----------------------------------------------------------------------------
(* Bytes and layers *)

Garbage == [block |-> 0, layers |-> <<>>]

Raw(n) == [block |-> n, layers |-> <<>>]

Under(layer, c) == [c EXCEPT !.layers = <<layer>> \o @]

Without(layer, c) ==
    IF c.layers # <<>> /\ Head(c.layers) = layer THEN [c EXCEPT !.layers = Tail(@)] ELSE Garbage

\* The memories of a side that has seen nothing.
Blank == [exe |-> <<>>, image |-> <<>>, audio |-> <<>>, model |-> <<>>, window |-> <<>>]

NoRecord == [kind |-> "none", cut |-> "no", torn |-> {}, lost |-> FALSE]

Init ==
    \E f \in Families :
        /\ input = <<>>
        /\ enc = Blank @@ [pc |-> "idle", family |-> f, blocks |-> 0, found |-> CHOOSE p \in Profiles : TRUE,
                           bytes |-> Garbage, on |-> {}, checks |-> <<>>, spanEnd |-> 0, fed |-> FALSE,
                           sent |-> <<>>]
        /\ wire = NoRecord
        /\ dec = Blank @@ [pc |-> "idle", out |-> <<>>, compared |-> {}]

-----------------------------------------------------------------------------
(* The writer: one block of the feeder *)

\* Blocks are numbered from 1; the stream offset of block n is n - 1.
Begin(found) ==
    /\ enc.pc = "idle" /\ dec.pc = "idle" /\ wire = NoRecord /\ enc.blocks < DriverBlocks
    /\ enc' = [enc EXCEPT !.pc = "exe", !.found = found, !.blocks = @ + 1, !.bytes = Raw(enc.blocks + 1),
                          !.on = {}, !.checks = <<>>]
    /\ input' = <<enc.blocks + 1>>
    /\ UNCHANGED <<wire, dec>>

\* A stage: its layer goes on, what it was given is checked by the reader.
Stage(s, name, layer) ==
    [s EXCEPT !.bytes = Under(layer, @), !.on = @ \cup {name}, !.checks = Append(@, s.bytes)]

\* Mutant: a block the filter is not kept on leaves its caches alone.
ExeFilterKept ==
    /\ enc.pc = "exe"
    /\ enc' = IF enc.found.exe
              THEN [Stage(enc, "exe", <<"exe", enc.exe>>) EXCEPT !.exe = Append(@, enc.bytes), !.pc = "forget"]
              ELSE [enc EXCEPT !.pc = "text"]
    /\ UNCHANGED <<input, wire, dec>>

\* The filter of executable code comes first; a run of filtered blocks ends with a
\* block it is not kept on.
ExeFilter ==
    /\ enc.pc = "exe"
    /\ enc' = IF enc.found.exe
              THEN [Stage(enc, "exe", <<"exe", enc.exe>>) EXCEPT !.exe = Append(@, enc.bytes), !.pc = "forget"]
              ELSE [enc EXCEPT !.exe = <<>>, !.pc = "text"]
    /\ UNCHANGED <<input, wire, dec>>

Text ==
    /\ enc.pc = "text"
    /\ enc' = IF enc.found.text THEN [Stage(enc, "text", "text") EXCEPT !.pc = "forget"]
              ELSE [enc EXCEPT !.pc = "image"]
    /\ UNCHANGED <<input, wire, dec>>

\* A block one of the two claimed is not tried as picture or sound, but both models
\* forget.
Forget ==
    /\ enc.pc = "forget"
    /\ enc' = [enc EXCEPT !.image = <<>>, !.audio = <<>>, !.pc = "filters"]
    /\ UNCHANGED <<input, wire, dec>>

Send(record, s) ==
    /\ wire' = record @@ NoRecord
    /\ enc' = [s EXCEPT !.pc = "sent", !.bytes = Garbage, !.on = {}, !.checks = <<>>,
                        !.sent = Append(@, [kind |-> record.kind, exe |-> "exe" \in s.on,
                                            fresh |-> record.kind = "audio" /\ record.fresh])]
    /\ UNCHANGED <<input, dec>>

\* A picture goes out as one, and the model of sound is not told.
Image ==
    /\ enc.pc = "image"
    /\ IF enc.found.image
       THEN Send([kind |-> "image", bytes |-> Under(<<"image", enc.image>>, enc.bytes)],
                 [enc EXCEPT !.image = Append(@, enc.bytes)])
       ELSE /\ enc' = [enc EXCEPT !.image = <<>>, !.pc = "audio"]
            /\ UNCHANGED <<input, wire, dec>>

\* Sound: a header opens a span of so many blocks.  Outside of one, and without a
\* header, the model starts anew and the record says so (mode2_type).
Audio ==
    LET sound == enc.found.audio
        end == IF sound.header > 0 THEN enc.blocks - 1 + sound.header ELSE enc.spanEnd
        span == enc.blocks - 1 < end
        fresh == ~span /\ sound.header < 0
        before == IF fresh THEN <<>> ELSE enc.audio
    IN /\ enc.pc = "audio"
       /\ IF (span \/ sound.is) /\ sound.pays
          THEN Send([kind |-> "audio", fresh |-> fresh, bytes |-> Under(<<"audio", before>>, enc.bytes)],
                    [enc EXCEPT !.audio = Append(before, enc.bytes), !.spanEnd = end])
          ELSE /\ enc' = [enc EXCEPT !.audio = <<>>, !.spanEnd = end, !.pc = "filters"]
               /\ UNCHANGED <<input, wire, dec>>

\* The filter of differences, then that of repeated words, on what is not text.
Filters ==
    LET s == IF enc.found.p1 /\ "text" \notin enc.on THEN Stage(enc, "p1", "p1") ELSE enc
        t == IF enc.found.p2 /\ "text" \notin enc.on THEN Stage(s, "p2", "p2") ELSE s
    IN /\ enc.pc = "filters"
       /\ enc' = [t EXCEPT !.pc = CASE enc.family = "cm" -> "cm"
                                    [] enc.family # "cm" /\ ("exe" \in enc.on \/ enc.found.lz) -> "lz"
                                    [] OTHER -> "bwt"]
       /\ UNCHANGED <<input, wire, dec>>

\* A record with all its stages; coded says whether the engine's layer is on.
Block(s, kind, coded, bytes, checks) ==
    [kind |-> kind, coded |-> coded, on |-> s.on, bytes |-> bytes, checks |-> checks]

\* The engine codes the block; if that is no shorter it goes out stored, and the
\* model starts cold.  The window has the block either way.
LzBlock ==
    LET kept == Append(enc.checks, enc.bytes)
        coded == Under(<<"lz", enc.model, enc.window>>, enc.bytes)
        s == [enc EXCEPT !.window = Append(@, <<"chunks", enc.bytes>>), !.fed = TRUE]
    IN /\ enc.pc = "lz"
       /\ IF enc.found.pays
          THEN Send(Block(s, "lz", TRUE, coded, Append(kept, coded)),
                    [s EXCEPT !.model = Append(@, enc.bytes)])
          ELSE Send(Block(s, "lz", FALSE, enc.bytes, kept), [s EXCEPT !.model = <<>>])

\* Sorted, after two passes on what is not text: param15, which copies from the
\* window and is left out while nothing has been put there, and param14.  The
\* window takes the block as it was before them.
BwtBlock ==
    LET plain == "text" \notin enc.on
        s == IF plain /\ enc.found.p15 /\ enc.fed THEN Stage(enc, "p15", <<"p15", enc.window>>) ELSE enc
        t == IF plain /\ enc.found.p14 THEN Stage(s, "p14", "p14") ELSE s
        u == [t EXCEPT !.window = Append(@, <<"feed", enc.bytes>>), !.fed = TRUE]
        sorted == Under("bwt", t.bytes)
        coded == Under("buckets", sorted)
        kept == t.checks \o <<t.bytes, sorted>>
    IN /\ enc.pc = "bwt"
       /\ IF enc.found.pays
          THEN Send(Block(u, "bwt", TRUE, coded, Append(kept, coded)), u)
          ELSE Send(Block(u, "bwt", FALSE, sorted, kept), u)

\* Context mixing: the model learns from a block also when it is stored.
CmBlock ==
    LET kept == Append(enc.checks, enc.bytes)
        coded == Under(<<"cm", enc.model>>, enc.bytes)
        s == [enc EXCEPT !.model = Append(@, enc.bytes)]
    IN /\ enc.pc = "cm"
       /\ IF enc.found.pays THEN Send(Block(s, "cm", TRUE, coded, Append(kept, coded)), s)
          ELSE Send(Block(s, "cm", FALSE, enc.bytes, kept), s)

-----------------------------------------------------------------------------
(* A cut archive.  The record comes at its length, what it lacks being zeros. *)

\* The fields behind the payload, in the order of the record.
Flags == <<"p14", "p15", "p2", "p1", "text", "exe">>

\* Cut in the payload, or anywhere in the first record; in the fields up to the
\* check bytes; or in the flags: those from some place on read as not set, or the
\* side stream of one lacks bytes.
Cut ==
    /\ enc.pc = "sent" /\ dec.pc = "idle" /\ wire.cut = "no"
    /\ \/ wire' = [wire EXCEPT !.cut = "short"]
       \/ enc.blocks > 1 /\ wire' = [wire EXCEPT !.cut = "head"]
       \/ /\ enc.blocks > 1 /\ wire.kind \notin {"image", "audio"}
          /\ \E k \in DOMAIN Flags :
                LET behind == {Flags[i] : i \in k .. Len(Flags)}
                IN \/ wire' = [wire EXCEPT !.cut = "flags", !.on = @ \ behind, !.lost = wire.on \cap behind # {}]
                   \/ /\ Flags[k] \in wire.on /\ wire.on \cap behind = {Flags[k]}
                      /\ wire' = [wire EXCEPT !.cut = "flags", !.torn = {Flags[k]}]
    /\ UNCHANGED <<input, enc, dec>>

-----------------------------------------------------------------------------
(* The reader *)

\* The block is out.  A cut archive ends behind it, with zeros over if a flag that
\* was set has been read as not set: they are no block.
Delivered(s, bytes) ==
    [s EXCEPT !.out = Append(@, bytes),
              !.pc = CASE wire.cut = "no" -> "idle"
                     [] wire.cut # "no" /\ wire.lost -> "failed"
                     [] OTHER -> "over"]

Received(s, bytes) ==
    /\ dec' = Delivered(s, bytes)
    /\ wire' = [NoRecord EXCEPT !.cut = wire.cut]
    /\ enc' = [enc EXCEPT !.pc = "idle"]
    /\ input' = <<>>

Fails ==
    /\ dec' = [dec EXCEPT !.pc = "failed"]
    /\ UNCHANGED <<input, enc, wire>>

Arrived(kinds) == enc.pc = "sent" /\ dec.pc = "idle" /\ wire.kind \in kinds

DecodeShort == Arrived({"image", "audio", "lz", "bwt", "cm"}) /\ wire.cut = "short" /\ Fails

\* The fields that say what the payload is are cut, and with them the check bytes:
\* it is taken for something else, passed over, fails, or comes out right.
DecodeHeadless ==
    /\ Arrived({"image", "audio", "lz", "bwt", "cm"}) /\ wire.cut = "head"
    /\ \E out \in {<<>>, <<Garbage>>, <<wire.bytes>>, <<Raw(enc.blocks)>>}, end \in {"over", "failed"} :
          dec' = [dec EXCEPT !.out = @ \o out, !.pc = end]
    /\ UNCHANGED <<input, enc, wire>>

DecodeImage ==
    LET bytes == Without(<<"image", dec.image>>, wire.bytes)
    IN /\ Arrived({"image"}) /\ wire.cut = "no"
       /\ \/ Received([dec EXCEPT !.audio = <<>>, !.image = Append(@, bytes)], bytes)
          \/ bytes = Garbage /\ Fails

DecodeAudio ==
    LET before == IF wire.fresh THEN <<>> ELSE dec.audio
        bytes == Without(<<"audio", before>>, wire.bytes)
    IN /\ Arrived({"audio"}) /\ wire.cut = "no"
       /\ \/ Received([dec EXCEPT !.image = <<>>, !.audio = Append(before, bytes)], bytes)
          \/ bytes = Garbage /\ Fails

\* What comes out of a chain of stages, in their order, each of them a check.
Chain(c, layers) ==
    FoldLeft(LAMBDA cs, layer : Append(cs, Without(layer, Last(cs))), <<c>>, layers)

\* A side stream that lacks bytes takes no layer off.
Layer(f) ==
    CASE f \in wire.torn -> "torn"
      [] f \in {"p15"} \ wire.torn -> <<"p15", dec.window>>
      [] f \in {"exe"} \ wire.torn -> <<"exe", dec.exe>>
      [] OTHER -> f

Layers(fs) == [i \in DOMAIN fs |-> Layer(fs[i])]

\* The engine's stages, to the bytes the window takes.
EngineLayers ==
    CASE wire.kind = "lz" -> IF wire.coded THEN <<<<"lz", dec.model, dec.window>>>> ELSE <<>>
      [] wire.kind = "cm" -> IF wire.coded THEN <<<<"cm", dec.model>>>> ELSE <<>>
      [] OTHER -> (IF wire.coded THEN <<"buckets">> ELSE <<>>) \o <<"bwt">>
                  \o Layers(SelectSeq(<<"p14", "p15">>, LAMBDA f : f \in wire.on))

AfterLayers == Layers(SelectSeq(<<"p2", "p1", "text">>, LAMBDA f : f \in wire.on))

\* Mutant: what the last stage gives is not compared.
VerdictButLast(marks) ==
    \A i \in 1 .. Len(marks) - 1 : marks[i] = wire.checks[Len(wire.checks) + 1 - i]

\* The check bytes are compared last to first, and only if there are as many as
\* stages: the filter of executable code is none of them.
Verdict(marks) ==
    \A i \in DOMAIN marks : marks[i] = wire.checks[Len(wire.checks) + 1 - i]

Compared(marks) == Len(marks) = Len(wire.checks)

\* What the memories are after the engine's part.
Learned(s, bytes) ==
    LET t == [s EXCEPT !.image = <<>>, !.audio = <<>>]
    IN CASE wire.kind = "cm" -> [t EXCEPT !.model = Append(@, bytes)]
         [] wire.kind = "lz" -> [t EXCEPT !.window = Append(@, <<"chunks", bytes>>),
                                          !.model = IF wire.coded THEN Append(@, bytes) ELSE <<>>]
         [] OTHER -> [t EXCEPT !.window = Append(@, <<"feed", bytes>>)]

\* A block with all its stages.
DecodeBlock ==
    LET engine == Chain(wire.bytes, EngineLayers)
        marks == engine \o Tail(Chain(Last(engine), AfterLayers))
        filtered == "exe" \in wire.on
        bytes == IF filtered THEN Without(Layer("exe"), Last(marks)) ELSE Last(marks)
        s == [Learned(dec, Last(engine)) EXCEPT
                !.exe = IF filtered THEN Append(@, bytes) ELSE <<>>,
                !.compared = IF Compared(marks) THEN @ \cup {enc.blocks} ELSE @]
    IN /\ Arrived({"lz", "bwt", "cm"}) /\ wire.cut \in {"no", "flags"}
       /\ \/ /\ Compared(marks) => Verdict(marks)
             /\ Received(s, bytes)
          \/ /\ Garbage \in Range(marks) \cup {bytes} \/ (Compared(marks) /\ ~Verdict(marks))
             /\ Fails

EndOfStream ==
    /\ enc.pc = "idle" /\ dec.pc = "idle" /\ wire = NoRecord /\ enc.blocks > 0
    /\ dec' = [dec EXCEPT !.pc = "over"]
    /\ UNCHANGED <<input, enc, wire>>

Done == dec.pc \in {"over", "failed"} /\ UNCHANGED <<input, enc, wire, dec>>

Next ==
    \/ \E found \in Profiles : Begin(found)
    \/ ExeFilter \/ Text \/ Forget \/ Image \/ Audio \/ Filters \/ LzBlock \/ BwtBlock \/ CmBlock
    \/ Cut
    \/ DecodeShort \/ DecodeHeadless \/ DecodeImage \/ DecodeAudio \/ DecodeBlock
    \/ EndOfStream \/ Done

-----------------------------------------------------------------------------
(* Properties *)

Wrong == {n \in DOMAIN dec.out : dec.out[n] # Raw(n)}

\* Blocks i and j with pictures and sound between them, at least one.
Apart(i, j, kinds) == j > i + 1 /\ \A k \in i + 1 .. j - 1 : enc.sent[k].kind \in kinds

\* What does not read back in this code: a run of filtered blocks that a block of
\* sound or a picture ends for the writer and not for the reader, and the model of
\* sound, which forgets at a picture in the reader and not in the writer.
Gaps ==
    \E i, j \in DOMAIN enc.sent :
        \/ enc.sent[i].exe /\ enc.sent[j].exe /\ Apart(i, j, {"image", "audio"})
        \/ /\ enc.sent[i].kind = "audio" /\ enc.sent[j].kind = "audio" /\ ~enc.sent[j].fresh
           /\ Apart(i, j, {"image"})

\* What is archived reads back, whatever its blocks are and in whatever order they
\* come: the self-check's question (sfx_archive.cpp 14616).
DriverReadsBack == Wrong # {} \/ dec.pc = "failed" => wire.cut # "no" \/ Gaps

\* A block whose check bytes have been compared is right, also the last one of a cut
\* archive and also with a memory that is not the writer's.
ComparedMeansRight == Wrong \cap dec.compared = {}
=============================================================================
