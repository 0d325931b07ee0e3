---------------------------- MODULE MCRoundTrips ----------------------------
(***************************************************************************)
(* Six writers and their readers, one at a time: the container             *)
(* (Container), the block codec of -cf and -cF (Lzpf), the block sequence  *)
(* of -co, -cO and -cc (BlockDriver), the filter of executable code        *)
(* (ExeFilter), the passes of text (TextTransforms) and the codecs -cd and *)
(* -cD (Lzhd).  part says which of them runs; the others rest in an        *)
(* initial state.                                                          *)
(*                                                                         *)
(* Container: up to three files, empty, small and larger than a piece,     *)
(* private and public, and unreadable ones; one compressor, or three;      *)
(* every kind of codec, the stream codecs with and without a reader        *)
(* thread.  Lzpf: four blocks, of one byte up to a full block, of every    *)
(* kind, in a window of two blocks.  BlockDriver: three blocks, one to     *)
(* fill a memory, one to make it forget, one to use it.  ExeFilter: two    *)
(* blocks of up to two instructions, with two places in the caches.        *)
(* TextTransforms: texts of a few words, lines or tags, for each pass      *)
(* alone and for all four together.  Lzhd: four chunks of up to five bytes *)
(* of every kind, in one stream and in two, in a window of nine.           *)
(***************************************************************************)
EXTENDS Lzpf

CONSTANTS
    Parts,         \* which of the six a run takes in
    Runs, Window, PieceMax, PieceBound, Threshold, TableMax,
    Profiles, Families, DriverBlocks,
    ExeBlocks, MaxExeBlocks, Word, BaseWrap, Recent, AddEspPer

VARIABLES
    part,
    run, archive, todo, pc, met, cur, off, budget, spent, ahead, block, metStart, announced,
    summed, sums, written, named, ended, held, gathered

C == INSTANCE Container WITH Inputs <- Runs, input <- run

D == INSTANCE BlockDriver

X == INSTANCE ExeFilter

ASSUME ContainerAssumption == C!ConstantsAssumption

-----------------------------------------------------------------------------
(* Archives *)

File(size, mode) == [size |-> size, mode |-> mode, ghost |-> FALSE]
Ghost(size) == [size |-> size, mode |-> 644, ghost |-> TRUE]

MCFiles == {File(0, 644), File(1, 600), File(1, 644), File(4, 644), Ghost(2)}

MCCodecs == {<<"store", 0>>, <<"pieces", 0>>, <<"stream", 0>>, <<"stream", 2>>}

\* All lists of one and two files, and of three different ones.
MCFileLists == UNION {[1..n -> MCFiles] : n \in 1..2}
                 \cup {fs \in [1..3 -> MCFiles] : \A i, j \in 1..3 : i # j => fs[i] # fs[j]}

MCRuns == {[files |-> fs, workers |-> w, codec |-> c[1], ahead |-> c[2]] :
               fs \in MCFileLists, w \in {1, 3}, c \in MCCodecs}

-----------------------------------------------------------------------------
(* Blocks of -cf: a run, a byte that comes back, bytes that need an escape *)

Block(bytes, kinds) == {[bytes |-> bytes, kind |-> k] : k \in kinds}

MCBlocks == Block(<<1, 1, 1>>, {"audio"}) \cup Block(<<1, 0, 1>>, {"other", "code"})
              \cup Block(<<2, 3, 2>>, {"other", "noise"}) \cup Block(<<1>>, {"other"})
              \cup Block(<<2, 3>>, {"other"})

\* Sound shorter than the margin of the sparse backfill.
MCShortSound == Block(<<1>>, {"audio"})

-----------------------------------------------------------------------------
(* Blocks of -co: what is found in them *)

Dull == [exe |-> FALSE, text |-> FALSE, image |-> FALSE,
         audio |-> [header |-> -1, is |-> FALSE, pays |-> FALSE],
         p1 |-> FALSE, p2 |-> FALSE, lz |-> TRUE, pays |-> TRUE, p14 |-> FALSE, p15 |-> FALSE]

Sound(header, pays) == [header |-> header, is |-> TRUE, pays |-> pays]

Sorted == [Dull EXCEPT !.lz = FALSE]

MCProfiles ==
    {[Dull EXCEPT !.exe = TRUE, !.p2 = TRUE], [Dull EXCEPT !.exe = TRUE, !.pays = FALSE],
     [Dull EXCEPT !.text = TRUE], [Sorted EXCEPT !.text = TRUE],
     [Dull EXCEPT !.image = TRUE],
     [Dull EXCEPT !.audio = Sound(-1, TRUE)], [Dull EXCEPT !.audio = Sound(2, TRUE)],
     [Dull EXCEPT !.audio = Sound(0, FALSE), !.p1 = TRUE],
     [Dull EXCEPT !.p1 = TRUE, !.p2 = TRUE, !.pays = FALSE],
     [Sorted EXCEPT !.p14 = TRUE, !.p15 = TRUE, !.p1 = TRUE],
     [Sorted EXCEPT !.p15 = TRUE, !.pays = FALSE]}

-----------------------------------------------------------------------------
(* Blocks of executable code: one or two instructions, with and without a  *)
(* displacement, cut short, and one that goes back to the target before;   *)
(* the opcodes are those of ExeFilter                                      *)

Call == 1
Jump == 2
Esc == 3
Jcc == 4
AddEsp == 5
Far == 7

MCCode ==
    {<<Call, 2>>, <<Call, 6, AddEsp, 6>>, <<Call, 2, AddEsp, Jcc>>, <<Jump, 1>>,
     <<Esc, Jcc, Far>>, <<Esc, Jcc, 2>>, <<Esc>>, <<0>>}

MCExeBlocks ==
    {a \o b : a \in MCCode, b \in MCCode \cup {<<>>}}
      \cup {<<Call, 2>> \o a \o <<Call, 6, 0>> \o b :
               a \in {<<Call, 2>>, <<Jump, 1>>}, b \in {<<0>>, <<0, Esc>>, <<Call, 2, 0, 0>>}}

-----------------------------------------------------------------------------
(* Texts: 7, 8 and 9 are letters, 8 the lower case of 9, 20 begins those   *)
(* that look like a count                                                  *)

\* All texts of up to n of the parts.
Of(parts, n) == {FlattenSeq(s) : s \in UNION {[1..k -> parts] : k \in 1..n}}

NewLine == <<2, 1>>
BTag == <<5, 8, 8, 8, 6>>
BEnd == <<5, 4, 8, 8, 8, 6>>
Line == <<7, 7, 7, 7, 7, 7, 1>>

CrlfTexts == {NewLine \o NewLine \o NewLine \o t : t \in Of({NewLine, <<1>>, <<2>>, <<7>>, <<0>>}, 5)}

RleTexts ==
    Of({Line \o Line, <<1>>, <<7, 8, 1>>, <<20, 7, 1>>, <<20, 8, 8>>}, 4)
      \cup {Line \o Line \o Line \o Line \o Line}

LfTexts == Of({<<7, 7, 3>>, <<7, 7, 7>>, <<7, 6, 1>>, <<7, 1>>, <<3>>}, 4)

\* Tags that are closed, closed in another order or in capitals, or not at all, and
\* one whose end is not written.
HtmlTexts ==
    Of({<<5, 7, 6>>, <<5, 4, 7, 6>>, BTag, BEnd, <<5, 8, 8, 8>>, <<5, 8, 9, 8, 4, 6>>, <<5, 4, 8, 9, 8>>,
        <<4>>, <<5>>}, 4)

MixedTexts ==
    Of({BTag, <<7, 7, 7>> \o BEnd \o NewLine, <<7, 7, 7>> \o NewLine, <<20, 7, 7, 7, 7>> \o NewLine}, 4)

MCTexts ==
    (CrlfTexts \X {{"crlf"}}) \cup (RleTexts \X {{"rle"}}) \cup (LfTexts \X {{"lf"}})
      \cup (HtmlTexts \X {{"html"}}) \cup (MixedTexts \X {{"crlf", "rle", "lf", "html"}})

T == INSTANCE TextTransforms WITH
       Texts <- MCTexts, GainMax <- 1, MinText <- 4, RunMax <- 6, LineHard <- 1, LineMin <- 2,
       LineMax <- 4, LinesKept <- 2, LineGuess <- 3, LfEvery <- 3, TagMax <- 4, LookMax <- 6,
       StackMax <- 2, RingMax <- 1, HtmlSlack <- 1, RoomMin <- 0

-----------------------------------------------------------------------------
(* Chunks of -cd: they fill the window to the last byte or not, repeat     *)
(* what is there, and come back when the window starts over                *)

Chunk(bytes, kind) == [bytes |-> bytes, kind |-> kind, exe |-> FALSE, header |-> FALSE, pack |-> FALSE]

MCChunks ==
    {Chunk(<<0, 1, 0, 1, 0>>, "plain"), Chunk(<<1, 0, 0, 0>>, "plain"), Chunk(<<1>>, "plain"),
     [Chunk(<<1, 0, 0, 1>>, "plain") EXCEPT !.pack = TRUE],
     [Chunk(<<0, 1, 1>>, "plain") EXCEPT !.exe = TRUE, !.header = TRUE],
     [Chunk(<<0, 1, 0, 0>>, "plain") EXCEPT !.exe = TRUE],
     Chunk(<<1, 0, 1, 0, 0>>, "image"), Chunk(<<0, 1, 0>>, "sound"), Chunk(<<0, 1, 1, 1, 0>>, "span")}

H == INSTANCE Lzhd WITH
       Size <- 9, Short <- 2, Overhead <- 0, RepMin <- 1, NewMin <- 2, ContMin <- 3, Fars <- {6},
       Alphabet <- 2, Chunks <- MCChunks, MaxChunks <- 4, MaxStreams <- 2

ASSUME CdAssumption == H!LzhdAssumption

-----------------------------------------------------------------------------
containerVars == <<run, archive, todo, pc, met, cur, off, budget, spent, ahead, block, metStart,
                   announced, summed, sums, written, named, ended, held, gathered>>

ContainerRests ==
    /\ run = <<>> /\ archive = <<>> /\ todo = <<>> /\ pc = "" /\ met = <<>> /\ cur = 0 /\ off = 0
    /\ budget = 0 /\ spent = FALSE /\ ahead = <<>> /\ block = <<>> /\ metStart = 0
    /\ announced = {} /\ summed = {} /\ sums = <<>> /\ written = 0
    /\ named = <<>> /\ ended = <<>> /\ held = <<>> /\ gathered = 0

CodecRests == input = <<>> /\ enc = <<>> /\ wire = <<>> /\ dec = <<>>

MCInit ==
    /\ part \in Parts
    /\ \/ part = "container" /\ C!Init /\ CodecRests
       \/ part = "lzpf" /\ Init /\ ContainerRests
       \/ part = "driver" /\ D!Init /\ ContainerRests
       \/ part = "exe" /\ X!Init /\ ContainerRests
       \/ part = "text" /\ T!Init /\ ContainerRests
       \/ part = "cd" /\ H!Init /\ ContainerRests

MCNext ==
    \/ part = "container" /\ C!Next /\ UNCHANGED <<part, input, enc, wire, dec>>
    \/ part = "lzpf" /\ Next /\ UNCHANGED part /\ UNCHANGED containerVars
    \/ part = "driver" /\ D!Next /\ UNCHANGED part /\ UNCHANGED containerVars
    \/ part = "exe" /\ X!Next /\ UNCHANGED part /\ UNCHANGED containerVars
    \/ part = "text" /\ T!Next /\ UNCHANGED part /\ UNCHANGED containerVars
    \/ part = "cd" /\ H!Next /\ UNCHANGED part /\ UNCHANGED containerVars

MCSpec == MCInit /\ [][MCNext]_<<part, input, enc, wire, dec, containerVars>>

-----------------------------------------------------------------------------
\* Every piece of a stream is named exactly once, in the order its bytes come
\* (Container, ListedOnce).
ListedOnce == part = "container" => C!ListedOnce

\* A reader that takes the records as they come has a piece's name before its bytes
\* and its checksum when its last byte arrives (Container, SumsWithData).
SumsWithData == part = "container" => C!SumsWithData

\* A finished archive reads back (Container, RoundTrip).
RoundTrip == part = "container" => C!RoundTrip

\* The modes survive, as far as blocks with one table go (Container, ModesKept).
ModesKept == part = "container" => C!ModesKept

\* Every file of a finished archive gets the mode it had, as the reader's comment
\* has it (Container, ModesAligned).
ModesAligned == part = "container" => C!ModesAligned

\* Between two blocks of -cf writer and reader have the same window, tables and
\* model histories, and what is archived reads back, unless a block's bytecode is
\* longer than its count can say (Lzpf, LzpfInStep and LzpfReadsBack).
CfReadsBack == part = "lzpf" => LzpfInStep /\ LzpfReadsBack

\* A cut -cf archive loses what comes after the cut and at most the block it is in
\* (Lzpf, LzpfCutBounded).
CfCutBounded == part = "lzpf" => LzpfCutBounded

\* What is archived with -co, -cO or -cc reads back, whatever its blocks are, but
\* for the two gaps (BlockDriver, DriverReadsBack).
DriverReadsBack == part = "driver" => D!DriverReadsBack

\* A block of -co, -cO or -cc whose check bytes have been compared is right, also
\* in a cut archive (BlockDriver, ComparedMeansRight).
ComparedMeansRight == part = "driver" => D!ComparedMeansRight

\* Filtered code comes back as it was, block after block, and leaves the same caches
\* on both sides (ExeFilter, ExeReadsBack).
ExeReadsBack == part = "exe" => X!ExeReadsBack

\* A text comes back from whatever passes it has gone through, but for the two gaps
\* (TextTransforms, TextReadsBack).
TextReadsBack == part = "text" => T!TextReadsBack

\* A text comes back also if a tag begins in another one, the two stacks of tags
\* being in step (TextTransforms, TagsReadBack).
TagsReadBack == part = "text" => T!TagsReadBack

\* Between two chunks of -cd or -cD writer and reader have the same window, place,
\* models and filter position, and what is archived reads back, up to a cut, but for
\* code decoded with another stream's origin (Lzhd, LzhdInStep and LzhdReadsBack).
CdReadsBack == part = "cd" => H!LzhdInStep /\ H!LzhdReadsBack

\* Each stream of -cd or -cD is decoded by a fresh instance, as the comment of the
\* parallel reader has it (Lzhd, StreamsFresh).
CdStreamsFresh == part = "cd" => H!StreamsFresh
=============================================================================
