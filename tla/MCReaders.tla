----------------------------- MODULE MCReaders -----------------------------
(***************************************************************************)
(* The readers of an archive: the driver that decodes it record by record  *)
(* to extract or test it (Extract), the checks that follow it while it is  *)
(* being written (LiveCheck), the verdict on what was written (SelfCheck)  *)
(* with its checksum (Crc64), and the sink several workers write their     *)
(* streams into (PSink).  part says which of them runs; the variables of   *)
(* the others rest.                                                        *)
(*                                                                         *)
(* Extract: one to three files over one to three data records, in one      *)
(* block or several, cut at every byte or damaged in any data record or    *)
(* checksum, of every family, in every mode.  LiveCheck: two worker        *)
(* streams, as `a -p2` lays them out, sound or with one of the damages a   *)
(* writer bug could do.  PSink: up to three files in one stream or two,    *)
(* of every shape the readers hand to the sink.  SelfCheck: one to three   *)
(* files, one of them twice, larger than an offset reaches or empty, in    *)
(* one to three streams, sound or with one error of the writer or one      *)
(* accident.  Crc64: texts long enough for every part of the folds, cut at *)
(* will, in a register of 8 bits.                                          *)
(***************************************************************************)
EXTENDS Extract, Crc64, PSink, LiveCheck

CONSTANTS Parts,   \* the parts that are run
          Checks   \* the archives whose self-check is run

\* Where the files start in the output, and where the block ends they end in.
StartAt(sizes, f) == StartOf([g \in DOMAIN sizes |-> [size |-> sizes[g]]], f)

Table(sizes, fs) == [n \in 1 .. Cardinality(fs) |->
    LET f == CHOOSE g \in fs : Cardinality({h \in fs : h < g}) = n - 1
    IN [file |-> f, size |-> sizes[f]]]

Rec(type, body) == [type |-> type, body |-> body, packed |-> 0]

\* The records of one block: blocks of b units, records of r.
Block(family, sizes, checks, b, r, m) ==
    LET total == StartAt(sizes, Len(sizes) + 1)
        last == (total - 1) \div b
        blockOf == [f \in DOMAIN sizes |-> Min({StartAt(sizes, f) \div b, last})]
        endsIn == [f \in DOMAIN sizes |->
                     IF sizes[f] = 0 THEN blockOf[f]
                     ELSE (StartAt(sizes, f) + sizes[f] - 1) \div b]
        named == {f \in DOMAIN sizes : blockOf[f] = m}
        ended == {f \in DOMAIN sizes : endsIn[f] = m}
        units == Min({total, (m + 1) * b}) - m * b
        records == (units + r - 1) \div r
    IN (IF named = {} THEN <<>>
        ELSE <<Rec("table", Table(sizes, named)), Rec("times", Table(sizes, named))>>)
       \o (IF ended = {} \/ ~checks THEN <<>> ELSE <<Rec("sums", Table(sizes, ended))>>)
       \o [n \in 1 .. records |->
             LET len == Min({r, units - (n - 1) * r})
             IN [type |-> "data", packed |-> IF family = "store" THEN len ELSE BlockHeader + 1,
                 body |-> [u \in 1 .. len |-> m * b + (n - 1) * r + u]]]

\* Empty files left over behind the last block, with their dates, checksums and no data.
LeftOver(sizes, n, checks) ==
    LET fs == {f \in DOMAIN sizes : f > Len(sizes) - n}
    IN IF n = 0 THEN <<>>
       ELSE <<Rec("table", Table(sizes, fs)), Rec("times", Table(sizes, fs))>>
            \o (IF checks THEN <<Rec("sums", Table(sizes, fs))>> ELSE <<>>) \o <<Rec("data", <<>>)>>

\* The last n files are left over.
Archive(family, sizes, n, checks, b, r) ==
    LET blocks == IF sizes = <<>> THEN 0 ELSE (StartAt(sizes, Len(sizes) + 1) + b - 1) \div b
        before == SubSeq(sizes, 1, Len(sizes) - n)
    IN <<Rec("codec", family)>>
       \o Joined([m \in 1 .. blocks |-> Block(family, before, checks, b, r, m - 1)])
       \o LeftOver(sizes, n, checks)

\* sizes, files left over, units of a block, units of a data record
Layout(sizes, over, b, r) == [sizes |-> sizes, over |-> over, block |-> b, record |-> r]

MCLayouts == {Layout(<<1, 2, 1>>, 0, 2, 2), Layout(<<2, 1>>, 0, 2, 2), Layout(<<3>>, 0, 4, 1),
              Layout(<<2, 0, 2>>, 0, 4, 2), Layout(<<2, 2>>, 0, 2, 2), Layout(<<1, 3>>, 0, 2, 1),
              Layout(<<0, 2>>, 0, 2, 1), Layout(<<2, 0>>, 1, 2, 1)}

Plain(family, l, checks) ==
    [records |-> Archive(family, l.sizes, l.over, checks, l.block, l.record), cut |-> 1000,
     damaged |-> 0, how |-> "right", badSums |-> {}, checks |-> checks,
     test |-> FALSE, safe |-> FALSE, yes |-> TRUE, old |-> {}, selected |-> DOMAIN l.sizes,
     unsafe |-> {}, locked |-> {}]

\* A stored archive has its empty files in a block with others.
Plains == {Plain(f, l, c) : f \in Families, l \in {m \in MCLayouts : m.over = 0}, c \in BOOLEAN}
          \cup {Plain(f, l, c) : f \in Families \ {"store"}, l \in {m \in MCLayouts : m.over > 0},
                                c \in BOOLEAN}

\* Tested, extracted, or extracted in safe mode.
Modes(xs) == xs \cup {[x EXCEPT !.test = TRUE] : x \in xs} \cup {[x EXCEPT !.safe = TRUE] : x \in xs}

CutAnywhere == UNION {{[x EXCEPT !.cut = n] : n \in 0 .. Bytes(x.records) - 1} : x \in Plains}

Damages == UNION {{[x EXCEPT !.damaged = j, !.how = h] :
                     j \in {m \in DOMAIN x.records : x.records[m].type = "data"},
                     h \in {"wrong", "fail", "fatal"}} : x \in Plains}

BadSums == {[x EXCEPT !.badSums = {f}] : x \in {y \in Plains : y.checks}, f \in {1, 2}}

\* Options, on archives nothing happened to.
Optioned == UNION {{[x EXCEPT !.yes = FALSE, !.old = {1, 2}],
                    [x EXCEPT !.selected = {2}], [x EXCEPT !.unsafe = {1}],
                    [x EXCEPT !.locked = {2}]} : x \in {y \in Plains : 2 \in FilesOf(y)}}

Empty == {Plain(f, Layout(<<>>, 0, 1, 1), TRUE) : f \in Families}

MCInputs == Modes(Plains \cup CutAnywhere \cup Damages \cup {x \in BadSums : x.badSums \subseteq FilesOf(x)})
            \cup Optioned \cup Empty
-----------------------------------------------------------------------------
(* The archives that are checked while they are written: the signature, the *)
(* last worker's header, its data, then worker 0's header and data.         *)

Live(s, n, kind) == [stream |-> s, len |-> n, kind |-> kind]

Good == << Live(0, 1, "other"), Live(1, 1, "codec"), Live(1, 2, "data"), Live(1, 1, "data"),
           Live(0, 1, "codec"), Live(0, 2, "data") >>

BadData == [Good EXCEPT ![3].kind = "baddata"]

ShortHeader == [Good EXCEPT ![5].kind = "short"]

Garbled == [Good EXCEPT ![4].kind = "garbled"]

CutShort == [Good EXCEPT ![6].kind = "cut"]

\* the codec record and the first data of stream 1 change places
DataFirst == [Good EXCEPT ![2] = Good[3], ![3] = Good[2]]

\* a data record of stream 1 is left out
Missing == << Good[1], Good[2], Good[3], Good[5], Good[6] >>

\* a codec record is repeated: the second is not looked at
Repeated == << Good[1], Good[2], Good[2], Good[3], Good[4], Live(0, 1, "codec"),
               Live(0, 1, "short"), Live(0, 2, "data") >>

MCArchives == {Good, BadData, ShortHeader, Garbled, CutShort, DataFirst, Missing, Repeated}

\* The data each stream should decode to, as places in the archive; a stream whose
\* data were lost or moved should have had one more.
MCWant ==
    [a \in MCArchives |->
        [s \in 0..1 |->
            CASE a = Repeated -> IF s = 0 THEN <<8>> ELSE <<4, 5>>
              [] a = Missing -> IF s = 0 THEN <<5>> ELSE <<3, 4>>
              [] a = DataFirst -> IF s = 0 THEN <<6>> ELSE <<2, 4>>
              [] OTHER -> IF s = 0 THEN <<6>> ELSE <<3, 4>>]]

(* Extractions by several workers (PSink): every shape the readers hand to *)
(* the sink                                                                *)

Sl(entry, off, len, group, bad) ==
    [entry |-> entry, off |-> off, len |-> len, group |-> group, bad |-> bad]

EntryOwnPath == <<"p", "q", "r">>

\* What the extractions have in common unless they say otherwise.
Sinking ==
    [policy |-> "produced", quantum |-> 0, incremental |-> TRUE, rewinds |-> FALSE,
     yes |-> TRUE, path |-> EntryOwnPath, old |-> {}, skip |-> {}, locked |-> {}, full |-> {},
     streams |-> << >>]

\* One file in two streams, over an old file, with decoders that may start over.
SplitFile ==
    [Sinking EXCEPT !.streams = << <<Sl(1, 0, 2, 1, {1})>>, <<Sl(1, 2, 1, 1, {2})>> >>,
                  !.rewinds = TRUE, !.yes = FALSE, !.old = {"p"}]

TinySplit ==
    [SplitFile EXCEPT !.streams = << <<Sl(1, 0, 1, 1, {1})>>, <<Sl(1, 1, 1, 1, {2})>> >>]

\* A file in two streams, in quanta of two bytes.
SplitQuanta ==
    [Sinking EXCEPT !.streams = << <<Sl(1, 0, 5, 1, {1})>>, <<Sl(1, 5, 3, 1, {})>> >>,
                  !.policy = "group", !.quantum = 2]

\* Three files in two streams, decoded whole before they are written.
Tables(policy, quantum) ==
    [Sinking EXCEPT !.streams = << <<Sl(1, 0, 2, 1, {}), Sl(2, 0, 2, 1, {1})>>,
                                 <<Sl(2, 2, 1, 1, {}), Sl(3, 0, 2, 2, {1})>> >>,
                  !.policy = policy, !.quantum = quantum, !.incremental = FALSE,
                  !.yes = FALSE, !.old = {"p", "q"}]

\* A chain of entries in one stream, empty ones among them, in groups of quanta.
Chain(policy, quantum) ==
    [Sinking EXCEPT !.streams = << <<Sl(1, 0, 3, 1, {1}), Sl(2, 0, 0, 2, {1}), Sl(3, 0, 3, 2, {})>> >>,
                  !.policy = policy, !.quantum = quantum]

\* The same, all to one path (-sp, -forceout).
ToOnePath == [Chain("produced", 0) EXCEPT !.path = [e \in 1..3 |-> "p"], !.yes = FALSE]

\* Files that are not wanted, cannot be created or stop taking bytes.
Trouble ==
    {[Tables("produced", 0) EXCEPT !.skip = {1},
          !.streams = << <<Sl(1, 0, 2, 1, {}), Sl(2, 0, 1, 1, {1})>>, <<Sl(2, 1, 1, 1, {})>> >>],
     [TinySplit EXCEPT !.locked = {1}],
     [TinySplit EXCEPT !.full = {1}],
     [ToOnePath EXCEPT !.streams = << <<Sl(1, 0, 2, 1, {1}), Sl(3, 0, 2, 1, {})>> >>,
                       !.full = {3}, !.yes = TRUE]}

\* A stream with nothing in it beside one with a file.
EmptyStream == [Sinking EXCEPT !.streams = << << >>, <<Sl(1, 0, 2, 1, {1})>> >>, !.yes = FALSE,
                               !.old = {"p"}]

MCSinkings ==
    {SplitFile, SplitQuanta, Tables("group", 2), Chain("produced", 0), Chain("group", 2),
     ToOnePath, EmptyStream} \cup Trouble
-----------------------------------------------------------------------------
(* The archives whose self-check is run *)

Listed(n, size) == [name |-> n, content |-> n, size |-> size, ghost |-> FALSE]

Twice(f) == <<f, f>>

MCSelections ==
    {<<Listed(1, 6)>>, Twice(Listed(1, 6)), Twice(Listed(1, 4)) \o <<Listed(1, 4)>>,
     Twice(Listed(1, 4)) \o <<Listed(2, 3)>>, <<Listed(1, 5), Listed(2, 0), Listed(3, 2)>>,
     <<Listed(1, 20)>>, <<Listed(1, 18), Listed(2, 3)>>}

\* Nothing goes wrong.
SoundChecks ==
    {x \in [files : MCSelections, workers : 1..3, kind : {"store", "early", "late"},
            sums : BOOLEAN, defect : {"none"}, accident : {"none"}, lost : {{}, {0}}] :
        x.kind = "late" \/ x.lost = {}}

MCChecks ==
    UNION {{[x EXCEPT !.defect = d] : d \in {"none", "data", "name", "sum", "offset", "twice"}}
           \cup {[x EXCEPT !.accident = d] : d \in {"flip", "cut", "name"}} : x \in SoundChecks}

(* The texts whose checksums are taken *)

TextLength == 21

MCTexts ==
    {[n \in 1..TextLength |-> IF n = m THEN {b} ELSE {}] :
        m \in {1, 2, 3, 4, 5, 8, 9, 16, 17, 18, 20, 21}, b \in {0, 5}}
    \cup {[n \in 1..TextLength |-> {b \in 0..7 : (n * (b + 3) * 7) % 5 < 2}]}
-----------------------------------------------------------------------------
VARIABLES part,
          checked, noted, sent, stored, parsed, found, clean, stage, afterwards, judged

K == INSTANCE SelfCheck WITH
    Inputs <- Checks, OffsetLimit <- 8, TableMax <- 2,
    input <- checked, expected <- noted, archive <- sent, disk <- stored, ctx <- parsed,
    got <- found, decoded <- clean, pc <- stage, after <- afterwards, verdict <- judged

ASSUME SelfCheckAssumption == K!SelfCheckAssumption

ASSUME ChecksAssumption == LiveAssumption

\* The hypothesis of FilesAreComplete holds of these extractions.
ASSUME SinkingsOrderly == Orderly

\* So do those of StatusZero, PrefixStays and IntactStays of these archives.
ASSUME InputsLaidOut == LaidOut /\ Finished

checkVars == <<checked, noted, sent, stored, parsed, found, clean, stage, afterwards, judged>>

allVars == <<part, vars, liveVars, sinkVars, checkVars, crcVars>>

\* What the variables of the ones that do not run hold.
Resting == <<>>

ExtractRests ==
    /\ pc = "rest" /\ in = [safe |-> FALSE] /\ walk = Resting /\ ctx = Resting
    /\ engine = "none" /\ sink = FALSE /\ blockAt = 1 /\ out = Resting /\ err = "none" /\ cursor = 1
    /\ end = "ok" /\ yesToAll = FALSE /\ failed = 0 /\ refused = {} /\ disk = Resting
    /\ said = "nothing" /\ rc = 0

LiveRests ==
    /\ wpc = "rest" /\ archive = Resting /\ left = 0 /\ have = 0 /\ next = 1
    /\ demuxBad = FALSE /\ outBad = FALSE /\ wAsleep = FALSE /\ wk = 0
    /\ verdict = "ok" /\ after = FALSE /\ q = Resting /\ queued = Resting
    /\ done = Resting /\ stop = Resting /\ cpc = Resting /\ cAsleep = Resting
    /\ piece = Resting /\ state = Resting /\ built = Resting /\ decoded = Resting

\* No stream, and files nobody has come to.
SinkRests ==
    /\ job = [streams |-> <<>>] /\ outDisk = Resting /\ strm = Resting /\ thr = Resting
    /\ outFile = [e \in Entries |-> [deciding |-> FALSE, created |-> FALSE]]
    /\ always = FALSE /\ asking = 0 /\ declined = {} /\ mismatches = 0 /\ allClosed = FALSE

CheckRests ==
    /\ checked = Resting /\ noted = Resting /\ sent = Resting /\ stored = Resting
    /\ parsed = Resting /\ found = Resting /\ clean = FALSE /\ stage = "rest"
    /\ afterwards = FALSE /\ judged = "none"

CrcRests == text = Resting /\ upTo = 0 /\ register = {} /\ joined = {}

ReadersInit ==
    /\ part \in Parts
    /\ IF part = "extract" THEN Init ELSE ExtractRests
    /\ IF part = "live" THEN LiveInit ELSE LiveRests
    /\ IF part = "sink" THEN SinkInit ELSE SinkRests
    /\ IF part = "check" THEN K!Init ELSE CheckRests
    /\ IF part = "crc" THEN CrcInit ELSE CrcRests

ExtractDoes(A) ==
    part = "extract" /\ A /\ UNCHANGED <<part, liveVars, sinkVars, checkVars, crcVars>>

LiveDoes(A) == part = "live" /\ A /\ UNCHANGED <<part, vars, sinkVars, checkVars, crcVars>>

SinkDoes(A) == part = "sink" /\ A /\ UNCHANGED <<part, vars, liveVars, checkVars, crcVars>>

CheckDoes(A) == part = "check" /\ A /\ UNCHANGED <<part, vars, liveVars, sinkVars, crcVars>>

ReadersNext ==
    \/ ExtractDoes(Next \/ Done)
    \/ LiveDoes(LiveNext \/ LiveTerminated)
    \/ SinkDoes(SinkNext \/ SinkTerminated)
    \/ CheckDoes(K!Next \/ K!Terminated)
    \/ /\ part = "crc" /\ (CrcNext \/ CrcTerminated)
       /\ UNCHANGED <<part, vars, liveVars, sinkVars, checkVars>>

\* Fairness: the program's main thread runs, which is the driver's loop or the writer,
\* and so does the thread of each check.  Of a parallel extraction it is enough that
\* some worker runs as long as one can, the user's answers being among its steps.
ReadersSpec ==
    /\ ReadersInit /\ [][ReadersNext]_allVars
    /\ WF_allVars(ExtractDoes(Next) \/ LiveDoes(Writer) \/ SinkDoes(SinkNext))
    /\ \A s \in LiveStreams : WF_allVars(LiveDoes(CheckThread(s)))

-----------------------------------------------------------------------------
(* Properties: the modules' own, of the part that runs *)

\* Every variable has its type, and the sink of a lone extraction is with a decoder
\* that may use it.
ReadersTypeOK ==
    /\ part = "extract" => TypeOK
    /\ part = "live" => LiveTypeOK
    /\ part = "sink" => SinkTypeOK
    /\ part = "check" => K!TypeOK

\* SelfCheck: an archive the check lets pass reads back (README.md:149 of the
\* repository).
OkReadsBack == part = "check" => K!OkReadsBack

\* SelfCheck: it does if it was decoded for the check, and, if it was followed, unless a
\* file is named twice or beyond the reach of an offset, or the writer's error is in the
\* place or the checksum of a piece.
CheckedReadsBack == part = "check" => K!CheckedReadsBack

\* SelfCheck: no archive that is as it was written and reads back is refused.
SoundKept == part = "check" => K!SoundKept

\* SelfCheck: lists of pieces have the same runs exactly when they hold the same bytes.
RunsExact == part = "check" => K!RunsExact

\* Crc64: the checksum of a text is the one of its definition however it is cut, taken
\* by the tables, the folds or both, or joined from those of its pieces.
PiecesJoin == part = "crc" => TextJoins

\* An extraction comes to its end whatever the archive, a compression does whatever
\* its checks make of their records, and so does a parallel extraction if its
\* questions are answered.
ReadersEnd ==
    <>(\/ part = "extract" /\ pc = "done"
       \/ part = "live" /\ wpc = "end" /\ \A s \in 0..1 : cpc[s] = "exit"
       \/ part = "sink" /\ allClosed
       \/ part \in {"check", "crc"})
=============================================================================
