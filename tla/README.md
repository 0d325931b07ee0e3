# A verification of nanozip-re

nanozip-re is a reimplementation of the NanoZip 0.09 archiver.  This directory
holds TLA+ models of the parts of it in which a mistake is easy to make and hard
to test: threads that share a console line, files or a queue; archives that
replace archives; streams whose records are written late and read back later.
TLC checks each model on small instances, and TLAPS proves the main results
about seven of them for every value of their constants.

All paths below are under `src/`; `sfx_archive.cpp` is `src/src/sfx_archive.cpp`.
`PROJECT.json` gives, for every definition that models code, the lines it
models, and lists runs, hazards, findings and theorems.

## 1. The system

`nz` is one executable: an option parser, a driver that writes archives (`a`,
`s`, `w32c`), a driver that reads them (`l`, `t`, `x`, `e`), and five families
of codecs.  An archive is a sequence of records; each belongs to a *stream*,
which is what one compressor ("worker") wrote.

| Component | Where | State it keeps | Modelled in |
|---|---|---|---|
| Archive lifecycle | `RunAdd`, `RunAddStoreContainer` 16019-16421 | the archive, the `.part` file, the self-check's verdict | `ArchiveCommit` |
| Stream writer | `RunAddStoreContainer` 16183-16328, `LegacyWriteStoreStream` 15158-15534, `LegacyEmitPieceMetadata` 13483 | reading cursor, ghost budget, read-ahead, pending records, staging buffer | `Container` |
| Container reader | `ParseLegacyParallelStreams` 3880, `AssembleParallelMultiFile` 4131, `ApplyLegacyAttributeRecords` 3549 | slices of each stream, attributes of each entry | `ContainerReader` |
| Concurrent compression | `RunWorkersConcurrently` 15744-15883, `DictTableView` (`nz_lzhd_text`) | job counter, table flags in processing order, finished bodies | `WorkerPool`, `SerialWorkers` |
| Self-check while compressing | `LiveStreamCheck`, `LiveDemux`, `CrcTee` 14617-14890, 16100 | a bounded queue and a decoder thread per stream | `LiveCheck` |
| Self-check of the finished archive | `SelfCheckWrittenArchive` 15590, `SelfCheckStructure` 15643, the recorder of what was read | what was read, piece by piece; what the file lists and decodes to | `SelfCheck`, `StreamLayout` |
| Checksums taken in pieces | `nz_selfcheck.h`, `nz_selfcheck_crc.cpp` | a register, lanes of a fold | `Crc64` |
| Parallel decoding | `ParallelForEach` 4060-4128, `nz_decode_error.h` | a shared index, per-thread status, lowest failing slot | `ParallelFor` |
| Extraction sink | `namespace psink` 2640-3370 | per file: decision, descriptor, bytes missing; per stream: slice cursor, checksums | `PSink` |
| XP condition variables | `nz_xp_compat.cpp` | a queue of waiters per condition variable | `XpCondVar`, `CondVar` |
| Record parser | `TryParseLegacyCnArchive` 5851-9022 | where a record starts and how much of it is there, entries, payloads, checksums | `RecordWalk`, `Sums` |
| Extract/test driver | `RunExtractOrTest` 16753, `RunLegacyCnExtractOrTest` 11907 | which decoder had the sink, partial output, refusals, exit status | `Extract` |
| `-cf`, `-cF` codec | `nz_lzpf_encoder.cpp`, `DecodeLzpfMember` 5311, `DecodeLz77VariantA/B` | a window and tables of positions on each side | `Lzpf` |
| Block sequence of `-co`, `-cO`, `-cc` | `OptimumEncodeSegment`, `CmEncodeSegment`, `DecodeOptimumBlockSequence`, `DecodeLegacyCmChunk` | filters, models and window, and when each forgets | `BlockDriver` |
| Filter of executable code | `nz_exefilter.cpp` | two caches of targets and a base | `ExeFilter` |
| Text passes | `nz_text_transform.cpp`, `nz_lzhd_text.cpp`, `nz_optimum_text.cpp` | per pass: the line before, the lengths of lines, open tags | `TextTransforms` |
| Archive window cache | `WindowedFile` 1652-1844 | four windows per thread, least recently used | not modelled |
| Progress, command line | `progress::Engine`, `sfx_cli`, `main` | a status line; switches | not modelled |
| `-cd`, `-cD` codecs (LZHD, LZHDS) | `nz_lzhd_encoder.cpp`, `nz_lzhds_encoder.cpp`, `nz_cd_tokens.cpp`, `nz_lzhds.cpp` | a window, repeated distances, a match carried over, models; an origin per thread | `Lzhd` |
| BWT, mixers, predictors, tables | `nz_bwt`, `nz_cm`, `nz_audio`, ... | models, counters | not modelled, see 7 |

### How the parts interact

Writing.  `RunAddStoreContainer` asks about an existing archive, opens
`<archive>.part` next to it (or the archive itself when there is none), wraps
the file in `CrcTee`, and has the streams written: by
`LegacyWriteStoreStream` one after another, or by `RunWorkersConcurrently` on a
pool whose bodies the main thread writes in the same order.  Every byte written
also goes through `LiveDemux`, which cuts it into records and *pushes* each to
its stream's `LiveStreamCheck`, blocking while that queue is full.  When the
streams are out the writer closes the file, waits for the checks, reads the
container back, and renames or discards.

Reading.  The parser builds the slices of each stream; `Publish` hands them to
the sink; `ParallelForEach` runs one decoder per stream, which *calls back* into
the sink (`StreamBegin`, `StreamWrite`, `StreamRewind`, `StreamEnd`) as bytes
come out.  The sink asks the overwrite question of the first worker that reaches
a file.  The report of a batch is the lowest failing slot's.

Below all of them, on 32-bit Windows, the condition variables of the C++
runtime are `nz_xp_compat.cpp`'s.

### What is hard

- *Interleavings*: several workers reach one file; one queue is full while its
  reader fails; flags set under a lock are notified after it; jobs wait for jobs
  in the pool they run in.
- *Order*: records are emitted later than the reads that caused them; streams
  fail in any order but one is reported; bodies finish in any order but are
  written in one.
- *Partial failure*: an exception skips the cleanup; a rename fails after the
  old archive is gone; one check is skipped, another fails.
- *Retries*: a stream that starts over has already written bytes, counted them,
  and checked slices.
- *Crash*: a kill between any two file operations.
- *Boundaries*: blocks, pieces, quanta, tables and files do not line up.

`PROJECT.json` lists them under `hazards`, each at its line.

## 2. The modules

Each module has the component's state as variables and one action per section of
code that is atomic: what runs under a mutex, or, in sequential code, one
operation.  Definitions keep the names of the source.  In every module the
operators whose comment begins with `Mutant:` are wrong versions of the definition
after them, each a bug the code could plausibly have had; they are not used by
the specification and exist to show that each property can fail.

**ArchiveCommit** -- runs of `a`, `s` and `w32c` follow each other in one
directory.  A file is the run that wrote it, how much of it is there and what is
wrong with it.  Actions follow `RunAddStoreContainer` from the existence test to
the footer; `CompressThrows` and `CheckThrows` are the exceptions `main` catches,
`Kill` may come anywhere.  Compression and checks are outcomes here, and each
check finds what its code compares, no more: the one made along the way has every
stream decoded, the file compared with what was written and the list with what
was read (`LiveVerdict`, `Structure`); the one made after the fact decodes the file
and compares names, sizes and contents, but not the file with what was written
(`After`).  So of the four faults a *stream* that decodes to other bytes and a wrong
*list* are found either way; a *disk* that holds other bytes than were written is
always found along the way, and after the fact only where it changes what is
decoded; a sound piece the reader puts in another *place* (finding 5) passes the
first check and may show in the second.

**LiveCheck** -- the writer, the demux and a thread per stream.  A record is its
stream, its length and its kind; decoding follows from the kind.  A thread that
waits sleeps until it is notified, or for no reason, and tests again.  The
archives it writes include damaged ones: what a bug in the compressor would
produce is what the self-check is for.

**SelfCheck** -- the check made of an archive before it takes its name.  An
archive of `-cn`, `-cf`, `-cF`, `-cd` or `-cD` is decoded again and compared
with what was read; one of `-co`, `-cO` or `-cc` has been followed by
`LiveStreamCheck`, and only its file and its list are looked at.  The writer
makes at most one error and at most one accident befalls the file.  What was
read and what comes out are compared as *runs* of pieces, as `nz_selfcheck.h`
defines them.

**StreamLayout** -- how the bytes of all files are shared out between the
compressors and where a stream's pieces start; used by `Container` and
`SelfCheck`.

**Crc64** -- the table walk, the folds by carry-less multiplication and the
joining of two checksums, against the definition of the remainder bit by bit.
A register is the set of its one bits, so that the algorithms of 64 and of 32
bits are the same ones.

**WorkerPool**, implementing **SerialWorkers** -- the pool and the main thread.
Whether a compressor uses its dictionary tables depends on whether an *earlier*
stream filled them (quirk 56), so a worker waits, at its first look, until that
is known.  `SerialWorkers` is the one-thread path, whose bodies are functions of
the blocks and of the flags before them; the bodies the pool writes are its
bodies.  Blocks are chosen so that the inherited flag changes what they
compress to.

**ParallelFor** -- the loop on the calling thread alone and on a pool, the
thread-local status with its first-wins rule, the lowest slot, the exceptions.

**PSink** -- the sink with its locks.  `e.mu` and `f.io` are let go for the
question and for writes; no action spans a release, and between two slices the
model lets other workers in where the code keeps the lock, so it has more
interleavings than the code, not fewer.  A byte on disk is tagged with the entry
and the attempt that wrote it.  `StreamBegin`, `StreamWrite`, `StreamRewind` and
`StreamEnd` are the calls of the code; `LockAskMu`, `SaysYes` and `SaysNo` are
the question under `ask_mu`, which `MustAsk` decides on.  `LongestFile` bounds
the files, `MaxChunk` what one call brings, `MaxTries` the attempts.

**Container** and **ContainerReader** -- the writer of streams as a state
machine, one action per read, piece, and codec call; the reader as operators on
the sequence of records.  A byte is its file and position and a checksum is the
sequence of bytes it was taken over, so "reads back" means the bytes themselves.
The stream codecs' segmentation (`CoBlockFeeder::Next`) is any cut the feeder
can make.  `Window`, `PieceMax`, `PieceBound`, `Threshold` and `TableMax` stand
for 1 MB, 64 KB, 0xff000 and 32768: what matters is the order between them and
that files are smaller, equal and larger.

**XpCondVar**, implementing **CondVar** -- `Resolve`, `CondOf`, the sleep and
the two wakes, step by step.  `CondVar` is what the C++ runtime expects: a wake
takes a waiter if there is one, a lock is released and taken again around a wait.

**RecordWalk** -- the walk over the records of a sequential archive that may end
anywhere: inside a tag, inside a payload, between two records.  What each of
these means differs from family to family, and so does what the parser does with
the piece of a record that is there (a stored one is filled up with what the
buffer held).  Where a record, an entry or a slice begins is a `SumBefore` of
**Sums**, which is a recursive function so that it can be reasoned about.

**Extract**, extending RecordWalk -- the driver: the chain of decoders, each with
the published sink or a buffer, an unused sink handed back, partial output, the
loop over the entries with questions, refusals, write errors and checksums, safe
mode, the exit status.  A file's content is the sequence of the places of its
units in the archive's whole output, so a file is right when it holds its own.

**Lzpf** -- writer and reader of `-cf` and `-cF` between which no offset of an
ordinary match is sent: the reader looks it up in a table of its own, so both must
enter the same positions after every kind of block (sound, pictures, noise, code,
stored, coded), through laps of the window and both variants of the bytecode.

**Lzhd** -- the chunks of `-cd` and `-cD`.  A token is a literal, a distance or
the repeat of one; the writer keeps what it repeats as places next to its own
(`rep`), the reader as distances, and both go round a window whose size is no
multiple of a chunk's, with zeros behind it.  `Slide`, `Skipped`, `Begin`, `Repeat`
and `EndParse` follow `Window::Slide`, `SparseAppend` and `LzEncodeChunk` or
`HdsEncodeChunk`, `Decoded` follows `DecodeChunk`.  What the finders come up with is
free, so any match that is there may be taken; the models of sound, pictures and
literals are the chunks they have learned.  `pack` stands for the passes that put
part of a chunk into a field behind it, which a cut may separate from it.
`NextStream` is the next stream of a parallel archive, read by a thread that has
decoded the last one or by another.

**BlockDriver** -- the block sequence of `-co`, `-cO` and `-cc`.  A memory is the
sequence of what it has seen since it last forgot; a stage puts a layer with its
memory on the block, and a reader takes it off with the same memory only.  What
the detectors find and what pays is free, so every sequence of stages occurs.

**ExeFilter** -- the filter of x86 code in both directions, byte by byte, with the
caches, the base, the tail behind the instructions and the reader's room.

**TextTransforms** -- four of the text passes in both directions, the order they
are tried and undone in, and the room the reader gives them.  Bytes are numbers,
with those a rule asks about told apart.

In the last three a code stream is a sequence of decisions, each with the context
it was coded in; read in another context, or behind its end, it gives anything.
That is what an adaptive coder does when its two sides are out of step, and it is
all the properties need of it.

Each `MC...` module holds the values of the constants for TLC.  Three of them
compose modules that share nothing, one *part* running per behaviour and the
others resting: `MCThreads` (WorkerPool, ParallelFor), `MCReaders` (Extract,
LiveCheck, SelfCheck, Crc64, PSink) and `MCRoundTrips` (Container, Lzpf,
BlockDriver, ExeFilter, TextTransforms, Lzhd).

The theorems are in `ArchiveCommit_proofs`, `XpCondVar_proofs`,
`WorkerPool_proofs`, `ParallelFor_proofs`, `Extract_proofs`, `PSink_proofs` and
`LiveCheck_proofs`, each of which extends its component's module; `Induction` holds
what the last three need to know about recursive functions.

## 3. The runs

| Run | Properties | What it shows | Bounds |
|---|---|---|---|
| `archive_commit` | `TypeOK`, `NeverLost`, `KeptIsChecked`, `LeavesNoTrace`, `ReplacedWithConsent` | an archive is never lost, only replaced with consent; in what is kept without a note every stream decodes to what was read and the list is right, and if it was checked along the way the file is what was written; a refusal leaves nothing | 3 runs, every set of faults |
| `archive_partial` | `NoPartialArchive` *violated* | finding 1 | 2 runs |
| `threads` | `InheritsInOrder`, `WritesSerialArchive`, `FailuresReported`, `BothEnd` | compressing: the archive does not depend on the schedule; decoding: the report is the serial one (the lowest slot that failed, no failed allocation lost, success only when every stream was decoded); either pool ends with every thread joined | 3 streams on 3 threads, 12 inputs; 4 streams on the caller and 2 threads |
| `parallel_for_length` | `LengthErrorReported` *violated* | finding 2 | the same batches |
| `xp_condvar` | `TypeOK`, `QueuedAreWaiting`, `NoLostWaiter`, `ImplementsCondVar` | no lost wake-up, no dangling waiter | 3 threads, unbounded calls |
| `round_trips` | `ListedOnce`, `SumsWithData`, `RoundTrip`, `ModesKept` | every stream lists its pieces once, in time, and reads back | 90 lists of up to 3 files, 1 or 3 streams, 4 codec settings |
| | `CfReadsBack`, `CfCutBounded` | every block reads back, and window, tables and models of both sides agree between any two blocks; a cut loses at most the block it is in | 4 blocks of up to 3 bytes, window of 6 |
| | `DriverReadsBack`, `ComparedMeansRight` | no sequence of stages puts the memories out of step; compared check bytes mean a right block, cut or not | 3 blocks of 11 profiles, 2 engines |
| | `ExeReadsBack` | filtered code comes back and leaves both sides the same caches | 2 blocks of up to 2 instructions, caches of 2 |
| | `TextReadsBack` | a text comes back from every combination of passes taken and left out | up to 4 of 4-9 words, lines or tags (5 line ends) |
| | `CdReadsBack` | windows, models and the position of the filter for code agree between any two chunks, and every chunk comes out right but for finding 7 | 4 chunks of up to 5 bytes in 1 or 2 streams, window of 9, one distance far |
| `container_modes` | `ModesAligned` *violated* | finding 3 | as above |
| `lzpf_backfill` | `BackfillStopsInBlock` *violated* | finding 4 | a margin of 5, blocks of 1 |
| `text_tags` | `TagsReadBack` *violated* | finding 6 | as above |
| `cd_origin` | `CdStreamsFresh` *violated* | finding 7 | as above |
| `self_check` | `OkReadsBack` *violated* | finding 5 | the inputs of the check in `readers` |
| `readers` | `ReadersTypeOK`, `Intact`, `PrefixKept`, `StatusZeroMeansRight`, `SafeWritesVerified` | what comes out of a cut or damaged archive: whole entries before the damage, none after it, no file in safe mode that is not whole and verified, and with checksums no status 0 over a wrong file or a listed one that is missing | 8 layouts of up to 3 files, 5 families, every cut, every damaged record, 3 modes |
| | `VerdictRight`, `ReadersEnd` | the self-check's verdict is right and the writer is never left waiting | 2 streams, 8 archives of 5-8 records, a queue of 2 bytes |
| | `CheckedReadsBack`, `SoundKept`, `RunsExact`, `ReadersEnd` | the check of the finished archive: what it passes reads back but for finding 5, what is sound is kept, runs tell the contents apart however many compressors shared them | 1 to 3 files, one named twice, longer than an offset reaches or empty, 1 to 3 streams, one error or accident |
| | `PiecesJoin`, `ReadersEnd` | a checksum is the one of its definition however the text is cut, by tables, folds or joining | 25 texts of 21 bytes, 8-bit register, lanes of 16, pieces of 7 lengths |
| | `NoKeepsOld`, `ClosedWithLastByte`, `FilesComplete`, `FailureKeepsUnits`, `MismatchesExact`, `ReadersEnd` | with several workers: files complete, old ones kept, exact counts over restarts, nobody left waiting for an answer | 11 extractions, 2 streams, 3 entries, chunks of 3, 2 attempts |

Why the bounds are enough.  Two streams and a queue of two make the queue full
with either kind of record in front of it and another stream's next.  Three
workers are the first number with a middle one, and with the last worker's
header ahead of the others' bodies.  Four slots on three threads leave a slot to
be taken after a failure.  Eleven extractions cover each shape the readers publish
(a file in two streams, several files per stream, a chain with empty entries)
under each flush policy; with two streams every pair of workers on one file is
there, a third adds no new kind of sharing.  Three threads in `XpCondVar` are a
sleeper, one that times out and a waker, in any roles.  In the container a file is
empty, smaller than a piece or larger than piece, window and threshold; with
three streams a file is cut into three; `TableMax = 2` makes a block's names
overflow a table.  Three *equal* files are left out of the lists of three: files
that differ produce every boundary equal ones do.  The file system of
`ArchiveCommit` reaches every combination of leftovers with two runs; the third
shows that they do no harm.  Four blocks in a window of two blocks make it lap
twice.  Three blocks are one to fill a memory, one to make a side forget it and one
to use it.  Two blocks of code carry caches from one into the other, and two
places make a target fall out.  A window of nine does not take two
chunks of five, so that the second goes to the front with part of the first behind
it, and repeats and matches reach round the end.  A register of eight bits with lanes of sixteen has the proportions of the 64 and
128 of the code, and 21 bytes take a fold of four lanes, a fold of one, and a tail;
`SelfCheck` measures an offset against 8, which a file of three pieces passes.  The
layouts of `readers` have a file over two
records, two files in one, an empty file first, between two and left over behind the
last block, one block and several; a cut is made at every byte.

Deadlock is checked everywhere but in `ArchiveCommit`, which ends after
`MaxRuns` runs; the others have a step for "all is done" and nothing else may
stop.  In particular `Container` would deadlock if the reading loop ever ran out
of entries while bytes were asked for: the `break` at 15383 is dead code.

## 4. Fairness

`ThreadsSpec` and `ReadersSpec` assume weak fairness of each thread's own steps:
the operating system runs every thread that can run.  For the workers of `PSink`
less is enough, that one of them runs as long as any can.  Where two parts share a specification, a fairness condition is stated for a thread of
each at once; only one part runs in a behaviour, so it is the condition of that
part's thread.  The driver of `Extract` and the writer of `LiveCheck` are the
program's main thread, each check a thread of its own.  Locks are never assumed
fair: a section under a mutex is one action that is enabled whenever nobody is
inside, and the liveness properties do not depend on who gets it.  A sleeping
thread has a step only after a notification or by a spurious wake-up, and no
fairness is assumed of spurious wake-ups, so a missed notification shows as a
violation.  In `PSink` the user is assumed to answer.  Nothing is assumed of
failing allocations, timeouts or writes: they may happen or not.  The round trips
are safety properties and need none.

In `XpCondVar` no liveness is claimed: returning from a wait takes the caller's
critical section, and Windows does not promise that a thread waiting for one
gets it.  `NoLostWaiter` is the safety part: whoever sleeps can be reached.

## 5. What is proved

TLAPS checks the following for every value of the constants.  Each theorem follows
from an inductive invariant, whose parts TLC checked before; the step that
preserves it has a lemma, or a step, per action.

`ArchiveCommit_proofs`, for any number of runs (`MaxRuns` is a positive number):

- `TypeCorrect`, `ArchiveNeverLost`, `KeptChecked`, `NoTrace`, `OnlyWithConsent`:
  the five properties of `archive_commit`.
- `IInv == TypeOK /\ Unasked /\ Fresh /\ OldKept /\ Consented /\ Known /\ AtRest`.
  `NeverLost` alone is not inductive: that the second rename may fail without
  harm needs to know that the part file is complete and was accepted (`Known`: until
  the verdict its faults are those of what was written unless the disk changed it,
  after it they are only such as the check does not answer for, or it was excused);
  that `Discard` leaves no trace needs to know that nothing of the old archive
  was touched while a replacement is written (`OldKept`), and that the file is
  the run's own otherwise (`Fresh`); `Consented` carries the answer to the
  question from the place it was asked to the rename.

`XpCondVar_proofs`, for any set of threads (the value for "nobody" is none of them):

- `TypeCorrect`, `QueueHoldsWaiters` and `WaitersReachable`: `TypeOK`,
  `QueuedAreWaiting` and `NoLostWaiter`.  The invariant adds that a call that is
  past `CondOf` works on the `XpCond` the slot names (`UsesSlot`), without which a
  waiter could be queued where no waker looks, and that an event is set only for a
  thread that was taken.  The lemmas before it say what appending to, popping from
  and unlinking from a queue without repetition do to its elements.
- `XpIsCondVar`: the XP code implements `CondVar` (`ImplementsCondVar`).  The wait is
  queued, for its caller, in the step that leaves the lock, and a wake takes effect
  in the step that takes the waiter out.  `CallInv` adds what the mapping needs:
  which place belongs to which call, in which mode, and who holds the caller's lock.

`WorkerPool_proofs`, for any number of streams and threads and any blocks (two
streams at least, as the code takes this path only then):

- `Inheritance` (`InheritsInOrder`), `ArchiveIsSerial` (the refinement
  `WritesSerialArchive`), `TypeCorrect`.
- `IInv == TypeOK /\ Owned /\ Untouched /\ Streamed /\ Views /\ Bodies /\ Written`.  A
  job belongs to one thread and changes in its hands only (`Owned`); a view that was
  settled as "not filled" is one all of whose predecessors are done (`Views`), so
  that a flag set later cannot contradict it; with it, what every block of every
  body saw is what the one-thread run shows it, *and stays so* (`Bodies`).  Without
  the last part the refinement would hold when a body is finished and could be lost
  before it is written.

`ParallelFor_proofs`, for any number of streams and threads and every batch (fewer
helpers than streams, as the code starts):

- `ReportIsSerial` (`FailuresReported`), `LoopTypeCorrect`.
- `LoopIInv` adds to the property: slots are handed out once and in order
  (`HandedOut`), whatever went wrong in one is in some thread's hands or noted
  (`Accounted`), whatever is noted did go wrong (`Recorded`), and the status of a
  thread is of the slot it decodes (`StatusOwn`): a status left behind by an earlier
  slot would be reported for a later one.

`Extract_proofs`, for every archive, cut or damaged anywhere, and all options:

- `SafeWrites` (`SafeWritesVerified`), `StatusZero` (`StatusZeroMeansRight`),
  `PrefixStays` (`PrefixKept`), `IntactStays` (`Intact`), `TypeCorrect`.
- `Inv` says of the walk over the records that it lists entries, payloads and
  checksums of *this* archive and never a checksum it has not read (`WalkOf`), that
  the driver gets a beginning of the archive's list (`Handed`), that nothing is
  written while it parses (`Fresh`), and that what safe mode has written is an entry
  of that list, whole, and right where its checksum can be told (`SafeKept`).  Most
  of the proof is the walk: a record may be whole, cut in its payload or cut in its
  tag, and each family makes something else of it.
- `ContentInv` follows the bytes.  The walk has the data and the entries of exactly
  the records behind it (`ReadOf`) and stands at the start of one or in the one that
  ended it (`PlaceOf`); the driver has what the walk had when it was over, and an
  archive is refused only if the walk says so (`HandedOn`).  `Clean` is what the data
  records before the first damaged or cut one hold, which is `GoodUnits`.  `Progress`
  says that what is decoded is in place as far as it is clean, and that it goes as far
  as that when its decoder is through.  The second half is not a fact about one
  decoder: a decoder that fails before its first byte leaves the whole archive to the
  next, and a block starts where the ones before it end only if each of them gave all
  it had.
- `StatusInv` carries status 0 back to its cause: it comes only from a decode that
  ended well (`Decoded`), handed over the whole of what is listed (`Sized`,
  `Complete`) and counted no failure, so that every entry of the list that was
  selected was written or refused (`Due`, `WrittenFor`).  Such
  a decode is right because nothing of it is damaged or because every checksum can be
  told (`Certain`), so what was compared and written is right (`Compared`).  It is
  the status of `RunLegacyCnExtractOrTest`, of archives with checksums, and speaks of
  the entries still listed: with its tables a cut takes away every trace of the files
  in them, and `main` makes 0 of 2 (main.cpp:107-122) unless `NZ_SAFE` or
  `NZ_STRICT_EXIT` says otherwise.
- `PrefixInv` says of the loop over the entries that those it is past are on the disk,
  if they are clean and wanted (`Stands`), and of its end that it went past all of
  them.  `IntactInv` says of an archive that is whole that the decoder which is meant
  for it is reached and ends well (`WellDecoded`), and that what is counted as failed
  are the files that cannot be written and nothing else (`Counted`).
- Hypotheses.  `LaidOut`, of the last three: a file is listed before its data, the data
  records hold the output in order, and the checksums of the files that end in a data
  record stand before it.  Empty files left over behind the last full block are listed
  and summed in a piece of their own, behind all data (15513-15529).  An archive of
  this shape that is damaged *and* cut between the two looks whole and has no
  checksum for what is missing; only there `LaidOut` asks for more, that the checksums
  be complete wherever the data are.  `Finished`, of `PrefixStays` and `IntactStays`:
  an archive has the data of all files it lists, each listed once, all of their
  checksums or none, and the files selected are among them.  `MCReaders` makes TLC
  evaluate both for its archives (`InputsLaidOut`); the writer's side of them is
  `ListedOnce` and `SumsWithData` of `Container`.
- Assumption (`InputsAssumption`): an archive is a sequence of well-formed records
  that starts with the codec's; a stored data record is as long as what it holds; at
  most one data record is damaged.  Every layout `a` writes is one; `MCReaders`
  makes TLC evaluate it for its own.

`PSink_proofs`, for any number of streams, files and workers, slices, policies and
blocks of any size, and any number of attempts:

- `NoKeepsWhatWasThere` (`NoKeepsOld`), `RemainingIsOwed` (`ClosedWithLastByte`),
  `FailureLeavesUnits` (`FailureKeepsUnits`), `MismatchesReported`
  (`MismatchesExact`), `FilesAreComplete` (`FilesComplete`), `BytesHeld`,
  `TypeCorrect`.
- `SinkInv`: a worker is about one of its slices (`AtSlice`) and, when it goes to
  one, has bytes for it (`HasBytes`); what it has flushed is what its policy allows
  of what it has produced, whenever it rests between two calls (`Flushed`), from
  which the two properties about counts follow; only one worker asks about a file
  (`OneAsks`), which is decided before it is asked about and asked about before it
  is created (`Decided`); a new file on the disk is one that was created
  (`NewIsCreated`); a file lacks exactly what its streams have not written
  (`Counted`), also while one of them starts over; and the mismatches are those of
  the slices that are out, taken by the last attempt (`MismatchesCounted`).
- `HeldInv`, on top of it, follows every byte: of a slice whose file stays at its
  path, what its stream has written is there, and it is of the attempt the stream is
  at (`Held`), as long as the stream has not failed.  A rewind makes this share empty
  again, since the next attempt starts from zero.  Another worker's bytes do not
  disturb it where slices do not overlap; another *file's* creation at the same path
  would truncate it, so that creations have to come in the order of the entries
  (`InOrder`), which holds because a stream that has passed the beginning of a slice
  has created its file (`Visited`) and one that creates or writes has come that far
  (`Due`).  A stream that ends well has produced all of itself (`Ended`): with the
  flush points of `SinkInv`, its shares are then its slices.
- Hypothesis of these two theorems (`Orderly`): the slices of one file do not overlap,
  and files that go to one path lie in one stream, one behind the other.  The first is
  how the parsers cut files into slices.  The second is what the comment at 3161 makes
  its promise about: where two streams write to one path, the one the scheduler lets
  open it last stays, and nothing is promised of its bytes.  `MCReaders` makes TLC
  evaluate it for its extractions (`SinkingsOrderly`).
- Assumption (`PSinkAssumption`): an extraction has the shape `Extraction`, and no
  slice reaches behind the longest file.

`LiveCheck_proofs`, for any number of streams, every archive and any bound on the
queues:

- `VerdictIsRight` (`VerdictRight`), `TypeCorrect`.
- `LiveInv == LiveTypeOK /\ Stages /\ Buffered /\ Judgement` and, of every stream,
  `Queue(s) /\ Follows(s)`.  What the demux has, with what is not written yet, is
  what the records from the next one on take, so that nothing is left of a whole
  archive when the writer is through (`Buffered`); what waits for a check is exactly
  its records between the one it took last and the next one to be cut, in the file's
  order, unless it has given up (`Queue`); what a check has decoded is what the file
  holds of its stream up to the record it took last, and none of these is damaged
  (`Follows`).  A check that ended well has an empty queue and was told that no more
  comes: by the three together it has seen the whole stream.  `Judgement` carries this
  over the joins, one check after the other.
- Assumption (`LiveAssumption`): archives are sequences of records of the streams,
  each at least one byte long.  `MCReaders` makes TLC evaluate it for its own.

`Induction` proves that a set of numbers with zero and every successor has all
numbers, from the library's well-founded induction for sets; its theorems for
predicates take an operator as a parameter, which the provers cannot instantiate.
From it follow what the proofs need of `SumBefore` (its type, its step, its order,
what it does to equal beginnings), of `Min` and `Max` of finite sets, and of sums
over streams of which one term changes.

What the proofs changed in the models.  `RecordWalk` and `BlockDriver` had `CASE`s
whose guards overlapped, from which nothing follows where both hold; they exclude each
other now, in the order of the code.  `Extract` said nowhere what an archive is.
`LiveCheck` made the data of a stream and the bytes of an archive with folds, which
are a recursive function and a sum now.  In `PSink` the beginning of an empty stream,
which returns to its caller as any other does (3057-3062), skipped that place; and the
safe point of a group no table begins before is zero (3098-3104), not undefined.
`FilesComplete` took the last *healthy* entry of a path for the one that stays; but a
later one whose writes fail was opened all the same and has truncated what was there
(2937-2975), which the proof of `InOrder` did not get past: it is the last *opened*
entry now (`Stays`), and `MCReaders` has an extraction of that kind.
`PrefixKept` did not except an archive of which not one unit can be decoded: unless it
is a stored one or all its files are empty, nothing of it is written, its empty files
included (`Nothing`).  No layout began with an empty file, so that no run had shown it;
now one does, and one has its empty file left over behind the last block.

What stays with TLC, and why:

- liveness (`BothEnd`, `ReadersEnd`) and `ENABLED`: out of the prover's reach;
- the round trips (`Container`, `Lzpf`, `Lzhd`, `BlockDriver`, `ExeFilter`,
  `TextTransforms`), `SelfCheck` and `Crc64`: a writer and a reader made of the
  folds of the community modules and of `RECURSIVE` operators, for which this prover has no rule.

## 6. Findings

1. `archive_partial`: a refusal removes the partial archive, as the comment at
   16175 says it must, but an exception out of a compressor (`std::bad_alloc`,
   `std::length_error`; caught in `main`) skips that, and the partial file stays
   under the archive's own name when nothing was being replaced.
2. `parallel_for_length`: `main.cpp` 99-104 catches `std::length_error` so that
   it no longer aborts the process; the workers of `ParallelForEach` catch only
   `std::bad_alloc`, so one thrown while streams decode in parallel still does.
3. `container_modes`: a modes record is said to cover the files of its own
   block, but is placed at the last *table* before it.  A block that starts with
   a slice of a split file has two tables, and so has one with more than 32768
   bytes of names.  If another block of the stream leaves its record out, modes
   go to the wrong files.  `a -cf -p2 -sn` of `a.txt` (200000 bytes, 0644),
   `b.txt` (1000, 0644) and `c.txt` (150000, 0600) extracts `a.txt` as 0600 and
   `c.txt` as 0644.  `ModesKept` states what does hold: the modes survive
   whenever no block has two tables, and whenever every stream's records cover
   all its files or none.

4. `lzpf_backfill`: the stop of the writer's sparse backfill is unsigned and wraps
   for a block that ends less than 100 bytes into the window; `a -cf` of a 16-bit
   stereo WAV of 60 or of 32828 bytes ends with a segmentation fault.
5. `self_check`: README.md 149-151 says that an archive is decoded and compared
   before it takes its name.  One of `-co`, `-cO` or `-cc` is followed stream by
   stream instead, and where the reader will put a piece is not looked at.  It takes
   four bytes (3952) of the eight the writer writes (13507): a file of 9 000 000 000
   bytes passes with `a -cc -p2`, `t` and `x` report success, and what `x` makes of
   it has 4 705 032 704 bytes.  And the pieces of a file named twice go to one place:
   `a -co -p3 x.nz f.txt f.txt` with 150000 bytes passes, and `t` says "Archive
   corrupted".
6. `text_tags`: writer and reader decide whether a tag closes itself by looking
   ahead, one in the text, the other in the shortened text.  `<div</div><br/>` in
   every line, with `-co`, fails its self-check.

7. `cd_origin`: a comment says that each stream of a parallel archive is a fresh
   instance (7673), but the origin of the filter for code is a variable of the
   thread that nothing starts over there.  `a -cd -p2` of two files, the first with a
   program in its middle and the second of code, passes `t -t2` and fails `t -t1`
   with a checksum mismatch.

4 to 7 and the next six were seen in the built program as well.  The six are met
by models that go on behind them; the field of the writer that records it is in
brackets, and the property of the module makes an exception for it:

- a full `-cf` block in which every byte is escaped makes 65536 bytes of bytecode,
  whose count is sent in 16 bits (`enc.full`);
- the reader of `-co` and `-cc` goes on from a block of sound or a picture without
  resetting the filter of executable code, which the writer has reset: a file of x86
  code, a WAV and code again fails its self-check (`Gaps` of `BlockDriver`);
- the model of sound is reset by the reader at a picture and not by the writer
  (`Gaps` of `BlockDriver`);
- a filtered block that ends with 0f, before a tail that begins with 80 to 8f, is
  read as a conditional jump (`enc.gap`);
- a line beginning with a byte from e0 on is marked by the writer of shared line
  beginnings, which counts the next line from it; the reader, for the mark, leaves
  its own place where it was (`enc.rleGap`);
- the place where a match of `-cd` would go on is moved on by every chunk of sound or
  picture and compared after taking the window's size off once; after two windows of
  them the comparison reads outside (`Adrift`, where the model stops).  `a -cd -m4m
  -p1` of 24 MB of PCM without a header ends with a segmentation fault.

In the first five the self-check refuses the archive; without it (`NZ_NO_SELFCHECK`) it is written.

Noticed while modelling, not kept as runs: a stored archive that ends exactly
between two records is taken for a whole one (6657-6674); the comment at 4060 says
that a failure stops the scheduling of further items, while the loop starts them
all (4085 says why: the lowest slot must be found); the count of bytes handed to a check (`fed_len`, 14632) misses,
after a failure, those cleared with the queue or dropped by `Feed` (14650, 14685),
which the comment on `Drain` (14811) says are counted.

## 7. What is not modelled

- *Coders*: the arithmetic of the entropy coders, mixers and predictors.  Their
  state is megabytes of counters; a model of a step is the code again.  Where
  their control matters (who resets what at which block), they are memories.
- *BWT, audio and image prediction*: not modelled, for the same reason.
- `Lzhd`: hash tables and prices, the literal model of `-cD` behind its history, the
  coding of token columns and literals, the bytes of headers; the dictionary-table
  flag the streams share is in `WorkerPool`.
- *Tables* (dictionaries, state tables, probabilities): constant data, about a
  quarter of the lines under `src/`.
- *Archive windows, progress, command line*: no module yet.
- *Formatting*: console output, except where two threads share it.
- `PSink`: the store policy (slices checked over what arrived), which status a
  short stream reports, the digests the self-check takes, checksums of empty
  entries in test mode.  Two streams never share a path: with `-forceout` and
  `-sp` they may, and then the schedule decides in the code too.
- `ArchiveCommit`: other users of the directory between the existence test and
  the open; a failing `remove` in `discard_output`; two different runs of bytes with
  one CRC-64.
- `ParallelFor`: a thread that cannot be started (4122).
- `LiveCheck`, `WorkerPool`: what a record decodes to or a block compresses to
  is a token.
- `Container`: dates (a run of them longer than a record is misread on purpose,
  quirk 43), owners, Windows attributes, the byte form of records, cut archives,
  the heuristics for archives whose attributes do not parse, status lines, the
  cap of 64 KB on one read.
- `SelfCheck`: inputs without any byte, files of one name from several directories,
  running out of memory; a stream decodes to what its data record holds.
- `RecordWalk`, `Extract`: the prologue, cut parallel containers, the record
  budget, tables probed for inside payloads, dates and owners, the port's own
  container format, the number of an error code.
- `Lzpf`, `BlockDriver`: what a detector finds is free, so nothing is said of the
  detectors; prices and match finders.
- `TextTransforms`: the dictionary, number and chess passes and the last pass of
  `-co`; whether a block is text.

## 8. Plan

1. Proofs: `ComparedMeansRight` of `BlockDriver`, whose folds have to become recursive
   functions first.
2. `WindowedFile`: replacement of windows per thread, against the abstract file.
3. The number and dictionary passes of text.
